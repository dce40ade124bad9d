------------------------------ MODULE IdpLogin ------------------------------
(***************************************************************************)
(* The in-house identity provider up to the authorisation code: the        *)
(* browser is sent to authorize(), parks its request, logs in, comes back  *)
(* with a session and is given a code; end_session() and the reset of a    *)
(* password end sessions.  Every handler is a sequence of database calls   *)
(* on a worker, between which the others go on, and a call may fail.  The  *)
(* registry of clients is a snapshot that is reloaded every minute.        *)
(* Documents are named by their position in the order of creation.         *)
(***************************************************************************)
EXTENDS Integers, Sequences, FiniteSets

CONSTANTS Client,   \* relying parties, each with its redirect URI
          Account, Browser, Worker,
          MaxPending, MaxSessions, MaxResets, \* bounds: documents ever created
          MaxEdits,                           \* bound: edits of the registry
          MaxFaults                           \* bound: database calls that fail

ASSUME LoginAssumption ==
  {MaxPending, MaxSessions, MaxResets, MaxEdits, MaxFaults} \subseteq Nat
ASSUME WorkersAssumption == IsFiniteSet(Worker) /\ Worker # {}

VARIABLES pending,     \* idp_pending_auth
          sessions,    \* idp_sessions, with the version of the password used
          resets,      \* password_reset_tokens, with how often each was used
          password,    \* how often the password of an account has been set
          cookies,     \* what the browsers hold
          job,         \* the request every worker is busy with
          registered,  \* idp_clients
          registry,    \* m_idpClientRegistry
          unrevoked,   \* accounts whose last reset failed after the new password
          undeleted,   \* a reset token could not be deleted
          faults, edits

docVars == <<pending, sessions, resets>>
clientVars == <<registered, registry, edits>>
faultVars == <<unrevoked, undeleted, faults>>
vars == <<docVars, password, cookies, job, clientVars, faultVars>>

----------------------------------------------------------------------------
Idle == [at |-> "idle"]

\* A call that fails counts against the bound; the others leave it alone.
Fault == faults < MaxFaults /\ faults' = faults + 1
Outcome(works) == IF works THEN UNCHANGED faults ELSE Fault

\* A worker goes on, gives up or is done.
At(w, where) == job[w].at = where
GoOn(w, where) == job' = [job EXCEPT ![w].at = where]
Over(w) == job' = [job EXCEPT ![w] = Idle]

Init ==
  /\ pending = <<>> /\ sessions = <<>> /\ resets = <<>>
  /\ password = [a \in Account |-> 0]
  /\ cookies = [b \in Browser |-> [session |-> 0, pending |-> 0]]
  /\ job = [w \in Worker |-> Idle]
  /\ registered = Client /\ registry = Client
  /\ unrevoked = {} /\ undeleted = FALSE
  /\ faults = 0 /\ edits = 0

----------------------------------------------------------------------------
(* GET /authorize.                                                         *)

\* The request of a client in the snapshot; any other is a 400.
Authorize(w, b, c) ==
  /\ job[w] = Idle
  /\ c \in registry
  /\ job' = [job EXCEPT ![w] = [at |-> "authorize", browser |-> b, client |-> c,
                                session |-> cookies[b].session]]
  /\ UNCHANGED <<docVars, password, cookies, clientVars, faultVars>>

Live(s) == s # 0 /\ sessions[s].there

\* A code is minted and sent with the browser: Mint of IdpToken.
SessionFound(w) ==
  /\ At(w, "authorize")
  /\ Live(job[w].session)
  /\ Over(w)
  /\ UNCHANGED <<docVars, password, cookies, clientVars, faultVars>>

\* No cookie, no document, an expired one, or a database that did not answer.
SessionMissing(w) ==
  /\ At(w, "authorize")
  /\ Outcome(~Live(job[w].session))
  /\ GoOn(w, "park")
  /\ UNCHANGED <<docVars, password, cookies, clientVars, unrevoked, undeleted>>

\* create_document() may fail: nobody looks at what it returns.
Park(w) ==
  /\ At(w, "park") /\ Len(pending) < MaxPending
  /\ \E works \in BOOLEAN :
       /\ Outcome(works)
       /\ pending' = Append(pending, [client |-> job[w].client, there |-> works])
  /\ cookies' = [cookies EXCEPT ![job[w].browser].pending = Len(pending) + 1]
  /\ Over(w)
  /\ UNCHANGED <<sessions, resets, password, clientVars, unrevoked, undeleted>>

----------------------------------------------------------------------------
(* POST /login and POST /end_session.                                      *)

Login(w, b, a) ==
  /\ job[w] = Idle
  /\ cookies[b].pending # 0
  /\ job' = [job EXCEPT ![w] = [at |-> "login", browser |-> b, account |-> a,
                                pending |-> cookies[b].pending]]
  /\ UNCHANGED <<docVars, password, cookies, clientVars, faultVars>>

PendingFound(w) ==
  /\ At(w, "login")
  /\ pending[job[w].pending].there
  /\ GoOn(w, "verify")
  /\ UNCHANGED <<docVars, password, cookies, clientVars, faultVars>>

PendingMissing(w) ==
  /\ At(w, "login")
  /\ Outcome(~pending[job[w].pending].there)
  /\ Over(w)
  /\ UNCHANGED <<docVars, password, cookies, clientVars, unrevoked, undeleted>>

\* The account is read and the password compared with what it says now.
Verified(w) ==
  /\ At(w, "verify")
  /\ job' = [job EXCEPT ![w] = [at |-> "enter", browser |-> job[w].browser,
                                account |-> job[w].account,
                                version |-> password[job[w].account]]]
  /\ UNCHANGED <<docVars, password, cookies, clientVars, faultVars>>

WrongCredentials(w) ==
  /\ At(w, "verify")
  /\ Over(w)
  /\ UNCHANGED <<docVars, password, cookies, clientVars, faultVars>>

\* The session keeps the password its login has compared, and the one of now.
CreateSession(w) ==
  /\ At(w, "enter") /\ Len(sessions) < MaxSessions
  /\ \E works \in BOOLEAN :
       /\ Outcome(works)
       /\ sessions' = Append(sessions,
            [account |-> job[w].account, version |-> job[w].version, there |-> works,
             since |-> password[job[w].account]])
  /\ cookies' = [cookies EXCEPT ![job[w].browser].session = Len(sessions) + 1]
  /\ Over(w)
  /\ UNCHANGED <<pending, resets, password, clientVars, unrevoked, undeleted>>

\* One database call; the cookie goes whether or not it works.
EndSession(b) ==
  /\ cookies[b].session # 0
  /\ \E works \in BOOLEAN :
       /\ Outcome(works)
       /\ sessions' = [sessions EXCEPT ![cookies[b].session].there = @ /\ ~works]
  /\ cookies' = [cookies EXCEPT ![b].session = 0]
  /\ UNCHANGED <<pending, resets, password, job, clientVars, unrevoked, undeleted>>

\* expiresAt passes: all that is done with these documents is to read them.
PendingExpires(p) ==
  /\ pending[p].there
  /\ pending' = [pending EXCEPT ![p].there = FALSE]
  /\ UNCHANGED <<sessions, resets, password, cookies, job, clientVars, faultVars>>

SessionExpires(s) ==
  /\ sessions[s].there
  /\ sessions' = [sessions EXCEPT ![s].there = FALSE]
  /\ UNCHANGED <<pending, resets, password, cookies, job, clientVars, faultVars>>

----------------------------------------------------------------------------
(* POST /password/reset_request and /password/reset_confirm.               *)

\* The mail goes out whether or not the token was stored.
ResetRequest(a) ==
  /\ Len(resets) < MaxResets
  /\ \E works \in BOOLEAN :
       /\ Outcome(works)
       /\ resets' = Append(resets, [account |-> a, there |-> works, uses |-> 0])
  /\ UNCHANGED <<pending, sessions, password, cookies, job, clientVars,
                 unrevoked, undeleted>>

ResetExpires(r) ==
  /\ resets[r].there
  /\ resets' = [resets EXCEPT ![r].there = FALSE]
  /\ UNCHANGED <<pending, sessions, password, cookies, job, clientVars, faultVars>>

ResetConfirm(w, r) ==
  /\ job[w] = Idle
  /\ job' = [job EXCEPT ![w] = [at |-> "confirm", reset |-> r]]
  /\ UNCHANGED <<docVars, password, cookies, clientVars, faultVars>>

ResetFound(w) ==
  /\ At(w, "confirm")
  /\ resets[job[w].reset].there
  /\ GoOn(w, "update")
  /\ UNCHANGED <<docVars, password, cookies, clientVars, faultVars>>

ResetMissing(w) ==
  /\ At(w, "confirm")
  /\ Outcome(~resets[job[w].reset].there)
  /\ Over(w)
  /\ UNCHANGED <<docVars, password, cookies, clientVars, unrevoked, undeleted>>

Confirming(w) == resets[job[w].reset].account

\* The update asks for the account, not for the token.
UpdatePassword(w) ==
  /\ At(w, "update")
  /\ password' = [password EXCEPT ![Confirming(w)] = @ + 1]
  /\ resets' = [resets EXCEPT ![job[w].reset].uses = @ + 1]
  /\ GoOn(w, "burn")
  /\ UNCHANGED <<pending, sessions, cookies, clientVars, faultVars>>

\* Executed and reported as failed, the reset ends here; or not executed.
UpdateUnheard(w) ==
  /\ At(w, "update")
  /\ Fault
  /\ password' = [password EXCEPT ![Confirming(w)] = @ + 1]
  /\ resets' = [resets EXCEPT ![job[w].reset].uses = @ + 1]
  /\ unrevoked' = unrevoked \cup {Confirming(w)}
  /\ undeleted' = TRUE
  /\ Over(w)
  /\ UNCHANGED <<pending, sessions, cookies, clientVars>>

UpdateFails(w) ==
  /\ At(w, "update")
  /\ Fault
  /\ Over(w)
  /\ UNCHANGED <<docVars, password, cookies, clientVars, unrevoked, undeleted>>

\* Mutant: a token is left to its expiry.
BurnLeavesIt(w) ==
  /\ At(w, "burn")
  /\ GoOn(w, "revoke")
  /\ UNCHANGED <<docVars, password, cookies, clientVars, faultVars>>

\* Nobody looks at whether the deletion worked.
Burn(w) ==
  /\ At(w, "burn")
  /\ \E works \in BOOLEAN :
       /\ Outcome(works)
       /\ resets' = [resets EXCEPT ![job[w].reset].there = @ /\ ~works]
       /\ undeleted' = (undeleted \/ ~works)
  /\ GoOn(w, "revoke")
  /\ UNCHANGED <<pending, sessions, password, cookies, clientVars, unrevoked>>

\* Mutant: one of the documents of the account is deleted, as by delete_one.
RevokedFirst(a) ==
  {s \in DOMAIN sessions : sessions[s].account = a /\
     \A t \in 1..(s - 1) : sessions[t].account # a}

\* Mutant: the filter has the account under a name the sessions do not use.
RevokedNowhere(a) == {}

\* revoke_all_for_account(): delete_document() deletes all that match.
Revoked(a) == {s \in DOMAIN sessions : sessions[s].account = a}

RevokeAll(w) ==
  /\ At(w, "revoke")
  /\ sessions' = [s \in DOMAIN sessions |->
                    [sessions[s] EXCEPT !.there = @ /\ s \notin Revoked(Confirming(w))]]
  /\ unrevoked' = unrevoked \ {Confirming(w)}
  /\ Over(w)
  /\ UNCHANGED <<pending, resets, password, cookies, clientVars, undeleted, faults>>

RevokeFails(w) ==
  /\ At(w, "revoke")
  /\ Fault
  /\ unrevoked' = unrevoked \cup {Confirming(w)}
  /\ Over(w)
  /\ UNCHANGED <<docVars, password, cookies, clientVars, undeleted>>
----------------------------------------------------------------------------
(* The registry of clients: edited on-premises, reloaded every minute.     *)

EditClients(c) ==
  /\ edits < MaxEdits
  /\ edits' = edits + 1
  /\ registered' = IF c \in registered THEN registered \ {c} ELSE registered \cup {c}
  /\ UNCHANGED <<docVars, password, cookies, job, registry, faultVars>>

\* Mutant: an empty result is taken for a failure and not swapped in.
ReloadKeepsOnEmpty ==
  /\ registry' = IF registered = {} THEN registry ELSE registered
  /\ UNCHANGED <<docVars, password, cookies, job, registered, edits, faultVars>>

Reload ==
  /\ registry' = registered
  /\ UNCHANGED <<docVars, password, cookies, job, registered, edits, faultVars>>

\* A read that fails looks like a collection with no clients.
ReloadFails ==
  /\ Fault
  /\ registry' = {}
  /\ UNCHANGED <<docVars, password, cookies, job, registered, edits, unrevoked, undeleted>>

----------------------------------------------------------------------------
Request(w) ==
  \/ \E b \in Browser, c \in Client : Authorize(w, b, c)
  \/ \E b \in Browser, a \in Account : Login(w, b, a)
  \/ \E r \in DOMAIN resets : ResetConfirm(w, r)

WorkerStep(w) ==
  \/ SessionFound(w) \/ SessionMissing(w) \/ Park(w)
  \/ PendingFound(w) \/ PendingMissing(w)
  \/ Verified(w) \/ WrongCredentials(w) \/ CreateSession(w)
  \/ ResetFound(w) \/ ResetMissing(w)
  \/ UpdatePassword(w) \/ UpdateUnheard(w) \/ UpdateFails(w)
  \/ Burn(w) \/ RevokeAll(w) \/ RevokeFails(w)

Expiry ==
  \/ \E p \in DOMAIN pending : PendingExpires(p)
  \/ \E s \in DOMAIN sessions : SessionExpires(s)
  \/ \E r \in DOMAIN resets : ResetExpires(r)

Next ==
  \/ \E w \in Worker : Request(w) \/ WorkerStep(w)
  \/ \E b \in Browser : EndSession(b)
  \/ \E a \in Account : ResetRequest(a)
  \/ Expiry
  \/ Reload \/ ReloadFails \/ \E c \in Client : EditClients(c)

\* The reload thread polls for as long as the process runs.
Spec == Init /\ [][Next]_vars
FairSpec == Spec /\ WF_vars(Reload)
----------------------------------------------------------------------------
Job ==
  {Idle}
  \cup [at : {"authorize", "park"}, browser : Browser, client : Client, session : Nat]
  \cup [at : {"login", "verify"}, browser : Browser, account : Account, pending : Nat]
  \cup [at : {"enter"}, browser : Browser, account : Account, version : Nat]
  \cup [at : {"confirm", "update", "burn", "revoke"}, reset : Nat]

\* The documents a request is about exist, and so do those of a cookie.
Refers(j) ==
  /\ j.at \in {"authorize", "park"} => j.session <= Len(sessions)
  /\ j.at \in {"login", "verify"} => j.pending \in DOMAIN pending
  /\ j.at \in {"confirm", "update", "burn", "revoke"} => j.reset \in DOMAIN resets

Parked == [client : Client, there : BOOLEAN]
Session == [account : Account, version : Nat, there : BOOLEAN, since : Nat]
ResetToken == [account : Account, there : BOOLEAN, uses : Nat]

TypeOK ==
  /\ pending \in Seq(Parked) /\ sessions \in Seq(Session) /\ resets \in Seq(ResetToken)
  /\ password \in [Account -> Nat]
  /\ cookies \in [Browser -> [session : Nat, pending : Nat]]
  /\ \A b \in Browser :
       cookies[b].session <= Len(sessions) /\ cookies[b].pending <= Len(pending)
  /\ job \in [Worker -> Job] /\ \A w \in Worker : Refers(job[w])
  /\ registered \subseteq Client /\ registry \subseteq Client
  /\ unrevoked \subseteq Account /\ undeleted \in BOOLEAN
  /\ faults \in 0..MaxFaults /\ edits \in 0..MaxEdits

Resetting(a) == \E w \in Worker : job[w].at \in {"burn", "revoke"} /\ Confirming(w) = a

\* What a reset answers for: it is over, and no call of it was said to fail.
Reset(a) == ~Resetting(a) /\ a \notin unrevoked

\* idp_password_reset.cpp:191-193: a session that was there when a reset set the
\* password, of whatever login, is gone when the reset is over. Of the sessions
\* created after that it says nothing: see SurvivorsBounded.
EarlierSessionsGone ==
  \A s \in DOMAIN sessions : LET a == sessions[s].account IN
    sessions[s].there /\ Reset(a) => sessions[s].since = password[a]

\* idp_password_reset.cpp:191-193 and idp_password_reset.hpp:32 mean the old password
\* to be worth nothing after a reset.  A login that has compared it before goes on
\* to create its session after the revocation, but only those that were under way
\* when the new one was set do: fewer than there are workers.
Survivors(a) ==
  {s \in DOMAIN sessions : /\ sessions[s].account = a /\ sessions[s].there
                           /\ sessions[s].version # password[a]}
SurvivorsBounded ==
  \A a \in Account : Reset(a) => Cardinality(Survivors(a)) < Cardinality(Worker)

\* idp_password_reset.cpp:186-189: the token is not claimed, so requests that
\* have read it before it is deleted can all use it; once each worker has, or
\* one of them has deleted it, no other can.
UsesBounded ==
  \A r \in DOMAIN resets : undeleted \/ resets[r].uses <= Cardinality(Worker)

\* webservice.cpp:2386-2402: when the administrator and the database have come
\* to rest the snapshot the workers use is the collection, a registry that has
\* become empty included.
RegistryCatchesUp == <>[](registry = registered)
============================================================================
