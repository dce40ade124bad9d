-------------------------- MODULE IdpLogin_proofs --------------------------
(***************************************************************************)
(* Proofs about IdpLogin: EarlierSessionsGone is inductive, given types;   *)
(* how often a token of a reset is used is bounded by who still holds it,  *)
(* and the logins that outlive a reset by the workers that were at them.   *)
(***************************************************************************)
EXTENDS IdpLogin, SequenceTheorems, FiniteSetTheorems, TLAPS

\* What the types say of one worker, and of one document.
LEMMA WorkerType ==
  ASSUME TypeOK, NEW w \in Worker
  PROVE  job[w] \in Job /\ Refers(job[w])
BY DEF TypeOK

LEMMA DocumentTypes ==
  ASSUME TypeOK
  PROVE  /\ \A p \in DOMAIN pending : pending[p] \in Parked
         /\ \A s \in DOMAIN sessions : sessions[s] \in Session
         /\ \A r \in DOMAIN resets : resets[r] \in ResetToken
BY DEF TypeOK

\* Documents are only ever added: a job that stays what it is refers to what it did.
LEMMA StillRefers ==
  ASSUME TypeOK, NEW v \in Worker, job'[v] = job[v],
         Len(sessions) <= Len(sessions'), Len(sessions') \in Nat,
         DOMAIN pending \subseteq DOMAIN pending', DOMAIN resets \subseteq DOMAIN resets'
  PROVE  Refers(job[v])'
<1>1. Len(sessions) \in Nat
  BY DEF TypeOK
<1>2. job[v].at \in {"authorize", "park"} => job[v].session \in Nat
  BY WorkerType DEF Job, Idle
<1>3. Refers(job[v])
  BY WorkerType
<1>4. job[v].at \in {"authorize", "park"} => job[v].session <= Len(sessions')
  BY <1>1, <1>2, <1>3 DEF Refers
<1> QED
  BY <1>3, <1>4 DEF Refers

\* Going on with a request keeps what it is about.
LEMMA JobGoesOn ==
  ASSUME TypeOK, NEW w \in Worker, NEW where, GoOn(w, where),
         \/ job[w].at = "authorize" /\ where = "park"
         \/ job[w].at = "login" /\ where = "verify"
         \/ job[w].at \in {"confirm", "update", "burn"} /\ where \in {"update", "burn", "revoke"}
  PROVE  /\ job' \in [Worker -> Job]
         /\ job'[w] = [job[w] EXCEPT !.at = where] /\ job'[w].at = where
         /\ job[w].at = "authorize" => job'[w].session = job[w].session
         /\ job[w].at = "login" => job'[w].pending = job[w].pending
         /\ job[w].at \in {"confirm", "update", "burn"} => job'[w].reset = job[w].reset
         /\ \A v \in Worker : v # w => job'[v] = job[v]
<1>1. job[w] \in Job /\ job \in [Worker -> Job]
  BY DEF TypeOK
<1>2. job'[w] = [job[w] EXCEPT !.at = where] /\ \A v \in Worker : v # w => job'[v] = job[v]
  BY <1>1 DEF GoOn
<1>3. [job[w] EXCEPT !.at = where] \in Job
  <2>1. CASE job[w].at = "authorize"
    BY <2>1, <1>1 DEF Job, Idle
  <2>2. CASE job[w].at = "login"
    BY <2>2, <1>1 DEF Job, Idle
  <2>3. CASE job[w].at \in {"confirm", "update", "burn"}
    BY <2>3, <1>1 DEF Job, Idle
  <2> QED
    BY <2>1, <2>2, <2>3
<1>4. /\ job[w].at = "authorize" => "session" \in DOMAIN job[w]
      /\ job[w].at = "login" => "pending" \in DOMAIN job[w]
      /\ job[w].at \in {"confirm", "update", "burn"} => "reset" \in DOMAIN job[w]
      /\ "at" \in DOMAIN job[w]
  BY <1>1 DEF Job, Idle
<1> QED
  BY <1>1, <1>2, <1>3, <1>4 DEF GoOn

----------------------------------------------------------------------------
(* The documents: never taken out, and what they are about never changes.  *)

PendingGrown ==
  /\ pending' \in Seq(Parked)
  /\ DOMAIN pending \subseteq DOMAIN pending' /\ Len(pending) <= Len(pending')

SessionsGrown ==
  /\ sessions' \in Seq(Session)
  /\ DOMAIN sessions \subseteq DOMAIN sessions' /\ Len(sessions) <= Len(sessions')
  /\ \A s \in DOMAIN sessions :
       /\ sessions'[s].account = sessions[s].account
       /\ sessions'[s].version = sessions[s].version
       /\ sessions'[s].since = sessions[s].since
       /\ sessions'[s].there => sessions[s].there

ResetsGrown ==
  /\ resets' \in Seq(ResetToken)
  /\ DOMAIN resets \subseteq DOMAIN resets' /\ Len(resets) <= Len(resets')
  /\ \A r \in DOMAIN resets : resets'[r].account = resets[r].account

Grown == PendingGrown /\ SessionsGrown /\ ResetsGrown

LEMMA PendingKept == ASSUME TypeOK, UNCHANGED pending PROVE PendingGrown
BY LenProperties DEF PendingGrown, TypeOK

LEMMA SessionsKept == ASSUME TypeOK, UNCHANGED sessions PROVE SessionsGrown
BY LenProperties DEF SessionsGrown, TypeOK

LEMMA ResetsKept == ASSUME TypeOK, UNCHANGED resets PROVE ResetsGrown
BY LenProperties DEF ResetsGrown, TypeOK

LEMMA OneMore ==
  ASSUME NEW S, NEW seq \in Seq(S), NEW x \in S
  PROVE  /\ Append(seq, x) \in Seq(S) /\ Len(seq) <= Len(Append(seq, x))
         /\ DOMAIN seq \subseteq DOMAIN Append(seq, x)
         /\ \A i \in DOMAIN seq : Append(seq, x)[i] = seq[i]
OBVIOUS

LEMMA OneSessionChanges ==
  ASSUME TypeOK, NEW s \in DOMAIN sessions, NEW there \in BOOLEAN,
         there => sessions[s].there,
         sessions' = [sessions EXCEPT ![s].there = there]
  PROVE  SessionsGrown
<1>1. [sessions[s] EXCEPT !.there = there] \in Session
  BY DocumentTypes DEF Session
<1>2. sessions \in Seq(Session) /\ s \in 1..Len(sessions)
  BY DEF TypeOK
<1>3. sessions' \in Seq(Session) /\ Len(sessions') = Len(sessions)
  BY <1>1, <1>2, ExceptSeq
<1>4. \A t \in DOMAIN sessions :
        sessions'[t] = IF t = s THEN [sessions[s] EXCEPT !.there = there] ELSE sessions[t]
  BY <1>2
<1> QED
  BY <1>2, <1>3, <1>4, DocumentTypes DEF SessionsGrown, Session

LEMMA OneResetChanges ==
  ASSUME TypeOK, NEW r \in DOMAIN resets, NEW token \in ResetToken,
         token.account = resets[r].account, resets' = [resets EXCEPT ![r] = token]
  PROVE  ResetsGrown
<1>1. resets \in Seq(ResetToken) /\ r \in 1..Len(resets)
  BY DEF TypeOK
<1>2. resets' \in Seq(ResetToken) /\ Len(resets') = Len(resets)
  BY <1>1, ExceptSeq
<1> QED
  BY <1>1, <1>2 DEF ResetsGrown

LEMMA DocumentStep == TypeOK /\ [Next]_vars => Grown
<1> SUFFICES ASSUME TypeOK, [Next]_vars PROVE Grown
  OBVIOUS
<1> USE DEF Grown, docVars, clientVars, faultVars
<1>0. job \in [Worker -> Job]
  BY DEF TypeOK
<1>1. CASE UNCHANGED docVars
  BY <1>1, PendingKept, SessionsKept, ResetsKept
<1>2. ASSUME NEW w \in Worker, Park(w) PROVE Grown
  <2>1. PICK works \in BOOLEAN :
          pending' = Append(pending, [client |-> job[w].client, there |-> works])
    BY <1>2 DEF Park
  <2>2. job[w].client \in Client
    BY <1>0, <1>2 DEF Park, At, Job, Idle
  <2>3. PendingGrown
    BY <2>1, <2>2 DEF TypeOK, Parked, PendingGrown
  <2> QED
    BY <1>2, <2>3, SessionsKept, ResetsKept DEF Park
<1>3. ASSUME NEW w \in Worker, CreateSession(w) PROVE Grown
  <2>1. PICK works \in BOOLEAN : sessions' = Append(sessions,
          [account |-> job[w].account, version |-> job[w].version, there |-> works,
           since |-> password[job[w].account]])
    BY <1>3 DEF CreateSession
  <2>2. job[w].account \in Account /\ job[w].version \in Nat
    BY <1>0, <1>3 DEF CreateSession, At, Job, Idle
  <2>3. PICK new \in Session : sessions' = Append(sessions, new)
    <3>1. password[job[w].account] \in Nat
      BY <2>2 DEF TypeOK
    <3> QED
      BY <2>1, <2>2, <3>1, Zenon DEF Session
  <2>4. sessions \in Seq(Session)
    BY DEF TypeOK
  <2>5. SessionsGrown
    <3>1. /\ sessions' \in Seq(Session) /\ Len(sessions) <= Len(sessions')
          /\ DOMAIN sessions \subseteq DOMAIN sessions'
          /\ \A s \in DOMAIN sessions : sessions'[s] = sessions[s]
      BY <2>3, <2>4, OneMore
    <3> QED
      BY <3>1 DEF SessionsGrown
  <2> QED
    BY <1>3, <2>5, PendingKept, ResetsKept DEF CreateSession
<1>4. ASSUME NEW b \in Browser, EndSession(b) PROVE Grown
  <2>1. cookies[b].session \in DOMAIN sessions
    BY <1>4 DEF EndSession, TypeOK
  <2>2. sessions[cookies[b].session].there \in BOOLEAN
    BY <2>1, DocumentTypes DEF Session
  <2>3. PICK works \in BOOLEAN : sessions' = [sessions EXCEPT ![cookies[b].session].there =
                                   sessions[cookies[b].session].there /\ ~works]
    BY <1>4 DEF EndSession
  <2>4. SessionsGrown
    BY <2>1, <2>2, <2>3, OneSessionChanges
  <2> QED
    BY <1>4, <2>4, PendingKept, ResetsKept DEF EndSession
<1>5. ASSUME NEW p \in DOMAIN pending, PendingExpires(p) PROVE Grown
  <2>1. [pending[p] EXCEPT !.there = FALSE] \in Parked
    BY DocumentTypes DEF Parked
  <2>2. pending \in Seq(Parked) /\ p \in 1..Len(pending)
    BY DEF TypeOK
  <2>3. PendingGrown
    BY <1>5, <2>1, <2>2, ExceptSeq DEF PendingExpires, PendingGrown
  <2> QED
    BY <1>5, <2>3, SessionsKept, ResetsKept DEF PendingExpires
<1>6. ASSUME NEW s \in DOMAIN sessions, SessionExpires(s) PROVE Grown
  BY <1>6, OneSessionChanges, PendingKept, ResetsKept DEF SessionExpires
<1>7. ASSUME NEW a \in Account, ResetRequest(a) PROVE Grown
  <2>1. PICK works \in BOOLEAN :
          resets' = Append(resets, [account |-> a, there |-> works, uses |-> 0])
    BY <1>7 DEF ResetRequest
  <2>2. ResetsGrown
    BY <2>1 DEF TypeOK, ResetToken, ResetsGrown
  <2> QED
    BY <1>7, <2>2, PendingKept, SessionsKept DEF ResetRequest
<1>8. ASSUME NEW r \in DOMAIN resets, ResetExpires(r) PROVE Grown
  <2>1. [resets[r] EXCEPT !.there = FALSE] \in ResetToken
    BY DocumentTypes DEF ResetToken
  <2>2. [resets[r] EXCEPT !.there = FALSE].account = resets[r].account
    BY DocumentTypes DEF ResetToken
  <2> QED
    BY <1>8, <2>1, <2>2, OneResetChanges, PendingKept, SessionsKept DEF ResetExpires
<1>9. ASSUME NEW w \in Worker, UpdatePassword(w) \/ UpdateUnheard(w) PROVE Grown
  <2>1. job[w].reset \in DOMAIN resets
    BY <1>9, WorkerType DEF UpdatePassword, UpdateUnheard, At, Refers
  <2> DEFINE token == [resets[job[w].reset] EXCEPT !.uses = resets[job[w].reset].uses + 1]
  <2>2. token \in ResetToken /\ token.account = resets[job[w].reset].account
    BY <2>1, DocumentTypes DEF ResetToken
  <2>3. resets' = [resets EXCEPT ![job[w].reset] = token]
    BY <1>9 DEF UpdatePassword, UpdateUnheard
  <2> QED
    BY <1>9, <2>1, <2>2, <2>3, OneResetChanges, PendingKept, SessionsKept
    DEF UpdatePassword, UpdateUnheard
<1>10. ASSUME NEW w \in Worker, Burn(w) PROVE Grown
  <2>1. job[w].reset \in DOMAIN resets
    BY <1>10, WorkerType DEF Burn, At, Refers
  <2>2. PICK works \in BOOLEAN : resets' = [resets EXCEPT ![job[w].reset].there =
                                   resets[job[w].reset].there /\ ~works]
    BY <1>10 DEF Burn
  <2> DEFINE token == [resets[job[w].reset] EXCEPT !.there = resets[job[w].reset].there /\ ~works]
  <2>3. token \in ResetToken /\ token.account = resets[job[w].reset].account
    BY <2>1, DocumentTypes DEF ResetToken
  <2> QED
    BY <1>10, <2>1, <2>2, <2>3, OneResetChanges, PendingKept, SessionsKept DEF Burn
<1>11. ASSUME NEW w \in Worker, RevokeAll(w) PROVE Grown
  <2> DEFINE Left(s) == [sessions[s] EXCEPT !.there =
                           sessions[s].there /\ s \notin Revoked(Confirming(w))]
  <2>1. sessions' = [s \in DOMAIN sessions |-> Left(s)]
    BY <1>11 DEF RevokeAll
  <2>2. \A s \in DOMAIN sessions : Left(s) \in Session
    BY DocumentTypes DEF Session
  <2>3. sessions' \in Seq(Session) /\ DOMAIN sessions' = DOMAIN sessions
    BY <2>1, <2>2, IsASeq, LenProperties DEF TypeOK
  <2>4. Len(sessions') = Len(sessions)
    BY <2>3 DEF TypeOK
  <2>5. \A s \in DOMAIN sessions :
          /\ Left(s).account = sessions[s].account /\ Left(s).version = sessions[s].version
          /\ Left(s).since = sessions[s].since /\ (Left(s).there => sessions[s].there)
    BY DocumentTypes DEF Session
  <2>6. \A s \in DOMAIN sessions : sessions'[s] = Left(s)
    BY <2>1
  <2>7. Len(sessions) <= Len(sessions')
    BY <2>4 DEF TypeOK
  <2> HIDE DEF Left
  <2>8. SessionsGrown
    BY <2>3, <2>5, <2>6, <2>7 DEF SessionsGrown
  <2> QED
    BY <1>11, <2>8, PendingKept, ResetsKept DEF RevokeAll
<1> QED
  BY <1>1, <1>2, <1>3, <1>4, <1>5, <1>6, <1>7, <1>8, <1>9, <1>10, <1>11
  DEF Next, Request, WorkerStep, Expiry, Authorize, Login, ResetConfirm, SessionFound,
      SessionMissing, PendingFound, PendingMissing, Verified, WrongCredentials, ResetFound,
      ResetMissing, UpdateFails, RevokeFails, Reload, ReloadFails, EditClients, vars

----------------------------------------------------------------------------
(* The types of the other variables.                                       *)

JobsFit == job' \in [Worker -> Job] /\ \A w \in Worker : Refers(job[w])'

\* One worker's job changes, to one that refers to documents there are.
LEMMA OneJobChanges ==
  ASSUME TypeOK, Grown, NEW w \in Worker, job' \in [Worker -> Job], Refers(job[w])',
         \A v \in Worker : v # w => job'[v] = job[v]
  PROVE  JobsFit
<1>1. Len(sessions') \in Nat
  BY DEF Grown, SessionsGrown
<1>2. \A v \in Worker : v # w => Refers(job[v])'
  BY <1>1, StillRefers DEF Grown, PendingGrown, SessionsGrown, ResetsGrown
<1> QED
  BY <1>2 DEF JobsFit

LEMMA JobsKept == ASSUME TypeOK, Grown, UNCHANGED job PROVE JobsFit
<1>1. Len(sessions') \in Nat
  BY DEF Grown, SessionsGrown
<1>2. \A v \in Worker : Refers(job[v])'
  BY <1>1, StillRefers DEF Grown, PendingGrown, SessionsGrown, ResetsGrown
<1> QED
  BY <1>2 DEF JobsFit, TypeOK

LEMMA JobStep == TypeOK /\ Grown /\ [Next]_vars => JobsFit
<1> SUFFICES ASSUME TypeOK, Grown, [Next]_vars PROVE JobsFit
  OBVIOUS
<1> USE DEF docVars, clientVars, faultVars
<1>0. job \in [Worker -> Job] /\ Idle \in Job /\ Idle.at = "idle"
  BY DEF TypeOK, Job, Idle
<1>1. CASE UNCHANGED job
  BY <1>1, JobsKept
<1>2. ASSUME NEW w \in Worker, Over(w) PROVE JobsFit
  <2>1. Refers(job[w])'
    BY <1>0, <1>2 DEF Over, Refers
  <2> QED
    BY <1>0, <1>2, <2>1, OneJobChanges DEF Over
<1>3. ASSUME NEW w \in Worker, NEW b \in Browser, NEW c \in Client, Authorize(w, b, c)
      PROVE  JobsFit
  <2> DEFINE new == [at |-> "authorize", browser |-> b, client |-> c,
                     session |-> cookies[b].session]
  <2>1. new \in Job /\ new.session <= Len(sessions)
    BY DEF TypeOK, Job
  <2>2. job' = [job EXCEPT ![w] = new] /\ UNCHANGED sessions
    BY <1>3 DEF Authorize
  <2>3. Refers(job[w])'
    BY <1>0, <2>1, <2>2 DEF Refers
  <2> QED
    BY <1>0, <2>1, <2>2, <2>3, OneJobChanges
<1>4. ASSUME NEW w \in Worker, NEW b \in Browser, NEW a \in Account, Login(w, b, a)
      PROVE  JobsFit
  <2> DEFINE new == [at |-> "login", browser |-> b, account |-> a, pending |-> cookies[b].pending]
  <2>1. new \in Job /\ new.pending \in DOMAIN pending
    BY <1>4 DEF Login, TypeOK, Job
  <2>2. job' = [job EXCEPT ![w] = new] /\ UNCHANGED pending
    BY <1>4 DEF Login
  <2>3. Refers(job[w])'
    BY <1>0, <2>1, <2>2 DEF Refers
  <2> QED
    BY <1>0, <2>1, <2>2, <2>3, OneJobChanges
<1>5. ASSUME NEW w \in Worker, NEW r \in DOMAIN resets, ResetConfirm(w, r) PROVE JobsFit
  <2> DEFINE new == [at |-> "confirm", reset |-> r]
  <2>1. new \in Job
    BY DEF TypeOK, Job
  <2>2. job' = [job EXCEPT ![w] = new] /\ UNCHANGED resets
    BY <1>5 DEF ResetConfirm
  <2>3. Refers(job[w])'
    BY <1>0, <2>2 DEF Refers
  <2> QED
    BY <1>0, <2>1, <2>2, <2>3, OneJobChanges
<1>6. ASSUME NEW w \in Worker, SessionMissing(w) PROVE JobsFit
  <2>1. job[w].at = "authorize" /\ GoOn(w, "park") /\ UNCHANGED sessions
    BY <1>6 DEF SessionMissing, At
  <2>2. /\ job' \in [Worker -> Job]
        /\ job'[w].at = "park"
        /\ job'[w].session = job[w].session
        /\ \A v \in Worker : v # w => job'[v] = job[v]
    BY <2>1, JobGoesOn
  <2>3. Refers(job[w])'
    BY <2>1, <2>2, WorkerType DEF Refers
  <2> QED
    BY <2>2, <2>3, OneJobChanges
<1>7. ASSUME NEW w \in Worker, PendingFound(w) PROVE JobsFit
  <2>1. job[w].at = "login" /\ GoOn(w, "verify") /\ UNCHANGED pending
    BY <1>7 DEF PendingFound, At
  <2>2. /\ job' \in [Worker -> Job]
        /\ job'[w].at = "verify"
        /\ job'[w].pending = job[w].pending
        /\ \A v \in Worker : v # w => job'[v] = job[v]
    BY <2>1, JobGoesOn
  <2>3. Refers(job[w])'
    BY <2>1, <2>2, WorkerType DEF Refers
  <2> QED
    BY <2>2, <2>3, OneJobChanges
<1>8. ASSUME NEW w \in Worker, Verified(w) PROVE JobsFit
  <2> DEFINE new == [at |-> "enter", browser |-> job[w].browser, account |-> job[w].account,
                     version |-> password[job[w].account]]
  <2>1. job[w].browser \in Browser /\ job[w].account \in Account
    BY <1>0, <1>8 DEF Verified, At, Job, Idle
  <2>2. new \in Job
    BY <2>1 DEF TypeOK, Job
  <2>3. job' = [job EXCEPT ![w] = new]
    BY <1>8 DEF Verified
  <2>4. Refers(job[w])'
    BY <1>0, <2>3 DEF Refers
  <2> QED
    BY <1>0, <2>2, <2>3, <2>4, OneJobChanges
<1>9. ASSUME NEW w \in Worker, ResetFound(w) \/ UpdatePassword(w) \/ Burn(w) PROVE JobsFit
  <2>1. PICK where \in {"update", "burn", "revoke"} :
          job[w].at \in {"confirm", "update", "burn"} /\ GoOn(w, where)
    BY <1>9 DEF ResetFound, UpdatePassword, Burn, At
  <2>2. /\ job' \in [Worker -> Job]
        /\ job'[w].at = where
        /\ job'[w].reset = job[w].reset
        /\ \A v \in Worker : v # w => job'[v] = job[v]
    BY <2>1, JobGoesOn
  <2>3. Refers(job[w])'
    BY <2>1, <2>2, WorkerType DEF Refers, Grown, ResetsGrown
  <2> QED
    BY <2>2, <2>3, OneJobChanges
<1> QED
  BY <1>1, <1>2, <1>3, <1>4, <1>5, <1>6, <1>7, <1>8, <1>9
  DEF Next, Request, WorkerStep, Expiry, SessionFound, Park, PendingMissing, WrongCredentials,
      CreateSession, EndSession, PendingExpires, SessionExpires, ResetRequest, ResetExpires,
      ResetMissing, UpdateUnheard, UpdateFails, RevokeAll, RevokeFails, Reload, ReloadFails,
      EditClients, vars

\* The cookies name documents there are.
CookiesFit ==
  /\ cookies' \in [Browser -> [session : Nat, pending : Nat]]
  /\ \A b \in Browser :
       cookies'[b].session <= Len(sessions') /\ cookies'[b].pending <= Len(pending')

LEMMA OneCookieChanges ==
  ASSUME TypeOK, Grown, NEW b \in Browser, NEW cookie \in [session : Nat, pending : Nat],
         cookies' = [cookies EXCEPT ![b] = cookie],
         cookie.session <= Len(sessions'), cookie.pending <= Len(pending')
  PROVE  CookiesFit
<1>1. cookies \in [Browser -> [session : Nat, pending : Nat]]
  BY DEF TypeOK
<1>2. /\ Len(sessions) \in Nat /\ Len(pending) \in Nat
      /\ Len(sessions') \in Nat /\ Len(pending') \in Nat
  BY DEF TypeOK, Grown, SessionsGrown, PendingGrown
<1>3. \A d \in Browser : /\ cookies[d].session \in Nat /\ cookies[d].pending \in Nat
                         /\ cookies[d].session <= Len(sessions)
                         /\ cookies[d].pending <= Len(pending)
  BY <1>1 DEF TypeOK
<1>4. \A d \in Browser : d # b => /\ cookies[d].session <= Len(sessions')
                                  /\ cookies[d].pending <= Len(pending')
  BY <1>2, <1>3 DEF Grown, SessionsGrown, PendingGrown
<1> QED
  BY <1>1, <1>4 DEF CookiesFit

LEMMA CookieStep == TypeOK /\ Grown /\ [Next]_vars => CookiesFit
<1> SUFFICES ASSUME TypeOK, Grown, [Next]_vars PROVE CookiesFit
  OBVIOUS
<1> USE DEF docVars, clientVars, faultVars
<1>0. /\ Len(sessions) \in Nat /\ Len(pending) \in Nat
      /\ Len(sessions') \in Nat /\ Len(pending') \in Nat
      /\ Len(sessions) <= Len(sessions') /\ Len(pending) <= Len(pending')
  BY DEF TypeOK, Grown, SessionsGrown, PendingGrown
<1>1. CASE UNCHANGED cookies
  <2>1. \A b \in Browser : cookies[b].session \in Nat /\ cookies[b].pending \in Nat
    BY DEF TypeOK
  <2>2. \A b \in Browser : /\ cookies[b].session <= Len(sessions')
                           /\ cookies[b].pending <= Len(pending')
    BY <1>0, <2>1 DEF TypeOK
  <2> QED
    BY <1>1, <2>2 DEF TypeOK, CookiesFit
<1>2. ASSUME NEW w \in Worker, Park(w) PROVE CookiesFit
  <2> DEFINE b == job[w].browser
             cookie == [cookies[b] EXCEPT !.pending = Len(pending) + 1]
  <2>1. b \in Browser
    BY <1>2, WorkerType DEF Park, At, Job, Idle
  <2>2. /\ cookies[b].session \in Nat /\ cookies[b].session <= Len(sessions)
        /\ cookies[b] \in [session : Nat, pending : Nat]
    BY <2>1 DEF TypeOK
  <2>3. /\ cookie \in [session : Nat, pending : Nat]
        /\ cookie.session = cookies[b].session /\ cookie.pending = Len(pending) + 1
    BY <1>0, <2>2
  <2>4. Len(pending') = Len(pending) + 1
    BY <1>2 DEF Park, TypeOK
  <2>5. cookies' = [cookies EXCEPT ![b] = cookie]
    BY <1>2 DEF Park
  <2>6. cookie.session <= Len(sessions') /\ cookie.pending <= Len(pending')
    BY <1>0, <2>2, <2>3, <2>4
  <2> HIDE DEF b, cookie
  <2> QED
    BY <2>1, <2>3, <2>5, <2>6, OneCookieChanges
<1>3. ASSUME NEW w \in Worker, CreateSession(w) PROVE CookiesFit
  <2> DEFINE b == job[w].browser
             cookie == [cookies[b] EXCEPT !.session = Len(sessions) + 1]
  <2>1. b \in Browser
    BY <1>3, WorkerType DEF CreateSession, At, Job, Idle
  <2>2. /\ cookies[b].pending \in Nat /\ cookies[b].pending <= Len(pending)
        /\ cookies[b] \in [session : Nat, pending : Nat]
    BY <2>1 DEF TypeOK
  <2>3. /\ cookie \in [session : Nat, pending : Nat]
        /\ cookie.pending = cookies[b].pending /\ cookie.session = Len(sessions) + 1
    BY <1>0, <2>2
  <2>4. Len(sessions') = Len(sessions) + 1
    BY <1>3 DEF CreateSession, TypeOK
  <2>5. cookies' = [cookies EXCEPT ![b] = cookie]
    BY <1>3 DEF CreateSession
  <2>6. cookie.session <= Len(sessions') /\ cookie.pending <= Len(pending')
    BY <1>0, <2>2, <2>3, <2>4
  <2> HIDE DEF b, cookie
  <2> QED
    BY <2>1, <2>3, <2>5, <2>6, OneCookieChanges
<1>4. ASSUME NEW b \in Browser, EndSession(b) PROVE CookiesFit
  <2> DEFINE cookie == [cookies[b] EXCEPT !.session = 0]
  <2>1. /\ cookies[b].pending \in Nat /\ cookies[b].pending <= Len(pending)
        /\ cookies[b] \in [session : Nat, pending : Nat]
    BY DEF TypeOK
  <2>2. /\ cookie \in [session : Nat, pending : Nat]
        /\ cookie.pending = cookies[b].pending /\ cookie.session = 0
    BY <2>1
  <2>3. cookies' = [cookies EXCEPT ![b] = cookie]
    BY <1>4 DEF EndSession
  <2>4. cookie.session <= Len(sessions') /\ cookie.pending <= Len(pending')
    BY <1>0, <2>1, <2>2
  <2> HIDE DEF cookie
  <2> QED
    BY <2>2, <2>3, <2>4, OneCookieChanges
<1> QED
  BY <1>1, <1>2, <1>3, <1>4
  DEF Next, Request, WorkerStep, Expiry, Authorize, Login, ResetConfirm, SessionFound,
      SessionMissing, PendingFound, PendingMissing, Verified, WrongCredentials, ResetFound,
      ResetMissing, UpdatePassword, UpdateUnheard, UpdateFails, Burn, RevokeAll, RevokeFails,
      PendingExpires, SessionExpires, ResetRequest, ResetExpires, Reload, ReloadFails,
      EditClients, vars

LEMMA InitType == Init => TypeOK
<1> SUFFICES ASSUME Init PROVE TypeOK
  OBVIOUS
<1>1. /\ pending \in Seq(Parked) /\ sessions \in Seq(Session) /\ resets \in Seq(ResetToken)
      /\ Len(pending) = 0 /\ Len(sessions) = 0
  BY DEF Init
<1>2. password \in [Account -> Nat]
  BY DEF Init
<1>3. /\ cookies \in [Browser -> [session : Nat, pending : Nat]]
      /\ \A b \in Browser : cookies[b].session = 0 /\ cookies[b].pending = 0
  BY DEF Init
<1>4. job \in [Worker -> Job] /\ \A w \in Worker : Refers(job[w])
  BY DEF Init, Job, Idle, Refers
<1>5. registered \subseteq Client /\ registry \subseteq Client
  BY DEF Init
<1>6. unrevoked \subseteq Account /\ undeleted \in BOOLEAN
  BY DEF Init
<1>7. faults \in 0..MaxFaults /\ edits \in 0..MaxEdits
  BY LoginAssumption DEF Init
<1> QED
  BY <1>1, <1>2, <1>3, <1>4, <1>5, <1>6, <1>7 DEF TypeOK

\* The account a reset is about.
LEMMA ConfirmingType ==
  ASSUME TypeOK, NEW w \in Worker, job[w].at \in {"update", "burn", "revoke"}
  PROVE  job[w].reset \in DOMAIN resets /\ Confirming(w) \in Account
<1>1. job[w].reset \in DOMAIN resets
  BY WorkerType DEF Refers
<1> QED
  BY <1>1, DocumentTypes DEF Confirming, ResetToken

LEMMA RestStep ==
  ASSUME TypeOK, [Next]_vars
  PROVE  /\ password' \in [Account -> Nat]
         /\ registered' \subseteq Client /\ registry' \subseteq Client
         /\ unrevoked' \subseteq Account /\ undeleted' \in BOOLEAN
         /\ faults' \in 0..MaxFaults /\ edits' \in 0..MaxEdits
<1> USE DEF docVars, clientVars, faultVars
<1>1. password' \in [Account -> Nat]
  <2>1. CASE UNCHANGED password
    BY <2>1 DEF TypeOK
  <2>2. ASSUME NEW w \in Worker, UpdatePassword(w) \/ UpdateUnheard(w)
        PROVE  password' \in [Account -> Nat]
    BY <2>2, ConfirmingType DEF UpdatePassword, UpdateUnheard, At, TypeOK
  <2> QED
    BY <2>1, <2>2
    DEF Next, Request, WorkerStep, Expiry, Authorize, Login, ResetConfirm, SessionFound,
        SessionMissing, Park, PendingFound, PendingMissing, Verified, WrongCredentials,
        CreateSession, EndSession, PendingExpires, SessionExpires, ResetRequest, ResetExpires,
        ResetFound, ResetMissing, UpdateFails, Burn, RevokeAll, RevokeFails, Reload,
        ReloadFails, EditClients, vars
<1>2. registered' \subseteq Client /\ registry' \subseteq Client /\ edits' \in 0..MaxEdits
  <2>1. CASE UNCHANGED clientVars
    BY <2>1 DEF TypeOK
  <2>2. ASSUME NEW c \in Client, EditClients(c) PROVE registered' \subseteq Client
    BY <2>2 DEF EditClients, TypeOK
  <2>3. ASSUME NEW c \in Client, EditClients(c)
        PROVE  edits' \in 0..MaxEdits /\ UNCHANGED registry
    BY <2>3, LoginAssumption DEF EditClients, TypeOK
  <2>4. CASE Reload \/ ReloadFails
    BY <2>4 DEF Reload, ReloadFails, TypeOK
  <2> QED
    BY <2>1, <2>2, <2>3, <2>4
    DEF Next, Request, WorkerStep, Expiry, Authorize, Login, ResetConfirm, SessionFound,
        SessionMissing, Park, PendingFound, PendingMissing, Verified, WrongCredentials,
        CreateSession, EndSession, PendingExpires, SessionExpires, ResetRequest, ResetExpires,
        ResetFound, ResetMissing, UpdatePassword, UpdateUnheard, UpdateFails, Burn, RevokeAll,
        RevokeFails, vars, TypeOK
<1>3. unrevoked' \subseteq Account
  <2>1. CASE UNCHANGED unrevoked
    BY <2>1 DEF TypeOK
  <2>2. ASSUME NEW w \in Worker, UpdateUnheard(w) \/ RevokeAll(w) \/ RevokeFails(w)
        PROVE  unrevoked' \subseteq Account
    BY <2>2, ConfirmingType DEF UpdateUnheard, RevokeAll, RevokeFails, At, TypeOK
  <2> QED
    BY <2>1, <2>2
    DEF Next, Request, WorkerStep, Expiry, Authorize, Login, ResetConfirm, SessionFound,
        SessionMissing, Park, PendingFound, PendingMissing, Verified, WrongCredentials,
        CreateSession, EndSession, PendingExpires, SessionExpires, ResetRequest, ResetExpires,
        ResetFound, ResetMissing, UpdatePassword, UpdateFails, Burn, Reload, ReloadFails,
        EditClients, vars
<1>4. undeleted' \in BOOLEAN
  <2>1. CASE UNCHANGED undeleted
    BY <2>1 DEF TypeOK
  <2>2. ASSUME NEW w \in Worker, UpdateUnheard(w) \/ Burn(w) PROVE undeleted' \in BOOLEAN
    BY <2>2 DEF UpdateUnheard, Burn
  <2> QED
    BY <2>1, <2>2
    DEF Next, Request, WorkerStep, Expiry, Authorize, Login, ResetConfirm, SessionFound,
        SessionMissing, Park, PendingFound, PendingMissing, Verified, WrongCredentials,
        CreateSession, EndSession, PendingExpires, SessionExpires, ResetRequest, ResetExpires,
        ResetFound, ResetMissing, UpdatePassword, UpdateFails, RevokeAll, RevokeFails, Reload,
        ReloadFails, EditClients, vars
<1>5. faults' \in 0..MaxFaults
  <2>1. ASSUME UNCHANGED faults \/ Fault PROVE faults' \in 0..MaxFaults
    BY <2>1, LoginAssumption DEF Fault, TypeOK
  <2> QED
    BY <2>1
    DEF Next, Request, WorkerStep, Expiry, Authorize, Login, ResetConfirm, SessionFound,
        SessionMissing, Park, PendingFound, PendingMissing, Verified, WrongCredentials,
        CreateSession, EndSession, PendingExpires, SessionExpires, ResetRequest, ResetExpires,
        ResetFound, ResetMissing, UpdatePassword, UpdateUnheard, UpdateFails, Burn, RevokeAll,
        RevokeFails, Reload, ReloadFails, EditClients, Outcome, vars
<1> QED
  BY <1>1, <1>2, <1>3, <1>4, <1>5

LEMMA TypeStep == TypeOK /\ [Next]_vars => TypeOK'
<1> SUFFICES ASSUME TypeOK, [Next]_vars PROVE TypeOK'
  OBVIOUS
<1>1. Grown
  BY DocumentStep
<1>2. JobsFit
  BY <1>1, JobStep
<1>3. pending' \in Seq(Parked) /\ sessions' \in Seq(Session) /\ resets' \in Seq(ResetToken)
  BY <1>1 DEF Grown, PendingGrown, SessionsGrown, ResetsGrown
<1> QED
  BY <1>1, <1>2, <1>3, CookieStep, RestStep DEF TypeOK, JobsFit, CookiesFit

----------------------------------------------------------------------------
(* No session outlives the reset that sets a password after its creation.  *)

\* The steps that set no password, open no session and end no reset.
LEMMA GoneKept ==
  ASSUME TypeOK, Grown, EarlierSessionsGone, UNCHANGED password,
         DOMAIN sessions' = DOMAIN sessions, unrevoked \subseteq unrevoked',
         \A w \in Worker : job[w].at \in {"burn", "revoke"} =>
           job'[w].at \in {"burn", "revoke"} /\ job'[w].reset = job[w].reset
  PROVE  EarlierSessionsGone'
<1>1. \A a \in Account : Resetting(a) => Resetting(a)'
  <2> SUFFICES ASSUME NEW a \in Account, Resetting(a) PROVE Resetting(a)'
    OBVIOUS
  <2>1. PICK w \in Worker : job[w].at \in {"burn", "revoke"} /\ Confirming(w) = a
    BY DEF Resetting
  <2>2. job[w].reset \in DOMAIN resets
    BY <2>1, ConfirmingType
  <2>3. resets'[job'[w].reset].account = a
    BY <2>1, <2>2 DEF Confirming, Grown, ResetsGrown
  <2> QED
    BY <2>1, <2>3 DEF Resetting, Confirming
<1>2. \A s \in DOMAIN sessions : sessions[s].account \in Account
  BY DocumentTypes DEF Session
<1> QED
  BY <1>1, <1>2 DEF EarlierSessionsGone, Reset, Grown, SessionsGrown

LEMMA GoneStep == TypeOK /\ EarlierSessionsGone /\ [Next]_vars => EarlierSessionsGone'
<1> SUFFICES ASSUME TypeOK, EarlierSessionsGone, [Next]_vars PROVE EarlierSessionsGone'
  OBVIOUS
<1> USE DEF docVars, clientVars, faultVars
<1>0. /\ Grown /\ job \in [Worker -> Job] /\ Idle.at = "idle"
      /\ \A s \in DOMAIN sessions : sessions[s].account \in Account
  BY DocumentStep, DocumentTypes DEF TypeOK, Idle, Session
<1>1. CASE UNCHANGED <<password, sessions, job, unrevoked>>
  BY <1>0, <1>1, GoneKept
<1>2. ASSUME NEW w \in Worker, job[w].at \notin {"burn", "revoke"},
             \A v \in Worker : v # w => job'[v] = job[v],
             UNCHANGED <<password, sessions, unrevoked>>
      PROVE  EarlierSessionsGone'
  BY <1>0, <1>2, GoneKept
<1>3. ASSUME NEW w \in Worker, CreateSession(w) PROVE EarlierSessionsGone'
  <2>1. PICK works \in BOOLEAN : sessions' = Append(sessions,
          [account |-> job[w].account, version |-> job[w].version, there |-> works,
           since |-> password[job[w].account]])
    BY <1>3 DEF CreateSession
  <2>2. job[w].account \in Account /\ job[w].version \in Nat
    BY <1>0, <1>3 DEF CreateSession, At, Job, Idle
  <2>3. /\ DOMAIN sessions' = DOMAIN sessions \cup {Len(sessions) + 1}
        /\ \A s \in DOMAIN sessions : sessions'[s] = sessions[s]
        /\ LET new == sessions'[Len(sessions) + 1] IN
           new.since = password[new.account]
    BY <2>1, <2>2 DEF TypeOK
  <2>4. UNCHANGED <<password, unrevoked>>
    BY <1>3 DEF CreateSession
  <2>5. \A a \in Account : Resetting(a) => Resetting(a)'
    BY <1>0, <1>3 DEF Resetting, Confirming, CreateSession, At, Over
  <2> QED
    BY <1>0, <2>3, <2>4, <2>5 DEF EarlierSessionsGone, Reset
<1>4. ASSUME NEW b \in Browser, EndSession(b) PROVE EarlierSessionsGone'
  BY <1>0, <1>4, GoneKept DEF EndSession
<1>5. ASSUME NEW s \in DOMAIN sessions, SessionExpires(s) PROVE EarlierSessionsGone'
  BY <1>0, <1>5, GoneKept DEF SessionExpires
<1>6. ASSUME NEW w \in Worker, UpdatePassword(w) PROVE EarlierSessionsGone'
  <2>1. job[w].at = "update" /\ GoOn(w, "burn") /\ UNCHANGED <<sessions, unrevoked>>
    BY <1>6 DEF UpdatePassword, At
  <2>2. job[w].reset \in DOMAIN resets /\ Confirming(w) \in Account
    BY <2>1, ConfirmingType
  <2>3. /\ job'[w].at = "burn" /\ job'[w].reset = job[w].reset
        /\ \A v \in Worker : v # w => job'[v] = job[v]
    BY <2>1, JobGoesOn
  <2>4. \A r \in DOMAIN resets : resets'[r].account = resets[r].account
    BY <1>0 DEF Grown, ResetsGrown
  <2>5. \A v \in Worker : job[v].at \in {"burn", "revoke"} =>
          v # w /\ job[v].reset \in DOMAIN resets
    BY <2>1, ConfirmingType
  <2>6. \A a \in Account : Resetting(a) => Resetting(a)'
    BY <2>3, <2>4, <2>5 DEF Resetting, Confirming
  <2>7. \A a \in Account : a # Confirming(w) => password'[a] = password[a]
    BY <1>6 DEF UpdatePassword, TypeOK
  <2>8. ASSUME NEW s \in DOMAIN sessions, sessions[s].account = Confirming(w)
        PROVE  Resetting(sessions[s].account)'
    BY <2>1, <2>2, <2>3, <2>4, <2>8 DEF Resetting, Confirming
  <2> QED
    BY <1>0, <2>1, <2>6, <2>7, <2>8 DEF EarlierSessionsGone, Reset
<1>7. ASSUME NEW w \in Worker, UpdateUnheard(w) PROVE EarlierSessionsGone'
  <2>1. job[w].at = "update" /\ UNCHANGED sessions
    BY <1>7 DEF UpdateUnheard, At
  <2>2. unrevoked' = unrevoked \cup {Confirming(w)}
    BY <1>7 DEF UpdateUnheard
  <2>3. \A v \in Worker : job[v].at \in {"burn", "revoke"} =>
          /\ job'[v] = job[v] /\ job[v].reset \in DOMAIN resets
          /\ resets'[job[v].reset].account = resets[job[v].reset].account
    BY <1>0, <1>7, <2>1, ConfirmingType DEF UpdateUnheard, Over, Grown, ResetsGrown
  <2>4. \A a \in Account : Resetting(a) => Resetting(a)'
    BY <2>3 DEF Resetting, Confirming
  <2>5. \A a \in Account : a # Confirming(w) => password'[a] = password[a]
    BY <1>7 DEF UpdateUnheard, TypeOK
  <2> QED
    BY <1>0, <2>1, <2>2, <2>4, <2>5 DEF EarlierSessionsGone, Reset
<1>8. ASSUME NEW w \in Worker, Burn(w) PROVE EarlierSessionsGone'
  <2>1. job[w].at = "burn" /\ GoOn(w, "revoke")
    BY <1>8 DEF Burn, At
  <2>2. /\ job'[w].at = "revoke" /\ job'[w].reset = job[w].reset
        /\ \A v \in Worker : v # w => job'[v] = job[v]
    BY <2>1, JobGoesOn
  <2> QED
    BY <1>0, <1>8, <2>2, GoneKept DEF Burn
<1>9. ASSUME NEW w \in Worker, RevokeAll(w) PROVE EarlierSessionsGone'
  <2> DEFINE a == Confirming(w)
  <2>1. job[w].at = "revoke" /\ UNCHANGED <<password, resets>>
    BY <1>9 DEF RevokeAll, At
  <2>2. unrevoked' = unrevoked \ {a} /\ \A v \in Worker : v # w => job'[v] = job[v]
    BY <1>0, <1>9 DEF RevokeAll, Over
  <2>3. \A s \in DOMAIN sessions : sessions[s].account = a => ~sessions'[s].there
    BY <1>9, DocumentTypes DEF RevokeAll, Revoked, Session
  <2>4. DOMAIN sessions' = DOMAIN sessions
    BY <1>9 DEF RevokeAll
  <2>5. \A c \in Account : c # a /\ Resetting(c) => Resetting(c)'
    BY <2>1, <2>2 DEF Resetting, Confirming
  <2> HIDE DEF a
  <2> QED
    BY <1>0, <2>1, <2>2, <2>3, <2>4, <2>5 DEF EarlierSessionsGone, Reset, Grown, SessionsGrown
<1>10. ASSUME NEW w \in Worker, RevokeFails(w) PROVE EarlierSessionsGone'
  <2> DEFINE a == Confirming(w)
  <2>1. job[w].at = "revoke" /\ UNCHANGED <<password, resets, sessions>>
    BY <1>10 DEF RevokeFails, At
  <2>2. unrevoked' = unrevoked \cup {a} /\ \A v \in Worker : v # w => job'[v] = job[v]
    BY <1>0, <1>10 DEF RevokeFails, Over
  <2>3. \A c \in Account : c # a /\ Resetting(c) => Resetting(c)'
    BY <2>1, <2>2 DEF Resetting, Confirming
  <2> HIDE DEF a
  <2> QED
    BY <1>0, <2>1, <2>2, <2>3 DEF EarlierSessionsGone, Reset
<1>11. ASSUME NEW w \in Worker, Request(w) PROVE EarlierSessionsGone'
  BY <1>0, <1>2, <1>11 DEF Request, Authorize, Login, ResetConfirm
<1>12. ASSUME NEW w \in Worker, SessionMissing(w) \/ PendingFound(w) \/ ResetFound(w)
       PROVE  EarlierSessionsGone'
  <2>1. job[w].at \notin {"burn", "revoke"} /\ \A v \in Worker : v # w => job'[v] = job[v]
    BY <1>0, <1>12 DEF SessionMissing, PendingFound, ResetFound, At, GoOn
  <2> QED
    BY <1>2, <1>12, <2>1 DEF SessionMissing, PendingFound, ResetFound
<1>13. ASSUME NEW w \in Worker,
              \/ SessionFound(w) \/ Park(w) \/ PendingMissing(w) \/ WrongCredentials(w)
              \/ ResetMissing(w) \/ UpdateFails(w)
       PROVE  EarlierSessionsGone'
  <2>1. job[w].at \notin {"burn", "revoke"} /\ \A v \in Worker : v # w => job'[v] = job[v]
    BY <1>0, <1>13
    DEF SessionFound, Park, PendingMissing, WrongCredentials, ResetMissing, UpdateFails, At, Over
  <2> QED
    BY <1>2, <1>13, <2>1
    DEF SessionFound, Park, PendingMissing, WrongCredentials, ResetMissing, UpdateFails
<1>14. ASSUME NEW w \in Worker, Verified(w) PROVE EarlierSessionsGone'
  <2>1. job[w].at = "verify" /\ \A v \in Worker : v # w => job'[v] = job[v]
    BY <1>0, <1>14 DEF Verified, At
  <2> QED
    BY <1>2, <1>14, <2>1 DEF Verified
<1> QED
  <2>1. ASSUME NEW w \in Worker, WorkerStep(w) PROVE EarlierSessionsGone'
    BY <2>1, <1>3, <1>6, <1>7, <1>8, <1>9, <1>10, <1>12, <1>13, <1>14 DEF WorkerStep
  <2>2. CASE Expiry \/ Reload \/ ReloadFails
    BY <2>2, <1>1, <1>5 DEF Expiry, PendingExpires, ResetExpires, Reload, ReloadFails
  <2>3. ASSUME NEW a \in Account, ResetRequest(a) PROVE EarlierSessionsGone'
    BY <2>3, <1>1 DEF ResetRequest
  <2>4. ASSUME NEW c \in Client, EditClients(c) PROVE EarlierSessionsGone'
    BY <2>4, <1>1 DEF EditClients
  <2>5. CASE UNCHANGED vars
    BY <2>5, <1>1 DEF vars
  <2> QED
    BY <1>4, <1>11, <2>1, <2>2, <2>3, <2>4, <2>5 DEF Next

----------------------------------------------------------------------------
(* How often the token of a reset is used.                                 *)

\* The workers that have read the token and are about to set the password with it,
\* or to delete it.
Holding(where, r) == {w \in Worker : job[w].at = where /\ job[w].reset = r}

\* A token that is there was used by the workers that are about to delete it; one
\* that is not can still be used by those that read it before.
TokenInv(r) ==
  IF resets[r].there
  THEN resets[r].uses <= Cardinality(Holding("burn", r))
  ELSE resets[r].uses + Cardinality(Holding("update", r)) <= Cardinality(Worker)

UsesInv == undeleted \/ \A r \in DOMAIN resets : TokenInv(r)

LEMMA WorkersCount ==
  ASSUME NEW S \in SUBSET Worker
  PROVE  /\ IsFiniteSet(S) /\ Cardinality(S) \in Nat /\ Cardinality(Worker) \in Nat
         /\ Cardinality(S) <= Cardinality(Worker)
BY WorkersAssumption, FS_Subset, FS_CardinalityType

\* The workers that hold a token are not more than there are workers, and nobody
\* holds it in both ways.
LEMMA HoldersFit ==
  ASSUME NEW r
  PROVE  /\ Holding("burn", r) \in SUBSET Worker /\ Holding("update", r) \in SUBSET Worker
         /\ Cardinality(Holding("burn", r)) + Cardinality(Holding("update", r)) <= Cardinality(Worker)
<1> DEFINE B == Holding("burn", r)
           U == Holding("update", r)
<1>1. B \in SUBSET Worker /\ U \in SUBSET Worker /\ B \cap U = {} /\ B \cup U \in SUBSET Worker
  BY DEF Holding
<1> HIDE DEF B, U
<1>2. Cardinality(B \cup U) = Cardinality(B) + Cardinality(U) - Cardinality(B \cap U)
  BY <1>1, WorkersCount, FS_Union
<1>3. Cardinality(B \cap U) = 0
  BY <1>1, FS_EmptySet
<1> QED
  BY <1>1, <1>2, <1>3, WorkersCount DEF B, U

\* A token that nobody uses in a step stays within the bound, whoever deletes it.
LEMMA TokenKept ==
  ASSUME TypeOK, NEW r \in DOMAIN resets, TokenInv(r), r \in DOMAIN resets',
         resets'[r].uses = resets[r].uses,
         resets'[r].there => resets[r].there /\ Holding("burn", r)' = Holding("burn", r),
         ~resets'[r].there => Holding("update", r)' \subseteq Holding("update", r)
  PROVE  TokenInv(r)'
<1>1. resets[r].uses \in Nat
  BY DocumentTypes DEF ResetToken
<1>2. CASE resets'[r].there
  BY <1>2 DEF TokenInv
<1>3. CASE ~resets'[r].there
  <2>1. PICK after : after = Holding("update", r)'
    OBVIOUS
  <2>2. after \in SUBSET Holding("update", r) /\ Holding("update", r) \in SUBSET Worker
    BY <1>3, <2>1, HoldersFit
  <2>3. /\ Cardinality(after) <= Cardinality(Holding("update", r))
        /\ Cardinality(after) \in Nat /\ Cardinality(Holding("update", r)) \in Nat
        /\ Cardinality(Holding("burn", r)) \in Nat /\ Cardinality(Worker) \in Nat
    BY <2>2, HoldersFit, WorkersCount, FS_Subset
  <2>4. resets[r].uses + Cardinality(Holding("update", r)) <= Cardinality(Worker)
    BY <1>1, <2>3, HoldersFit DEF TokenInv
  <2>5. resets'[r].uses + Cardinality(after) <= Cardinality(Worker)
    BY <1>1, <2>3, <2>4
  <2> QED
    BY <1>3, <2>1, <2>5 DEF TokenInv
<1> QED
  BY <1>2, <1>3

\* A worker that uses a token turns from one about to use it into one about to
\* delete it.
LEMMA TokenUsed ==
  ASSUME TypeOK, NEW r \in DOMAIN resets, TokenInv(r), r \in DOMAIN resets',
         NEW w \in Holding("update", r),
         resets'[r].uses = resets[r].uses + 1, resets'[r].there = resets[r].there,
         Holding("burn", r)' = Holding("burn", r) \cup {w},
         Holding("update", r)' = Holding("update", r) \ {w}
  PROVE  TokenInv(r)'
<1>1. resets[r].uses \in Nat
  BY DocumentTypes DEF ResetToken
<1>2. w \notin Holding("burn", r)
  BY DEF Holding
<1>3. PICK b, u : b = Holding("burn", r) /\ u = Holding("update", r)
  OBVIOUS
<1>4. /\ IsFiniteSet(b) /\ IsFiniteSet(u) /\ w \in u /\ w \notin b
      /\ Cardinality(b) \in Nat /\ Cardinality(u) \in Nat /\ Cardinality(Worker) \in Nat
  BY <1>2, <1>3, HoldersFit, WorkersCount
<1>5. /\ Cardinality(b \cup {w}) = Cardinality(b) + 1
      /\ Cardinality(u \ {w}) = Cardinality(u) - 1
  BY <1>4, FS_AddElement, FS_RemoveElement
<1>6. Holding("burn", r)' = b \cup {w} /\ Holding("update", r)' = u \ {w}
  BY <1>3
<1>7. CASE resets[r].there
  <2>1. resets[r].uses <= Cardinality(b)
    BY <1>3, <1>7 DEF TokenInv
  <2>2. resets'[r].uses <= Cardinality(b \cup {w})
    BY <1>1, <1>4, <1>5, <2>1
  <2> QED
    BY <1>6, <1>7, <2>2 DEF TokenInv
<1>8. CASE ~resets[r].there
  <2>1. resets[r].uses + Cardinality(u) <= Cardinality(Worker)
    BY <1>3, <1>8 DEF TokenInv
  <2>2. resets'[r].uses + Cardinality(u \ {w}) <= Cardinality(Worker)
    BY <1>1, <1>4, <1>5, <2>1
  <2> QED
    BY <1>6, <1>8, <2>2 DEF TokenInv
<1> QED
  BY <1>7, <1>8

LEMMA UsesStep == TypeOK /\ UsesInv /\ [Next]_vars => UsesInv'
<1> SUFFICES ASSUME TypeOK, UsesInv, [Next]_vars PROVE UsesInv'
  OBVIOUS
<1> USE DEF docVars, clientVars, faultVars
<1>0. /\ resets \in Seq(ResetToken) /\ job \in [Worker -> Job] /\ undeleted \in BOOLEAN
      /\ Idle.at = "idle"
  BY DEF TypeOK, Idle
\* No token is read, used or deleted; no worker gets to where it holds one.
<1>1. ASSUME UNCHANGED <<resets, undeleted>>,
             \A v \in Worker : \/ job'[v] = job[v]
                               \/ job[v].at # "burn" /\ job'[v].at \notin {"update", "burn"}
      PROVE  UsesInv'
  <2>1. \A r : /\ Holding("burn", r)' = Holding("burn", r)
               /\ Holding("update", r)' \subseteq Holding("update", r)
    BY <1>1 DEF Holding
  <2> QED
    BY <1>1, <2>1, TokenKept DEF UsesInv
\* A token expires, or is deleted.
<1>2. ASSUME NEW r \in DOMAIN resets, UNCHANGED undeleted,
             resets' = [resets EXCEPT ![r].there = FALSE],
             \A v \in Worker : \/ job'[v] = job[v]
                               \/ job[v].reset = r /\ job'[v].at \notin {"update", "burn"}
      PROVE  UsesInv'
  <2>1. /\ DOMAIN resets' = DOMAIN resets /\ ~resets'[r].there
        /\ \A s \in DOMAIN resets : /\ resets'[s].uses = resets[s].uses
                                    /\ s # r => resets'[s] = resets[s]
    BY <1>0, <1>2, DocumentTypes DEF ResetToken
  <2>2. \A s : /\ s # r => Holding("burn", s)' = Holding("burn", s)
               /\ Holding("update", s)' \subseteq Holding("update", s)
    BY <1>2 DEF Holding
  <2> QED
    BY <1>2, <2>1, <2>2, TokenKept DEF UsesInv
<1>3. ASSUME NEW a \in Account, ResetRequest(a) PROVE UsesInv'
  <2>1. PICK works \in BOOLEAN :
          resets' = Append(resets, [account |-> a, there |-> works, uses |-> 0])
    BY <1>3 DEF ResetRequest
  <2>2. PICK last : last = Len(resets) + 1
    OBVIOUS
  <2>3. /\ DOMAIN resets' = DOMAIN resets \cup {last}
        /\ resets'[last] = [account |-> a, there |-> works, uses |-> 0]
        /\ \A r \in DOMAIN resets : resets'[r] = resets[r]
    BY <1>0, <2>1, <2>2
  <2>4. UNCHANGED <<job, undeleted>> /\ \A r : \A where : Holding(where, r)' = Holding(where, r)
    BY <1>3 DEF ResetRequest, Holding
  <2>5. TokenInv(last)'
    <3>1. /\ Cardinality(Holding("burn", last)) \in Nat
          /\ Cardinality(Holding("update", last)) \in Nat
          /\ Cardinality(Holding("update", last)) <= Cardinality(Worker)
          /\ Cardinality(Worker) \in Nat
      BY HoldersFit, WorkersCount
    <3> QED
      BY <2>3, <2>4, <3>1 DEF TokenInv
  <2>6. \A r \in DOMAIN resets : TokenInv(r) => TokenInv(r)'
    BY <2>3, <2>4, TokenKept
  <2> QED
    BY <2>3, <2>4, <2>5, <2>6 DEF UsesInv
<1>4. ASSUME NEW w \in Worker, ResetFound(w) PROVE UsesInv'
  <2>1. PICK r : r = job[w].reset
    OBVIOUS
  <2>2. /\ r \in DOMAIN resets /\ resets[r].there /\ UNCHANGED <<resets, undeleted>>
        /\ job[w].at = "confirm" /\ GoOn(w, "update")
    BY <1>4, <2>1, WorkerType DEF ResetFound, At, Refers
  <2>3. /\ job'[w].at = "update" /\ job'[w].reset = r
        /\ \A v \in Worker : v # w => job'[v] = job[v]
    BY <2>1, <2>2, JobGoesOn
  <2>4. \A s : /\ Holding("burn", s)' = Holding("burn", s)
               /\ s # r => Holding("update", s)' = Holding("update", s)
    BY <2>2, <2>3 DEF Holding
  <2> QED
    BY <2>2, <2>4, TokenKept DEF UsesInv
<1>5. ASSUME NEW w \in Worker, UpdatePassword(w) PROVE UsesInv'
  <2>1. PICK r : r = job[w].reset
    OBVIOUS
  <2>2. /\ r \in DOMAIN resets /\ resets' = [resets EXCEPT ![r].uses = @ + 1]
        /\ UNCHANGED undeleted /\ job[w].at = "update" /\ GoOn(w, "burn")
    BY <1>5, <2>1, WorkerType DEF UpdatePassword, At, Refers
  <2>3. /\ job'[w].at = "burn" /\ job'[w].reset = r
        /\ \A v \in Worker : v # w => job'[v] = job[v]
    BY <2>1, <2>2, JobGoesOn
  <2>4. /\ DOMAIN resets' = DOMAIN resets
        /\ resets'[r].uses = resets[r].uses + 1 /\ resets'[r].there = resets[r].there
        /\ \A s \in DOMAIN resets : s # r => resets'[s] = resets[s]
    BY <1>0, <2>2, DocumentTypes DEF ResetToken
  <2>5. /\ w \in Holding("update", r)
        /\ Holding("burn", r)' = Holding("burn", r) \cup {w}
        /\ Holding("update", r)' = Holding("update", r) \ {w}
        /\ \A s : s # r => /\ Holding("burn", s)' = Holding("burn", s)
                           /\ Holding("update", s)' = Holding("update", s)
    BY <2>1, <2>2, <2>3 DEF Holding
  <2>6. TokenInv(r) => TokenInv(r)'
    BY <2>2, <2>4, <2>5, TokenUsed
  <2>7. \A s \in DOMAIN resets : s # r /\ TokenInv(s) => TokenInv(s)'
    BY <2>4, <2>5, TokenKept
  <2> QED
    BY <2>2, <2>4, <2>6, <2>7 DEF UsesInv
<1>6. ASSUME NEW w \in Worker, UpdateUnheard(w) PROVE UsesInv'
  BY <1>6 DEF UpdateUnheard, UsesInv
<1>7. ASSUME NEW w \in Worker, Burn(w) PROVE UsesInv'
  <2>1. PICK works \in BOOLEAN :
          /\ resets' = [resets EXCEPT ![job[w].reset].there = resets[job[w].reset].there /\ ~works]
          /\ undeleted' = (undeleted \/ ~works)
    BY <1>7 DEF Burn
  <2>2. /\ job[w].reset \in DOMAIN resets /\ job[w].at = "burn" /\ GoOn(w, "revoke")
    BY <1>7, WorkerType DEF Burn, At, Refers
  <2>3. CASE ~works
    BY <2>1, <2>3 DEF UsesInv
  <2>4. CASE works
    <3>1. resets' = [resets EXCEPT ![job[w].reset].there = FALSE] /\ UNCHANGED undeleted
      BY <1>0, <2>1, <2>4
    <3>2. job'[w].at = "revoke" /\ \A v \in Worker : v # w => job'[v] = job[v]
      BY <2>2, JobGoesOn
    <3> QED
      BY <1>2, <2>2, <3>1, <3>2
  <2> QED
    BY <2>3, <2>4
<1>8. ASSUME NEW r \in DOMAIN resets, ResetExpires(r) PROVE UsesInv'
  BY <1>2, <1>8 DEF ResetExpires
\* A worker takes up a request, goes on with one that holds no token, or is done.
<1>9. ASSUME NEW w \in Worker, job[w].at # "burn", UNCHANGED <<resets, undeleted>>, Over(w)
      PROVE  UsesInv'
  <2>1. job'[w].at = "idle" /\ \A v \in Worker : v # w => job'[v] = job[v]
    BY <1>0, <1>9 DEF Over
  <2> QED
    BY <1>1, <1>9, <2>1
<1>10. ASSUME NEW w \in Worker, NEW where \in {"park", "verify"},
              job[w].at \in {"authorize", "login"}, UNCHANGED <<resets, undeleted>>,
              GoOn(w, where)
       PROVE  UsesInv'
  <2>1. job'[w].at = where /\ \A v \in Worker : v # w => job'[v] = job[v]
    BY <1>0, <1>10 DEF GoOn
  <2> QED
    BY <1>1, <1>10, <2>1
<1>11. ASSUME NEW w \in Worker,
              SessionFound(w) \/ PendingMissing(w) \/ WrongCredentials(w) \/ Park(w) \/ CreateSession(w)
       PROVE  UsesInv'
  BY <1>9, <1>11
  DEF SessionFound, PendingMissing, WrongCredentials, Park, CreateSession, At
<1>12. ASSUME NEW w \in Worker, SessionMissing(w) \/ PendingFound(w)
       PROVE  UsesInv'
  BY <1>10, <1>12 DEF SessionMissing, PendingFound, At
<1>13. ASSUME NEW w \in Worker,
              ResetMissing(w) \/ UpdateFails(w) \/ RevokeAll(w) \/ RevokeFails(w)
       PROVE  UsesInv'
  BY <1>9, <1>13 DEF ResetMissing, UpdateFails, RevokeAll, RevokeFails, At
<1>14. ASSUME NEW w \in Worker, Verified(w) PROVE UsesInv'
  <2>1. job[w].at = "verify" /\ job'[w].at = "enter" /\ \A v \in Worker : v # w => job'[v] = job[v]
    BY <1>0, <1>14 DEF Verified, At
  <2> QED
    BY <1>1, <1>14, <2>1 DEF Verified
<1>15. ASSUME NEW w \in Worker, Request(w) PROVE UsesInv'
  <2>1. /\ job[w] = Idle /\ job'[w].at \in {"authorize", "login", "confirm"}
        /\ UNCHANGED <<resets, undeleted>> /\ \A v \in Worker : v # w => job'[v] = job[v]
    BY <1>0, <1>15 DEF Request, Authorize, Login, ResetConfirm
  <2> QED
    BY <1>0, <1>1, <2>1
<1>16. CASE UNCHANGED <<resets, undeleted, job>>
  BY <1>1, <1>16
<1> QED
  BY <1>3, <1>4, <1>5, <1>6, <1>7, <1>8, <1>11, <1>12, <1>13, <1>14, <1>15,
     <1>16
  DEF Next, WorkerStep, Expiry, EndSession, PendingExpires, SessionExpires, Reload, ReloadFails,
      EditClients, vars

----------------------------------------------------------------------------
(* The sessions of the old password: fewer than there are workers.         *)

\* The sessions created since the present password of an account was set, by logins
\* that had compared an earlier one; and the workers about to create such a session.
Late(a) ==
  {s \in DOMAIN sessions : /\ sessions[s].account = a /\ sessions[s].since = password[a]
                           /\ sessions[s].version # password[a]}
Entering(a) ==
  {w \in Worker : job[w].at = "enter" /\ job[w].account = a /\ job[w].version # password[a]}

LateInv(a) == Cardinality(Late(a)) + Cardinality(Entering(a)) < Cardinality(Worker)
OldInv ==
  /\ \A s \in DOMAIN sessions : sessions[s].since <= password[sessions[s].account]
  /\ \A a \in Account : LateInv(a)

LEMMA LateCount ==
  ASSUME TypeOK, NEW a
  PROVE  /\ IsFiniteSet(Late(a)) /\ Cardinality(Late(a)) \in Nat
         /\ IsFiniteSet(Entering(a)) /\ Cardinality(Entering(a)) \in Nat
         /\ Entering(a) \in SUBSET Worker
<1>1. Late(a) \in SUBSET (1..Len(sessions)) /\ Len(sessions) \in Nat
  BY LenProperties DEF Late, TypeOK
<1>2. IsFiniteSet(1..Len(sessions))
  BY <1>1, FS_Interval
<1>3. Entering(a) \in SUBSET Worker
  BY DEF Entering
<1> QED
  BY <1>1, <1>2, <1>3, FS_Subset, FS_CardinalityType, WorkersCount

\* Neither of them grows.
LEMMA LateKept ==
  ASSUME TypeOK, NEW a, LateInv(a),
         Late(a)' \subseteq Late(a), Entering(a)' \subseteq Entering(a)
  PROVE  LateInv(a)'
<1>1. PICK l, e : l = Late(a)' /\ e = Entering(a)'
  OBVIOUS
<1>2. /\ l \in SUBSET Late(a) /\ IsFiniteSet(Late(a))
      /\ e \in SUBSET Entering(a) /\ IsFiniteSet(Entering(a))
  BY <1>1, LateCount
<1>3. /\ Cardinality(l) <= Cardinality(Late(a)) /\ Cardinality(l) \in Nat
      /\ Cardinality(e) <= Cardinality(Entering(a)) /\ Cardinality(e) \in Nat
  BY <1>2, FS_Subset, FS_CardinalityType
<1>4. Cardinality(l) + Cardinality(e) < Cardinality(Worker)
  BY <1>3, LateCount, WorkersCount DEF LateInv
<1> QED
  BY <1>1, <1>4 DEF LateInv

\* A session of the old password is created: one worker less is about to.
LEMMA LateCreated ==
  ASSUME TypeOK, NEW a, LateInv(a), NEW w \in Entering(a), NEW n, n \notin DOMAIN sessions,
         Late(a)' = Late(a) \cup {n}, Entering(a)' = Entering(a) \ {w}
  PROVE  LateInv(a)'
<1>1. PICK l, e : l = Late(a) /\ e = Entering(a)
  OBVIOUS
<1>2. /\ IsFiniteSet(l) /\ IsFiniteSet(e) /\ Cardinality(l) \in Nat /\ Cardinality(e) \in Nat
      /\ n \notin l /\ w \in e
  BY <1>1, LateCount DEF Late
<1>3. Cardinality(l \cup {n}) = Cardinality(l) + 1 /\ Cardinality(e \ {w}) = Cardinality(e) - 1
  BY <1>2, FS_AddElement, FS_RemoveElement
<1>4. Cardinality(l) + Cardinality(e) < Cardinality(Worker)
  BY <1>1 DEF LateInv
<1>5. Cardinality(l \cup {n}) + Cardinality(e \ {w}) < Cardinality(Worker)
  BY <1>2, <1>3, <1>4, WorkersCount
<1>6. Late(a)' = l \cup {n} /\ Entering(a)' = e \ {w}
  BY <1>1
<1> QED
  BY <1>5, <1>6 DEF LateInv

\* The worker that sets a new password is not about to create a session.
LEMMA LateReset ==
  ASSUME NEW a, NEW w \in Worker, Late(a)' = {}, Entering(a)' \subseteq Worker \ {w}
  PROVE  LateInv(a)'
<1>1. PICK l, e : l = Late(a)' /\ e = Entering(a)'
  OBVIOUS
<1>2. IsFiniteSet(Worker \ {w}) /\ Cardinality(Worker \ {w}) = Cardinality(Worker) - 1
  BY WorkersAssumption, FS_RemoveElement
<1>3. Cardinality(e) <= Cardinality(Worker \ {w}) /\ Cardinality(e) \in Nat
  BY <1>1, <1>2, FS_Subset, FS_CardinalityType
<1>4. Cardinality(l) = 0
  BY <1>1, FS_EmptySet
<1>5. Cardinality(l) + Cardinality(e) < Cardinality(Worker)
  BY <1>2, <1>3, <1>4, WorkersCount
<1> QED
  BY <1>1, <1>5 DEF LateInv

LEMMA OldStep == TypeOK /\ OldInv /\ [Next]_vars => OldInv'
<1> SUFFICES ASSUME TypeOK, OldInv, [Next]_vars PROVE OldInv'
  OBVIOUS
<1> USE DEF docVars, clientVars, faultVars
<1>0. /\ Grown /\ job \in [Worker -> Job] /\ Idle.at = "idle" /\ password \in [Account -> Nat]
      /\ \A s \in DOMAIN sessions : sessions[s].account \in Account /\ sessions[s].since \in Nat
  BY DocumentStep, DocumentTypes DEF TypeOK, Idle, Session
\* No session is created, no password set, and nobody comes to create one.
<1>1. ASSUME DOMAIN sessions' = DOMAIN sessions, UNCHANGED password,
             \A v \in Worker : job'[v] = job[v] \/ job'[v].at # "enter"
                               \/ job'[v].version = password[job'[v].account]
      PROVE  OldInv'
  <2>1. \A s \in DOMAIN sessions' : sessions'[s].since <= password'[sessions'[s].account]
    BY <1>0, <1>1 DEF OldInv, Grown, SessionsGrown
  <2>2. \A a : Late(a)' \subseteq Late(a) /\ Entering(a)' \subseteq Entering(a)
    BY <1>0, <1>1 DEF Late, Entering, Grown, SessionsGrown
  <2> QED
    BY <2>1, <2>2, LateKept DEF OldInv
<1>2. ASSUME NEW w \in Worker, CreateSession(w) PROVE OldInv'
  <2>1. PICK works \in BOOLEAN : sessions' = Append(sessions,
          [account |-> job[w].account, version |-> job[w].version, there |-> works,
           since |-> password[job[w].account]])
    BY <1>2 DEF CreateSession
  <2>2. PICK n : n = Len(sessions) + 1
    OBVIOUS
  <2>3. job[w].at = "enter" /\ job[w].account \in Account /\ job[w].version \in Nat
    BY <1>0, <1>2 DEF CreateSession, At, Job, Idle
  <2>4. /\ DOMAIN sessions' = DOMAIN sessions \cup {n} /\ n \notin DOMAIN sessions
        /\ \A s \in DOMAIN sessions : sessions'[s] = sessions[s]
        /\ sessions'[n].account = job[w].account /\ sessions'[n].version = job[w].version
        /\ sessions'[n].since = password[job[w].account]
    BY <2>1, <2>2, <2>3 DEF TypeOK
  <2>5. /\ UNCHANGED password /\ job'[w].at = "idle"
        /\ \A v \in Worker : v # w => job'[v] = job[v]
    BY <1>0, <1>2 DEF CreateSession, Over
  <2>6. \A s \in DOMAIN sessions' : sessions'[s].since <= password'[sessions'[s].account]
    BY <1>0, <2>3, <2>4, <2>5 DEF OldInv
  <2>7. ASSUME NEW a \in Account PROVE LateInv(a)'
    <3>1. CASE a = job[w].account /\ job[w].version # password[a]
      <4>1. w \in Entering(a) /\ Entering(a)' = Entering(a) \ {w}
        BY <2>3, <2>5, <3>1 DEF Entering
      <4>2. Late(a)' = Late(a) \cup {n}
        BY <2>4, <2>5, <3>1 DEF Late
      <4> QED
        BY <2>4, <4>1, <4>2, LateCreated DEF OldInv
    <3>2. CASE ~(a = job[w].account /\ job[w].version # password[a])
      <4>1. Late(a)' \subseteq Late(a) /\ Entering(a)' \subseteq Entering(a)
        BY <2>4, <2>5, <3>2 DEF Late, Entering
      <4> QED
        BY <4>1, LateKept DEF OldInv
    <3> QED
      BY <3>1, <3>2
  <2> QED
    BY <2>6, <2>7 DEF OldInv
\* A new password, of which no session is yet.
<1>3. ASSUME NEW w \in Worker, NEW b \in Account, job[w].at = "update", UNCHANGED sessions,
             password' = [password EXCEPT ![b] = @ + 1],
             job'[w].at # "enter", \A v \in Worker : v # w => job'[v] = job[v]
      PROVE  OldInv'
  <2>1. /\ password'[b] = password[b] + 1
        /\ \A a \in Account : a # b => password'[a] = password[a]
        /\ \A a \in Account : password[a] \in Nat
    BY <1>0, <1>3
  <2>2. \A s \in DOMAIN sessions' : sessions'[s].since <= password'[sessions'[s].account]
    BY <1>0, <1>3, <2>1 DEF OldInv
  <2>3. \A s \in DOMAIN sessions : sessions[s].account = b => sessions[s].since # password'[b]
    BY <1>0, <2>1 DEF OldInv
  <2>4. Late(b)' = {} /\ Entering(b)' \subseteq Worker \ {w}
    BY <1>3, <2>3 DEF Late, Entering
  <2>5. LateInv(b)'
    BY <2>4, LateReset
  <2>6. ASSUME NEW a \in Account, a # b PROVE LateInv(a)'
    <3>1. Late(a)' \subseteq Late(a) /\ Entering(a)' \subseteq Entering(a)
      BY <1>3, <2>1, <2>6 DEF Late, Entering
    <3> QED
      BY <3>1, LateKept DEF OldInv
  <2> QED
    BY <2>2, <2>5, <2>6 DEF OldInv
<1>4. ASSUME NEW w \in Worker, UpdatePassword(w) PROVE OldInv'
  <2>1. job[w].at = "update" /\ GoOn(w, "burn") /\ Confirming(w) \in Account
    BY <1>4, ConfirmingType DEF UpdatePassword, At
  <2>2. job'[w].at = "burn" /\ \A v \in Worker : v # w => job'[v] = job[v]
    BY <2>1, JobGoesOn
  <2> QED
    BY <1>3, <1>4, <2>1, <2>2 DEF UpdatePassword
<1>5. ASSUME NEW w \in Worker, UpdateUnheard(w) PROVE OldInv'
  <2>1. job[w].at = "update" /\ Over(w) /\ Confirming(w) \in Account
    BY <1>5, ConfirmingType DEF UpdateUnheard, At
  <2>2. job'[w].at = "idle" /\ \A v \in Worker : v # w => job'[v] = job[v]
    BY <1>0, <2>1 DEF Over
  <2> QED
    BY <1>3, <1>5, <2>1, <2>2 DEF UpdateUnheard
<1>6. ASSUME NEW w \in Worker, Verified(w) PROVE OldInv'
  <2>1. /\ \A v \in Worker : v # w => job'[v] = job[v]
        /\ job'[w].version = password[job'[w].account]
        /\ UNCHANGED <<password, sessions>>
    BY <1>0, <1>6 DEF Verified
  <2> QED
    BY <1>1, <2>1
\* The other steps of a worker.
<1>7. ASSUME NEW w \in Worker, DOMAIN sessions' = DOMAIN sessions, UNCHANGED password,
             \A v \in Worker : v # w => job'[v] = job[v], job'[w].at # "enter"
      PROVE  OldInv'
  BY <1>1, <1>7
<1>8. ASSUME NEW w \in Worker, Request(w) PROVE OldInv'
  <2>1. /\ job'[w].at \in {"authorize", "login", "confirm"}
        /\ \A v \in Worker : v # w => job'[v] = job[v]
        /\ UNCHANGED <<password, sessions>>
    BY <1>0, <1>8 DEF Request, Authorize, Login, ResetConfirm
  <2> QED
    BY <1>7, <2>1
<1>9. ASSUME NEW w \in Worker,
             \/ SessionFound(w) \/ Park(w) \/ PendingMissing(w) \/ WrongCredentials(w)
             \/ ResetMissing(w) \/ UpdateFails(w) \/ RevokeAll(w) \/ RevokeFails(w)
      PROVE  OldInv'
  <2>1. Over(w) /\ DOMAIN sessions' = DOMAIN sessions /\ UNCHANGED password
    BY <1>9
    DEF SessionFound, Park, PendingMissing, WrongCredentials, ResetMissing, UpdateFails,
        RevokeAll, RevokeFails
  <2>2. job'[w].at = "idle" /\ \A v \in Worker : v # w => job'[v] = job[v]
    BY <1>0, <2>1 DEF Over
  <2> QED
    BY <1>7, <2>1, <2>2
<1>10. ASSUME NEW w \in Worker,
              SessionMissing(w) \/ PendingFound(w) \/ ResetFound(w) \/ Burn(w)
       PROVE  OldInv'
  <2>1. /\ \E where \in {"park", "verify", "update", "revoke"} : GoOn(w, where)
        /\ UNCHANGED <<password, sessions>>
    BY <1>10 DEF SessionMissing, PendingFound, ResetFound, Burn
  <2>2. job'[w].at # "enter" /\ \A v \in Worker : v # w => job'[v] = job[v]
    BY <1>0, <2>1 DEF GoOn, Job, Idle
  <2> QED
    BY <1>7, <2>1, <2>2
\* No step of a worker.
<1>11. ASSUME UNCHANGED <<job, password>>, DOMAIN sessions' = DOMAIN sessions PROVE OldInv'
  BY <1>1, <1>11
<1>12. ASSUME NEW b \in Browser, EndSession(b) PROVE OldInv'
  BY <1>11, <1>12 DEF EndSession
<1>13. ASSUME Expiry PROVE OldInv'
  BY <1>11, <1>13 DEF Expiry, PendingExpires, SessionExpires, ResetExpires
<1>14. ASSUME NEW a \in Account, ResetRequest(a) PROVE OldInv'
  BY <1>11, <1>14 DEF ResetRequest
<1>15. CASE Reload \/ ReloadFails \/ (\E c \in Client : EditClients(c)) \/ UNCHANGED vars
  BY <1>11, <1>15 DEF Reload, ReloadFails, EditClients, vars
<1> QED
  BY <1>2, <1>4, <1>5, <1>6, <1>8, <1>9, <1>10, <1>12, <1>13, <1>14, <1>15 DEF Next, WorkerStep

----------------------------------------------------------------------------
\* The types of every variable.
THEOREM TypeCorrect == Spec => []TypeOK
<1> QED
  BY InitType, TypeStep, PTL DEF Spec

\* idp_password_reset.cpp:181-193: whatever the accounts, browsers, workers and
\* bounds, a reset leaves none of the sessions that were there when it set the password.
THEOREM EarlierSessionsEnd == Spec => []EarlierSessionsGone
<1>1. Init => EarlierSessionsGone
  BY DEF Init, EarlierSessionsGone
<1>2. TypeOK /\ EarlierSessionsGone /\ [Next]_vars => EarlierSessionsGone'
  BY GoneStep
<1> QED
  BY <1>1, <1>2, TypeCorrect, PTL DEF Spec

\* idp_password_reset.cpp:191-193: when a reset is over, the sessions of older passwords
\* are those of logins that were under way when it set the new one, and they are
\* fewer than the workers.
THEOREM SurvivorsAreFew == Spec => []SurvivorsBounded
<1>1. Init => OldInv
  <2> SUFFICES ASSUME Init PROVE OldInv
    OBVIOUS
  <2>1. DOMAIN sessions = {} /\ \A a : Late(a) = {} /\ Entering(a) = {}
    BY DEF Init, Late, Entering, Idle
  <2>2. Cardinality({}) = 0 /\ Cardinality(Worker) # 0 /\ Cardinality(Worker) \in Nat
    BY WorkersAssumption, FS_EmptySet, FS_CardinalityType
  <2>3. 0 + 0 < Cardinality(Worker)
    BY <2>2
  <2>4. \A a : LateInv(a)
    BY <2>1, <2>2, <2>3 DEF LateInv
  <2> QED
    BY <2>1, <2>4 DEF OldInv
<1>2. TypeOK /\ EarlierSessionsGone /\ OldInv => SurvivorsBounded
  <2> SUFFICES ASSUME TypeOK, EarlierSessionsGone, OldInv, NEW a \in Account, Reset(a)
               PROVE  Cardinality(Survivors(a)) < Cardinality(Worker)
    BY DEF SurvivorsBounded
  <2>1. Survivors(a) \subseteq Late(a)
    BY DEF Survivors, Late, EarlierSessionsGone
  <2>2. Cardinality(Survivors(a)) <= Cardinality(Late(a)) /\ Cardinality(Survivors(a)) \in Nat
    BY <2>1, LateCount, FS_Subset, FS_CardinalityType
  <2> QED
    BY <2>2, LateCount, WorkersCount DEF OldInv, LateInv
<1>3. TypeOK /\ OldInv /\ [Next]_vars => OldInv'
  BY OldStep
<1> QED
  BY <1>1, <1>2, <1>3, TypeCorrect, EarlierSessionsEnd, PTL DEF Spec

\* idp_password_reset.cpp:186-189: the token is not claimed, but however many requests
\* race with it, it is used at most once by each worker that had read it before one of
\* them deleted it.
THEOREM TokensBounded == Spec => []UsesBounded
<1>1. Init => UsesInv
  BY DEF Init, UsesInv
<1>2. TypeOK /\ UsesInv => UsesBounded
  <2> SUFFICES ASSUME TypeOK, UsesInv, NEW r \in DOMAIN resets, ~undeleted
               PROVE  resets[r].uses <= Cardinality(Worker)
    BY DEF UsesBounded
  <2>1. TokenInv(r) /\ resets[r].uses \in Nat
    BY DocumentTypes DEF UsesInv, ResetToken
  <2>2. /\ Cardinality(Holding("burn", r)) \in Nat /\ Cardinality(Holding("update", r)) \in Nat
        /\ Cardinality(Holding("burn", r)) <= Cardinality(Worker) /\ Cardinality(Worker) \in Nat
    BY HoldersFit, WorkersCount
  <2> QED
    BY <2>1, <2>2 DEF TokenInv
<1>3. TypeOK /\ UsesInv /\ [Next]_vars => UsesInv'
  BY UsesStep
<1> QED
  BY <1>1, <1>2, <1>3, TypeCorrect, PTL DEF Spec
============================================================================
