------------------------------ MODULE SsoLogin ------------------------------
(***************************************************************************)
(* Single sign-on up to the session: the operator edits sso_config, the    *)
(* reload thread rebuilds the providers from it, a browser begins a login  *)
(* with one of them, the identity provider authenticates a person and the  *)
(* callback claims the transaction, verifies the answer and finds, links   *)
(* or creates an account.  Between two calls on the database the workers   *)
(* and the reload thread overtake each other, and a call may fail.         *)
(* Transactions and accounts are named by their order of creation.         *)
(***************************************************************************)
EXTENDS Integers, Sequences, FiniteSets

CONSTANTS Provider, Saml,   \* identity providers; those that speak SAML
          Person, Verified, \* who logs in; whose address the provider verified
          Shouted,          \* whose address the provider spells in capitals
          Local,            \* sequence: who has an account from elsewhere
          Document,         \* contents of sso_config the operator saves
          First,            \* the one there is when the server starts
          None, Worker,
          MaxLogins,        \* bound: transactions ever created
          MaxEdits,         \* bound: edits of sso_config
          MaxFaults         \* bound: database calls that fail

ASSUME LoginAssumption ==
  /\ Saml \subseteq Provider /\ Verified \subseteq Person /\ Shouted \subseteq Person
  /\ Local \in Seq(Person)
  /\ Document \subseteq
       [valid : BOOLEAN, providers : SUBSET Provider, allowed : SUBSET Person]
  /\ First \in Document /\ First.valid /\ None \notin Document
  /\ {MaxLogins, MaxEdits, MaxFaults} \subseteq Nat

VARIABLES document,     \* the one document of sso_config
          hash, config, \* m_ssoRegistry: last document seen, last good one
          built,        \* m_ssoProviders, each with the document it was built from
          reload,       \* the reload thread
          transactions, \* sso_transactions
          answers,      \* what the identity providers sent the browsers back with
          accounts,     \* account
          sessions,     \* sessions opened, for ever
          raced,        \* identities two callbacks were resolving at once
          job,          \* the callback every worker is busy with
          faults, edits

configVars == <<hash, config, built, reload>>
loginVars == <<transactions, answers, accounts, sessions, raced>>
vars == <<document, configVars, loginVars, job, faults, edits>>

----------------------------------------------------------------------------
Idle == [at |-> "idle"]

\* A call that fails counts against the bound; the others leave it alone.
Fault == faults < MaxFaults /\ faults' = faults + 1
Outcome(works) == IF works THEN UNCHANGED faults ELSE Fault

At(w, where) == job[w].at = where
GoOn(w, where) == job' = [job EXCEPT ![w].at = where]
Over(w) == job' = [job EXCEPT ![w] = Idle]

\* The first load is over before the server takes a connection.
Init ==
  /\ document = First /\ hash = First /\ config = First
  /\ built = [p \in Provider |-> IF p \in First.providers THEN First ELSE None]
  /\ reload = "idle"
  /\ transactions = <<>> /\ answers = {} /\ sessions = {} /\ raced = {}
  /\ accounts = [a \in DOMAIN Local |->
       [owner |-> Local[a], found |-> TRUE, there |-> TRUE, links |-> <<>>]]
  /\ job = [w \in Worker |-> Idle]
  /\ faults = 0 /\ edits = 0

----------------------------------------------------------------------------
(* The configuration.                                                      *)

Edit(d) ==
  /\ edits < MaxEdits /\ edits' = edits + 1
  /\ d # document /\ document' = d
  /\ UNCHANGED <<configVars, loginVars, job, faults>>

\* Nothing was read, or nothing new: the next minute it is read again.
ReloadFails ==
  /\ reload = "idle" /\ Fault
  /\ UNCHANGED <<document, configVars, loginVars, job, edits>>

Unchanged(raw) == raw = hash

\* The document is remembered, good or bad; only a good one is taken.
ReloadKeepsLastGood ==
  /\ reload = "idle" /\ ~Unchanged(document) /\ ~document.valid
  /\ hash' = document
  /\ UNCHANGED <<document, config, built, reload, loginVars, job, faults, edits>>

ReloadTakes ==
  /\ reload = "idle" /\ ~Unchanged(document) /\ document.valid
  /\ hash' = document /\ config' = document
  /\ reload' = "build"
  /\ UNCHANGED <<document, built, loginVars, job, faults, edits>>

\* Mutant: the new providers are put beside the old ones.
PublishMerges(ready) ==
  built' = [p \in Provider |-> IF p \in ready THEN config ELSE built[p]]
\* An OIDC provider that does not answer the discovery is left out.
Publish(ready) ==
  built' = [p \in Provider |-> IF p \in ready THEN config ELSE None]

ReloadPublishes ==
  /\ reload = "build"
  /\ \E ready \in SUBSET config.providers :
       /\ config.providers \cap Saml \subseteq ready
       /\ Publish(ready)
  /\ reload' = "idle"
  /\ UNCHANGED <<document, hash, config, loginVars, job, faults, edits>>

Reload == ReloadFails \/ ReloadKeepsLastGood \/ ReloadTakes \/ ReloadPublishes

----------------------------------------------------------------------------
(* GET /api/v1/sso/login and the identity provider.                        *)

\* Nobody looks at what create_document() returns.
BeginLogin(p) ==
  /\ built[p] # None
  /\ Len(transactions) < MaxLogins
  /\ \E works \in BOOLEAN :
       /\ Outcome(works)
       /\ transactions' = Append(transactions,
            [provider |-> p, there |-> works, consumed |-> FALSE])
  /\ UNCHANGED <<document, configVars, answers, accounts, sessions, raced, job, edits>>

\* The answer carries the nonce (OIDC) or the request ID (SAML) it was asked with;
\* a transaction is one browser's, and one person is in front of it.
Authenticate(t, u) ==
  /\ \A a \in answers : a.asked # t
  /\ answers' = answers \cup {[asked |-> t, person |-> u]}
  /\ UNCHANGED <<document, configVars, transactions, accounts, sessions, raced, job,
                 faults, edits>>

----------------------------------------------------------------------------
(* The callback: the provider and its configuration are taken one after    *)
(* the other.                                                              *)

\* The transaction is the one the browser names; with SAML the one in the answer,
\* whose signature, audience and dates are verified before anything is read.
Callback(w, p, s, a) ==
  /\ job[w] = Idle
  /\ built[p] # None
  /\ p \in Saml => s = a.asked /\ transactions[s].provider = p
  /\ job' = [job EXCEPT ![w] = [at |-> "configure", provider |-> p, state |-> s,
                                answer |-> a]]
  /\ UNCHANGED <<document, configVars, loginVars, faults, edits>>

Configured(w) ==
  /\ At(w, "configure") /\ job[w].provider \in config.providers
  /\ job' = [job EXCEPT ![w] = [at |-> "claim", provider |-> job[w].provider,
                                state |-> job[w].state, answer |-> job[w].answer,
                                allowed |-> config.allowed]]
  /\ UNCHANGED <<document, configVars, loginVars, faults, edits>>

Unconfigured(w) ==
  /\ At(w, "configure") /\ job[w].provider \notin config.providers
  /\ Over(w)
  /\ UNCHANGED <<document, configVars, loginVars, faults, edits>>

\* The transaction is read, all but `consumed', which the read ignores.
TransactionMissing(w) ==
  /\ At(w, "claim")
  /\ Outcome(~transactions[job[w].state].there)
  /\ Over(w)
  /\ UNCHANGED <<document, configVars, loginVars, edits>>

\* Mutant: the filter of the update asks for the state alone.
ClaimableTwice(s) == TRUE
\* update_collection(): true when the filter matched.
Claimable(s) == ~transactions[s].consumed
Consume(s) == transactions' = [transactions EXCEPT ![s].consumed = TRUE]

\* The exchange, the keys, the issuer; then the nonce or the request ID.
Genuine(w) ==
  /\ transactions[job[w].answer.asked].provider = job[w].provider
  /\ job[w].answer.asked = job[w].state

Claim(w) ==
  /\ At(w, "claim") /\ transactions[job[w].state].there
  /\ Claimable(job[w].state)
  /\ Consume(job[w].state)
  /\ Genuine(w)
  /\ GoOn(w, "subject")
  /\ UNCHANGED <<document, configVars, answers, accounts, sessions, raced, faults, edits>>

\* Whatever an OIDC provider may answer instead, once the transaction is claimed.
ClaimInVain(w) ==
  /\ At(w, "claim") /\ transactions[job[w].state].there
  /\ Claimable(job[w].state)
  /\ Consume(job[w].state)
  /\ job[w].provider \notin Saml
  /\ Over(w)
  /\ UNCHANGED <<document, configVars, answers, accounts, sessions, raced, faults, edits>>

\* The update is made and its answer lost.
ClaimUnheard(w) ==
  /\ At(w, "claim") /\ transactions[job[w].state].there
  /\ Claimable(job[w].state) /\ Fault
  /\ Consume(job[w].state)
  /\ Over(w)
  /\ UNCHANGED <<document, configVars, answers, accounts, sessions, raced, edits>>

ClaimRefused(w) ==
  /\ At(w, "claim") /\ transactions[job[w].state].there
  /\ Outcome(~Claimable(job[w].state))
  /\ Over(w)
  /\ UNCHANGED <<document, configVars, loginVars, edits>>

----------------------------------------------------------------------------
(* resolve_account() and create_session().                                 *)

Identity(w) == <<job[w].provider, job[w].answer.person>>
\* Mutant: the query names a field that neither the update nor the creation writes.
LinkedNowhere(id) == {}
Linked(id) == {a \in DOMAIN accounts : \E l \in DOMAIN accounts[a].links :
                                          accounts[a].links[l] = id}
Stored(a) == accounts[a].there

\* Addresses are looked up in lower case, as they are stored by whoever stored them.
Addressed(u) == {a \in DOMAIN accounts :
                   accounts[a].owner = u /\ accounts[a].found /\ Stored(a)}

Enter(w, a) ==
  sessions' = sessions \cup
    {[number |-> Cardinality(sessions), from |-> job[w].state,
      person |-> job[w].answer.person, account |-> a]}

SubjectFound(w) ==
  /\ At(w, "subject")
  /\ \E a \in Linked(Identity(w)) : Stored(a) /\ Enter(w, a)
  /\ Over(w)
  /\ UNCHANGED <<document, configVars, transactions, answers, accounts, raced, faults,
                 edits>>

Resolving(w) == job[w].at \in {"subject", "email", "create", "link"}
Rivals(w) == {v \in Worker \ {w} : Resolving(v) /\ Identity(v) = Identity(w)}

\* Not linked, or not answered: a new person, as far as the rest can tell.
SubjectMissing(w) ==
  /\ At(w, "subject")
  /\ Outcome(\A a \in Linked(Identity(w)) : ~Stored(a))
  /\ raced' = raced \cup (IF Rivals(w) = {} THEN {} ELSE {Identity(w)})
  /\ IF job[w].answer.person \notin job[w].allowed THEN Over(w)
     ELSE GoOn(w, IF job[w].answer.person \in Verified THEN "email" ELSE "create")
  /\ UNCHANGED <<document, configVars, transactions, answers, accounts, sessions,
                 edits>>

EmailFound(w) ==
  /\ At(w, "email")
  /\ \E a \in Addressed(job[w].answer.person) :
       job' = [job EXCEPT ![w] = [at |-> "link", provider |-> job[w].provider,
                 state |-> job[w].state, answer |-> job[w].answer, account |-> a]]
  /\ UNCHANGED <<document, configVars, loginVars, faults, edits>>

EmailMissing(w) ==
  /\ At(w, "email")
  /\ Outcome(Addressed(job[w].answer.person) = {})
  /\ GoOn(w, "create")
  /\ UNCHANGED <<document, configVars, loginVars, edits>>

\* $push; nobody looks at what the update returns, and the login goes on.
Link(w) ==
  /\ At(w, "link")
  /\ \E works \in BOOLEAN :
       /\ Outcome(works)
       /\ accounts' = [accounts EXCEPT ![job[w].account].links =
                         IF works THEN Append(@, Identity(w)) ELSE @]
  /\ Enter(w, job[w].account)
  /\ Over(w)
  /\ UNCHANGED <<document, configVars, transactions, answers, raced, edits>>

\* The address is stored as the identity provider spells it.
Create(w) ==
  /\ At(w, "create")
  /\ \E works \in BOOLEAN :
       /\ Outcome(works)
       /\ accounts' = Append(accounts,
            [owner |-> job[w].answer.person, there |-> works,
             found |-> job[w].answer.person \notin Shouted,
             links |-> <<Identity(w)>>])
  /\ Enter(w, Len(accounts) + 1)
  /\ Over(w)
  /\ UNCHANGED <<document, configVars, transactions, answers, raced, edits>>

----------------------------------------------------------------------------
WorkerStep(w) ==
  \/ Configured(w) \/ Unconfigured(w) \/ TransactionMissing(w)
  \/ Claim(w) \/ ClaimInVain(w) \/ ClaimUnheard(w) \/ ClaimRefused(w)
  \/ SubjectFound(w) \/ SubjectMissing(w) \/ EmailFound(w) \/ EmailMissing(w)
  \/ Link(w) \/ Create(w)

Next ==
  \/ \E d \in Document : Edit(d)
  \/ Reload
  \/ \E p \in Provider : BeginLogin(p)
  \/ \E t \in DOMAIN transactions, u \in Person : Authenticate(t, u)
  \/ \E w \in Worker, p \in Provider, s \in DOMAIN transactions, a \in answers :
       Callback(w, p, s, a)
  \/ \E w \in Worker : WorkerStep(w)

Spec == Init /\ [][Next]_vars
----------------------------------------------------------------------------
Transaction == [provider : Provider, there : BOOLEAN, consumed : BOOLEAN]
Answer == [asked : Nat, person : Person]
AccountDoc == [owner : Person, found : BOOLEAN, there : BOOLEAN, links : Seq(Provider \X Person)]

Job ==
  {Idle}
  \cup [at : {"configure"}, provider : Provider, state : Nat, answer : Answer]
  \cup [at : {"claim", "subject", "email", "create"}, provider : Provider, state : Nat,
        answer : Answer, allowed : SUBSET Person]
  \cup [at : {"link"}, provider : Provider, state : Nat, answer : Answer, account : Nat]

\* A callback is about a transaction and an answer that there are.
Refers(j) ==
  /\ j.at # "idle" => j.state \in DOMAIN transactions /\ j.answer \in answers
  /\ j.at = "link" => j.account \in DOMAIN accounts

\* Every variable keeps its shape.
TypeOK ==
  /\ document \in Document /\ hash \in Document /\ config \in Document
  /\ built \in [Provider -> Document \cup {None}]
  /\ reload \in {"idle", "build"}
  /\ transactions \in Seq(Transaction)
  /\ answers \subseteq Answer /\ \A a \in answers : a.asked \in DOMAIN transactions
  /\ accounts \in Seq(AccountDoc)
  /\ job \in [Worker -> Job] /\ \A w \in Worker : Refers(job[w])
  /\ faults \in 0 .. MaxFaults /\ edits \in 0 .. MaxEdits

\* A login is answered once and by whom it was asked of: however callbacks with
\* the same or each other's state overlap, at most one session comes of a
\* transaction, and its person was authenticated for that very transaction.
OneSession ==
  \A s, r \in sessions :
    /\ [asked |-> s.from, person |-> s.person] \in answers
    /\ s.from = r.from => s = r

\* Accounts do not pile up: the look-ups, the $push and the creation of
\* resolve_account() are separate calls, so a person who logs in twice at once may be
\* linked twice, but nobody else is, unless a call fails.
Entries(id) ==
  {e \in (DOMAIN accounts) \X (1 .. MaxLogins) :
     e[2] \in DOMAIN accounts[e[1]].links /\ accounts[e[1]].links[e[2]] = id}

LinksBounded ==
  \A p \in Provider, u \in Person :
    Cardinality(Entries(<<p, u>>)) <= 1 + faults \/ <<p, u>> \in raced

\* Except while reload_sso() is between its two critical sections, the providers
\* that serve logins are providers of the configuration in force, built from it,
\* and a SAML provider of it is never missing.
InStep ==
  reload # "build" =>
    /\ \A p \in Provider : built[p] \in {None, config}
    /\ {p \in Provider : built[p] # None} \subseteq config.providers
    /\ config.providers \cap Saml \subseteq {p \in Provider : built[p] # None}

----------------------------------------------------------------------------
(* The inductive invariant behind OneSession.                              *)

\* A transaction that was claimed is one worker's, or has its session already.
Claimed == {"subject", "email", "create", "link"}
ClaimInv ==
  /\ \A w \in Worker :
       job[w].at \in Claimed =>
         transactions[job[w].state].consumed /\ job[w].answer.asked = job[w].state
  /\ \A w, v \in Worker :
       job[w].at \in Claimed /\ job[v].at \in Claimed /\ job[w].state = job[v].state => w = v
  /\ \A s \in sessions : s.from \in DOMAIN transactions /\ transactions[s.from].consumed
  /\ \A s \in sessions, w \in Worker : job[w].at \in Claimed => s.from # job[w].state
=============================================================================
