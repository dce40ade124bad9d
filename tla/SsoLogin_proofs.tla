-------------------------- MODULE SsoLogin_proofs --------------------------
(***************************************************************************)
(* Proofs about SsoLogin: a login comes to one session, of the person who  *)
(* was authenticated for it, and the providers follow the configuration.   *)
(***************************************************************************)
EXTENDS SsoLogin, FiniteSetTheorems, SequenceTheorems, TLAPS

USE DEF Claimed

LEMMA WorkerType ==
  ASSUME TypeOK, NEW w \in Worker
  PROVE  job[w] \in Job /\ Refers(job[w])
BY DEF TypeOK

LEMMA TransactionTypes ==
  ASSUME TypeOK PROVE \A t \in DOMAIN transactions : transactions[t] \in Transaction
BY DEF TypeOK

LEMMA AccountTypes ==
  ASSUME TypeOK PROVE \A a \in DOMAIN accounts : accounts[a] \in AccountDoc
BY DEF TypeOK

----------------------------------------------------------------------------
(* Transactions, answers and accounts are only ever added.                 *)

TransactionsGrown ==
  /\ transactions' \in Seq(Transaction)
  /\ DOMAIN transactions \subseteq DOMAIN transactions'
  /\ \A t \in DOMAIN transactions : transactions[t].consumed => transactions'[t].consumed

AccountsGrown == accounts' \in Seq(AccountDoc) /\ DOMAIN accounts \subseteq DOMAIN accounts'

AnswersGrown ==
  /\ answers' \subseteq Answer /\ answers \subseteq answers'
  /\ \A a \in answers' : a.asked \in DOMAIN transactions'

Grown == TransactionsGrown /\ AccountsGrown /\ AnswersGrown

\* What claiming a transaction does to it.
LEMMA ConsumeChanges ==
  ASSUME TypeOK, NEW t \in DOMAIN transactions, Consume(t)
  PROVE  /\ TransactionsGrown
         /\ DOMAIN transactions' = DOMAIN transactions
         /\ transactions'[t].consumed
         /\ \A s \in DOMAIN transactions : s # t => transactions'[s] = transactions[s]
<1>1. [transactions[t] EXCEPT !.consumed = TRUE] \in Transaction
  BY TransactionTypes DEF Transaction
<1>2. transactions \in Seq(Transaction) /\ t \in 1..Len(transactions)
  BY DEF TypeOK
<1>3. transactions' = [transactions EXCEPT ![t] = [transactions[t] EXCEPT !.consumed = TRUE]]
  BY DEF Consume
<1>4. transactions' \in Seq(Transaction) /\ Len(transactions') = Len(transactions)
  BY <1>1, <1>2, <1>3, ExceptSeq
<1>5. DOMAIN transactions' = DOMAIN transactions
  BY <1>2, <1>4
<1>6. transactions'[t].consumed
  BY <1>3, TransactionTypes DEF Transaction
<1> QED
  BY <1>3, <1>4, <1>5, <1>6 DEF TransactionsGrown

LEMMA DocumentStep == TypeOK /\ [Next]_vars => Grown
<1> SUFFICES ASSUME TypeOK, [Next]_vars PROVE Grown
  OBVIOUS
<1> USE DEF configVars, loginVars
<1>0. /\ UNCHANGED transactions => TransactionsGrown
      /\ UNCHANGED accounts => AccountsGrown
      /\ UNCHANGED answers /\ TransactionsGrown => AnswersGrown
  BY DEF TransactionsGrown, AccountsGrown, AnswersGrown, TypeOK
<1>1. CASE UNCHANGED <<transactions, accounts, answers>>
  BY <1>0, <1>1 DEF Grown
<1>2. ASSUME NEW p \in Provider, BeginLogin(p) PROVE Grown
  <2>1. PICK works \in BOOLEAN : transactions' =
          Append(transactions, [provider |-> p, there |-> works, consumed |-> FALSE])
    BY <1>2 DEF BeginLogin
  <2>2. [provider |-> p, there |-> works, consumed |-> FALSE] \in Transaction
    BY DEF Transaction
  <2>3. TransactionsGrown
    BY <2>1, <2>2 DEF TransactionsGrown, TypeOK
  <2> QED
    BY <1>0, <1>2, <2>3 DEF Grown, BeginLogin
<1>3. ASSUME NEW t \in DOMAIN transactions, NEW u \in Person, Authenticate(t, u) PROVE Grown
  <2>1. t \in Nat
    BY DEF TypeOK
  <2>2. AnswersGrown
    BY <1>3, <2>1 DEF Authenticate, AnswersGrown, Answer, TypeOK
  <2> QED
    BY <1>0, <1>3, <2>2 DEF Grown, Authenticate
<1>4. ASSUME NEW w \in Worker, Claim(w) \/ ClaimInVain(w) \/ ClaimUnheard(w) PROVE Grown
  <2>1. job[w].state \in DOMAIN transactions
    BY <1>4, WorkerType DEF Claim, ClaimInVain, ClaimUnheard, At, Refers
  <2>2. TransactionsGrown
    BY <1>4, <2>1, ConsumeChanges DEF Claim, ClaimInVain, ClaimUnheard
  <2> QED
    BY <1>0, <1>4, <2>2 DEF Grown, Claim, ClaimInVain, ClaimUnheard
<1>5. ASSUME NEW w \in Worker, Link(w) PROVE Grown
  <2> DEFINE a == job[w].account
             id == Identity(w)
  <2>1. a \in DOMAIN accounts /\ id \in Provider \X Person
    <3>1. At(w, "link")
      BY <1>5 DEF Link
    <3>2. job[w].provider \in Provider /\ job[w].answer.person \in Person
      BY <3>1, WorkerType DEF At, Job, Idle, Answer
    <3> QED
      BY <3>1, <3>2, WorkerType DEF At, Refers, Identity
  <2>2. PICK works \in BOOLEAN :
          accounts' = [accounts EXCEPT ![a].links =
                         IF works THEN Append(accounts[a].links, id) ELSE accounts[a].links]
    BY <1>5 DEF Link
  <2> DEFINE links == IF works THEN Append(accounts[a].links, id) ELSE accounts[a].links
             doc == [accounts[a] EXCEPT !.links = links]
  <2>3. accounts[a] \in AccountDoc
    BY <2>1, AccountTypes
  <2>4. links \in Seq(Provider \X Person)
    BY <2>1, <2>3 DEF AccountDoc
  <2>5. doc \in AccountDoc
    BY <2>3, <2>4 DEF AccountDoc
  <2>6. accounts' = [accounts EXCEPT ![a] = doc]
    BY <2>2
  <2> HIDE DEF a, id, doc
  <2>7. accounts \in Seq(AccountDoc) /\ a \in 1..Len(accounts)
    BY <2>1 DEF TypeOK
  <2>8. accounts' \in Seq(AccountDoc) /\ Len(accounts') = Len(accounts)
    BY <2>5, <2>6, <2>7, ExceptSeq
  <2>9. AccountsGrown
    BY <2>7, <2>8 DEF AccountsGrown
  <2> QED
    BY <1>0, <1>5, <2>9 DEF Grown, Link
<1>6. ASSUME NEW w \in Worker, Create(w) PROVE Grown
  <2>1. job[w].provider \in Provider /\ job[w].answer.person \in Person
    BY <1>6, WorkerType DEF Create, At, Job, Idle, Answer
  <2>2. PICK works \in BOOLEAN : accounts' = Append(accounts,
          [owner |-> job[w].answer.person, there |-> works,
           found |-> job[w].answer.person \notin Shouted, links |-> <<Identity(w)>>])
    BY <1>6 DEF Create
  <2>3. <<Identity(w)>> \in Seq(Provider \X Person)
    BY <2>1 DEF Identity
  <2>4. [owner |-> job[w].answer.person, there |-> works,
         found |-> job[w].answer.person \notin Shouted, links |-> <<Identity(w)>>] \in AccountDoc
    BY <2>1, <2>3 DEF AccountDoc
  <2>5. AccountsGrown
    BY <2>2, <2>4, AppendProperties DEF AccountsGrown, TypeOK
  <2> QED
    BY <1>0, <1>6, <2>5 DEF Grown, Create
<1> QED
  BY <1>1, <1>2, <1>3, <1>4, <1>5, <1>6
  DEF Next, Edit, Reload, ReloadFails, ReloadKeepsLastGood, ReloadTakes, ReloadPublishes, Callback,
      WorkerStep, Configured, Unconfigured, TransactionMissing, ClaimRefused, SubjectFound,
      SubjectMissing, EmailFound, EmailMissing, vars

----------------------------------------------------------------------------
(* The callbacks.                                                          *)

JobsFit == job' \in [Worker -> Job] /\ \A w \in Worker : Refers(job[w])'

LEMMA OneJobChanges ==
  ASSUME TypeOK, Grown, NEW w \in Worker, NEW new \in Job, job' = [job EXCEPT ![w] = new],
         new.at # "idle" => new.state \in DOMAIN transactions /\ new.answer \in answers,
         new.at = "link" => new.account \in DOMAIN accounts
  PROVE  JobsFit /\ job'[w] = new /\ \A v \in Worker : v # w => job'[v] = job[v]
<1>1. job' \in [Worker -> Job] /\ job'[w] = new /\ \A v \in Worker : v # w => job'[v] = job[v]
  BY DEF TypeOK
<1>2. \A v \in Worker : Refers(job[v])'
  BY <1>1, WorkerType
  DEF Refers, Grown, TransactionsGrown, AccountsGrown, AnswersGrown
<1> QED
  BY <1>1, <1>2 DEF JobsFit

LEMMA JobsKept == ASSUME TypeOK, Grown, UNCHANGED job PROVE JobsFit
BY DEF JobsFit, TypeOK, Refers, Grown, TransactionsGrown, AccountsGrown, AnswersGrown

\* Going on with a callback keeps what it is about.
LEMMA JobGoesOn ==
  ASSUME TypeOK, Grown, NEW w \in Worker, NEW where \in {"subject", "email", "create"},
         job[w].at \in {"claim", "subject", "email"}, GoOn(w, where)
  PROVE  /\ JobsFit
         /\ job'[w].at = where /\ job'[w].state = job[w].state /\ job'[w].answer = job[w].answer
         /\ job'[w].provider = job[w].provider
         /\ \A v \in Worker : v # w => job'[v] = job[v]
<1> DEFINE new == [job[w] EXCEPT !.at = where]
<1>1. job[w] \in [at : {"claim", "subject", "email", "create"}, provider : Provider, state : Nat,
                  answer : Answer, allowed : SUBSET Person]
  BY WorkerType DEF Job, Idle
<1>2. /\ new \in Job
      /\ new.at = where /\ new.state = job[w].state /\ new.answer = job[w].answer
      /\ new.provider = job[w].provider
  BY <1>1 DEF Job
<1>3. new.state \in DOMAIN transactions /\ new.answer \in answers
  BY <1>2, WorkerType DEF Refers
<1>4. job' = [job EXCEPT ![w] = new]
  BY DEF GoOn
<1> HIDE DEF new
<1> QED
  BY <1>2, <1>3, <1>4, OneJobChanges

LEMMA JobOver ==
  ASSUME TypeOK, Grown, NEW w \in Worker, Over(w)
  PROVE  /\ JobsFit
         /\ job'[w].at = "idle" /\ \A v \in Worker : v # w => job'[v] = job[v]
<1>1. Idle \in Job /\ Idle.at = "idle"
  BY DEF Job, Idle
<1> QED
  BY <1>1, OneJobChanges DEF Over

LEMMA JobStep == TypeOK /\ Grown /\ [Next]_vars => JobsFit
<1> SUFFICES ASSUME TypeOK, Grown, [Next]_vars PROVE JobsFit
  OBVIOUS
<1>1. CASE UNCHANGED job
  BY <1>1, JobsKept
<1>2. ASSUME NEW w \in Worker, Over(w) PROVE JobsFit
  BY <1>2, JobOver
<1>3. ASSUME NEW w \in Worker, NEW p \in Provider, NEW s \in DOMAIN transactions,
             NEW a \in answers, Callback(w, p, s, a)
      PROVE  JobsFit
  <2> DEFINE new == [at |-> "configure", provider |-> p, state |-> s, answer |-> a]
  <2>1. new \in Job
    BY DEF Job, TypeOK
  <2>2. job' = [job EXCEPT ![w] = new] /\ new.state = s /\ new.answer = a /\ new.at = "configure"
    BY <1>3 DEF Callback
  <2> HIDE DEF new
  <2> QED
    BY <2>1, <2>2, OneJobChanges
<1>4. ASSUME NEW w \in Worker, Configured(w) PROVE JobsFit
  <2> DEFINE new == [at |-> "claim", provider |-> job[w].provider, state |-> job[w].state,
                     answer |-> job[w].answer, allowed |-> config.allowed]
  <2>1. job[w].at = "configure" /\ config.allowed \subseteq Person
    BY <1>4, LoginAssumption DEF Configured, At, TypeOK
  <2>2. job[w].provider \in Provider /\ job[w].state \in Nat /\ job[w].answer \in Answer
    BY <2>1, WorkerType DEF Job, Idle
  <2>3. new \in Job
    BY <2>1, <2>2 DEF Job
  <2>4. job' = [job EXCEPT ![w] = new]
    BY <1>4 DEF Configured
  <2>5. new.state \in DOMAIN transactions /\ new.answer \in answers /\ new.at = "claim"
    BY <2>1, WorkerType DEF Refers
  <2> HIDE DEF new
  <2> QED
    BY <2>3, <2>4, <2>5, OneJobChanges
<1>5. ASSUME NEW w \in Worker, Claim(w) \/ EmailMissing(w) PROVE JobsFit
  BY <1>5, JobGoesOn DEF Claim, EmailMissing, At
<1>6. ASSUME NEW w \in Worker, SubjectMissing(w) PROVE JobsFit
  <2>1. job[w].at = "subject"
    BY <1>6 DEF SubjectMissing, At
  <2>2. Over(w) \/ GoOn(w, "email") \/ GoOn(w, "create")
    BY <1>6 DEF SubjectMissing
  <2> QED
    BY <1>2, <2>1, <2>2, JobGoesOn
<1>7. ASSUME NEW w \in Worker, EmailFound(w) PROVE JobsFit
  <2>1. PICK a \in Addressed(job[w].answer.person) :
          job' = [job EXCEPT ![w] = [at |-> "link", provider |-> job[w].provider,
                    state |-> job[w].state, answer |-> job[w].answer, account |-> a]]
    BY <1>7 DEF EmailFound
  <2> DEFINE new == [at |-> "link", provider |-> job[w].provider, state |-> job[w].state,
                     answer |-> job[w].answer, account |-> a]
  <2>2. job[w].at = "email"
    BY <1>7 DEF EmailFound, At
  <2>3. job[w].provider \in Provider /\ job[w].state \in Nat /\ job[w].answer \in Answer
    BY <2>2, WorkerType DEF Job, Idle
  <2>4. a \in DOMAIN accounts /\ a \in Nat
    BY DEF Addressed, TypeOK
  <2>5. new \in Job
    BY <2>3, <2>4 DEF Job
  <2>6. new.state \in DOMAIN transactions /\ new.answer \in answers /\ new.account = a
    BY <2>2, WorkerType DEF Refers
  <2> HIDE DEF new
  <2> QED
    BY <2>1, <2>4, <2>5, <2>6, OneJobChanges DEF new
<1> QED
  BY <1>1, <1>2, <1>3, <1>4, <1>5, <1>6, <1>7
  DEF Next, Edit, Reload, ReloadFails, ReloadKeepsLastGood, ReloadTakes, ReloadPublishes,
      BeginLogin, Authenticate, WorkerStep, Unconfigured, TransactionMissing, ClaimInVain,
      ClaimUnheard, ClaimRefused, SubjectFound, Link, Create, vars

----------------------------------------------------------------------------
(* The types.                                                              *)

LEMMA InitType == Init => TypeOK
<1> SUFFICES ASSUME Init PROVE TypeOK
  OBVIOUS
<1>1. document \in Document /\ hash \in Document /\ config \in Document
  BY LoginAssumption DEF Init
<1>2. built \in [Provider -> Document \cup {None}]
  BY LoginAssumption DEF Init
<1>3. transactions \in Seq(Transaction) /\ answers = {}
  BY DEF Init
<1>4. accounts \in Seq(AccountDoc)
  <2> DEFINE doc(a) == [owner |-> Local[a], found |-> TRUE, there |-> TRUE, links |-> <<>>]
  <2>1. DOMAIN Local = 1..Len(Local) /\ Len(Local) \in Nat
    BY LoginAssumption
  <2>2. \A a \in 1..Len(Local) : doc(a) \in AccountDoc
    BY LoginAssumption DEF AccountDoc
  <2>3. accounts = [a \in 1..Len(Local) |-> doc(a)]
    BY <2>1 DEF Init
  <2> QED
    BY <2>1, <2>2, <2>3, IsASeq
<1>5. job \in [Worker -> Job] /\ \A w \in Worker : Refers(job[w])
  BY DEF Init, Job, Idle, Refers
<1>6. faults \in 0 .. MaxFaults /\ edits \in 0 .. MaxEdits /\ reload = "idle"
  BY LoginAssumption DEF Init
<1> QED
  BY <1>1, <1>2, <1>3, <1>4, <1>5, <1>6 DEF TypeOK

LEMMA ConfigStep ==
  ASSUME TypeOK, [Next]_vars
  PROVE  /\ document' \in Document /\ hash' \in Document /\ config' \in Document
         /\ built' \in [Provider -> Document \cup {None}]
         /\ reload' \in {"idle", "build"}
         /\ faults' \in 0 .. MaxFaults /\ edits' \in 0 .. MaxEdits
<1> USE DEF configVars, loginVars
<1>1. /\ document' \in Document /\ hash' \in Document /\ config' \in Document
      /\ built' \in [Provider -> Document \cup {None}]
      /\ reload' \in {"idle", "build"}
  <2>1. CASE UNCHANGED <<document, configVars>>
    BY <2>1 DEF TypeOK
  <2>2. ASSUME NEW d \in Document, Edit(d) PROVE UNCHANGED configVars /\ document' \in Document
    BY <2>2 DEF Edit
  <2>3. CASE ReloadKeepsLastGood \/ ReloadTakes
    BY <2>3 DEF ReloadKeepsLastGood, ReloadTakes, TypeOK
  <2>4. CASE ReloadPublishes
    BY <2>4 DEF ReloadPublishes, Publish, TypeOK
  <2> QED
    BY <2>1, <2>2, <2>3, <2>4
    DEF Next, Reload, ReloadFails, BeginLogin, Authenticate, Callback, WorkerStep, Configured,
        Unconfigured, TransactionMissing, Claim, ClaimInVain, ClaimUnheard, ClaimRefused,
        SubjectFound, SubjectMissing, EmailFound, EmailMissing, Link, Create, vars, TypeOK
<1>2. faults' \in 0 .. MaxFaults
  <2>1. ASSUME UNCHANGED faults \/ Fault PROVE faults' \in 0 .. MaxFaults
    BY <2>1, LoginAssumption DEF Fault, TypeOK
  <2> QED
    BY <2>1
    DEF Next, Edit, Reload, ReloadFails, ReloadKeepsLastGood, ReloadTakes, ReloadPublishes,
        BeginLogin, Authenticate, Callback, WorkerStep, Configured, Unconfigured,
        TransactionMissing, Claim, ClaimInVain, ClaimUnheard, ClaimRefused, SubjectFound,
        SubjectMissing, EmailFound, EmailMissing, Link, Create, Outcome, vars
<1>3. edits' \in 0 .. MaxEdits
  <2>1. CASE UNCHANGED edits
    BY <2>1 DEF TypeOK
  <2>2. ASSUME NEW d \in Document, Edit(d) PROVE edits' \in 0 .. MaxEdits
    BY <2>2, LoginAssumption DEF Edit, TypeOK
  <2> QED
    BY <2>1, <2>2
    DEF Next, Reload, ReloadFails, ReloadKeepsLastGood, ReloadTakes, ReloadPublishes,
        BeginLogin, Authenticate, Callback, WorkerStep, Configured, Unconfigured,
        TransactionMissing, Claim, ClaimInVain, ClaimUnheard, ClaimRefused, SubjectFound,
        SubjectMissing, EmailFound, EmailMissing, Link, Create, vars
<1> QED
  BY <1>1, <1>2, <1>3

LEMMA TypeStep == TypeOK /\ [Next]_vars => TypeOK'
<1> SUFFICES ASSUME TypeOK, [Next]_vars PROVE TypeOK'
  OBVIOUS
<1>1. Grown
  BY DocumentStep
<1>2. JobsFit
  BY <1>1, JobStep
<1> QED
  BY <1>1, <1>2, ConfigStep
  DEF TypeOK, Grown, TransactionsGrown, AccountsGrown, AnswersGrown, JobsFit

----------------------------------------------------------------------------
(* The life of a transaction: claimed once, answered once.                 *)

ClaimIInv == ClaimInv /\ OneSession

\* The steps that open no session: a job that is behind the claim was there, with
\* the same transaction and answer.
LEMMA ClaimKept ==
  ASSUME TypeOK, Grown, ClaimIInv, UNCHANGED sessions,
         \A w \in Worker : job'[w].at \in Claimed =>
           /\ job[w].at \in Claimed
           /\ job'[w].state = job[w].state /\ job'[w].answer = job[w].answer
  PROVE  ClaimIInv'
<1>1. \A w \in Worker : job[w].at \in Claimed => job[w].state \in DOMAIN transactions
  BY WorkerType DEF Refers
<1>2. ClaimInv'
  BY <1>1 DEF ClaimIInv, ClaimInv, Grown, TransactionsGrown
<1>3. OneSession'
  BY DEF ClaimIInv, OneSession, Grown, AnswersGrown
<1> QED
  BY <1>2, <1>3 DEF ClaimIInv

\* Of a claimed transaction comes a session, and the worker is done.
LEMMA ClaimAnswered ==
  ASSUME TypeOK, Grown, ClaimIInv, NEW w \in Worker, job[w].at \in Claimed,
         NEW a, Enter(w, a), Over(w), UNCHANGED <<transactions, answers>>
  PROVE  ClaimIInv'
<1> DEFINE new == [number |-> Cardinality(sessions), from |-> job[w].state,
                   person |-> job[w].answer.person, account |-> a]
<1>1. /\ sessions' = sessions \cup {new}
      /\ new.from = job[w].state /\ new.person = job[w].answer.person
  BY DEF Enter
<1>2. job'[w].at = "idle" /\ \A v \in Worker : v # w => job'[v] = job[v]
  BY JobOver
<1>3. /\ job[w].state \in DOMAIN transactions /\ transactions[job[w].state].consumed
      /\ [asked |-> job[w].state, person |-> job[w].answer.person] = job[w].answer
      /\ job[w].answer \in answers
  <2>1. job[w].state \in DOMAIN transactions /\ job[w].answer \in answers
    BY WorkerType DEF Refers
  <2>2. job[w].answer.asked = job[w].state /\ transactions[job[w].state].consumed
    BY DEF ClaimIInv, ClaimInv
  <2>3. job[w].answer \in Answer
    BY <2>1 DEF TypeOK
  <2> QED
    BY <2>1, <2>2, <2>3 DEF Answer
<1>4. \A s \in sessions : s.from # job[w].state
  BY DEF ClaimIInv, ClaimInv
<1>5. \A v \in Worker : v # w /\ job[v].at \in Claimed => job[v].state # job[w].state
  BY DEF ClaimIInv, ClaimInv
<1> HIDE DEF new
<1>6. ClaimInv'
  BY <1>1, <1>2, <1>3, <1>5 DEF ClaimIInv, ClaimInv
<1>7. OneSession'
  BY <1>1, <1>3, <1>4 DEF ClaimIInv, OneSession
<1> QED
  BY <1>6, <1>7 DEF ClaimIInv

LEMMA ClaimStep == TypeOK /\ ClaimIInv /\ [Next]_vars => ClaimIInv'
<1> SUFFICES ASSUME TypeOK, ClaimIInv, [Next]_vars PROVE ClaimIInv'
  OBVIOUS
<1> USE DEF configVars, loginVars
<1>0. Grown /\ job \in [Worker -> Job]
  BY DocumentStep DEF TypeOK
<1>1. CASE UNCHANGED <<sessions, job>>
  BY <1>0, <1>1, ClaimKept
<1>2. ASSUME NEW w \in Worker, Over(w), UNCHANGED sessions PROVE ClaimIInv'
  <2>1. job'[w].at = "idle" /\ \A v \in Worker : v # w => job'[v] = job[v]
    BY <1>0, <1>2, JobOver
  <2> QED
    BY <1>0, <1>2, <2>1, ClaimKept
<1>3. ASSUME NEW w \in Worker, NEW p \in Provider, NEW s \in DOMAIN transactions,
             NEW a \in answers, Callback(w, p, s, a)
      PROVE  ClaimIInv'
  BY <1>0, <1>3, ClaimKept DEF Callback
<1>4. ASSUME NEW w \in Worker, Configured(w) PROVE ClaimIInv'
  BY <1>0, <1>4, ClaimKept DEF Configured
<1>5. ASSUME NEW w \in Worker, Claim(w) PROVE ClaimIInv'
  <2>1. job[w].state \in DOMAIN transactions
    BY <1>5, WorkerType DEF Claim, At, Refers
  <2>2. /\ DOMAIN transactions' = DOMAIN transactions
        /\ transactions'[job[w].state].consumed
        /\ \A t \in DOMAIN transactions : t # job[w].state => transactions'[t] = transactions[t]
    BY <1>5, <2>1, ConsumeChanges DEF Claim
  <2>3. /\ job'[w].at = "subject" /\ job'[w].state = job[w].state
        /\ job'[w].answer = job[w].answer
        /\ \A v \in Worker : v # w => job'[v] = job[v]
    BY <1>0, <1>5, JobGoesOn DEF Claim, At
  <2>4. ~transactions[job[w].state].consumed /\ job[w].answer.asked = job[w].state
    BY <1>5 DEF Claim, Claimable, Genuine
  <2>5. \A v \in Worker : job[v].at \in Claimed =>
          job[v].state \in DOMAIN transactions /\ job[v].state # job[w].state
    BY <2>4, WorkerType DEF ClaimIInv, ClaimInv, Refers
  <2>6. \A s \in sessions : s.from # job[w].state
    BY <2>4 DEF ClaimIInv, ClaimInv
  <2>7. ClaimInv'
    BY <1>5, <2>2, <2>3, <2>4, <2>5, <2>6 DEF ClaimIInv, ClaimInv, Claim
  <2>8. OneSession'
    BY <1>5 DEF ClaimIInv, OneSession, Claim
  <2> QED
    BY <2>7, <2>8 DEF ClaimIInv
<1>6. ASSUME NEW w \in Worker, SubjectFound(w) PROVE ClaimIInv'
  BY <1>0, <1>6, ClaimAnswered DEF SubjectFound, At
<1>7. ASSUME NEW w \in Worker, SubjectMissing(w) PROVE ClaimIInv'
  <2>1. job[w].at = "subject" /\ UNCHANGED sessions
    BY <1>7 DEF SubjectMissing, At
  <2>2. Over(w) \/ GoOn(w, "email") \/ GoOn(w, "create")
    BY <1>7 DEF SubjectMissing
  <2>3. ASSUME NEW where \in {"email", "create"}, GoOn(w, where) PROVE ClaimIInv'
    <3>1. /\ job'[w].state = job[w].state /\ job'[w].answer = job[w].answer
          /\ \A v \in Worker : v # w => job'[v] = job[v]
      BY <1>0, <2>1, <2>3, JobGoesOn
    <3> QED
      BY <1>0, <2>1, <3>1, ClaimKept
  <2> QED
    BY <1>2, <2>1, <2>2, <2>3
<1>8. ASSUME NEW w \in Worker, EmailFound(w) PROVE ClaimIInv'
  BY <1>0, <1>8, ClaimKept DEF EmailFound, At
<1>9. ASSUME NEW w \in Worker, EmailMissing(w) PROVE ClaimIInv'
  <2>1. job[w].at = "email" /\ UNCHANGED sessions /\ GoOn(w, "create")
    BY <1>9 DEF EmailMissing, At
  <2>2. /\ job'[w].state = job[w].state /\ job'[w].answer = job[w].answer
        /\ \A v \in Worker : v # w => job'[v] = job[v]
    BY <1>0, <2>1, JobGoesOn
  <2> QED
    BY <1>0, <2>1, <2>2, ClaimKept
<1>10. ASSUME NEW w \in Worker, Link(w) PROVE ClaimIInv'
  BY <1>0, <1>10, ClaimAnswered DEF Link, At
<1>11. ASSUME NEW w \in Worker, Create(w) PROVE ClaimIInv'
  BY <1>0, <1>11, ClaimAnswered DEF Create, At
<1> QED
  <2>1. ASSUME NEW w \in Worker, WorkerStep(w) PROVE ClaimIInv'
    BY <2>1, <1>2, <1>4, <1>5, <1>6, <1>7, <1>8, <1>9, <1>10, <1>11
    DEF WorkerStep, Unconfigured, TransactionMissing, ClaimInVain, ClaimUnheard, ClaimRefused
  <2> QED
    BY <2>1, <1>1, <1>3
    DEF Next, Edit, Reload, ReloadFails, ReloadKeepsLastGood, ReloadTakes, ReloadPublishes,
        BeginLogin, Authenticate, vars

----------------------------------------------------------------------------
(* The links of an identity.                                               *)

\* A callback that has looked for the identity in vain and may yet write it.
Writing == {"email", "create", "link"}
Writes(w, id) == job[w].at \in Writing /\ Identity(w) = id

\* The identity leads to an account that the database has: the next look-up finds it.
Settled(id) == \E a \in Linked(id) : Stored(a)

\* Nobody writes an identity beside another, and what is written of one that is not
\* settled was paid for with a fault each.
LinksInv(id) ==
  \/ id \in raced
  \/ /\ \A w, v \in Worker : Writes(w, id) /\ Writes(v, id) => w = v
     /\ Cardinality(Entries(id)) <= 1 + faults
     /\ \/ Cardinality(Entries(id)) <= faults
        \/ Settled(id) /\ \A w \in Worker : ~Writes(w, id)

AllLinksInv ==
  /\ \A w \in Worker : job[w].at = "link" => Stored(job[w].account)
  /\ \A p \in Provider, u \in Person : LinksInv(<<p, u>>)

LEMMA EntriesFinite ==
  ASSUME TypeOK
  PROVE  \A id : IsFiniteSet(Entries(id)) /\ Cardinality(Entries(id)) \in Nat
<1> SUFFICES ASSUME NEW id
             PROVE  IsFiniteSet(Entries(id)) /\ Cardinality(Entries(id)) \in Nat
  OBVIOUS
<1>1. DOMAIN accounts = 1 .. Len(accounts) /\ Len(accounts) \in Nat /\ MaxLogins \in Nat
  BY LoginAssumption DEF TypeOK
<1>2. IsFiniteSet(DOMAIN accounts) /\ IsFiniteSet(1 .. MaxLogins)
  BY <1>1, FS_Interval
<1>3. IsFiniteSet((DOMAIN accounts) \X (1 .. MaxLogins))
  BY <1>2, FS_Product
<1>4. Entries(id) \in SUBSET ((DOMAIN accounts) \X (1 .. MaxLogins))
  BY DEF Entries
<1> QED
  BY <1>3, <1>4, FS_Subset, FS_CardinalityType

\* One entry more at most.
LEMMA CountGrows ==
  ASSUME NEW S, IsFiniteSet(S), NEW x, NEW T, T \subseteq S \cup {x}
  PROVE  Cardinality(T) \in Nat /\ Cardinality(T) <= Cardinality(S) + 1
<1>1. /\ IsFiniteSet(S \cup {x}) /\ Cardinality(S) \in Nat
      /\ Cardinality(S \cup {x}) \in {Cardinality(S), Cardinality(S) + 1}
  BY FS_AddElement, FS_CardinalityType
<1>2. IsFiniteSet(T) /\ Cardinality(T) <= Cardinality(S \cup {x})
  BY <1>1, FS_Subset
<1> QED
  BY <1>1, <1>2, FS_CardinalityType

LEMMA FaultsGrow == TypeOK /\ [Next]_vars => /\ faults \in Nat /\ faults' \in Nat
                                             /\ faults <= faults'
<1> SUFFICES ASSUME TypeOK, [Next]_vars
             PROVE  faults \in Nat /\ faults' \in Nat /\ faults <= faults'
  OBVIOUS
<1>1. ASSUME UNCHANGED faults \/ Fault
      PROVE  faults \in Nat /\ faults' \in Nat /\ faults <= faults'
  BY <1>1, LoginAssumption DEF Fault, TypeOK
<1> QED
  BY <1>1
  DEF Next, Edit, Reload, ReloadFails, ReloadKeepsLastGood, ReloadTakes, ReloadPublishes,
      BeginLogin, Authenticate, Callback, WorkerStep, Configured, Unconfigured,
      TransactionMissing, Claim, ClaimInVain, ClaimUnheard, ClaimRefused, SubjectFound,
      SubjectMissing, EmailFound, EmailMissing, Link, Create, Outcome, vars

\* The steps that write no link and after which no other callback may.
LEMMA LinksKept ==
  ASSUME TypeOK, [Next]_vars, AllLinksInv, UNCHANGED accounts, raced \subseteq raced',
         \A w \in Worker : job'[w].at \in Writing =>
           /\ job[w].at \in Writing
           /\ job'[w].provider = job[w].provider /\ job'[w].answer = job[w].answer
           /\ job'[w].at = "link" => Stored(job'[w].account)
  PROVE  AllLinksInv'
<1>1. faults \in Nat /\ faults' \in Nat /\ faults <= faults'
  BY FaultsGrow
<1>2. /\ \A id : Entries(id)' = Entries(id) /\ Settled(id)' = Settled(id)
      /\ \A a : Stored(a)' = Stored(a)
  BY DEF Entries, Settled, Linked, Stored
<1>3. \A w \in Worker : \A id : Writes(w, id)' => Writes(w, id)
  BY DEF Writes, Identity
<1>4. ASSUME NEW id, LinksInv(id) PROVE LinksInv(id)'
  BY <1>1, <1>2, <1>3, <1>4, EntriesFinite DEF LinksInv
<1>5. (\A w \in Worker : job[w].at = "link" => Stored(job[w].account))'
  BY <1>2 DEF Writing
<1> QED
  BY <1>4, <1>5 DEF AllLinksInv

\* What is written when a callback is the only one that may: one entry, of its identity.
LEMMA LinksWritten ==
  ASSUME TypeOK, [Next]_vars, AllLinksInv, UNCHANGED raced,
         NEW w \in Worker, job[w].at \in Writing, job'[w].at = "idle",
         \A v \in Worker : v # w => job'[v] = job[v],
         \A a \in DOMAIN accounts : Stored(a) => Stored(a)',
         DOMAIN accounts \subseteq DOMAIN accounts',
         NEW mine, mine = Identity(w), NEW x,
         \A id : id # mine => Entries(id)' \subseteq Entries(id),
         Entries(mine)' \subseteq Entries(mine) \cup {x},
         \A id : Settled(id) => Settled(id)',
         Settled(mine)' \/ faults' = faults + 1
  PROVE  AllLinksInv'
<1>1. faults \in Nat /\ faults' \in Nat /\ faults <= faults'
  BY FaultsGrow
<1>2. \A v \in Worker : \A id : Writes(v, id)' => v # w /\ Writes(v, id)
  BY DEF Writes, Identity, Writing
<1>3. (\A v \in Worker : job[v].at = "link" => Stored(job[v].account))'
  BY WorkerType DEF AllLinksInv, Refers
<1>4. ASSUME NEW id, id # mine, LinksInv(id) PROVE LinksInv(id)'
  <2>1. PICK n, m : n = Cardinality(Entries(id)) /\ m = Cardinality(Entries(id)')
    OBVIOUS
  <2>2. n \in Nat /\ m \in Nat /\ m <= n
    BY <1>4, <2>1, EntriesFinite, FS_Subset, FS_CardinalityType
  <2> QED
    BY <1>1, <1>2, <1>4, <2>1, <2>2 DEF LinksInv
<1>5. ASSUME LinksInv(mine) PROVE LinksInv(mine)'
  <2>1. PICK S, T : S = Entries(mine) /\ T = Entries(mine)'
    OBVIOUS
  <2>2. IsFiniteSet(S) /\ T \subseteq S \cup {x}
    BY <2>1, EntriesFinite
  <2>3. /\ Cardinality(S) \in Nat /\ Cardinality(T) \in Nat
        /\ Cardinality(T) <= Cardinality(S) + 1
    BY <2>2, CountGrows, FS_CardinalityType
  <2>4. CASE mine \in raced
    BY <2>4 DEF LinksInv
  <2>5. CASE mine \notin raced
    <3>1. Writes(w, mine)
      BY DEF Writes
    <3>2. Cardinality(S) <= faults /\ \A v \in Worker : ~Writes(v, mine)'
      BY <1>2, <1>5, <2>1, <2>5, <3>1 DEF LinksInv
    <3>3. Cardinality(T) <= 1 + faults' /\ (Cardinality(T) <= faults' \/ Settled(mine)')
      BY <1>1, <2>3, <3>2
    <3> QED
      BY <2>1, <3>2, <3>3 DEF LinksInv
  <2> QED
    BY <2>4, <2>5
<1> QED
  BY <1>3, <1>4, <1>5 DEF AllLinksInv

LEMMA LinksStep == TypeOK /\ AllLinksInv /\ [Next]_vars => AllLinksInv'
<1> SUFFICES ASSUME TypeOK, AllLinksInv, [Next]_vars PROVE AllLinksInv'
  OBVIOUS
<1> USE DEF configVars, loginVars
<1>0. Grown /\ job \in [Worker -> Job]
  BY DocumentStep DEF TypeOK
<1>1. CASE UNCHANGED <<accounts, raced, job>>
  BY <1>1, LinksKept DEF AllLinksInv
<1>2. ASSUME NEW w \in Worker, UNCHANGED <<accounts, raced>>, job'[w].at \notin Writing,
             \A v \in Worker : v # w => job'[v] = job[v]
      PROVE  AllLinksInv'
  BY <1>2, LinksKept DEF AllLinksInv
<1>3. ASSUME NEW w \in Worker, UNCHANGED <<accounts, raced>>, Over(w) PROVE AllLinksInv'
  BY <1>0, <1>2, <1>3, JobOver DEF Writing
<1>4. ASSUME NEW w \in Worker, NEW p \in Provider, NEW s \in DOMAIN transactions,
             NEW a \in answers, Callback(w, p, s, a)
      PROVE  AllLinksInv'
  BY <1>0, <1>2, <1>4 DEF Callback, Writing
<1>5. ASSUME NEW w \in Worker, Configured(w) PROVE AllLinksInv'
  BY <1>0, <1>2, <1>5 DEF Configured, Writing
<1>6. ASSUME NEW w \in Worker, Claim(w) PROVE AllLinksInv'
  BY <1>0, <1>2, <1>6, JobGoesOn DEF Claim, At, Writing
<1>7. ASSUME NEW w \in Worker, SubjectMissing(w) PROVE AllLinksInv'
  <2>1. PICK mine : mine = Identity(w)
    OBVIOUS
  <2>2. /\ job[w].at = "subject" /\ UNCHANGED accounts
        /\ \/ ~Settled(mine) \/ faults' = faults + 1
        /\ raced \subseteq raced'
        /\ mine \notin raced' => Rivals(w) = {}
    BY <1>7, <2>1 DEF SubjectMissing, At, Outcome, Fault, Settled
  <2>3. /\ \A v \in Worker : v # w => job'[v] = job[v]
        /\ \/ job'[w].at = "idle"
           \/ /\ job'[w].at \in {"email", "create"}
              /\ job'[w].provider = job[w].provider /\ job'[w].answer = job[w].answer
    <3>1. Over(w) \/ GoOn(w, "email") \/ GoOn(w, "create")
      BY <1>7 DEF SubjectMissing
    <3> QED
      BY <1>0, <2>2, <3>1, JobOver, JobGoesOn
  <2>4. /\ \A id : Entries(id)' = Entries(id) /\ Settled(id)' = Settled(id)
        /\ \A a : Stored(a)' = Stored(a)
    BY <2>2 DEF Entries, Settled, Linked, Stored
  <2>5. (\A v \in Worker : job[v].at = "link" => Stored(job[v].account))'
    BY <2>3, <2>4 DEF AllLinksInv
  <2>6. faults \in Nat /\ faults' \in Nat /\ faults <= faults'
    BY FaultsGrow
  <2>7. ASSUME NEW id, id # mine, LinksInv(id) PROVE LinksInv(id)'
    <3>1. \A v \in Worker : Writes(v, id)' => Writes(v, id)
      BY <2>1, <2>3, <2>7 DEF Writes, Identity, Writing
    <3> QED
      BY <2>2, <2>4, <2>6, <2>7, <3>1, EntriesFinite DEF LinksInv
  <2>8. ASSUME LinksInv(mine), mine \notin raced' PROVE LinksInv(mine)'
    <3>1. \A v \in Worker : Writes(v, mine)' => v = w
      BY <2>1, <2>2, <2>3, <2>8 DEF Writes, Identity, Writing, Rivals, Resolving
    <3>2. Cardinality(Entries(mine)) <= faults'
      BY <2>2, <2>6, <2>8, EntriesFinite DEF LinksInv
    <3> QED
      BY <2>4, <2>6, <3>1, <3>2, EntriesFinite DEF LinksInv
  <2>9. LinksInv(mine)' \/ ~LinksInv(mine)
    BY <2>8 DEF LinksInv
  <2> QED
    BY <2>5, <2>7, <2>9 DEF AllLinksInv
<1>8. ASSUME NEW w \in Worker, EmailFound(w) PROVE AllLinksInv'
  <2>1. PICK a \in Addressed(job[w].answer.person) :
          job' = [job EXCEPT ![w] = [at |-> "link", provider |-> job[w].provider,
                    state |-> job[w].state, answer |-> job[w].answer, account |-> a]]
    BY <1>8 DEF EmailFound
  <2>2. job[w].at \in Writing /\ UNCHANGED <<accounts, raced>> /\ Stored(a)
    BY <1>8 DEF EmailFound, At, Writing, Addressed
  <2>3. /\ job'[w].account = a
        /\ job'[w].provider = job[w].provider /\ job'[w].answer = job[w].answer
        /\ \A v \in Worker : v # w => job'[v] = job[v]
    BY <1>0, <2>1
  <2> QED
    BY <2>2, <2>3, LinksKept DEF AllLinksInv
<1>9. ASSUME NEW w \in Worker, EmailMissing(w) PROVE AllLinksInv'
  <2>1. /\ job[w].at \in Writing /\ job'[w].at = "create"
        /\ job'[w].provider = job[w].provider /\ job'[w].answer = job[w].answer
        /\ \A v \in Worker : v # w => job'[v] = job[v]
    BY <1>0, <1>9, JobGoesOn DEF EmailMissing, At, Writing
  <2>2. UNCHANGED <<accounts, raced>>
    BY <1>9 DEF EmailMissing
  <2> QED
    BY <2>1, <2>2, LinksKept DEF AllLinksInv
<1>10. ASSUME NEW w \in Worker, Link(w) PROVE AllLinksInv'
  <2>1. PICK mine, a : mine = Identity(w) /\ a = job[w].account
    OBVIOUS
  <2>2. PICK works \in BOOLEAN :
          /\ Outcome(works)
          /\ accounts' = [accounts EXCEPT ![a].links =
               IF works THEN Append(accounts[a].links, mine) ELSE accounts[a].links]
    BY <1>10, <2>1 DEF Link
  <2>3. job[w].at = "link" /\ Over(w) /\ UNCHANGED raced
    BY <1>10 DEF Link, At
  <2>4. job'[w].at = "idle" /\ \A v \in Worker : v # w => job'[v] = job[v]
    BY <1>0, <2>3, JobOver
  <2>5. a \in DOMAIN accounts /\ Stored(a)
    BY <2>1, <2>3, WorkerType DEF AllLinksInv, Refers
  <2>6. accounts[a] \in AccountDoc /\ accounts[a].links \in Seq(Provider \X Person)
    BY <2>5, AccountTypes DEF AccountDoc
  <2>7. PICK old, last : old = accounts[a].links /\ last = Len(old) + 1
    OBVIOUS
  <2>8. /\ DOMAIN accounts' = DOMAIN accounts
        /\ \A b \in DOMAIN accounts : b # a => accounts'[b] = accounts[b]
        /\ accounts'[a].links = IF works THEN Append(old, mine) ELSE old
        /\ accounts'[a].there = accounts[a].there
    BY <2>2, <2>5, <2>6, <2>7 DEF AccountDoc, TypeOK
  <2>9. /\ DOMAIN old \subseteq DOMAIN accounts'[a].links
        /\ DOMAIN accounts'[a].links \subseteq DOMAIN old \cup {last}
        /\ \A l \in DOMAIN old : accounts'[a].links[l] = old[l]
        /\ last \in DOMAIN accounts'[a].links => accounts'[a].links[last] = mine
        /\ works => last \in DOMAIN accounts'[a].links
    BY <2>6, <2>7, <2>8
  <2>10. \A id : Entries(id)' \subseteq Entries(id) \cup (IF id = mine THEN {<<a, last>>} ELSE {})
    <3> SUFFICES ASSUME NEW id, NEW b, NEW l, <<b, l>> \in Entries(id)', <<b, l>> \notin Entries(id)
                 PROVE  id = mine /\ b = a /\ l = last
      BY DEF Entries
    <3>1. /\ b \in DOMAIN accounts' /\ l \in 1 .. MaxLogins
          /\ l \in DOMAIN accounts'[b].links /\ accounts'[b].links[l] = id
      BY DEF Entries
    <3>2. ~(b \in DOMAIN accounts /\ l \in DOMAIN accounts[b].links /\ accounts[b].links[l] = id)
      BY <3>1 DEF Entries
    <3>3. b = a
      BY <2>8, <3>1, <3>2
    <3>4. l = last
      BY <2>5, <2>7, <2>9, <3>1, <3>2, <3>3
    <3> QED
      BY <2>9, <3>1, <3>3, <3>4
  <2>11. /\ \A id : \A b \in Linked(id) : b \in Linked(id)'
         /\ \A b \in DOMAIN accounts : Stored(b)' = Stored(b)
         /\ works => a \in Linked(mine)'
    BY <2>5, <2>7, <2>8, <2>9 DEF Linked, Stored
  <2>12. \A id : Settled(id) => Settled(id)'
    BY <2>11 DEF Settled, Linked
  <2>13. Settled(mine)' \/ faults' = faults + 1
    BY <2>2, <2>5, <2>11 DEF Settled, Outcome, Fault
  <2> QED
    BY <2>1, <2>3, <2>4, <2>8, <2>10, <2>11, <2>12, <2>13, LinksWritten DEF Writing
<1>11. ASSUME NEW w \in Worker, Create(w) PROVE AllLinksInv'
  <2>1. PICK mine, last : mine = Identity(w) /\ last = Len(accounts) + 1
    OBVIOUS
  <2>2. PICK works, new :
          /\ works \in BOOLEAN /\ Outcome(works) /\ accounts' = Append(accounts, new)
          /\ new.there = works /\ new.links = <<mine>>
    BY <1>11, <2>1 DEF Create
  <2>3. job[w].at = "create" /\ Over(w) /\ UNCHANGED raced
    BY <1>11 DEF Create, At
  <2>4. job'[w].at = "idle" /\ \A v \in Worker : v # w => job'[v] = job[v]
    BY <1>0, <2>3, JobOver
  <2>5. /\ DOMAIN accounts' = DOMAIN accounts \cup {last} /\ last \notin DOMAIN accounts
        /\ \A b \in DOMAIN accounts : accounts'[b] = accounts[b]
        /\ accounts'[last].there = works
        /\ DOMAIN accounts'[last].links = {1} /\ accounts'[last].links[1] = mine
    BY <2>1, <2>2 DEF TypeOK
  <2>6. \A id : Entries(id)' \subseteq Entries(id) \cup (IF id = mine THEN {<<last, 1>>} ELSE {})
    BY <2>5 DEF Entries
  <2>7. /\ \A id : \A b \in Linked(id) : b \in Linked(id)'
        /\ \A b \in DOMAIN accounts : Stored(b)' = Stored(b)
        /\ last \in Linked(mine)' /\ Stored(last)' = works
    BY <2>5 DEF Linked, Stored
  <2>8. \A id : Settled(id) => Settled(id)'
    BY <2>7 DEF Settled, Linked
  <2>9. Settled(mine)' \/ faults' = faults + 1
    BY <2>2, <2>7 DEF Settled, Outcome, Fault
  <2> QED
    BY <2>1, <2>3, <2>4, <2>5, <2>6, <2>7, <2>8, <2>9, LinksWritten DEF Writing
<1> QED
  <2>1. ASSUME NEW w \in Worker, SubjectFound(w) \/ Unconfigured(w) \/ TransactionMissing(w)
                 \/ ClaimInVain(w) \/ ClaimUnheard(w) \/ ClaimRefused(w)
        PROVE  AllLinksInv'
    BY <2>1, <1>3
    DEF SubjectFound, Unconfigured, TransactionMissing, ClaimInVain, ClaimUnheard, ClaimRefused
  <2>2. ASSUME NEW w \in Worker, WorkerStep(w) PROVE AllLinksInv'
    BY <2>1, <2>2, <1>5, <1>6, <1>7, <1>8, <1>9, <1>10, <1>11 DEF WorkerStep
  <2>3. CASE Reload
    BY <2>3, <1>1
    DEF Reload, ReloadFails, ReloadKeepsLastGood, ReloadTakes, ReloadPublishes
  <2> QED
    BY <2>2, <2>3, <1>1, <1>4 DEF Next, Edit, BeginLogin, Authenticate, vars

----------------------------------------------------------------------------
(* The providers and the configuration.                                    *)

LEMMA InStepStep == TypeOK /\ InStep /\ [Next]_vars => InStep'
<1> SUFFICES ASSUME TypeOK, InStep, [Next]_vars PROVE InStep'
  OBVIOUS
<1> USE DEF configVars, loginVars
<1>1. CASE UNCHANGED <<config, built, reload>>
  BY <1>1 DEF InStep
<1>2. CASE ReloadTakes
  BY <1>2 DEF ReloadTakes, InStep
<1>3. CASE ReloadPublishes
  <2>1. PICK ready \in SUBSET config.providers :
          /\ config.providers \cap Saml \subseteq ready
          /\ built' = [p \in Provider |-> IF p \in ready THEN config ELSE None]
    BY <1>3 DEF ReloadPublishes, Publish
  <2>2. config.providers \subseteq Provider /\ config # None /\ config' = config
    BY <1>3, LoginAssumption DEF ReloadPublishes, TypeOK
  <2>3. \A p \in Provider : (built'[p] # None) = (p \in ready)
    BY <2>1, <2>2
  <2> QED
    BY <2>1, <2>2, <2>3 DEF InStep
<1> QED
  BY <1>1, <1>2, <1>3
  DEF Next, Edit, Reload, ReloadFails, ReloadKeepsLastGood, BeginLogin, Authenticate, Callback,
      WorkerStep, Configured, Unconfigured, TransactionMissing, Claim, ClaimInVain, ClaimUnheard,
      ClaimRefused, SubjectFound, SubjectMissing, EmailFound, EmailMissing, Link, Create, vars

----------------------------------------------------------------------------
\* The types of every variable.
THEOREM TypeCorrect == Spec => []TypeOK
<1> QED
  BY InitType, TypeStep, PTL DEF Spec

\* sso_oidc.cpp:160: whatever the providers, persons and workers, a
\* transaction comes to one session at most, its person's.
THEOREM LoginAnsweredOnce == Spec => []OneSession
<1>1. Init => ClaimIInv
  BY DEF Init, ClaimIInv, ClaimInv, OneSession, Idle
<1>2. TypeOK /\ ClaimIInv /\ [Next]_vars => ClaimIInv'
  BY ClaimStep
<1>3. ClaimIInv => OneSession
  BY DEF ClaimIInv
<1> QED
  BY <1>1, <1>2, <1>3, TypeCorrect, PTL DEF Spec

\* sso_provisioning.cpp:94: however many callbacks overlap and whatever fails, an identity is
\* linked once, once more for each call that failed, or its callbacks raced.
THEOREM LinksAreBounded == Spec => []LinksBounded
<1>1. Init => AllLinksInv
  <2> SUFFICES ASSUME Init PROVE AllLinksInv
    OBVIOUS
  <2>1. \A id : Entries(id) = {}
    BY LoginAssumption DEF Init, Entries
  <2>2. \A w \in Worker : job[w].at = "idle" /\ faults = 0
    BY DEF Init, Idle
  <2>3. faults = 0
    BY DEF Init
  <2> QED
    BY <2>1, <2>2, <2>3, FS_EmptySet DEF AllLinksInv, LinksInv, Writes, Writing
<1>2. TypeOK /\ AllLinksInv /\ [Next]_vars => AllLinksInv'
  BY LinksStep
<1>3. AllLinksInv => LinksBounded
  BY DEF AllLinksInv, LinksInv, LinksBounded
<1> QED
  BY <1>1, <1>2, <1>3, TypeCorrect, PTL DEF Spec

\* webservice.cpp:2307: but for the moment between its critical sections
\* the providers in use are those of the configuration in force.
THEOREM ProvidersInStep == Spec => []InStep
<1>1. Init => InStep
  BY LoginAssumption DEF Init, InStep
<1>2. TypeOK /\ InStep /\ [Next]_vars => InStep'
  BY InStepStep
<1> QED
  BY <1>1, <1>2, TypeCorrect, PTL DEF Spec
============================================================================
