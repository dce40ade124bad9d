------------------------- MODULE WsDbServer_proofs -------------------------
(***************************************************************************)
(* Proofs about WsDbServer, for every set of agents and of requests and in *)
(* every mode.  The inductive invariant is IInv.  Its parts are taken one  *)
(* at a time, each over the steps of the workers, of the reactor, of       *)
(* svc(), of close() and of the agents; the lemmas on quiet steps say once *)
(* which of those steps a part does not notice at all.                     *)
(***************************************************************************)
EXTENDS WsDbServer, TLAPS

----------------------------------------------------------------------------
(* Quiet steps. *)

\* Only five steps outside dispatch() touch a call, a frame or an execution.
LEMMA QuietForCalls ==
  ASSUME SvcStep \/ Reactor \/ Close \/ Agent
  PROVE  /\ ~aborted
         /\ \/ UNCHANGED <<callVars, sent, replies, runs>>
            \/ \E m \in replies : ReplyArrives(m)
            \/ SessionFailsAll
            \/ CloseFailsAll
            \/ \E f \in sent : AgentServes(f)
<1> USE DEF callVars, linkVars, svcVars, mainVars, netVars
<1>1. CASE Reactor BY <1>1 DEF Reactor, AgentAccepted, AgentEvicts
<1>2. CASE Close BY <1>2 DEF Close, CloseStarts, CloseNotifies, CloseShuts, CloseJoins,
                             CloseFailsAll
<1>3. CASE Agent BY <1>3 DEF Agent, AgentServes, AgentChokes, AgentLeaves
<1>4. CASE SvcStep
  <2>1. CASE \/ SvcWake \/ SvcWaits \/ SvcSleeps \/ SvcListens \/ SvcAcceptFails
             \/ UpgradeStarts \/ UpgradeSucceeds
    BY <2>1 DEF SvcWake, SvcWaits, SvcSleeps, SvcListens, SvcAcceptFails, UpgradeStarts,
                UpgradeSucceeds
  <2>2. CASE (\E c \in Conn : SvcAccepts(c)) \/ UpgradeFails
    BY <2>2 DEF SvcAccepts, UpgradeFails
  <2>3. CASE \/ SetupSkipped \/ SetupCreates \/ HandshakeSucceeds \/ HandshakeFails
             \/ HandshakeAborts
    BY <2>3 DEF SetupSkipped, SetupCreates, HandshakeSucceeds, HandshakeFails, HandshakeAborts
  <2>4. CASE DropConnected \/ DropStream \/ DropHandle
    BY <2>4 DEF DropConnected, DropStream, DropHandle
  <2>5. CASE \/ SessionReads \/ SessionEnds \/ PingArrives \/ StreamEnds \/ ForeignBytes
             \/ RecvAborts
    BY <2>5 DEF SessionReads, SessionEnds, PingArrives, StreamEnds, ForeignBytes, RecvAborts
  <2>6. CASE Teardown \/ TeardownCloses
    BY <2>6 DEF Teardown, TeardownCloses
  <2>7. CASE SessionFailsAll BY <2>7 DEF SessionFailsAll
  <2>8. ASSUME NEW m \in replies, ReplyArrives(m) PROVE ~aborted BY <2>8 DEF ReplyArrives
  <2>9. QED BY <1>4, <2>1, <2>2, <2>3, <2>4, <2>5, <2>6, <2>7, <2>8 DEF SvcStep
<1>5. QED BY <1>1, <1>2, <1>3, <1>4

\* dispatch() leaves the connection and the other threads where they are.
LEMMA QuietForLink ==
  ASSUME NEW r \in Req, DispatchStep(r)
  PROVE  UNCHANGED <<linkVars, svcVars, mainVars, sock, agent>>
BY DEF DispatchStep, DispatchRefused, DispatchStart, Register, ChoosePath, TlsNotReady,
      TlsReady, TlsSend, TlsSendLost, TlsSendMisreported, TlsSendFailed, TlsSendAborts,
      RawSend, RawSendFailed, Answered, DispatchTimeout, Return, Goto, callVars, linkVars,
      svcVars, mainVars, netVars

\* Agents leave everything on the server's side alone.
LEMMA QuietAgent ==
  ASSUME Agent
  PROVE  UNCHANGED <<callVars, linkVars, svcVars, mainVars, sock>>
BY DEF Agent, AgentServes, AgentChokes, AgentLeaves, callVars, linkVars, svcVars, mainVars, netVars

----------------------------------------------------------------------------
(* Type correctness. *)

LEMMA InitIInv == Init => IInv
<1> SUFFICES ASSUME Init PROVE IInv OBVIOUS
<1> USE DEF Init
<1>1. TypeOK BY DEF TypeOK, SvcIdle
<1>2. ExecutionInv BY DEF ExecutionInv
<1>3. CallInv BY DEF CallInv, InFlight
<1>4. SessionInv BY ConnAssumption DEF SessionInv, InSession, Stranded
<1>5. NoSleepBesideAgent BY DEF NoSleepBesideAgent
<1>6. MtlsInv BY DEF MtlsInv, OneOpenSocket
<1>7. QED BY <1>1, <1>2, <1>3, <1>4, <1>5, <1>6 DEF IInv

\* A step of dispatch() keeps the types.
LEMMA TypeDispatch ==
  ASSUME TypeOK, NEW r \in Req, DispatchStep(r)
  PROVE  TypeOK'
<1> USE DEF TypeOK, callVars, linkVars, svcVars, mainVars, netVars
<1>1. CASE DispatchRefused(r) BY <1>1 DEF DispatchRefused, Return, Goto
<1>2. CASE DispatchStart(r) BY <1>2 DEF DispatchStart, Goto
<1>3. CASE Register(r) BY <1>3 DEF Register, Goto
<1>4. CASE ChoosePath(r) BY <1>4 DEF ChoosePath, Goto
<1>5. CASE TlsNotReady(r) BY <1>5 DEF TlsNotReady, Return, Goto
<1>6. CASE TlsReady(r) BY <1>6 DEF TlsReady, Goto
<1>7. CASE TlsSend(r) BY <1>7 DEF TlsSend, Goto, Writable, Frame
<1>8. CASE TlsSendLost(r) BY <1>8 DEF TlsSendLost, Goto
<1>9. CASE TlsSendMisreported(r) BY <1>9 DEF TlsSendMisreported, Return, Goto, Writable, Frame
<1>10. CASE TlsSendFailed(r) BY <1>10 DEF TlsSendFailed, Return, Goto
<1>11. CASE TlsSendAborts(r) BY <1>11 DEF TlsSendAborts
<1>12. CASE RawSend(r) BY <1>12 DEF RawSend, Goto, Writable, Frame
<1>13. CASE RawSendFailed(r) BY <1>13 DEF RawSendFailed, Return, Goto
<1>14. CASE Answered(r) BY <1>14 DEF Answered, Return, Goto
<1>15. CASE DispatchTimeout(r) BY <1>15 DEF DispatchTimeout, Return, Goto
<1>16. QED BY <1>1, <1>2, <1>3, <1>4, <1>5, <1>6, <1>7, <1>8, <1>9, <1>10, <1>11, <1>12,
      <1>13, <1>14, <1>15 DEF DispatchStep

\* A step of svc() keeps the types.
LEMMA TypeSvc ==
  ASSUME TypeOK, SvcStep
  PROVE  TypeOK'
<1> USE DEF TypeOK, callVars, linkVars, svcVars, mainVars, netVars, SvcIdle, SvcSetup,
      SvcSession
<1>1. CASE SvcWake BY <1>1 DEF SvcWake
<1>2. CASE SvcWaits BY <1>2 DEF SvcWaits
<1>3. CASE SvcSleeps BY <1>3 DEF SvcSleeps
<1>4. CASE SvcListens BY <1>4 DEF SvcListens
<1>5. CASE \E c \in Conn : SvcAccepts(c) BY <1>5 DEF SvcAccepts
<1>6. CASE SvcAcceptFails BY <1>6 DEF SvcAcceptFails
<1>7. CASE UpgradeStarts BY <1>7 DEF UpgradeStarts, Writable
<1>8. CASE UpgradeSucceeds BY <1>8 DEF UpgradeSucceeds, Writable
<1>9. CASE UpgradeFails BY <1>9 DEF UpgradeFails, CloseStream
<1>10. CASE SetupSkipped BY <1>10 DEF SetupSkipped
<1>11. CASE SetupCreates BY <1>11 DEF SetupCreates
<1>12. CASE HandshakeSucceeds BY <1>12 DEF HandshakeSucceeds, Writable
<1>13. CASE HandshakeFails BY <1>13 DEF HandshakeFails
<1>14. CASE HandshakeAborts BY <1>14 DEF HandshakeAborts
<1>15. CASE DropConnected BY <1>15 DEF DropConnected
<1>16. CASE DropStream BY <1>16 DEF DropStream, CloseStream
<1>17. CASE DropHandle BY <1>17 DEF DropHandle
<1>18. CASE SessionReads BY <1>18 DEF SessionReads
<1>19. CASE SessionEnds BY <1>19 DEF SessionEnds
<1>20. CASE \E m \in replies : ReplyArrives(m) BY <1>20 DEF ReplyArrives, Reply
<1>21. CASE PingArrives BY <1>21 DEF PingArrives, Reading
<1>22. CASE StreamEnds BY <1>22 DEF StreamEnds, Reading
<1>23. CASE ForeignBytes BY <1>23 DEF ForeignBytes
<1>24. CASE RecvAborts BY <1>24 DEF RecvAborts
<1>25. CASE Teardown BY <1>25 DEF Teardown
<1>26. CASE TeardownCloses BY <1>26 DEF TeardownCloses, CloseStream
<1>27. CASE SessionFailsAll BY <1>27 DEF SessionFailsAll, FailAllPending
<1>28. QED BY <1>1, <1>2, <1>3, <1>4, <1>5, <1>6, <1>7, <1>8, <1>9, <1>10, <1>11, <1>12,
      <1>13, <1>14, <1>15, <1>16, <1>17, <1>18, <1>19, <1>20, <1>21, <1>22, <1>23, <1>24,
      <1>25, <1>26, <1>27 DEF SvcStep

\* A step of close() keeps the types.
LEMMA TypeClose ==
  ASSUME TypeOK, Close
  PROVE  TypeOK'
<1> USE DEF TypeOK, callVars, linkVars, svcVars, mainVars, netVars, SvcIdle
<1>1. CASE CloseStarts BY <1>1 DEF CloseStarts
<1>2. CASE CloseNotifies BY <1>2 DEF CloseNotifies
<1>3. CASE CloseShuts BY <1>3 DEF CloseShuts, Shutdown
<1>4. CASE CloseFailsAll BY <1>4 DEF CloseFailsAll, FailAllPending
<1>5. CASE CloseJoins BY <1>5 DEF CloseJoins
<1>6. QED BY <1>1, <1>2, <1>3, <1>4, <1>5 DEF Close

\* A step of the reactor or of an agent keeps the types.
LEMMA TypeRest ==
  ASSUME TypeOK, Reactor \/ Agent
  PROVE  TypeOK'
<1> USE DEF TypeOK, callVars, linkVars, svcVars, mainVars, netVars
<1>1. ASSUME NEW c \in Conn, AgentAccepted(c) PROVE TypeOK'
  BY <1>1 DEF AgentAccepted, SvcIdle
<1>2. ASSUME NEW c \in Conn, AgentEvicts(c) PROVE TypeOK'
  BY <1>2 DEF AgentEvicts, Shutdown
<1>3. ASSUME NEW f \in sent, AgentServes(f) PROVE TypeOK'
  BY <1>3 DEF AgentServes, Frame, Reply
<1>4. ASSUME NEW f \in sent, AgentChokes(f) PROVE TypeOK'
  BY <1>4 DEF AgentChokes, Frame
<1>5. ASSUME NEW c \in Conn, AgentLeaves(c) PROVE TypeOK'
  BY <1>5 DEF AgentLeaves
<1>6. QED BY <1>1, <1>2, <1>3, <1>4, <1>5 DEF Reactor, Agent

LEMMA TypeStep ==
  ASSUME TypeOK, [Next]_vars
  PROVE  TypeOK'
<1>1. CASE UNCHANGED vars
  BY <1>1 DEF TypeOK, vars, callVars, linkVars, svcVars, mainVars, netVars
<1>2. CASE Next BY <1>2, TypeDispatch, TypeSvc, TypeClose, TypeRest DEF Next
<1>3. QED BY <1>1, <1>2

\* Every variable always has its type.
THEOREM TypeCorrect == Spec => []TypeOK
<1>1. Init => TypeOK BY InitIInv DEF IInv
<1>2. TypeOK /\ [Next]_vars => TypeOK' BY TypeStep
<1>3. QED BY <1>1, <1>2, PTL DEF Spec

----------------------------------------------------------------------------
(* Calls and executions. *)

\* dispatch() keeps m_pending to the calls that are in it.
LEMMA CallDispatch ==
  ASSUME TypeOK, CallInv, NEW r \in Req, DispatchStep(r)
  PROVE  CallInv'
<1> USE DEF TypeOK, CallInv, InFlight, callVars, linkVars, svcVars, mainVars, netVars
<1>1. CASE DispatchRefused(r) BY <1>1 DEF DispatchRefused, Return, Goto
<1>2. CASE DispatchStart(r) BY <1>2 DEF DispatchStart, Goto
<1>3. CASE Register(r) BY <1>3 DEF Register, Goto
<1>4. CASE ChoosePath(r) BY <1>4 DEF ChoosePath, Goto
<1>5. CASE TlsNotReady(r) BY <1>5 DEF TlsNotReady, Return, Goto
<1>6. CASE TlsReady(r) BY <1>6 DEF TlsReady, Goto
<1>7. CASE TlsSend(r) BY <1>7 DEF TlsSend, Goto, Writable
<1>8. CASE TlsSendLost(r) BY <1>8 DEF TlsSendLost, Goto
<1>9. CASE TlsSendMisreported(r) BY <1>9 DEF TlsSendMisreported, Return, Goto, Writable
<1>10. CASE TlsSendFailed(r) BY <1>10 DEF TlsSendFailed, Return, Goto
<1>11. CASE TlsSendAborts(r) BY <1>11 DEF TlsSendAborts
<1>12. CASE RawSend(r) BY <1>12 DEF RawSend, Goto, Writable
<1>13. CASE RawSendFailed(r) BY <1>13 DEF RawSendFailed, Return, Goto
<1>14. CASE Answered(r) BY <1>14 DEF Answered, Return, Goto
<1>15. CASE DispatchTimeout(r) BY <1>15 DEF DispatchTimeout, Return, Goto
<1>16. QED BY <1>1, <1>2, <1>3, <1>4, <1>5, <1>6, <1>7, <1>8, <1>9, <1>10, <1>11, <1>12,
      <1>13, <1>14, <1>15 DEF DispatchStep

\* dispatch() sends a request once, before anything can have executed it, and
\* returns an answer only if an answer came.
LEMMA ExecutionDispatch ==
  ASSUME TypeOK, CallInv, ExecutionInv, NEW r \in Req, DispatchStep(r)
  PROVE  ExecutionInv'
<1> USE DEF TypeOK, CallInv, ExecutionInv, InFlight, Unsent, callVars, linkVars, svcVars,
      mainVars, netVars
<1>1. CASE DispatchRefused(r) BY <1>1 DEF DispatchRefused, Return, Goto
<1>2. CASE DispatchStart(r) BY <1>2 DEF DispatchStart, Goto
<1>3. CASE Register(r) BY <1>3 DEF Register, Goto
<1>4. CASE ChoosePath(r) BY <1>4 DEF ChoosePath, Goto
<1>5. CASE TlsNotReady(r) BY <1>5 DEF TlsNotReady, Return, Goto
<1>6. CASE TlsReady(r) BY <1>6 DEF TlsReady, Goto
<1>7. CASE TlsSend(r) BY <1>7 DEF TlsSend, Goto, Writable
<1>8. CASE TlsSendLost(r) BY <1>8 DEF TlsSendLost, Goto
<1>9. CASE TlsSendMisreported(r) BY <1>9 DEF TlsSendMisreported, Return, Goto, Writable
<1>10. CASE TlsSendFailed(r) BY <1>10 DEF TlsSendFailed, Return, Goto
<1>11. CASE TlsSendAborts(r) BY <1>11 DEF TlsSendAborts
<1>12. CASE RawSend(r) BY <1>12 DEF RawSend, Goto, Writable
<1>13. CASE RawSendFailed(r) BY <1>13 DEF RawSendFailed, Return, Goto
<1>14. CASE Answered(r) BY <1>14 DEF Answered, Return, Goto
<1>15. CASE DispatchTimeout(r) BY <1>15 DEF DispatchTimeout, Return, Goto
<1>16. QED BY <1>1, <1>2, <1>3, <1>4, <1>5, <1>6, <1>7, <1>8, <1>9, <1>10, <1>11, <1>12,
      <1>13, <1>14, <1>15 DEF DispatchStep

\* The other threads keep both: an answer is handed over once it is there,
\* fail_all_pending() answers whoever it removes from m_pending, and an agent
\* that executes a request takes its frame away.
LEMMA CallRest ==
  ASSUME TypeOK, CallInv, ExecutionInv, SvcStep \/ Reactor \/ Close \/ Agent
  PROVE  CallInv' /\ ExecutionInv'
<1> USE DEF TypeOK, CallInv, ExecutionInv, InFlight, Unsent, callVars, linkVars, svcVars, mainVars, netVars
<1>1. CASE UNCHANGED <<callVars, sent, replies, runs>> BY <1>1
<1>2. ASSUME NEW m \in replies, ReplyArrives(m) PROVE CallInv' /\ ExecutionInv'
  BY <1>2 DEF ReplyArrives, Reply
<1>3. CASE SessionFailsAll BY <1>3 DEF SessionFailsAll, FailAllPending
<1>4. CASE CloseFailsAll BY <1>4 DEF CloseFailsAll, FailAllPending
<1>5. ASSUME NEW f \in sent, AgentServes(f) PROVE CallInv' /\ ExecutionInv'
  BY <1>5 DEF AgentServes, Frame, Reply
<1>6. QED BY <1>1, <1>2, <1>3, <1>4, <1>5, QuietForCalls

LEMMA CallStep ==
  ASSUME TypeOK, CallInv, ExecutionInv, [Next]_vars
  PROVE  CallInv' /\ ExecutionInv'
<1>1. CASE UNCHANGED vars
  BY <1>1 DEF CallInv, ExecutionInv, vars, callVars, netVars
<1>2. CASE Next BY <1>2, CallDispatch, ExecutionDispatch, CallRest DEF Next
<1>3. QED BY <1>1, <1>2

----------------------------------------------------------------------------
(* Sessions. *)

\* A request goes out encrypted in a session only, and waits for that session.
LEMMA SessionDispatch ==
  ASSUME TypeOK, SessionInv, NEW r \in Req, DispatchStep(r)
  PROVE  SessionInv'
<1> USE DEF TypeOK, SessionInv, InSession, Stranded, SvcIdle, SvcSetup, SvcSession,
      callVars, linkVars, svcVars, mainVars, netVars, Unsent
<1>1. CASE DispatchRefused(r) BY <1>1 DEF DispatchRefused, Return, Goto
<1>2. CASE DispatchStart(r) BY <1>2 DEF DispatchStart, Goto
<1>3. CASE Register(r) BY <1>3 DEF Register, Goto
<1>4. CASE ChoosePath(r) BY <1>4 DEF ChoosePath, Goto
<1>5. CASE TlsNotReady(r) BY <1>5 DEF TlsNotReady, Return, Goto
<1>6. CASE TlsReady(r) BY <1>6 DEF TlsReady, Goto
<1>7. CASE TlsSend(r) BY <1>7 DEF TlsSend, Goto, Writable
<1>8. CASE TlsSendLost(r) BY <1>8 DEF TlsSendLost, Goto
<1>9. CASE TlsSendMisreported(r) BY <1>9 DEF TlsSendMisreported, Return, Goto, Writable
<1>10. CASE TlsSendFailed(r) BY <1>10 DEF TlsSendFailed, Return, Goto
<1>11. CASE TlsSendAborts(r) BY <1>11 DEF TlsSendAborts
<1>12. CASE RawSend(r) BY <1>12 DEF RawSend, Goto, Writable
<1>13. CASE RawSendFailed(r) BY <1>13 DEF RawSendFailed, Return, Goto
<1>14. CASE Answered(r) BY <1>14 DEF Answered, Return, Goto
<1>15. CASE DispatchTimeout(r) BY <1>15 DEF DispatchTimeout, Return, Goto
<1>16. QED BY <1>1, <1>2, <1>3, <1>4, <1>5, <1>6, <1>7, <1>8, <1>9, <1>10, <1>11, <1>12,
      <1>13, <1>14, <1>15 DEF DispatchStep

\* A session starts when no caller waits for an older one, and is over when
\* fail_all_pending() has answered all its callers.
LEMMA SessionSvc ==
  ASSUME TypeOK, CallInv, SessionInv, SvcStep
  PROVE  SessionInv'
<1> USE DEF TypeOK, SessionInv, InSession, Stranded, SvcIdle, SvcSetup, SvcSession,
      callVars, linkVars, svcVars, mainVars, netVars, CallInv, InFlight, Unsent
<1>1. CASE SvcWake BY <1>1 DEF SvcWake
<1>2. CASE SvcWaits BY <1>2 DEF SvcWaits
<1>3. CASE SvcSleeps BY <1>3 DEF SvcSleeps
<1>4. CASE SvcListens BY <1>4 DEF SvcListens
<1>5. CASE \E c \in Conn : SvcAccepts(c) BY <1>5 DEF SvcAccepts
<1>6. CASE SvcAcceptFails BY <1>6 DEF SvcAcceptFails
<1>7. CASE UpgradeStarts BY <1>7 DEF UpgradeStarts, Writable
<1>8. CASE UpgradeSucceeds BY <1>8 DEF UpgradeSucceeds, Writable
<1>9. CASE UpgradeFails BY <1>9 DEF UpgradeFails, CloseStream
<1>10. CASE SetupSkipped BY <1>10 DEF SetupSkipped
<1>11. CASE SetupCreates BY <1>11, ConnAssumption DEF SetupCreates
<1>12. CASE HandshakeSucceeds BY <1>12 DEF HandshakeSucceeds, Writable
<1>13. CASE HandshakeFails BY <1>13, ConnAssumption DEF HandshakeFails
<1>14. CASE HandshakeAborts BY <1>14 DEF HandshakeAborts
<1>15. CASE DropConnected BY <1>15 DEF DropConnected
<1>16. CASE DropStream BY <1>16 DEF DropStream, CloseStream
<1>17. CASE DropHandle BY <1>17 DEF DropHandle
<1>18. CASE SessionReads BY <1>18 DEF SessionReads
<1>19. CASE SessionEnds BY <1>19 DEF SessionEnds
<1>20. CASE \E m \in replies : ReplyArrives(m) BY <1>20 DEF ReplyArrives
<1>21. CASE PingArrives BY <1>21 DEF PingArrives, Reading
<1>22. CASE StreamEnds BY <1>22 DEF StreamEnds, Reading
<1>23. CASE ForeignBytes BY <1>23 DEF ForeignBytes
<1>24. CASE RecvAborts BY <1>24 DEF RecvAborts
<1>25. CASE Teardown BY <1>25, ConnAssumption DEF Teardown
<1>26. CASE TeardownCloses BY <1>26 DEF TeardownCloses, CloseStream
<1>27. CASE SessionFailsAll BY <1>27 DEF SessionFailsAll, FailAllPending
<1>28. QED BY <1>1, <1>2, <1>3, <1>4, <1>5, <1>6, <1>7, <1>8, <1>9, <1>10, <1>11, <1>12,
      <1>13, <1>14, <1>15, <1>16, <1>17, <1>18, <1>19, <1>20, <1>21, <1>22, <1>23, <1>24,
      <1>25, <1>26, <1>27 DEF SvcStep

\* close() ends the session under its callers' feet, which they survive; the
\* reactor and the agents do not start or end one.
LEMMA SessionRest ==
  ASSUME TypeOK, SessionInv, Reactor \/ Close \/ Agent
  PROVE  SessionInv'
<1> USE DEF TypeOK, SessionInv, InSession, Stranded, SvcIdle, SvcSession, Unsent,
            callVars, linkVars, svcVars, mainVars, netVars
<1>1. ASSUME NEW c \in Conn, AgentAccepted(c) \/ AgentEvicts(c) PROVE SessionInv'
  BY <1>1 DEF AgentAccepted, AgentEvicts
<1>2. CASE CloseStarts BY <1>2, ConnAssumption DEF CloseStarts
<1>3. CASE CloseNotifies BY <1>3 DEF CloseNotifies
<1>4. CASE CloseShuts \/ CloseJoins BY <1>4 DEF CloseShuts, CloseJoins
<1>5. CASE CloseFailsAll BY <1>5 DEF CloseFailsAll, FailAllPending
<1>6. CASE Agent BY <1>6, QuietAgent
<1>7. QED BY <1>1, <1>2, <1>3, <1>4, <1>5, <1>6 DEF Reactor, Close

LEMMA SessionStep ==
  ASSUME TypeOK, CallInv, SessionInv, [Next]_vars
  PROVE  SessionInv'
<1>1. CASE UNCHANGED vars
  BY <1>1 DEF SessionInv, InSession, Stranded, Unsent, vars, callVars, linkVars, svcVars
<1>2. CASE Next BY <1>2, SessionDispatch, SessionSvc, SessionRest DEF Next
<1>3. QED BY <1>1, <1>2

----------------------------------------------------------------------------
(* The connection. *)

\* svc() checks m_connected and goes to sleep in one go, and in mTLS mode it
\* closes a socket before it accepts another.
LEMMA LinkSvc ==
  ASSUME TypeOK, NoSleepBesideAgent, MtlsInv, SvcStep
  PROVE  NoSleepBesideAgent' /\ MtlsInv'
<1> USE DEF TypeOK, NoSleepBesideAgent, MtlsInv, OneOpenSocket, callVars, linkVars,
      svcVars, mainVars, netVars
<1>1. CASE SvcWake BY <1>1 DEF SvcWake
<1>2. CASE SvcWaits BY <1>2 DEF SvcWaits
<1>3. CASE SvcSleeps BY <1>3 DEF SvcSleeps
<1>4. CASE SvcListens BY <1>4 DEF SvcListens
<1>5. CASE \E c \in Conn : SvcAccepts(c) BY <1>5, ConnAssumption DEF SvcAccepts
<1>6. CASE SvcAcceptFails BY <1>6 DEF SvcAcceptFails
<1>7. CASE UpgradeStarts BY <1>7 DEF UpgradeStarts, Writable
<1>8. CASE UpgradeSucceeds BY <1>8 DEF UpgradeSucceeds, Writable
<1>9. CASE UpgradeFails BY <1>9 DEF UpgradeFails, CloseStream
<1>10. CASE SetupSkipped BY <1>10 DEF SetupSkipped
<1>11. CASE SetupCreates BY <1>11 DEF SetupCreates
<1>12. CASE HandshakeSucceeds BY <1>12 DEF HandshakeSucceeds, Writable
<1>13. CASE HandshakeFails BY <1>13 DEF HandshakeFails
<1>14. CASE HandshakeAborts BY <1>14 DEF HandshakeAborts
<1>15. CASE DropConnected BY <1>15 DEF DropConnected
<1>16. CASE DropStream BY <1>16 DEF DropStream, CloseStream
<1>17. CASE DropHandle BY <1>17 DEF DropHandle
<1>18. CASE SessionReads BY <1>18 DEF SessionReads
<1>19. CASE SessionEnds BY <1>19 DEF SessionEnds
<1>20. CASE \E m \in replies : ReplyArrives(m) BY <1>20 DEF ReplyArrives
<1>21. CASE PingArrives BY <1>21 DEF PingArrives, Reading
<1>22. CASE StreamEnds BY <1>22 DEF StreamEnds, Reading
<1>23. CASE ForeignBytes BY <1>23 DEF ForeignBytes
<1>24. CASE RecvAborts BY <1>24 DEF RecvAborts
<1>25. CASE Teardown BY <1>25 DEF Teardown
<1>26. CASE TeardownCloses BY <1>26 DEF TeardownCloses, CloseStream
<1>27. CASE SessionFailsAll BY <1>27 DEF SessionFailsAll, FailAllPending
<1>28. QED BY <1>1, <1>2, <1>3, <1>4, <1>5, <1>6, <1>7, <1>8, <1>9, <1>10, <1>11, <1>12,
      <1>13, <1>14, <1>15, <1>16, <1>17, <1>18, <1>19, <1>20, <1>21, <1>22, <1>23, <1>24,
      <1>25, <1>26, <1>27 DEF SvcStep

\* The reactor wakes svc() with the agent it hands over, and accepts none in
\* mTLS mode; nobody else connects an agent or opens a socket.
LEMMA LinkRest ==
  ASSUME TypeOK, NoSleepBesideAgent, MtlsInv,
         Reactor \/ Close \/ Agent \/ \E r \in Req : DispatchStep(r)
  PROVE  NoSleepBesideAgent' /\ MtlsInv'
<1> USE DEF TypeOK, NoSleepBesideAgent, MtlsInv, OneOpenSocket, ConnectMuHeld,
            callVars, linkVars, svcVars, mainVars, netVars
<1>1. ASSUME NEW c \in Conn, AgentAccepted(c) \/ AgentEvicts(c)
      PROVE  NoSleepBesideAgent' /\ MtlsInv'
  BY <1>1 DEF AgentAccepted, AgentEvicts
<1>2. CASE Close
  BY <1>2 DEF Close, CloseStarts, CloseNotifies, CloseShuts, CloseFailsAll, CloseJoins, Shutdown
<1>3. CASE Agent BY <1>3, QuietAgent
<1>4. ASSUME NEW r \in Req, DispatchStep(r) PROVE NoSleepBesideAgent' /\ MtlsInv'
  BY <1>4, QuietForLink
<1>5. QED BY <1>1, <1>2, <1>3, <1>4 DEF Reactor

LEMMA LinkStep ==
  ASSUME TypeOK, NoSleepBesideAgent, MtlsInv, [Next]_vars
  PROVE  NoSleepBesideAgent' /\ MtlsInv'
<1>1. CASE UNCHANGED vars
  BY <1>1 DEF NoSleepBesideAgent, MtlsInv, OneOpenSocket, vars, linkVars, svcVars, netVars
<1>2. CASE Next BY <1>2, LinkSvc, LinkRest DEF Next
<1>3. QED BY <1>1, <1>2

----------------------------------------------------------------------------
(* The invariant, and what it says. *)

LEMMA IInvStep == IInv /\ [Next]_vars => IInv'
BY TypeStep, CallStep, SessionStep, LinkStep DEF IInv

\* The parts of the invariant hold together, in every reachable state.
THEOREM Invariance == Spec => []IInv
BY InitIInv, IInvStep, PTL DEF Spec

\* A caller whose wait has not been ended is still in m_pending, and nobody
\* stays there after dispatch() returned.
THEOREM WaitersKept == Spec => []NoLostWaiter
<1>1. IInv => NoLostWaiter
  BY DEF IInv, CallInv, NoLostWaiter, Stranded, InFlight
<1>2. QED BY <1>1, Invariance, PTL

\* A call that went out encrypted is waited for only in the session that
\* encrypted it.
THEOREM CallersKeepTheirSession == Spec => []InSession
<1>1. IInv => InSession BY DEF IInv, SessionInv
<1>2. QED BY <1>1, Invariance, PTL

\* svc() never sleeps beside a connected agent.
THEOREM AgentWakesSvc == Spec => []NoSleepBesideAgent
<1>1. IInv => NoSleepBesideAgent BY DEF IInv
<1>2. QED BY <1>1, Invariance, PTL

\* In mTLS mode one agent socket is open at a time.
THEOREM MtlsServesOneAgent == ASSUME Mtls PROVE Spec => []OneOpenSocket
<1>1. IInv => OneOpenSocket BY Mtls DEF IInv, MtlsInv
<1>2. QED BY <1>1, Invariance, PTL

----------------------------------------------------------------------------
(* dispatch() implements DbCall. *)

\* How far each call is, before and after a step.
LEMMA Outcomes ==
  ASSUME NEW r \in Req
  PROVE  /\ pc[r] = "idle" => Outcome(r) = "idle"
         /\ pc[r] = "done" /\ result[r] = "noAgent" => Outcome(r) = "refused"
         /\ pc[r] = "done" /\ result[r] = "reply" => Outcome(r) = "answered"
         /\ pc[r] = "done" /\ result[r] \notin {"noAgent", "reply"} => Outcome(r) = "failed"
         /\ pc[r] \notin {"idle", "done"} => Outcome(r) = "inflight"
         /\ pc'[r] = "idle" => Outcome(r)' = "idle"
         /\ pc'[r] = "done" /\ result'[r] = "noAgent" => Outcome(r)' = "refused"
         /\ pc'[r] = "done" /\ result'[r] = "reply" => Outcome(r)' = "answered"
         /\ pc'[r] = "done" /\ result'[r] \notin {"noAgent", "reply"} => Outcome(r)' = "failed"
         /\ pc'[r] \notin {"idle", "done"} => Outcome(r)' = "inflight"
         /\ pc'[r] = pc[r] /\ result'[r] = result[r] => Outcome(r)' = Outcome(r)
BY DEF Outcome

\* A step that moves one call only is a step of DbCall's call.
LEMMA MoveOne ==
  ASSUME NEW r \in Req, NEW from, NEW to,
         ~aborted, aborted' = aborted, runs' = runs,
         Outcome(r) = from, Outcome(r)' = to,
         \A q \in Req \ {r} : pc'[q] = pc[q] /\ result'[q] = result[q]
  PROVE  Call!Move(r, from, to)
<1>1. \A q \in Req : Outcome(q)' = IF q = r THEN to ELSE Outcome(q)
  BY Outcomes
<1>2. [q \in Req |-> Outcome(q)]' = [[q \in Req |-> Outcome(q)] EXCEPT ![r] = to]
  BY <1>1
<1>3. QED BY <1>2 DEF Call!Move

\* Nothing of it is seen when pc[r] moves on inside dispatch(), or not at all.
LEMMA StutterOne ==
  ASSUME \A q \in Req : \/ pc'[q] = pc[q] /\ result'[q] = result[q]
                        \/ pc[q] \notin {"idle", "done"} /\ pc'[q] \notin {"idle", "done"},
         runs' = runs, aborted' = aborted
  PROVE  UNCHANGED Call!callVars
<1>1. \A q \in Req : Outcome(q)' = Outcome(q) BY Outcomes
<1>2. [q \in Req |-> Outcome(q)]' = [q \in Req |-> Outcome(q)] BY <1>1
<1>3. QED BY <1>2 DEF Call!callVars

\* dispatch(): refused, begun, on its way, failed or answered.
LEMMA RefineDispatch ==
  ASSUME IInv, NEW r \in Req, DispatchStep(r)
  PROVE  [Call!DbNext]_Call!callVars
<1> USE DEF IInv, TypeOK, CallInv, callVars, netVars
<1>1. CASE DispatchRefused(r)
  <2>1. Call!Move(r, "idle", "refused")
    BY <1>1, MoveOne, Outcomes DEF DispatchRefused, Return, Goto
  <2>2. QED BY <2>1 DEF Call!DbNext, Call!Refuse
<1>2. CASE DispatchStart(r)
  <2>1. Call!Move(r, "idle", "inflight")
    BY <1>2, MoveOne, Outcomes DEF DispatchStart, Goto
  <2>2. QED BY <2>1 DEF Call!DbNext, Call!Begin
<1>3. CASE \/ Register(r) \/ ChoosePath(r) \/ TlsReady(r)
           \/ TlsSend(r) \/ TlsSendLost(r) \/ RawSend(r)
  BY <1>3, StutterOne DEF Register, ChoosePath, TlsReady, TlsSend, TlsSendLost, RawSend, Goto
<1>4. CASE \/ TlsNotReady(r) \/ TlsSendMisreported(r) \/ TlsSendFailed(r)
           \/ RawSendFailed(r) \/ DispatchTimeout(r)
  <2>1. Call!Move(r, "inflight", "failed")
    BY <1>4, MoveOne, Outcomes
       DEF TlsNotReady, TlsSendMisreported, TlsSendFailed, RawSendFailed, DispatchTimeout, Return, Goto
  <2>2. QED BY <2>1 DEF Call!DbNext, Call!Fail
<1>5. CASE Answered(r)
  <2>1. CASE slot[r] = "reply"
    <3>1. Call!Move(r, "inflight", "answered")
      BY <1>5, <2>1, MoveOne, Outcomes DEF Answered, Return, Goto
    <3>2. runs[r] = 1 BY <2>1 DEF ExecutionInv
    <3>3. QED BY <3>1, <3>2 DEF Call!DbNext, Call!Answer
  <2>2. CASE slot[r] # "reply"
    <3>1. Call!Move(r, "inflight", "failed")
      BY <1>5, <2>2, MoveOne, Outcomes DEF Answered, Return, Goto
    <3>2. QED BY <3>1 DEF Call!DbNext, Call!Fail
  <2>3. QED BY <2>1, <2>2
<1>6. CASE TlsSendAborts(r)
  <2>1. [q \in Req |-> Outcome(q)]' = [q \in Req |-> Outcome(q)]
    BY <1>6, Outcomes DEF TlsSendAborts
  <2>2. QED BY <1>6, <2>1 DEF TlsSendAborts, Call!DbNext, Call!Die
<1>7. QED BY <1>1, <1>2, <1>3, <1>4, <1>5, <1>6 DEF DispatchStep

\* The agent executes a request that was sent and is not answered yet; the
\* rest is invisible, or the death of the process.
LEMMA RefineRest ==
  ASSUME IInv, SvcStep \/ Reactor \/ Close \/ Agent
  PROVE  [Call!DbNext]_Call!callVars
<1> USE DEF IInv, TypeOK
<1>1. ASSUME NEW f \in sent, AgentServes(f) PROVE [Call!DbNext]_Call!callVars
  <2> DEFINE r == f.req
  <2>1. r \in Req /\ runs[r] = 0 BY DEF Frame, ExecutionInv
  <2>2. pc[r] \notin Unsent /\ result[r] \notin {"noAgent", "reply"}
    BY <2>1 DEF ExecutionInv
  <2>3. Outcome(r) \in {"inflight", "failed"}
    BY <2>1, <2>2, Outcomes DEF Unsent
  <2>4. [q \in Req |-> Outcome(q)]' = [q \in Req |-> Outcome(q)]
    BY <1>1, Outcomes DEF AgentServes, callVars
  <2>5. runs' = [runs EXCEPT ![r] = 1] /\ ~aborted /\ aborted' = aborted
    BY <1>1, <2>1 DEF AgentServes
  <2>6. Call!Execute(r)
    BY <2>1, <2>3, <2>4, <2>5 DEF Call!Execute
  <2>7. QED BY <2>1, <2>6 DEF Call!DbNext
<1>2. ASSUME pc' = pc, result' = result, runs' = runs, ~aborted
      PROVE  [Call!DbNext]_Call!callVars
  <2>1. [q \in Req |-> Outcome(q)]' = [q \in Req |-> Outcome(q)] BY <1>2, Outcomes
  <2>2. CASE aborted' = aborted BY <1>2, <2>1, <2>2 DEF Call!callVars
  <2>3. CASE aborted' = TRUE BY <1>2, <2>1, <2>3 DEF Call!DbNext, Call!Die
  <2>4. aborted' = aborted \/ aborted' = TRUE
    BY <1>2, TypeRest, TypeSvc, TypeClose
  <2>5. QED BY <2>2, <2>3, <2>4
<1>3. CASE UNCHANGED <<callVars, sent, replies, runs>>
  BY <1>2, <1>3, QuietForCalls DEF callVars
<1>4. CASE (\E m \in replies : ReplyArrives(m)) \/ SessionFailsAll \/ CloseFailsAll
  BY <1>2, <1>4 DEF ReplyArrives, SessionFailsAll, CloseFailsAll, netVars
<1>5. QED BY <1>1, <1>3, <1>4, QuietForCalls

LEMMA RefineStep ==
  ASSUME IInv, [Next]_vars
  PROVE  [Call!DbNext]_Call!callVars
<1>1. CASE UNCHANGED vars
  BY <1>1, StutterOne DEF vars, callVars, netVars
<1>2. CASE Next BY <1>2, RefineDispatch, RefineRest DEF Next
<1>3. QED BY <1>1, <1>2

\* The server implements the remote call: whatever agents and connections do,
\* an operation is executed at most once, an answer is that of an execution
\* and a refused call is never executed.
THEOREM Refinement == Spec => ImplementsDbCall
<1>1. Init => Call!DbInit
  <2>1. ASSUME Init PROVE [r \in Req |-> Outcome(r)] = [r \in Req |-> "idle"]
    BY <2>1, Outcomes DEF Init
  <2>2. QED BY <2>1 DEF Init, Call!DbInit
<1>2. IInv /\ [Next]_vars => [Call!DbNext]_Call!callVars BY RefineStep
<1>3. QED BY <1>1, <1>2, Invariance, PTL DEF Spec, ImplementsDbCall, Call!DbSpec

----------------------------------------------------------------------------
(* What a caller of dispatch() may conclude from what it returned.         *)

\* wsdbproxy.cpp:452: no operation is executed twice, one refused or not asked for is not executed
\* at all, and one answered has been executed.
Promise ==
  \A r \in Req :
    /\ runs[r] \in {0, 1}
    /\ Outcome(r) \in {"idle", "refused"} => runs[r] = 0
    /\ Outcome(r) = "answered" => runs[r] = 1

\* wsdbproxy.cpp:464: what dispatch() returned is not taken back by what comes later: an answer
\* that is late, a second agent, the end of the session.
Over == {"refused", "failed", "answered"}
Returned == [][\A r \in Req : Outcome(r) \in Over => Outcome(r)' = Outcome(r)]_vars

\* One step of the abstract call, seen by each call: it moves from one state to another, is
\* executed, or neither.
CallMoves(from, to, n) ==
  \/ from = "idle" /\ to \in {"inflight", "refused"}
  \/ from = "inflight" /\ to = "failed"
  \/ from = "inflight" /\ to = "answered" /\ n = 1

CallRuns(from, to, n, m) ==
  from = to /\ from \in {"inflight", "failed"} /\ n = 0 /\ m = 1

LEMMA OneCall ==
  ASSUME IInv, [Next]_vars, NEW r \in Req
  PROVE  \/ Outcome(r)' = Outcome(r) /\ runs'[r] = runs[r]
         \/ CallMoves(Outcome(r), Outcome(r)', runs[r]) /\ runs'[r] = runs[r]
         \/ CallRuns(Outcome(r), Outcome(r)', runs[r], runs'[r])
<1> DEFINE calls == [q \in Req |-> Outcome(q)]
<1>1. [Call!DbNext]_Call!callVars
  BY RefineStep
<1>2. calls[r] = Outcome(r) /\ calls'[r] = Outcome(r)' /\ DOMAIN calls = Req
  OBVIOUS
<1>3. runs \in [Req -> Nat]
  BY DEF IInv, TypeOK
<1>4. CASE UNCHANGED <<calls, runs>>
  BY <1>2, <1>4
<1>5. ASSUME NEW q \in Req, NEW from, NEW to,
             calls[q] = from, calls' = [calls EXCEPT ![q] = to], runs' = runs, CallMoves(from, to, runs[q])
      PROVE  \/ Outcome(r)' = Outcome(r) /\ runs'[r] = runs[r]
             \/ CallMoves(Outcome(r), Outcome(r)', runs[r]) /\ runs'[r] = runs[r]
  <2>1. CASE q = r
    <3>1. Outcome(r) = from /\ Outcome(r)' = to
      BY <1>2, <1>5, <2>1
    <3> QED
      BY <1>5, <2>1, <3>1
  <2>2. CASE q # r
    <3>1. calls'[r] = calls[r]
      BY <1>2, <1>5, <2>2
    <3> QED
      BY <1>2, <1>5, <3>1
  <2> QED
    BY <2>1, <2>2
<1>6. ASSUME NEW q \in Req,
             Call!Begin(q) \/ Call!Refuse(q) \/ Call!Fail(q) \/ Call!Answer(q)
      PROVE  \/ Outcome(r)' = Outcome(r) /\ runs'[r] = runs[r]
             \/ CallMoves(Outcome(r), Outcome(r)', runs[r]) /\ runs'[r] = runs[r]
  <2>1. CASE Call!Begin(q)
    BY <1>5, <2>1 DEF Call!Begin, Call!Move, CallMoves
  <2>2. CASE Call!Refuse(q)
    BY <1>5, <2>2 DEF Call!Refuse, Call!Move, CallMoves
  <2>3. CASE Call!Fail(q)
    BY <1>5, <2>3 DEF Call!Fail, Call!Move, CallMoves
  <2>4. CASE Call!Answer(q)
    BY <1>5, <2>4 DEF Call!Answer, Call!Move, CallMoves
  <2> QED
    BY <1>6, <2>1, <2>2, <2>3, <2>4
<1>7. ASSUME NEW q \in Req, Call!Execute(q)
      PROVE  \/ Outcome(r)' = Outcome(r) /\ runs'[r] = runs[r]
             \/ CallRuns(Outcome(r), Outcome(r)', runs[r], runs'[r])
  <2>1. /\ calls[q] \in {"inflight", "failed"} /\ runs[q] = 0
        /\ runs' = [runs EXCEPT ![q] = 1] /\ calls' = calls
    BY <1>7 DEF Call!Execute
  <2>2. Outcome(r)' = Outcome(r)
    BY <1>2, <2>1
  <2>3. CASE q = r
    <3>1. runs'[r] = 1
      BY <1>3, <2>1, <2>3
    <3> QED
      BY <1>2, <2>1, <2>2, <2>3, <3>1 DEF CallRuns
  <2>4. CASE q # r
    BY <1>3, <2>1, <2>2, <2>4
  <2> QED
    BY <2>3, <2>4
<1>8. CASE Call!Die
  BY <1>2, <1>8 DEF Call!Die
<1> HIDE DEF calls
<1> QED
  BY <1>1, <1>4, <1>6, <1>7, <1>8 DEF Call!DbNext, Call!callVars, calls

\* wsdbproxy.cpp:452-464: whatever agents and connections do, what dispatch() returned tells its caller
\* what has been done, and stands: an answer that the operation was executed, once, a refusal that it
\* was not and never will be.
THEOREM AnswersStand == Spec => []Promise /\ Returned
<1>1. Init => Promise
  BY Outcomes DEF Init, Promise
<1>2. Promise /\ IInv /\ [Next]_vars => Promise'
  <2> SUFFICES ASSUME Promise, IInv, [Next]_vars, NEW r \in Req
               PROVE  /\ runs'[r] \in {0, 1}
                      /\ Outcome(r)' \in {"idle", "refused"} => runs'[r] = 0
                      /\ Outcome(r)' = "answered" => runs'[r] = 1
    BY DEF Promise
  <2> QED
    BY OneCall DEF Promise, CallMoves, CallRuns
<1>3. IInv /\ [Next]_vars => [\A r \in Req : Outcome(r) \in Over => Outcome(r)' = Outcome(r)]_vars
  BY OneCall DEF Over, CallMoves, CallRuns
<1> QED
  BY <1>1, <1>2, <1>3, Invariance, PTL DEF Spec, Returned

====
