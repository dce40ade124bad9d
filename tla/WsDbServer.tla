----------------------------- MODULE WsDbServer -----------------------------
(***************************************************************************)
(* WsDbServer (modules/module/wsdbproxy): the cloud end of the persistent  *)
(* WebSocket to the on-prem ws-db-agent.  Four kinds of threads meet here: *)
(*   - MicroService workers, inside dispatch(), one per request in flight; *)
(*   - the svc() thread, which owns the session (set-up, reading, tear-    *)
(*     down);                                                              *)
(*   - the reactor thread, which hands agent sockets to                    *)
(*     on_agent_connected();                                               *)
(*   - the main thread, in close() (the reactor has stopped by then).      *)
(* The agent and the network are the environment.  A step of the model is  *)
(* a piece of a handler between two accesses to what the threads share     *)
(* (steps whose middle no other thread can tell apart are one).            *)
(*                                                                         *)
(* m_innerTls is read by the workers and by svc() with no lock while       *)
(* svc()/close() reset it: using a reset object is undefined behaviour,    *)
(* modelled as a choice between the process dying (aborted) and the call   *)
(* failing.  A send of another worker inside InnerTlsServer::send() at the *)
(* same time can swallow the record or misreport it (SSL_write and         *)
(* flush_wbio are not serialised): TlsSend has those outcomes too.         *)
(***************************************************************************)
EXTENDS Naturals

CONSTANTS
  Conn,      \* agent connections, each one accepted socket
  Req,       \* reqids of dbproto::build_request; each is one dispatch()
  None,      \* ACE_INVALID_HANDLE, or a null m_innerTls
  Unkeyed,   \* an m_innerTls whose handshake has not finished
  Mtls       \* m_tls_mode: svc() accepts the agents itself

ASSUME ConnAssumption == None \notin Conn /\ Unkeyed \notin Conn /\ None # Unkeyed
ASSUME ModeAssumption == Mtls \in BOOLEAN

VARIABLES
  innerTls,     \* m_innerCert and m_innerKey are configured: the constructor's choice
  running,      \* m_running
  connected,    \* m_connected
  agentHandle,  \* m_agentHandle
  stream,       \* the handle in m_agentStream / m_ssl_agentStream
  tls,          \* m_innerTls: None, Unkeyed, or the connection it is keyed with
  tlsReady,     \* m_innerTlsReady
  svc,          \* where the svc() thread is
  rx,           \* the socket run_session() is blocked reading
  main,         \* where the main thread is in close()
  pc,           \* where each worker is in dispatch()
  pending,      \* the keys of m_pending
  slot,         \* PendingRequest::response: "empty" until ready is set
  result,       \* what dispatch() returned
  key,          \* the session that encrypted the request frame (history)
  sock,         \* the server's end of each connection
  agent,        \* the agent's end of each connection
  sent,         \* request frames on their way to the agent
  replies,      \* response frames on their way back
  runs,         \* how often the agent executed each request
  aborted       \* the process died of undefined behaviour

callVars == <<pc, pending, slot, result, key>>
linkVars == <<connected, agentHandle, stream, tls, tlsReady>>
svcVars  == <<svc, rx>>
mainVars == <<innerTls, running, main>>
netVars  == <<sock, agent, sent, replies, runs>>
vars == <<callVars, linkVars, svcVars, mainVars, netVars, aborted>>

Frame == [conn : Conn, key : Conn \cup {None}, req : Req]
Reply == [conn : Conn, req : Req]

SvcIdle    == {"check", "toblock", "blocked", "accept"}
SvcSetup   == {"accepted", "upgrade", "setup", "handshake", "drop", "dropclose", "drophandle"}
SvcSession == {"loop", "recvTls", "recvRaw", "teardown", "closing", "failall"}

\* svc() is inside a block that holds m_connectMu for more than one step.
ConnectMuHeld == svc \in {"toblock", "upgrade", "closing"}

TypeOK ==
  /\ innerTls \in BOOLEAN /\ running \in BOOLEAN /\ connected \in BOOLEAN /\ tlsReady \in BOOLEAN /\ aborted \in BOOLEAN
  /\ agentHandle \in Conn \cup {None} /\ stream \in Conn \cup {None} /\ rx \in Conn \cup {None}
  /\ tls \in Conn \cup {None, Unkeyed}
  /\ svc \in SvcIdle \cup SvcSession \cup SvcSetup \cup {"exited"}
  /\ main \in {"reactor", "notify", "shut", "failall", "join", "closed"}
  /\ pc \in [Req -> {"idle", "register", "path", "tls", "send", "raw", "waiting", "done"}]
  /\ pending \subseteq Req
  /\ slot \in [Req -> {"empty", "error", "reply"}]
  /\ result \in [Req -> {"none", "noAgent", "sendFailed", "timeout", "error", "reply"}]
  /\ key \in [Req -> Conn \cup {None}]
  /\ sock \in [Conn -> {"new", "open", "shut", "closed"}]
  /\ agent \in [Conn -> {"absent", "hello", "up", "lost", "gone"}]
  /\ sent \subseteq Frame /\ replies \subseteq Reply
  /\ runs \in [Req -> Nat]

Init ==
  /\ innerTls \in BOOLEAN /\ (Mtls => innerTls)
  /\ running = TRUE /\ connected = FALSE /\ tlsReady = FALSE /\ aborted = FALSE
  /\ agentHandle = None /\ stream = None /\ rx = None /\ tls = None
  /\ svc = "check" /\ main = "reactor"
  /\ pc = [r \in Req |-> "idle"] /\ pending = {}
  /\ slot = [r \in Req |-> "empty"] /\ result = [r \in Req |-> "none"]
  /\ key = [r \in Req |-> None]
  /\ sock = [c \in Conn |-> "new"] /\ agent = [c \in Conn |-> "absent"]
  /\ sent = {} /\ replies = {} /\ runs = [r \in Req |-> 0]

----------------------------------------------------------------------------
(* Helpers shared by several handlers. *)

Goto(r, l) == pc' = [pc EXCEPT ![r] = l]

\* What dispatch() does on its way out: forget the entry, return an answer.
Return(r, answer) ==
  /\ Goto(r, "done")
  /\ result' = [result EXCEPT ![r] = answer]
  /\ pending' = pending \ {r}

\* Mutant: the map is emptied and nobody is answered.
ForgetAllPending == pending' = {} /\ slot' = slot

\* fail_all_pending(): empty the map, then answer every entry it held.
FailAllPending ==
  /\ pending' = {}
  /\ slot' = [r \in Req |-> IF r \in pending THEN "error" ELSE slot[r]]

\* sock after close() of the stream: closing an invalid handle does nothing.
CloseStream == sock' = [c \in Conn |-> IF c = stream THEN "closed" ELSE sock[c]]

\* sock after ::shutdown(h, SHUT_RDWR); shutting down handle -1 does nothing.
Shutdown(h) == [c \in Conn |-> IF c = h /\ sock[c] = "open" THEN "shut" ELSE sock[c]]

\* A local write on the stream goes through (the peer may never read it).
Writable == stream # None /\ sock[stream] = "open"

----------------------------------------------------------------------------
(* dispatch(), on a worker thread. *)

\* No agent: answer at once.
DispatchRefused(r) ==
  /\ ~aborted /\ pc[r] = "idle" /\ ~connected
  /\ Return(r, "noAgent")
  /\ UNCHANGED <<slot, key, linkVars, svcVars, mainVars, netVars, aborted>>

DispatchStart(r) ==
  /\ ~aborted /\ pc[r] = "idle" /\ connected
  /\ Goto(r, "register")
  /\ UNCHANGED <<pending, slot, result, key, linkVars, svcVars, mainVars, netVars, aborted>>

\* m_pending[req.reqid] = pending, under m_pendingMu.
Register(r) ==
  /\ ~aborted /\ pc[r] = "register"
  /\ pending' = pending \cup {r}
  /\ Goto(r, "path")
  /\ UNCHANGED <<slot, result, key, linkVars, svcVars, mainVars, netVars, aborted>>

\* if (m_innerTls): whether there is an object, not whether one is configured.
ChoosePath(r) ==
  /\ ~aborted /\ pc[r] = "path"
  /\ Goto(r, IF tls # None THEN "tls" ELSE "raw")
  /\ UNCHANGED <<pending, slot, result, key, linkVars, svcVars, mainVars, netVars, aborted>>

\* m_innerTlsReady.load() && ...
TlsNotReady(r) ==
  /\ ~aborted /\ pc[r] = "tls" /\ ~tlsReady
  /\ Return(r, "sendFailed")
  /\ UNCHANGED <<slot, key, linkVars, svcVars, mainVars, netVars, aborted>>

TlsReady(r) ==
  /\ ~aborted /\ pc[r] = "tls" /\ tlsReady
  /\ Goto(r, "send")
  /\ UNCHANGED <<pending, slot, result, key, linkVars, svcVars, mainVars, netVars, aborted>>

\* Mutant: any m_innerTls will do, its handshake may still be going on.
TlsSendEarly(r) ==
  /\ ~aborted /\ pc[r] = "send" /\ tls # None /\ Writable
  /\ sent' = sent \cup {[conn |-> stream, key |-> tls, req |-> r]}
  /\ key' = [key EXCEPT ![r] = tls]
  /\ Goto(r, "waiting")
  /\ UNCHANGED <<pending, slot, result, linkVars, svcVars, mainVars, sock, agent, replies, runs, aborted>>

\* m_innerTls->send(bson) goes through: one record, one frame.
TlsSend(r) ==
  /\ ~aborted /\ pc[r] = "send" /\ tls \in Conn /\ Writable
  /\ sent' = sent \cup {[conn |-> stream, key |-> tls, req |-> r]}
  /\ key' = [key EXCEPT ![r] = tls]
  /\ Goto(r, "waiting")
  /\ UNCHANGED <<pending, slot, result, linkVars, svcVars, mainVars, sock, agent, replies, runs, aborted>>

\* Another worker is inside InnerTlsServer::send(): its flush_wbio() takes
\* this record along, in a frame the agent cannot parse, and ours finds
\* nothing left to write and reports success.
TlsSendLost(r) ==
  /\ ~aborted /\ pc[r] = "send" /\ tls \in Conn
  /\ \E q \in Req \ {r} : pc[q] = "send"
  /\ key' = [key EXCEPT ![r] = tls]
  /\ Goto(r, "waiting")
  /\ UNCHANGED <<pending, slot, result, linkVars, svcVars, mainVars, netVars, aborted>>

\* As above, but BIO_pending() still saw the record and BIO_read() does not:
\* the other worker delivered it while ours reports failure.
TlsSendMisreported(r) ==
  /\ ~aborted /\ pc[r] = "send" /\ tls \in Conn /\ Writable
  /\ \E q \in Req \ {r} : pc[q] = "send"
  /\ sent' = sent \cup {[conn |-> stream, key |-> tls, req |-> r]}
  /\ key' = [key EXCEPT ![r] = tls]
  /\ Return(r, "sendFailed")
  /\ UNCHANGED <<slot, linkVars, svcVars, mainVars, sock, agent, replies, runs, aborted>>

\* SSL_write or send_n fails: no session any more, a handshake in progress,
\* a socket that is shut or closed, or a peer that is gone.
TlsSendFailed(r) ==
  /\ ~aborted /\ pc[r] = "send"
  /\ tls \in Conn /\ Writable => agent[stream] \in {"lost", "gone"}
  /\ Return(r, "sendFailed")
  /\ UNCHANGED <<slot, key, linkVars, svcVars, mainVars, netVars, aborted>>

\* Undefined behaviour: m_innerTls was reset after it was seen to be set.
TlsSendAborts(r) ==
  /\ ~aborted /\ pc[r] = "send" /\ tls = None
  /\ aborted' = TRUE
  /\ UNCHANGED <<callVars, linkVars, svcVars, mainVars, netVars>>

\* ws_send(encode(bson)): the request in the clear.
RawSend(r) ==
  /\ ~aborted /\ pc[r] = "raw" /\ Writable
  /\ sent' = sent \cup {[conn |-> stream, key |-> None, req |-> r]}
  /\ Goto(r, "waiting")
  /\ UNCHANGED <<pending, slot, result, key, linkVars, svcVars, mainVars, sock, agent, replies, runs, aborted>>

RawSendFailed(r) ==
  /\ ~aborted /\ pc[r] = "raw"
  /\ Writable => agent[stream] \in {"lost", "gone"}
  /\ Return(r, "sendFailed")
  /\ UNCHANGED <<slot, key, linkVars, svcVars, mainVars, netVars, aborted>>

\* wait_for returns because ready was set ...
Answered(r) ==
  /\ ~aborted /\ pc[r] = "waiting" /\ slot[r] # "empty"
  /\ Return(r, slot[r])
  /\ UNCHANGED <<slot, key, linkVars, svcVars, mainVars, netVars, aborted>>

\* Mutant: a call that timed out is sent again.
TimeoutRetries(r) ==
  /\ ~aborted /\ pc[r] = "waiting" /\ slot[r] = "empty"
  /\ Goto(r, "path")
  /\ UNCHANGED <<pending, slot, result, key, linkVars, svcVars, mainVars, netVars, aborted>>

\* ... or because m_timeoutSecs went by.
DispatchTimeout(r) ==
  /\ ~aborted /\ pc[r] = "waiting" /\ slot[r] = "empty"
  /\ Return(r, "timeout")
  /\ UNCHANGED <<slot, key, linkVars, svcVars, mainVars, netVars, aborted>>

DispatchStep(r) ==
  \/ DispatchRefused(r) \/ DispatchStart(r) \/ Register(r) \/ ChoosePath(r)
  \/ TlsNotReady(r) \/ TlsReady(r)
  \/ TlsSend(r) \/ TlsSendLost(r) \/ TlsSendMisreported(r) \/ TlsSendFailed(r) \/ TlsSendAborts(r)
  \/ RawSend(r) \/ RawSendFailed(r)
  \/ Answered(r) \/ DispatchTimeout(r)

----------------------------------------------------------------------------
(* on_agent_connected(), on the reactor thread, under m_connectMu (which a *)
(* svc() thread about to sleep on m_connectCv holds).                      *)

\* Mutant: without m_connectMu.
AgentAcceptedUnlocked(c) ==
  /\ ~aborted /\ ~Mtls /\ main = "reactor" /\ sock[c] = "new" /\ ~connected
  /\ agentHandle' = c /\ stream' = c /\ connected' = TRUE
  /\ svc' = IF svc = "blocked" THEN "check" ELSE svc
  /\ sock' = [sock EXCEPT ![c] = "open"]
  /\ agent' = [agent EXCEPT ![c] = IF innerTls THEN "hello" ELSE "up"]
  /\ UNCHANGED <<callVars, tls, tlsReady, rx, mainVars, sent, replies, runs, aborted>>

AgentAccepted(c) ==
  /\ ~aborted /\ ~Mtls /\ main = "reactor" /\ ~ConnectMuHeld
  /\ sock[c] = "new" /\ ~connected
  /\ agentHandle' = c /\ stream' = c /\ connected' = TRUE
  /\ svc' = IF svc = "blocked" THEN "check" ELSE svc
  /\ sock' = [sock EXCEPT ![c] = "open"]
  /\ agent' = [agent EXCEPT ![c] = IF innerTls THEN "hello" ELSE "up"]
  /\ UNCHANGED <<callVars, tls, tlsReady, rx, mainVars, sent, replies, runs, aborted>>

\* Already connected: shut the old socket down, send the new one away.
AgentEvicts(c) ==
  /\ ~aborted /\ ~Mtls /\ main = "reactor" /\ ~ConnectMuHeld
  /\ sock[c] = "new" /\ connected
  /\ connected' = FALSE /\ agentHandle' = None
  /\ sock' = [Shutdown(agentHandle) EXCEPT ![c] = "closed"]
  /\ agent' = [agent EXCEPT ![c] = "gone"]
  /\ UNCHANGED <<callVars, stream, tls, tlsReady, svcVars, mainVars, sent, replies, runs, aborted>>

----------------------------------------------------------------------------
(* svc(). *)

\* The predicate of m_connectCv.wait() holds: start a session or stop.
SvcWake ==
  /\ ~aborted /\ ~Mtls /\ svc = "check" /\ (connected \/ ~running)
  /\ svc' = IF running THEN "setup" ELSE "exited"
  /\ UNCHANGED <<callVars, linkVars, rx, mainVars, netVars, aborted>>

\* It does not: still holding m_connectMu, about to sleep.
SvcWaits ==
  /\ ~aborted /\ ~Mtls /\ svc = "check" /\ ~connected /\ running
  /\ svc' = "toblock"
  /\ UNCHANGED <<callVars, linkVars, rx, mainVars, netVars, aborted>>

SvcSleeps ==
  /\ ~aborted /\ svc = "toblock"
  /\ svc' = "blocked"
  /\ UNCHANGED <<callVars, linkVars, rx, mainVars, netVars, aborted>>

\* mTLS mode: while (m_running), accept.
SvcListens ==
  /\ ~aborted /\ Mtls /\ svc = "check"
  /\ svc' = IF running THEN "accept" ELSE "exited"
  /\ UNCHANGED <<callVars, linkVars, rx, mainVars, netVars, aborted>>

\* accept() puts the new socket in m_ssl_agentStream before the TLS handshake.
SvcAccepts(c) ==
  /\ ~aborted /\ svc = "accept" /\ sock[c] = "new"
  /\ stream' = c /\ svc' = "accepted"
  /\ sock' = [sock EXCEPT ![c] = "open"]
  /\ agent' = [agent EXCEPT ![c] = "hello"]
  /\ UNCHANGED <<callVars, agentHandle, connected, tls, tlsReady, rx, mainVars, sent, replies, runs, aborted>>

\* close() closed the acceptor and accept() noticed.  (On Linux it need not:
\* a thread blocked in accept() keeps the socket, so this step is not fair.)
SvcAcceptFails ==
  /\ ~aborted /\ svc = "accept" /\ main \notin {"reactor", "notify"}
  /\ svc' = "exited"
  /\ UNCHANGED <<callVars, linkVars, rx, mainVars, netVars, aborted>>

\* The outer handshake is over: m_connectMu is taken, then a request is read
\* under it.  The 409 branch needs m_connected here, where it is always FALSE.
UpgradeStarts ==
  /\ ~aborted /\ svc = "accepted" /\ Writable /\ ~connected
  /\ svc' = "upgrade"
  /\ UNCHANGED <<callVars, linkVars, rx, mainVars, netVars, aborted>>

UpgradeSucceeds ==
  /\ ~aborted /\ svc = "upgrade" /\ Writable /\ agent[stream] = "hello"
  /\ agentHandle' = stream /\ connected' = TRUE /\ svc' = "setup"
  /\ UNCHANGED <<callVars, stream, tls, tlsReady, rx, mainVars, netVars, aborted>>

\* The outer handshake or the upgrade fails: close the socket, accept again.
UpgradeFails ==
  /\ ~aborted /\ svc \in {"accepted", "upgrade"}
  /\ CloseStream /\ stream' = None /\ svc' = "check"
  /\ agent' = [agent EXCEPT ![stream] = "gone"]
  /\ UNCHANGED <<callVars, connected, agentHandle, tls, tlsReady, rx, mainVars, sent, replies, runs, aborted>>

\* setup_inner_tls(), nothing configured.
SetupSkipped ==
  /\ ~aborted /\ svc = "setup" /\ ~innerTls
  /\ svc' = "loop"
  /\ UNCHANGED <<callVars, linkVars, rx, mainVars, netVars, aborted>>

\* The transport and the InnerTlsServer are made ...
SetupCreates ==
  /\ ~aborted /\ svc = "setup" /\ innerTls
  /\ tls' = Unkeyed /\ svc' = "handshake"
  /\ UNCHANGED <<callVars, connected, agentHandle, stream, tlsReady, rx, mainVars, netVars, aborted>>

\* ... and accept() shakes hands: only with an agent that read nothing but
\* handshake frames on this connection.
HandshakeSucceeds ==
  /\ ~aborted /\ svc = "handshake" /\ tls = Unkeyed
  /\ Writable /\ agent[stream] = "hello"
  /\ \A f \in sent : f.conn # stream
  /\ tls' = stream /\ tlsReady' = TRUE /\ svc' = "loop"
  /\ agent' = [agent EXCEPT ![stream] = "up"]
  /\ UNCHANGED <<callVars, connected, agentHandle, stream, rx, mainVars, sock, sent, replies, runs, aborted>>

HandshakeFails ==
  /\ ~aborted /\ svc = "handshake"
  /\ tls' = None /\ svc' = "drop"
  /\ UNCHANGED <<callVars, connected, agentHandle, stream, tlsReady, rx, mainVars, netVars, aborted>>

\* Undefined behaviour: close() reset m_innerTls under accept().
HandshakeAborts ==
  /\ ~aborted /\ svc = "handshake" /\ tls # Unkeyed
  /\ aborted' = TRUE
  /\ UNCHANGED <<callVars, linkVars, svcVars, mainVars, netVars>>

\* A failed set-up is cleaned up in three steps, without m_connectMu.
DropConnected ==
  /\ ~aborted /\ svc = "drop"
  /\ connected' = FALSE /\ svc' = "dropclose"
  /\ UNCHANGED <<callVars, agentHandle, stream, tls, tlsReady, rx, mainVars, netVars, aborted>>

\* Mutant: the stream is forgotten, its socket stays open.
DropStreamLeaks ==
  /\ ~aborted /\ svc = "dropclose"
  /\ stream' = None /\ svc' = "drophandle"
  /\ UNCHANGED <<callVars, connected, agentHandle, tls, tlsReady, rx, mainVars, netVars, aborted>>

DropStream ==
  /\ ~aborted /\ svc = "dropclose"
  /\ CloseStream /\ stream' = None /\ svc' = "drophandle"
  /\ UNCHANGED <<callVars, connected, agentHandle, tls, tlsReady, rx, mainVars, agent, sent, replies, runs, aborted>>

\* Only the reactor mode then fails the pending calls.
DropHandle ==
  /\ ~aborted /\ svc = "drophandle"
  /\ agentHandle' = None /\ svc' = IF Mtls THEN "check" ELSE "failall"
  /\ UNCHANGED <<callVars, connected, stream, tls, tlsReady, rx, mainVars, netVars, aborted>>

----------------------------------------------------------------------------
(* run_session(). *)

\* while (m_connected): block in a read of the stream's current handle.
SessionReads ==
  /\ ~aborted /\ svc = "loop" /\ connected
  /\ rx' = stream /\ svc' = IF tls # None THEN "recvTls" ELSE "recvRaw"
  /\ UNCHANGED <<callVars, linkVars, mainVars, netVars, aborted>>

SessionEnds ==
  /\ ~aborted /\ svc = "loop" /\ ~connected
  /\ svc' = "teardown"
  /\ UNCHANGED <<callVars, linkVars, rx, mainVars, netVars, aborted>>

Reading == svc \in {"recvTls", "recvRaw"}

\* A response: hand it to the dispatch() waiting under its reqid, if any.
ReplyArrives(m) ==
  /\ ~aborted /\ m \in replies /\ m.conn = rx /\ sock[rx] = "open"
  /\ \/ svc = "recvTls" /\ tls = rx
     \/ svc = "recvRaw" /\ ~innerTls
  /\ replies' = replies \ {m}
  /\ slot' = IF m.req \in pending THEN [slot EXCEPT ![m.req] = "reply"] ELSE slot
  /\ svc' = "loop"
  /\ UNCHANGED <<pc, pending, result, key, linkVars, rx, mainVars, sock, agent, sent, runs, aborted>>

\* A ping, a pong, a partial record: recv() returns nothing, loop again.
PingArrives ==
  /\ ~aborted /\ Reading /\ rx \in Conn /\ sock[rx] = "open" /\ agent[rx] = "up"
  /\ svc' = "loop"
  /\ UNCHANGED <<callVars, linkVars, rx, mainVars, netVars, aborted>>

\* End of stream: the peer closed, or the socket was shut down or closed.
StreamEnds ==
  /\ ~aborted /\ Reading
  /\ rx = None \/ sock[rx] # "open" \/ agent[rx] = "gone"
  /\ svc' = "teardown"
  /\ UNCHANGED <<callVars, linkVars, rx, mainVars, netVars, aborted>>

\* Bytes of another connection's agent: SSL_read rejects them.
ForeignBytes ==
  /\ ~aborted /\ svc = "recvTls" /\ rx \in Conn /\ tls # rx /\ agent[rx] = "hello"
  /\ svc' = "teardown"
  /\ UNCHANGED <<callVars, linkVars, rx, mainVars, netVars, aborted>>

\* Undefined behaviour: close() reset m_innerTls under recv().
RecvAborts ==
  /\ ~aborted /\ svc = "recvTls" /\ tls = None
  /\ aborted' = TRUE
  /\ UNCHANGED <<callVars, linkVars, svcVars, mainVars, netVars>>

\* The block under m_connectMu that ends run_session(): drop the session ...
Teardown ==
  /\ ~aborted /\ svc = "teardown"
  /\ connected' = FALSE /\ tlsReady' = FALSE /\ tls' = None
  /\ svc' = "closing"
  /\ UNCHANGED <<callVars, stream, agentHandle, rx, mainVars, netVars, aborted>>

\* Mutant: no fail_all_pending() afterwards.
TeardownForgets ==
  /\ ~aborted /\ svc = "closing"
  /\ CloseStream /\ stream' = None /\ agentHandle' = None
  /\ svc' = "check"
  /\ UNCHANGED <<callVars, connected, tls, tlsReady, rx, mainVars, agent, sent, replies, runs, aborted>>

\* ... and close whatever socket the stream holds by then.
TeardownCloses ==
  /\ ~aborted /\ svc = "closing"
  /\ CloseStream /\ stream' = None /\ agentHandle' = None
  /\ svc' = "failall"
  /\ UNCHANGED <<callVars, connected, tls, tlsReady, rx, mainVars, agent, sent, replies, runs, aborted>>

SessionFailsAll ==
  /\ ~aborted /\ svc = "failall"
  /\ FailAllPending /\ svc' = "check"
  /\ UNCHANGED <<pc, result, key, linkVars, rx, mainVars, netVars, aborted>>

----------------------------------------------------------------------------
(* close(), on the main thread. *)

CloseStarts ==
  /\ ~aborted /\ main = "reactor"
  /\ running' = FALSE /\ tlsReady' = FALSE /\ tls' = None
  /\ main' = "notify"
  /\ UNCHANGED <<callVars, connected, agentHandle, stream, innerTls, svcVars, netVars, aborted>>

\* m_connectCv.notify_all(), without m_connectMu: wakes a sleeper only.  In
\* mTLS mode m_ssl_acceptor.close().
CloseNotifies ==
  /\ ~aborted /\ main = "notify"
  /\ svc' = IF svc = "blocked" THEN "check" ELSE svc
  /\ main' = "shut"
  /\ UNCHANGED <<callVars, linkVars, rx, innerTls, running, netVars, aborted>>

\* Under m_connectMu shut the agent's socket down ...
CloseShuts ==
  /\ ~aborted /\ main = "shut" /\ ~ConnectMuHeld
  /\ sock' = Shutdown(IF Mtls THEN stream ELSE agentHandle)
  /\ main' = "failall"
  /\ UNCHANGED <<callVars, linkVars, svcVars, innerTls, running, agent, sent, replies, runs, aborted>>

\* ... then answer the calls in flight.
CloseFailsAll ==
  /\ ~aborted /\ main = "failall"
  /\ FailAllPending
  /\ main' = "join"
  /\ UNCHANGED <<pc, result, key, linkVars, svcVars, innerTls, running, netVars, aborted>>

\* wait(): joins svc().
CloseJoins ==
  /\ ~aborted /\ main = "join" /\ svc = "exited"
  /\ main' = "closed"
  /\ UNCHANGED <<callVars, linkVars, svcVars, innerTls, running, netVars, aborted>>

----------------------------------------------------------------------------
(* The agent and the network. *)

\* The frame is one this agent can decode on its connection.
Decodable(f) == f.key = (IF innerTls THEN f.conn ELSE None)

\* Decrypt, execute against MongoDB, answer.
AgentServes(f) ==
  /\ ~aborted /\ f \in sent /\ agent[f.conn] = "up" /\ Decodable(f)
  /\ sent' = sent \ {f}
  /\ runs' = [runs EXCEPT ![f.req] = @ + 1]
  /\ replies' = replies \cup {[conn |-> f.conn, req |-> f.req]}
  /\ UNCHANGED <<callVars, linkVars, svcVars, mainVars, sock, agent, aborted>>

\* A frame it cannot decode ends its handshake or its session.
AgentChokes(f) ==
  /\ ~aborted /\ f \in sent /\ agent[f.conn] \in {"hello", "up"} /\ ~Decodable(f)
  /\ agent' = [agent EXCEPT ![f.conn] = "gone"]
  /\ UNCHANGED <<callVars, linkVars, svcVars, mainVars, sock, sent, replies, runs, aborted>>

\* It leaves, or dies, and the server is told; or the link breaks silently.
AgentLeaves(c) ==
  /\ ~aborted /\ agent[c] \in {"hello", "up"}
  /\ \E s \in {"gone", "lost"} : agent' = [agent EXCEPT ![c] = s]
  /\ UNCHANGED <<callVars, linkVars, svcVars, mainVars, sock, sent, replies, runs, aborted>>

----------------------------------------------------------------------------

Reactor == \E c \in Conn : AgentAccepted(c) \/ AgentEvicts(c)

SvcStep ==
  \/ SvcWake \/ SvcWaits \/ SvcSleeps
  \/ SvcListens \/ (\E c \in Conn : SvcAccepts(c)) \/ SvcAcceptFails
  \/ UpgradeStarts \/ UpgradeSucceeds \/ UpgradeFails
  \/ SetupSkipped \/ SetupCreates \/ HandshakeSucceeds \/ HandshakeFails \/ HandshakeAborts
  \/ DropConnected \/ DropStream \/ DropHandle
  \/ SessionReads \/ SessionEnds
  \/ (\E m \in replies : ReplyArrives(m))
  \/ PingArrives \/ StreamEnds \/ ForeignBytes \/ RecvAborts
  \/ Teardown \/ TeardownCloses \/ SessionFailsAll

Close == CloseStarts \/ CloseNotifies \/ CloseShuts \/ CloseFailsAll \/ CloseJoins

Agent ==
  \/ \E f \in sent : AgentServes(f) \/ AgentChokes(f)
  \/ \E c \in Conn : AgentLeaves(c)

Next == (\E r \in Req : DispatchStep(r)) \/ Reactor \/ SvcStep \/ Close \/ Agent

Spec == Init /\ [][Next]_vars

(* Fairness.  Threads that can run do run.  svc() is blocked in accept()   *)
(* for as long as no agent comes, and in a read for as long as a lost      *)
(* agent is silent; a live agent is heard of every 30 s.  No agent has to  *)
(* come, to stay or to answer, and no timeout has to fire.                 *)
SvcUnblocked ==
  /\ svc # "accept"
  /\ svc \in {"accepted", "upgrade", "handshake"} /\ Writable => agent[stream] # "lost"

FairSpec ==
  /\ Spec
  /\ \A r \in Req : WF_vars(DispatchStep(r) /\ ~(pc[r] = "waiting" /\ slot[r] = "empty"))
  /\ WF_vars(SvcStep /\ SvcUnblocked)
  /\ WF_vars(Close /\ main # "reactor")

----------------------------------------------------------------------------
(* What holds. *)

InFlight == {"path", "tls", "send", "raw", "waiting"}

Stranded(r) == pc[r] = "waiting" /\ slot[r] = "empty"

\* A caller whose wait has not been ended is still in m_pending, where an
\* answer or fail_all_pending() will find it, whichever threads emptied or
\* reassigned m_pending meanwhile; and nothing stays in m_pending once
\* dispatch() has returned.
NoLostWaiter ==
  /\ \A r \in Req : Stranded(r) => r \in pending
  /\ \A r \in pending : pc[r] \in InFlight

\* A call that went out encrypted is waited for only while svc() is in the
\* very session that encrypted it (or that session is being torn down): it
\* never waits on the answers of a later agent, nor with no session at all.
InSession ==
  \A r \in Req : Stranded(r) /\ key[r] # None =>
    svc \in SvcSession /\ tls \in {key[r], None}

\* svc() never sleeps on m_connectCv beside a connected agent: no wake-up of
\* on_agent_connected() is lost.
NoSleepBesideAgent == svc \in {"toblock", "blocked"} => ~connected

\* A dispatch() is a call executed at most once (module DbCall).
Outcome(r) ==
  CASE pc[r] = "idle" -> "idle"
    [] pc[r] = "done" /\ result[r] = "noAgent" -> "refused"
    [] pc[r] = "done" /\ result[r] = "reply" -> "answered"
    [] pc[r] = "done" /\ result[r] \notin {"noAgent", "reply"} -> "failed"
    [] OTHER -> "inflight"

Call == INSTANCE DbCall WITH
  call <- [r \in Req |-> Outcome(r)], effect <- runs, down <- aborted

ImplementsDbCall == Call!DbSpec

\* The server keeps one agent socket open at a time, the one it is serving.
OneOpenSocket == \A c \in Conn : sock[c] = "open" => c = stream

\* When the agent of the session goes away, whoever waits for an answer is
\* released without its timeout having to fire.
DisconnectReleases ==
  \A r \in Req :
    Reading /\ rx \in Conn /\ agent[rx] = "gone" /\ pc[r] = "waiting" ~> pc[r] = "done" \/ aborted

----------------------------------------------------------------------------
(* The inductive invariant behind those properties.                        *)

Unsent == {"idle", "register", "path", "tls", "send", "raw"}

\* A request that was not sent is nowhere; the frames of the others are
\* distinct, not executed yet, and an answer is one to an execution.
ExecutionInv ==
  /\ \A r \in Req : pc[r] \in Unsent => runs[r] = 0 /\ \A f \in sent : f.req # r
  /\ \A f, g \in sent : f.req = g.req => f = g
  /\ \A f \in sent : runs[f.req] = 0
  /\ \A r \in Req : runs[r] \in {0, 1}
  /\ \A m \in replies : runs[m.req] = 1
  /\ \A r \in Req : slot[r] = "reply" => runs[r] = 1
  /\ \A r \in Req : result[r] = "reply" => runs[r] = 1
  /\ \A r \in Req : result[r] = "noAgent" => runs[r] = 0 /\ \A f \in sent : f.req # r

\* Results are for those who returned, m_pending for those in between.
CallInv ==
  /\ \A r \in Req : pc[r] # "done" => result[r] = "none"
  /\ \A r \in Req : pc[r] \in InFlight => r \in pending \/ slot[r] # "empty"
  /\ \A r \in pending : pc[r] \in InFlight

\* m_innerTls is keyed in a session only, and that session is the one its
\* callers wait for.
SessionInv ==
  /\ \A r \in Req : pc[r] \in Unsent => key[r] = None
  /\ tls \in Conn => svc \in {"loop", "recvTls", "recvRaw", "teardown"}
  /\ InSession

\* In mTLS mode svc() alone touches the stream.
MtlsInv ==
  Mtls =>
    /\ svc \notin {"toblock", "blocked"}
    /\ svc \in {"check", "accept", "drophandle", "failall", "exited"} => stream = None
    /\ OneOpenSocket

IInv ==
  TypeOK /\ ExecutionInv /\ CallInv /\ SessionInv /\ NoSleepBesideAgent /\ MtlsInv

----------------------------------------------------------------------------
(* What the repository says and the code does not keep. *)

\* "Returns an error-response BSON on failure" (IWsDispatcher::dispatch): a
\* session that ends fails calls, not the process.
SurvivesDisconnect == aborted => ~running
=============================================================================
