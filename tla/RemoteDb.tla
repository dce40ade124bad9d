------------------------------ MODULE RemoteDb ------------------------------
(***************************************************************************)
(* The two ends of the database connection with what lies between them:    *)
(* the agent's loop (dial, upgrade, inner handshake, poll, read, execute,  *)
(* reply, ping, back off), the web server taking the upgrade in, callers   *)
(* of dispatch(), the thread of svc() that accepts the inner TLS, reads    *)
(* replies and answers pings, the mutex they write under, and a socket     *)
(* that holds so many frames and no more.  An outer TLS record can carry   *)
(* several frames; the ones behind the first then lie decrypted with the   *)
(* agent, where poll() does not see them.  WsDbServer has the registered   *)
(* calls and the locks of a session in detail.                             *)
(***************************************************************************)
EXTENDS Integers, Sequences

CONSTANTS Caller,     \* workers that call dispatch()
          Up, Down,   \* frames the socket holds towards the agent and back
          Base, Cap,  \* the first and the longest wait between two attempts
          Calls,      \* bound: calls of dispatch()
          Faults,     \* bound: what the network and the agent's host do wrong
          Svc, None

ASSUME RemoteAssumption ==
  /\ {Up, Down, Base, Cap} \subseteq Nat \ {0}
  /\ Calls \in Nat /\ Faults \in Nat
  /\ Svc \notin Caller /\ None \notin Caller \cup {Svc}

VARIABLES call,      \* where each caller is in dispatch(), and whether what it sends
                     \* is from another session than the present one
          calls,     \* calls made
          writeMu,   \* who holds m_writeMu
          svc,       \* what the thread of svc() is doing
          session,   \* m_connected
          old,       \* m_agentStream is no more what svc() has its session with
          cloud,     \* m_agentStream, "live" if it leads to the agent
          wire,      \* the agent's socket
          up, down,  \* frames on their way
          buffered,  \* frames decrypted by the agent and not read
          agent,     \* what the agent is doing, and for whom
          backoff,   \* cur_backoff
          faults

cloudVars == <<call, calls, writeMu, svc, session, old>>
netVars == <<cloud, wire, up, down, buffered>>
agentVars == <<agent, backoff>>
vars == <<cloudVars, netVars, agentVars, faults>>

----------------------------------------------------------------------------
\* A socket is "live", or "silent": its other end is gone and nothing says so, or
\* "dead": every read and write fails, or "none": it is closed.
Socket == {"none", "live", "silent", "dead"}

Request(c) == [kind |-> "request", of |-> c]
Reply(c) == [kind |-> "reply", of |-> c]
Ping == [kind |-> "ping", of |-> None]
Pong == [kind |-> "pong", of |-> None]
Garbage == [kind |-> "garbage", of |-> None]

At(step, c) == [at |-> step, for |-> c]
Agent(step) == At(step, None)
Serving == {"polling", "pinging", "reading", "executing", "replying"}
Idle == [at |-> "idle", stale |-> FALSE]

Init ==
  /\ call = [c \in Caller |-> Idle]
  /\ calls = 0
  /\ writeMu = None
  /\ svc = "idle" /\ session = FALSE /\ old = FALSE
  /\ cloud = "none" /\ wire = "none"
  /\ up = <<>> /\ down = <<>> /\ buffered = <<>>
  /\ agent = Agent("connecting") /\ backoff = Base
  /\ faults = 0

----------------------------------------------------------------------------
(* The callers of dispatch().                                              *)

\* Without an agent, and during the inner handshake, dispatch() fails at once,
\* which changes nothing.  Before that handshake it sends a raw frame, and before
\* svc() has left the session before, a record of that session.
Call(c) ==
  /\ call[c] = Idle /\ session /\ svc # "accepting"
  /\ calls < Calls /\ calls' = calls + 1
  /\ call' = [call EXCEPT ![c] = [at |-> "locking", stale |-> svc \in {"idle", "closing"} \/ old]]
  /\ UNCHANGED <<writeMu, svc, session, old, netVars, agentVars, faults>>

Lock(c) ==
  /\ call[c].at = "locking" /\ writeMu = None
  /\ writeMu' = c
  /\ call' = [call EXCEPT ![c].at = "sending"]
  /\ UNCHANGED <<calls, svc, session, old, netVars, agentVars, faults>>

\* send_n() returns when the socket has taken the frame, or on an error.
Send(c) ==
  /\ call[c].at = "sending"
  /\ cloud \in {"live", "silent"} /\ Len(up) < Up
  /\ up' = Append(up, IF call[c].stale THEN Garbage ELSE Request(c))
  /\ writeMu' = None
  /\ call' = [call EXCEPT ![c] = [at |-> "waiting", stale |-> FALSE]]
  /\ UNCHANGED <<calls, svc, session, old, cloud, wire, down, buffered, agentVars, faults>>

\* The socket it was sending to can have been replaced.
SendFails(c) ==
  /\ call[c].at = "sending"
  /\ cloud \in {"none", "dead"} \/ call[c].stale
  /\ writeMu' = None
  /\ call' = [call EXCEPT ![c] = Idle]
  /\ UNCHANGED <<calls, svc, session, old, netVars, agentVars, faults>>

\* The entry is answered or failed, or wait_for() has run out: which of them,
\* and who sees what, is in WsDbServer.
Returns(c) ==
  /\ call[c].at = "waiting"
  /\ call' = [call EXCEPT ![c] = Idle]
  /\ UNCHANGED <<calls, writeMu, svc, session, old, netVars, agentVars, faults>>

\* What callers have on their way to the socket is of no session any more.
Outdated ==
  [c \in Caller |-> IF call[c].at \in {"locking", "sending"}
                    THEN [call[c] EXCEPT !.stale = TRUE] ELSE call[c]]

----------------------------------------------------------------------------
(* on_agent_connected(), on the thread of the reactor.                     *)

\* The socket becomes m_agentStream, whatever svc() is still doing with the last one.
Attach ==
  /\ agent.at = "upgrading" /\ wire = "live"
  /\ ~session
  /\ session' = TRUE /\ cloud' = "live"
  /\ old' = (svc \notin {"idle", "closing"})
  /\ call' = Outdated
  /\ up' = <<>> /\ down' = <<>> /\ buffered' = <<>>
  /\ agent' = Agent("handshaking")
  /\ UNCHANGED <<calls, writeMu, svc, wire, backoff, faults>>


\* A session that has not ended is shut down, and the agent, which has been told
\* 101 already, gets a 503 and a close.
Evict ==
  /\ agent.at = "upgrading" /\ wire = "live"
  /\ session
  /\ session' = FALSE
  /\ cloud' = (IF cloud = "none" THEN "none" ELSE "dead")
  /\ up' = <<>>
  /\ wire' = "dead"
  /\ agent' = Agent("handshaking")
  /\ UNCHANGED <<call, calls, writeMu, svc, old, down, buffered, backoff, faults>>

----------------------------------------------------------------------------
(* The thread of svc(): setup_inner_tls() and run_session().               *)

Accept ==
  /\ svc = "idle" /\ session
  /\ svc' = "accepting"
  /\ UNCHANGED <<call, calls, writeMu, session, old, netVars, agentVars, faults>>

\* The inner handshake, of both sides.
Established ==
  /\ svc = "accepting" /\ cloud = "live" /\ ~old
  /\ agent.at = "handshaking" /\ up = <<>>
  /\ svc' = "reading"
  /\ agent' = Agent("polling")
  /\ UNCHANGED <<call, calls, writeMu, session, old, netVars, backoff, faults>>

\* m_connected is reset without a lock, the socket closed after that.
AcceptFails ==
  /\ svc = "accepting"
  /\ cloud \in {"none", "dead"} \/ old
  /\ session' = FALSE /\ old' = FALSE
  /\ svc' = "closing"
  /\ UNCHANGED <<call, calls, writeMu, netVars, agentVars, faults>>

\* Whatever m_agentStream holds now is closed, the socket of the next agent too.
Close ==
  /\ cloud' = "none"
  /\ wire' = (IF cloud = "live" THEN "dead" ELSE wire)
  /\ up' = <<>> /\ down' = <<>>
  /\ svc' = "idle"
  /\ call' = Outdated
  /\ UNCHANGED <<calls, writeMu, buffered, agentVars, faults>>

CloseUnaccepted == svc = "closing" /\ Close /\ UNCHANGED <<session, old>>

ReadReply ==
  /\ svc = "reading" /\ ~old
  /\ down # <<>> /\ Head(down).kind = "reply"
  /\ down' = Tail(down)
  /\ UNCHANGED <<cloudVars, cloud, wire, up, buffered, agentVars, faults>>

ReadPing ==
  /\ svc = "reading" /\ ~old
  /\ down # <<>> /\ Head(down).kind = "ping"
  /\ svc' = "locking"
  /\ down' = Tail(down)
  /\ UNCHANGED <<call, calls, writeMu, session, old, cloud, wire, up, buffered, agentVars, faults>>

PongLock ==
  /\ svc = "locking" /\ writeMu = None
  /\ writeMu' = Svc
  /\ svc' = "ponging"
  /\ UNCHANGED <<call, calls, session, old, netVars, agentVars, faults>>

\* What send() returns is not looked at.
SendPong ==
  /\ svc = "ponging"
  /\ IF cloud \in {"live", "silent"} THEN Len(up) < Up /\ up' = Append(up, Pong)
                                     ELSE UNCHANGED up
  /\ writeMu' = None
  /\ svc' = "reading"
  /\ UNCHANGED <<call, calls, session, old, cloud, wire, down, buffered, agentVars, faults>>

\* The session's own socket is lost, shut down or replaced; who waits is failed.
SessionEnds ==
  /\ svc = "reading"
  /\ cloud = "dead" \/ old
  /\ session' = FALSE /\ old' = FALSE
  /\ Close

----------------------------------------------------------------------------
(* The agent: run(), run_session() and the calls below them.               *)

Dial ==
  /\ agent.at = "connecting"
  /\ wire' = "live"
  /\ agent' = Agent("upgrading")
  /\ UNCHANGED <<cloudVars, cloud, up, down, buffered, backoff, faults>>

\* Refused, or not there within ten seconds.
DialFails ==
  /\ agent.at = "connecting"
  /\ faults < Faults /\ faults' = faults + 1
  /\ agent' = Agent("backing")
  /\ UNCHANGED <<cloudVars, netVars, backoff>>

\* The agent's end is closed, of which the other one hears or not.
HangUp ==
  /\ wire' = "none"
  /\ cloud' \in (IF cloud = "live" THEN {"dead", "silent"} ELSE {cloud})
  /\ up' = (IF cloud = "live" THEN <<>> ELSE up)
  /\ down' = <<>> /\ buffered' = <<>>

\* The connection is lost, or the handshake meets a frame that is not its own.
AttemptFails ==
  /\ agent.at \in {"upgrading", "handshaking"}
  /\ wire = "dead" \/ (agent.at = "handshaking" /\ cloud = "live" /\ up # <<>>)
  /\ HangUp
  /\ agent' = Agent("backing")
  /\ UNCHANGED <<cloudVars, backoff, faults>>

\* Mutant: the wait is doubled after the limit has been looked at.
WakeUncapped ==
  /\ agent.at \in {"resting", "backing"}
  /\ backoff' = IF agent.at = "resting" \/ backoff >= Cap THEN backoff ELSE 2 * backoff
  /\ agent' = Agent("connecting")
  /\ UNCHANGED <<cloudVars, netVars, faults>>

\* After an attempt that failed the next wait is twice as long.
Wake ==
  /\ agent.at \in {"resting", "backing"}
  /\ backoff' = IF agent.at = "resting" THEN backoff
                ELSE IF 2 * backoff < Cap THEN 2 * backoff ELSE Cap
  /\ agent' = Agent("connecting")
  /\ UNCHANGED <<cloudVars, netVars, faults>>

\* disconnect() at the end of a session, after which the wait is the first again.
Leave ==
  /\ HangUp
  /\ agent' = Agent("resting") /\ backoff' = Base
  /\ UNCHANGED <<cloudVars, faults>>

\* poll() looks at the socket, not at what is decrypted already.
PollReady ==
  /\ agent.at = "polling"
  /\ (wire = "live" /\ up # <<>>) \/ wire = "dead"
  /\ agent' = Agent("reading")
  /\ UNCHANGED <<cloudVars, netVars, backoff, faults>>

\* Mutant: an idle agent goes on polling.
PollTimeoutSilent ==
  /\ agent.at = "polling"
  /\ (wire = "live" /\ up = <<>>) \/ wire = "silent"
  /\ UNCHANGED vars

\* Nothing for 30 seconds.
PollTimeout ==
  /\ agent.at = "polling"
  /\ (wire = "live" /\ up = <<>>) \/ wire = "silent"
  /\ agent' = Agent("pinging")
  /\ UNCHANGED <<cloudVars, netVars, backoff, faults>>

\* A silent socket takes frames as well, until TCP gives them up: here the agent is
\* at its ping or reply all that time, until Notices.
SendPing ==
  /\ agent.at = "pinging"
  /\ wire = "live" /\ Len(down) < Down
  /\ down' = Append(down, Ping)
  /\ agent' = Agent("polling")
  /\ UNCHANGED <<cloudVars, cloud, wire, up, buffered, backoff, faults>>

\* One frame: a request is executed, anything else is back to the poll.
Take(frame) ==
  agent' = IF frame.kind = "request" THEN At("executing", frame.of) ELSE Agent("polling")

ReadBuffered ==
  /\ agent.at = "reading"
  /\ buffered # <<>> /\ Head(buffered).kind # "garbage"
  /\ Take(Head(buffered))
  /\ buffered' = Tail(buffered)
  /\ UNCHANGED <<cloudVars, cloud, wire, up, down, backoff, faults>>

\* The next record from the socket, with one frame or more.
ReadRecord ==
  /\ agent.at = "reading" /\ wire = "live"
  /\ buffered = <<>> /\ up # <<>> /\ Head(up).kind # "garbage"
  /\ \E n \in 1..Len(up) :
       /\ buffered' = SubSeq(up, 2, n)
       /\ up' = SubSeq(up, n + 1, Len(up))
  /\ Take(Head(up))
  /\ UNCHANGED <<cloudVars, cloud, wire, down, backoff, faults>>

Execute ==
  /\ agent.at = "executing"
  /\ agent' = At("replying", agent.for)
  /\ UNCHANGED <<cloudVars, netVars, backoff, faults>>

SendReply ==
  /\ agent.at = "replying"
  /\ wire = "live" /\ Len(down) < Down
  /\ down' = Append(down, Reply(agent.for))
  /\ agent' = Agent("polling")
  /\ UNCHANGED <<cloudVars, cloud, wire, up, buffered, backoff, faults>>

\* A call on the lost connection fails, or a record of another session is read:
\* that ends the session.
ConnectionLost ==
  /\ \/ agent.at \in {"pinging", "replying"} /\ wire = "dead"
     \/ agent.at = "reading" /\ buffered = <<>> /\ wire = "dead"
     \/ agent.at = "reading" /\ buffered \o up # <<>> /\ Head(buffered \o up) = Garbage
  /\ Leave

----------------------------------------------------------------------------
(* The network, and the agent's host.                                      *)

\* What becomes of a connection: each end that has it is told, or neither is.
Cut(end) ==
  /\ wire = "live"
  /\ faults < Faults /\ faults' = faults + 1
  /\ wire' = end
  /\ cloud' = (IF cloud = "live" THEN end ELSE cloud)
  /\ up' = (IF cloud = "live" THEN <<>> ELSE up) /\ down' = <<>>
  /\ UNCHANGED <<cloudVars, buffered, agentVars>>

\* The agent is started anew; a proxy in between may keep the old connection.
Restart ==
  /\ faults < Faults /\ faults' = faults + 1
  /\ HangUp
  /\ agent' = Agent("connecting") /\ backoff' = Base
  /\ UNCHANGED cloudVars

\* TCP gives up what has been sent and never acknowledged.
Notices ==
  /\ wire = "silent"
  /\ wire' = "dead"
  /\ UNCHANGED <<cloudVars, cloud, up, down, buffered, agentVars, faults>>

CloudNotices ==
  /\ cloud = "silent"
  /\ cloud' = "dead" /\ up' = <<>>
  /\ UNCHANGED <<cloudVars, wire, down, buffered, agentVars, faults>>

Reactor == Attach \/ Evict
Service ==
  \/ Accept \/ Established \/ AcceptFails \/ CloseUnaccepted
  \/ ReadReply \/ ReadPing \/ PongLock \/ SendPong \/ SessionEnds
AgentStep ==
  \/ Dial \/ DialFails \/ AttemptFails \/ Wake
  \/ PollReady \/ PollTimeout \/ SendPing
  \/ ReadBuffered \/ ReadRecord \/ Execute \/ SendReply \/ ConnectionLost

Next ==
  \/ \E c \in Caller : Call(c) \/ Lock(c) \/ Send(c) \/ SendFails(c) \/ Returns(c)
  \/ Reactor \/ Service \/ AgentStep
  \/ Cut("dead") \/ Cut("silent") \/ Restart
  \/ Notices \/ CloudNotices

\* Every thread runs, timers run out and MongoDB answers.  m_writeMu is had by
\* everyone who asks again and again: between two pongs there are 30 seconds.  An
\* agent that is serving sends a ping or a reply into a silent connection and is
\* told; nobody tells the others.  And an agent that waits for seconds does not come
\* between the two statements of AcceptFails and CloseUnaccepted for ever.
Fairness ==
  /\ \A c \in Caller : /\ SF_vars(Lock(c))
                       /\ WF_vars(Send(c) \/ SendFails(c)) /\ WF_vars(Returns(c))
  /\ SF_vars(PongLock)
  /\ WF_vars(Reactor) /\ WF_vars(Service) /\ WF_vars(AgentStep)
  /\ WF_vars(agent.at \in Serving \ {"reading"} /\ Notices)
  /\ <>[][~(svc = "closing" /\ Attach)]_vars

Spec == Init /\ [][Next]_vars
FairSpec == Spec /\ Fairness
----------------------------------------------------------------------------
\* Every variable has its type; the wait between two attempts stays below its limit.
TypeOK ==
  /\ call \in [Caller -> [at : {"idle", "locking", "sending", "waiting"}, stale : BOOLEAN]]
  /\ calls \in 0..Calls
  /\ writeMu \in Caller \cup {Svc, None}
  /\ svc \in {"idle", "accepting", "closing", "reading", "locking", "ponging"}
  /\ session \in BOOLEAN /\ old \in BOOLEAN
  /\ cloud \in Socket /\ wire \in Socket
  /\ Len(up) <= Up /\ Len(down) <= Down
  /\ agent.at \in {"connecting", "upgrading", "handshaking", "resting", "backing"} \cup Serving
  /\ backoff \in Base..(IF Base > Cap THEN Base ELSE Cap)
  /\ faults \in 0..Faults

\* The three that wait for each other over a connection that is whole: svc() for
\* the mutex or for room for its pong, whoever has the mutex for the agent to read,
\* the agent for svc() to read.
Stuck ==
  /\ cloud = "live" /\ ~old
  /\ Len(up) = Up /\ Len(down) = Down
  /\ agent.at \in {"pinging", "replying"}
  /\ svc = "ponging" \/ (svc = "locking" /\ writeMu # None)

\* The agent reads, without a timeout, from a connection nobody else has any more.
Deaf == wire = "silent" /\ agent.at \in {"upgrading", "handshaking", "reading"}

\* wsdbagent.cpp:293-300: a request that came in one record with another is
\* executed, although poll() does not see it: the pong to the agent's ping makes
\* the socket readable.
InTransit(c) ==
  cloud = "live" /\ \E i \in DOMAIN (buffered \o up) : (buffered \o up)[i] = Request(c)
RequestsServed == \A c \in Caller : InTransit(c) ~> (~InTransit(c) \/ Stuck)


\* What wsdbproxy.hpp:32-34 and :51 say: dispatch() blocks until the response comes,
\* the connection is lost, or 60 seconds are over.  It does not hold: send_n() and
\* m_writeMu are waited for without a limit.
CallsReturn == \A c \in Caller : call[c].at # "idle" ~> call[c].at = "idle"
============================================================================
