----------------------------- MODULE WebServer -----------------------------
(***************************************************************************)
(* The uniservice process around its workers: WebServer accepts, a         *)
(* WebConnection per socket cuts the bytes into requests and deals them    *)
(* out to the MicroService workers in turn, a worker writes its response   *)
(* to the descriptor number it was given, a WebSocket upgrade hands the    *)
(* socket to WsDbServer, and SIGINT or SIGTERM shuts everything down.      *)
(* Descriptor numbers are reused, by clients and by the rest of the        *)
(* process.                                                                *)
(***************************************************************************)
EXTENDS HttpFraming

CONSTANTS Client,      \* the connections that are made to the server
          Fd,          \* descriptor numbers
          Workers,     \* size of the worker pool
          Scripts,     \* what the clients may send, and where each request ends
          Chunks,      \* a response is written in this many pieces
          None, Elsewhere

ASSUME WebAssumption ==
  /\ Workers \in Nat \ {0}
  /\ Chunks \in Nat \ {0}
  /\ None \notin Client
  /\ Elsewhere \notin Client
  /\ Elsewhere # None

\* The position behind which the n-th piece of a sequence cut at these ends begins.
Upto(ends, n) == IF n = 0 THEN 0 ELSE ends[n]

ASSUME ScriptAssumption ==
  \A s \in Scripts, c \in Client :
    /\ s[c].tokens \in Seq(Token) /\ s[c].ends \in Seq(1..Len(s[c].tokens))
    /\ \A m, n \in DOMAIN s[c].ends : m < n => s[c].ends[m] < s[c].ends[n]
    /\ Upto(s[c].ends, Len(s[c].ends)) = Len(s[c].tokens)
    /\ \A n \in DOMAIN s[c].ends :
         IsRequest(SubSeq(s[c].tokens, Upto(s[c].ends, n - 1) + 1, s[c].ends[n]))

Worker == 1..Workers

VARIABLES script,    \* what every client sends: [tokens, ends]
          sent,      \* tokens the client has put on the wire
          got,       \* pieces of responses that arrived at the client
          gone,      \* clients that closed their end
          eager,     \* clients that sent a request before the answer to the last
          state,     \* "waiting" for accept(), "open", "closed"
          file,      \* what the kernel has behind a descriptor number
          pool,      \* m_connectionPool
          read,      \* tokens recv() has returned
          taken,     \* where the requests cut off m_recvBuf so far ended
          handed,    \* connections given to WsDbServer
          reactor,   \* what the reactor thread is doing
          handler,   \* the connection whose handle_input() that is
          current,   \* m_currentWorker, 0 for end()
          queue,     \* the message queue of every worker
          work,      \* the WorkCtx a worker is busy with
          stopped,   \* workers that left svc()
          finished,  \* requests a worker is done with
          main,      \* progress of the main thread through its shutdown
          cutShort   \* the connection whose handle_input() a signal came into, and
                     \* how many requests that had dealt out by then

clientVars == <<script, sent, gone, eager>>
poolVars == <<state, file, pool>>
parseVars == <<read, taken, handed, reactor, handler, current>>
mainVars == <<main, cutShort>>
workerVars == <<queue, work, stopped, finished, got>>
vars == <<clientVars, poolVars, parseVars, workerVars, mainVars>>

----------------------------------------------------------------------------
\* All the tokens a client has to send, and what m_recvBuf holds.
Stream(c) == script[c].tokens
Consumed(c) == Upto(taken[c], Len(taken[c]))
RecvBuf(c) == SubSeq(Stream(c), Consumed(c) + 1, read[c])

Idle == [at |-> "idle", fd |-> None]
Item(f, c, n) == [fd |-> f, conn |-> c, n |-> n, piece |-> 0]
Pill == [fd |-> None, conn |-> None, n |-> 0, piece |-> 0]

\* The n-th request cut off c's buffer, and the one a work item is about.
Cut(c, n) == SubSeq(Stream(c), Upto(taken[c], n - 1) + 1, taken[c][n])
Request(item) == Cut(item.conn, item.n)

\* Which pieces that arrived at c are of its own responses.
Own(c) == {i \in DOMAIN got[c] : got[c][i].conn = c}

Init ==
  /\ script \in Scripts
  /\ sent = [c \in Client |-> 0]
  /\ got = [c \in Client |-> <<>>]
  /\ gone = {} /\ eager = {} /\ handed = {}
  /\ state = [c \in Client |-> "waiting"]
  /\ file = [f \in Fd |-> None]
  /\ pool = [f \in Fd |-> None]
  /\ read = [c \in Client |-> 0]
  /\ taken = [c \in Client |-> <<>>]
  /\ reactor = Idle /\ handler = None
  /\ current = 0
  /\ queue = [w \in Worker |-> <<>>]
  /\ work = [w \in Worker |-> Pill]
  /\ stopped = {} /\ finished = {}
  /\ main = "serving" /\ cutShort = [conn |-> None, after |-> 0]

----------------------------------------------------------------------------
(* The clients, and the rest of the process, which opens and closes        *)
(* descriptors of its own (database, SMTP, identity providers).            *)

\* How many whole requests the first n tokens of c's stream are.
Whole(c, n) == Cardinality({k \in DOMAIN script[c].ends : script[c].ends[k] <= n})
Answered(c) == Cardinality(Own(c)) \div Chunks

Send(c) ==
  /\ c \notin gone
  /\ sent[c] < Len(Stream(c))
  /\ sent' = [sent EXCEPT ![c] = @ + 1]
  /\ eager' = IF Answered(c) < Whole(c, sent[c]) THEN eager \cup {c} ELSE eager
  /\ UNCHANGED <<script, gone, poolVars, parseVars, workerVars, mainVars>>

HangUp(c) ==
  /\ c \notin gone /\ state[c] = "open"
  /\ gone' = gone \cup {c}
  /\ UNCHANGED <<script, sent, eager, poolVars, parseVars, workerVars, mainVars>>

ElsewhereOpens(f) ==
  /\ file[f] = None /\ main # "exited"
  /\ file' = [file EXCEPT ![f] = Elsewhere]
  /\ UNCHANGED <<clientVars, state, pool, parseVars, workerVars, mainVars>>

ElsewhereCloses(f) ==
  /\ file[f] = Elsewhere /\ main # "exited"
  /\ file' = [file EXCEPT ![f] = None]
  /\ UNCHANGED <<clientVars, state, pool, parseVars, workerVars, mainVars>>

----------------------------------------------------------------------------
(* The reactor thread.                                                     *)

\* A process that has ended, or whose main thread waits for itself for ever,
\* runs no handler any more.
Runs == main \notin {"exited", "hung"}

\* WebServer::handle_input().  An entry found under the new number is erased;
\* its destructor closes that number, whoever has it now.
Accept(c, f) ==
  /\ main = "serving" /\ reactor = Idle
  /\ state[c] = "waiting" /\ file[f] = None
  /\ file' = [file EXCEPT ![f] = IF pool[f] = None THEN c ELSE None]
  /\ pool' = [pool EXCEPT ![f] = c]
  /\ state' = [state EXCEPT ![c] = "open"]
  /\ UNCHANGED <<clientVars, parseVars, workerVars, mainVars>>

\* WebConnection::handle_input() up to the parse loop.
Recv(f) ==
  /\ main = "serving" /\ reactor = Idle
  /\ pool[f] \in Client /\ file[f] = pool[f]
  /\ \E n \in (read[pool[f]] + 1)..sent[pool[f]] : read' = [read EXCEPT ![pool[f]] = n]
  /\ reactor' = [at |-> "parsing", fd |-> f] /\ handler' = pool[f]
  /\ UNCHANGED <<clientVars, poolVars, taken, handed, current, workerVars, mainVars>>

\* Mutant: the descriptor is closed and its entry stays in the pool.
EraseLeavesEntry(f) ==
  /\ file' = [file EXCEPT ![f] = None]
  /\ state' = [state EXCEPT ![pool[f]] = "closed"]
  /\ UNCHANGED pool

\* Destroying a pool entry that was not handed off: remove_handler() calls
\* handle_close(), which closes the descriptor number.
Erase(f) ==
  /\ pool' = [pool EXCEPT ![f] = None]
  /\ file' = [file EXCEPT ![f] = None]
  /\ state' = [state EXCEPT ![pool[f]] = "closed"]

\* recv() returned 0 or an error.
PeerClosed(f) ==
  /\ main = "serving" /\ reactor = Idle
  /\ pool[f] \in gone /\ file[f] = pool[f]
  /\ Erase(f)
  /\ UNCHANGED <<clientVars, parseVars, workerVars, mainVars>>

\* handle_input() of a connection that a signal has destroyed under it.  What it
\* does with the freed buffer is undefined: it goes on, ends, or dies.
Dangling == reactor # Idle /\ pool[reactor.fd] = None

Dies ==
  /\ Dangling /\ Runs
  /\ main' = "exited"
  /\ UNCHANGED <<clientVars, poolVars, parseVars, workerVars, cutShort>>

\* The parse loop, one request at a time.
Parsing(f) == reactor = [at |-> "parsing", fd |-> f] /\ Runs
HasRequest(c) == MessageLength(RecvBuf(c)) \in 1..Len(RecvBuf(c))
NextEnd(c) == Consumed(c) + MessageLength(RecvBuf(c))
NextRequest(c) == SubSeq(Stream(c), Consumed(c) + 1, NextEnd(c))

\* Mutant: an iterator that does not start over at the end.
NextWorkerRunsOn(w) == w + 1

\* currentWorker().
NextWorker(w) == IF w = 0 THEN 1 ELSE (w % Workers) + 1

Dispatch(f) ==
  LET c == handler IN
  /\ Parsing(f)
  /\ HasRequest(c) /\ Does(NextRequest(c)) # "upgrade"
  /\ taken' = [taken EXCEPT ![c] = Append(@, NextEnd(c))]
  /\ current' = NextWorker(current)
  /\ queue' = [w \in Worker |-> IF w = NextWorker(current)
                                THEN Append(queue[w], Item(f, c, Len(taken[c]) + 1))
                                ELSE queue[w]]
  /\ UNCHANGED <<clientVars, poolVars, read, handed, reactor, handler,
                 work, stopped, finished, got, mainVars>>

\* Mutant: the connection is closed when its requests have been dealt out.
ParseEndsClosing(f) ==
  /\ Parsing(f) /\ ~Dangling
  /\ ~HasRequest(handler)
  /\ Erase(f)
  /\ reactor' = Idle /\ handler' = None
  /\ UNCHANGED <<clientVars, read, taken, handed, current, workerVars, mainVars>>

ParseEnds(f) ==
  /\ Parsing(f)
  /\ ~HasRequest(handler) \/ Dangling
  /\ reactor' = Idle /\ handler' = None
  /\ UNCHANGED <<clientVars, poolVars, read, taken, handed, current, workerVars, mainVars>>

\* The upgrade: the socket is WsDbServer's before the entry is erased, and the
\* destructor leaves the descriptor alone.
HandOver(f) ==
  LET c == handler IN
  /\ Parsing(f)
  /\ HasRequest(c) /\ Does(NextRequest(c)) = "upgrade"
  /\ taken' = [taken EXCEPT ![c] = Append(@, NextEnd(c))]
  /\ handed' = handed \cup {c}
  /\ reactor' = [at |-> "handing", fd |-> f]
  /\ UNCHANGED <<clientVars, poolVars, read, handler, current, workerVars, mainVars>>

\* Mutant: no m_handedOff, the destructor closes the number it was created with.
EraseHandedClosing(f) ==
  /\ reactor = [at |-> "handing", fd |-> f] /\ Runs
  /\ pool' = [pool EXCEPT ![f] = None]
  /\ file' = [file EXCEPT ![f] = None]
  /\ reactor' = Idle /\ handler' = None
  /\ UNCHANGED <<clientVars, state, read, taken, handed, current, workerVars, mainVars>>

EraseHanded(f) ==
  /\ reactor = [at |-> "handing", fd |-> f] /\ Runs
  /\ pool' = [pool EXCEPT ![f] = None]
  /\ reactor' = Idle /\ handler' = None
  /\ UNCHANGED <<clientVars, state, file, read, taken, handed, current, workerVars, mainVars>>

\* WsDbServer closes the agent's socket, from a thread of its own.
AgentClosed(f) ==
  /\ file[f] \in handed /\ main # "exited"
  /\ file' = [file EXCEPT ![f] = None]
  /\ state' = [state EXCEPT ![file[f]] = "closed"]
  /\ UNCHANGED <<clientVars, pool, parseVars, workerVars, mainVars>>

\* handle_signal() runs in the middle of whatever the main thread is doing, which
\* while it serves is the reactor's work.
Interrupted ==
  cutShort' = IF reactor.at = "parsing"
              THEN [conn |-> handler, after |-> Len(taken[handler])] ELSE cutShort

\* Mutant: the pill overtakes the work in the queues.
SignalUrgent ==
  /\ main = "serving"
  /\ pool' = [f \in Fd |-> None]
  /\ queue' = [w \in Worker |-> <<Pill>> \o queue[w]]
  /\ main' = "stopping"
  /\ Interrupted
  /\ UNCHANGED <<clientVars, state, file, parseVars, work, stopped, finished, got>>

\* The connections leave the reactor with their sockets open, and a pill follows
\* the work of the first workers.
SendPills(reached) ==
  /\ pool' = [f \in Fd |-> None]
  /\ queue' = [w \in Worker |-> IF w <= reached THEN Append(queue[w], Pill) ELSE queue[w]]
  /\ Interrupted
  /\ UNCHANGED <<clientVars, state, file, parseVars, work, stopped, finished, got>>

\* handle_signal() and handle_close().
Signal ==
  /\ main = "serving"
  /\ SendPills(Workers)
  /\ main' = "stopping"

\* It came into putq(), or into the allocator, whose lock the main thread then
\* holds: the handler waits for that lock, and never gets to the other workers.
SignalHangs ==
  /\ main = "serving" /\ reactor # Idle
  /\ \E reached \in 0..(Workers - 1) : SendPills(reached)
  /\ main' = "hung"
----------------------------------------------------------------------------
(* A worker: MicroService::svc() and process_request().                    *)

Running(w) == w \notin stopped /\ main # "exited"
Busy(w) == work[w] # Pill

\* Mutant: a worker that leaves its work in the queue.
GetWorkPeeks(w) ==
  /\ Running(w) /\ ~Busy(w)
  /\ queue[w] # <<>> /\ Head(queue[w]) # Pill
  /\ work' = [work EXCEPT ![w] = Head(queue[w])]
  /\ UNCHANGED <<clientVars, poolVars, parseVars, queue, stopped, finished, got, mainVars>>

GetWork(w) ==
  /\ Running(w) /\ ~Busy(w)
  /\ queue[w] # <<>> /\ Head(queue[w]) # Pill
  /\ work' = [work EXCEPT ![w] = Head(queue[w])]
  /\ queue' = [queue EXCEPT ![w] = Tail(@)]
  /\ UNCHANGED <<clientVars, poolVars, parseVars, stopped, finished, got, mainVars>>

GetPill(w) ==
  /\ Running(w) /\ ~Busy(w)
  /\ queue[w] # <<>> /\ Head(queue[w]) = Pill
  /\ queue' = [queue EXCEPT ![w] = Tail(@)]
  /\ stopped' = stopped \cup {w}
  /\ UNCHANGED <<clientVars, poolVars, parseVars, work, finished, got, mainVars>>

Done(w) ==
  /\ work' = [work EXCEPT ![w] = Pill]
  /\ finished' = finished \cup {<<work[w].conn, work[w].n>>}

\* A method process_request() does not know: no response at all.
Unsupported(w) ==
  /\ Running(w) /\ Busy(w)
  /\ Does(Request(work[w])) = "unsupported"
  /\ Done(w)
  /\ UNCHANGED <<clientVars, poolVars, parseVars, queue, stopped, got, mainVars>>

\* http_send(): one ::send() to whatever is behind the number.
Writing(w) == Running(w) /\ Busy(w) /\ Does(Request(work[w])) # "unsupported"

\* Mutant: the loop runs once more when everything has been sent.
SendPieceTooMany(w) ==
  /\ Writing(w)
  /\ file[work[w].fd] # None
  /\ LET to == file[work[w].fd] IN
     got' = IF to \in Client \ gone THEN [got EXCEPT ![to] = Append(@, work[w])] ELSE got
  /\ IF work[w].piece = Chunks
     THEN Done(w)
     ELSE /\ work' = [work EXCEPT ![w].piece = @ + 1]
          /\ UNCHANGED finished
  /\ UNCHANGED <<clientVars, poolVars, parseVars, queue, stopped, mainVars>>

SendPiece(w) ==
  /\ Writing(w)
  /\ file[work[w].fd] # None
  /\ LET to == file[work[w].fd] IN
     got' = IF to \in Client \ gone THEN [got EXCEPT ![to] = Append(@, work[w])] ELSE got
  /\ IF work[w].piece + 1 = Chunks
     THEN Done(w)
     ELSE /\ work' = [work EXCEPT ![w].piece = @ + 1]
          /\ UNCHANGED finished
  /\ UNCHANGED <<clientVars, poolVars, parseVars, queue, stopped, mainVars>>

SendFails(w) ==
  /\ Writing(w)
  /\ file[work[w].fd] = None \/ file[work[w].fd] \in gone
  /\ Done(w)
  /\ UNCHANGED <<clientVars, poolVars, parseVars, queue, stopped, got, mainVars>>

\* Nothing in the process handles SIGPIPE, which the second send() to a socket
\* whose peer has gone raises.
BrokenPipe(w) ==
  /\ Writing(w)
  /\ file[work[w].fd] \in gone
  /\ main' = "exited"
  /\ UNCHANGED <<clientVars, poolVars, parseVars, workerVars, cutShort>>

----------------------------------------------------------------------------
(* The main thread behind start(): ~WebServer() destroys the database      *)
(* client, then the workers, without waiting for their threads.            *)

DropDatabase ==
  /\ main = "stopping" /\ reactor = Idle
  /\ main' = "nodb"
  /\ UNCHANGED <<clientVars, poolVars, parseVars, workerVars, cutShort>>

Exit ==
  /\ main = "nodb"
  /\ main' = "exited"
  /\ UNCHANGED <<clientVars, poolVars, parseVars, workerVars, cutShort>>

\* A worker that uses the database client after that.
UseAfterFree(w) ==
  /\ main = "nodb"
  /\ Running(w) /\ Busy(w)
  /\ main' = "exited"
  /\ UNCHANGED <<clientVars, poolVars, parseVars, workerVars, cutShort>>

----------------------------------------------------------------------------
World ==
  \/ \E c \in Client : Send(c) \/ HangUp(c)
  \/ \E f \in Fd : ElsewhereOpens(f) \/ ElsewhereCloses(f) \/ AgentClosed(f)

Reactor ==
  \/ \E c \in Client, f \in Fd : Accept(c, f)
  \/ \E f \in Fd : \/ Recv(f) \/ PeerClosed(f)
                   \/ Dispatch(f) \/ ParseEnds(f)
                   \/ HandOver(f) \/ EraseHanded(f)
  \/ Dies
  \/ Signal \/ SignalHangs

WorkerStep(w) ==
  \/ GetWork(w) \/ GetPill(w)
  \/ Unsupported(w) \/ SendPiece(w) \/ SendFails(w) \/ BrokenPipe(w)
  \/ UseAfterFree(w)

Next ==
  \/ World \/ Reactor
  \/ \E w \in Worker : WorkerStep(w)
  \/ DropDatabase \/ Exit

\* The operating system runs every worker thread and the reactor thread; a
\* request in a buffer and a request in a queue are looked at eventually.
Fairness ==
  /\ \A w \in Worker : WF_vars(WorkerStep(w))
  /\ \A f \in Fd : WF_vars(Dispatch(f) \/ ParseEnds(f) \/ HandOver(f) \/ EraseHanded(f))

Spec == Init /\ [][Next]_vars
FairSpec == Spec /\ Fairness
----------------------------------------------------------------------------
TypeOK ==
  /\ script \in Scripts
  /\ sent \in [Client -> Nat] /\ read \in [Client -> Nat]
  /\ gone \subseteq Client /\ eager \subseteq Client /\ handed \subseteq Client
  /\ state \in [Client -> {"waiting", "open", "closed"}]
  /\ file \in [Fd -> Client \cup {None, Elsewhere}]
  /\ pool \in [Fd -> Client \cup {None}]
  /\ reactor \in [at : {"idle", "parsing", "handing"}, fd : Fd \cup {None}]
  /\ handler \in Client \cup {None}
  /\ current \in 0..Workers
  /\ stopped \subseteq Worker
  /\ finished \subseteq Client \X (Nat \ {0})
  /\ main \in {"serving", "stopping", "nodb", "exited", "hung"}
  /\ cutShort \in [conn : Client \cup {None}, after : Nat]

\* webservice.cpp:2204: the entry under a descriptor number is always the
\* connection the kernel has there, so accept() never returns a number that is
\* still in the pool and the branch that would close it is never taken.
PoolIsCurrent ==
  \A f \in Fd : pool[f] # None /\ reactor # [at |-> "handing", fd |-> f] =>
                /\ file[f] = pool[f]
                /\ state[pool[f]] = "open"

\* webservice.cpp:2705: work carries a bare descriptor number.  As long as the
\* client has not hung up and the socket was not handed to WsDbServer, the
\* number still means that client, in every queue and in every worker.
DescriptorKept ==
  \A w \in Worker :
    \A item \in Range(queue[w]) \cup {work[w]} :
      item # Pill => \/ file[item.fd] = item.conn
                     \/ item.conn \in gone \cup handed

\* webservice.cpp:2693-2697: erasing a connection never closes a descriptor the
\* rest of the process has opened under that number meanwhile.
OthersKept ==
  [][pool' # pool => \A f \in Fd : file[f] = Elsewhere => file'[f] = Elsewhere]_vars

\* webservice.cpp:2702-2707: every request cut off a buffer, the upgrades apart,
\* is in one queue, or in one worker, or finished: never in two of them (it
\* would be executed twice), never in none (it would be lost).
Slots == UNION {{w} \X (0..Len(queue[w])) : w \in Worker}
ItemAt(slot) == IF slot[2] = 0 THEN work[slot[1]] ELSE queue[slot[1]][slot[2]]
Places(c, n) == {slot \in Slots : ItemAt(slot).conn = c /\ ItemAt(slot).n = n}
Conserved ==
  \A c \in Client : \A n \in DOMAIN taken[c] :
    Does(Cut(c, n)) # "upgrade" =>
      Cardinality(Places(c, n)) = IF <<c, n>> \in finished THEN 0 ELSE 1

\* webservice.cpp:2640-2654: whatever pieces the bytes arrive in, the buffer is
\* cut into exactly the requests that were sent.
WholeRequests == \A c \in Client : IsPrefix(taken[c], script[c].ends)

\* A client that waits for the answer to a request before it sends the next one
\* gets its answers complete, unmixed and in order, although its requests go to
\* different workers.
InOrder ==
  \A c \in Client \ eager : \A i \in Own(c) :
    LET before == Cardinality({j \in Own(c) : j < i})
    IN  got[c][i].n = (before \div Chunks) + 1 /\ got[c][i].piece = before % Chunks

\* A request whose last byte the server has read is answered or given up: the
\* pills of a shutdown do not overtake it.  It is not owed to a connection that
\* became an agent's, nor for what handle_input() had not dealt out when the signal
\* came into it (that may go behind the pills), nor by a process that has ended
\* or whose main thread waits for itself.
DealtOutLate(c, n) == c = cutShort.conn /\ n > cutShort.after
Served ==
  <>[](\A c \in Client : \A n \in 1..Whole(c, read[c]) :
         \/ <<c, n>> \in finished
         \/ c \in handed \/ DealtOutLate(c, n) \/ ~Runs)
============================================================================
