-------------------------- MODULE WebServer_proofs --------------------------
(***************************************************************************)
(* Proofs about WebServer: what the connection pool and the work in the    *)
(* queues say of descriptor numbers that the process reuses.  How requests *)
(* are cut off a buffer makes no difference to them.                       *)
(***************************************************************************)
EXTENDS WebServer, SequenceTheorems, FiniteSetTheorems, TLAPS

----------------------------------------------------------------------------
(* The types these proofs need.                                            *)

Work == {Pill} \cup [fd : Fd, conn : Client, n : Nat \ {0}, piece : Nat]
Reading == {Idle} \cup [at : {"parsing", "handing"}, fd : Fd]

Shape ==
  /\ state \in [Client -> {"waiting", "open", "closed"}]
  /\ file \in [Fd -> Client \cup {None, Elsewhere}]
  /\ pool \in [Fd -> Client \cup {None}]
  /\ reactor \in Reading /\ (reactor # Idle => handler \in Client)
  /\ handed \subseteq Client
  /\ taken \in [Client -> Seq(Nat)]
  /\ queue \in [Worker -> Seq(Work)] /\ work \in [Worker -> Work]

LEMMA ReactorType ==
  ASSUME Shape, NEW f \in Fd, NEW what \in {"parsing", "handing"},
         reactor = [at |-> what, fd |-> f]
  PROVE  reactor # Idle /\ handler \in Client
BY DEF Shape, Idle

LEMMA PillType ==
  /\ Pill \in Work /\ \A item \in Work : item # Pill => item.fd \in Fd /\ item.conn \in Client
  /\ \A item \in Work : item # Pill => item \in [fd : Fd, conn : Client, n : Nat \ {0}, piece : Nat]
BY DEF Work

LEMMA InitShape == Init => Shape
<1> SUFFICES ASSUME Init PROVE Shape
  OBVIOUS
<1>1. /\ state \in [Client -> {"waiting", "open", "closed"}]
      /\ file \in [Fd -> Client \cup {None, Elsewhere}]
      /\ pool \in [Fd -> Client \cup {None}] /\ handed = {}
  BY DEF Init
<1>2. reactor \in Reading /\ reactor = Idle
  BY DEF Init, Reading
<1>3. taken \in [Client -> Seq(Nat)]
  BY DEF Init
<1>4. queue \in [Worker -> Seq(Work)] /\ work \in [Worker -> Work]
  BY PillType DEF Init
<1> QED
  BY <1>1, <1>2, <1>3, <1>4 DEF Shape

\* What is behind the request that is next is a position.
LEMMA EndIsNat ==
  ASSUME Shape, NEW c \in Client, HasRequest(c)
  PROVE  Consumed(c) \in Nat /\ NextEnd(c) \in Nat /\ Consumed(c) < NextEnd(c)
<1>1. taken[c] \in Seq(Nat) /\ Len(taken[c]) \in Nat
  BY DEF Shape
<1>2. Consumed(c) \in Nat
  BY <1>1 DEF Consumed, Upto
<1>3. MessageLength(RecvBuf(c)) \in Nat \ {0}
  BY DEF HasRequest
<1> QED
  BY <1>2, <1>3 DEF NextEnd

\* What a signal does to the queues and the pool, however far it gets.
LEMMA PillsSent ==
  ASSUME Shape, Signal \/ SignalHangs
  PROVE  /\ queue' \in [Worker -> Seq(Work)]
         /\ \A w \in Worker : queue'[w] \in {queue[w], Append(queue[w], Pill)}
         /\ pool' = [f \in Fd |-> None] /\ Interrupted
         /\ UNCHANGED <<clientVars, state, file, parseVars, work, stopped, finished, got>>
<1>1. PICK reached : SendPills(reached)
  BY DEF Signal, SignalHangs
<1>2. /\ queue' = [w \in Worker |-> IF w <= reached THEN Append(queue[w], Pill) ELSE queue[w]]
      /\ pool' = [f \in Fd |-> None] /\ Interrupted
      /\ UNCHANGED <<clientVars, state, file, parseVars, work, stopped, finished, got>>
  BY <1>1 DEF SendPills
<1>3. \A w \in Worker : queue[w] \in Seq(Work) /\ Append(queue[w], Pill) \in Seq(Work)
  BY PillType DEF Shape
<1>4. queue' \in [Worker -> Seq(Work)]
  BY <1>2, <1>3
<1> QED
  BY <1>2, <1>4

\* The message queues keep holding work, and the workers too.
LEMMA WorkStep ==
  ASSUME Shape, [Next]_vars
  PROVE  queue' \in [Worker -> Seq(Work)] /\ work' \in [Worker -> Work]
<1> DEFINE Goal == queue' \in [Worker -> Seq(Work)] /\ work' \in [Worker -> Work]
<1> USE DEF workerVars, poolVars, parseVars, clientVars, mainVars
<1>0. queue \in [Worker -> Seq(Work)] /\ work \in [Worker -> Work]
  BY DEF Shape
<1>1. CASE UNCHANGED <<queue, work>>
  BY <1>0, <1>1
<1>2. ASSUME NEW f \in Fd, Dispatch(f) PROVE Goal
  <2> DEFINE c == handler
             item == Item(f, c, Len(taken[c]) + 1)
  <2>1. c \in Client
    BY <1>2, ReactorType DEF Dispatch, Parsing
  <2>2. Len(taken[c]) \in Nat
    BY <2>1 DEF Shape
  <2>3. item \in Work
    BY <2>1, <2>2 DEF Item, Work
  <2>4. queue' = [w \in Worker |-> IF w = NextWorker(current) THEN Append(queue[w], item) ELSE queue[w]]
    BY <1>2 DEF Dispatch
  <2>5. UNCHANGED work
    BY <1>2 DEF Dispatch
  <2> HIDE DEF c, item
  <2> QED
    BY <1>0, <2>3, <2>4, <2>5
<1>3. CASE Signal \/ SignalHangs
  BY <1>0, <1>3, PillsSent
<1>4. ASSUME NEW w \in Worker, GetWork(w) \/ GetPill(w) PROVE Goal
  <2>1. queue[w] \in Seq(Work) /\ queue[w] # <<>>
    BY <1>0, <1>4 DEF GetWork, GetPill
  <2>2. Head(queue[w]) \in Work /\ Tail(queue[w]) \in Seq(Work)
    BY <2>1
  <2> QED
    BY <1>0, <1>4, <2>2 DEF GetWork, GetPill
<1>5. ASSUME NEW w \in Worker, Done(w), UNCHANGED queue PROVE Goal
  BY <1>0, <1>5, PillType DEF Done
<1>6. ASSUME NEW w \in Worker, SendPiece(w) PROVE Goal
  <2>1. CASE Done(w)
    BY <1>5, <1>6, <2>1 DEF SendPiece
  <2>2. CASE work' = [work EXCEPT ![w].piece = @ + 1]
    <3>1. work[w] \in [fd : Fd, conn : Client, n : Nat \ {0}, piece : Nat]
      BY <1>0, <1>6, PillType DEF SendPiece, Writing, Busy
    <3>2. [work[w] EXCEPT !.piece = @ + 1] \in Work
      BY <3>1 DEF Work
    <3> QED
      BY <1>0, <1>6, <2>2, <3>2 DEF SendPiece
  <2> QED
    BY <1>6, <2>1, <2>2 DEF SendPiece
<1> QED
  BY <1>1, <1>2, <1>3, <1>4, <1>5, <1>6
  DEF Next, World, Reactor, WorkerStep, Send, HangUp, ElsewhereOpens, ElsewhereCloses, AgentClosed,
      Accept, Recv, PeerClosed, ParseEnds, HandOver, EraseHanded, Dies, Unsupported, SendFails,
      BrokenPipe, UseAfterFree, DropDatabase, Exit, vars

LEMMA ScriptStays == [Next]_vars => UNCHANGED script
BY DEF Next, World, Reactor, WorkerStep, Send, HangUp, ElsewhereOpens, ElsewhereCloses, AgentClosed,
       Accept, Recv, PeerClosed, Dispatch, ParseEnds, HandOver, EraseHanded, Dies, Signal, SignalHangs, SendPills, GetWork,
       GetPill, Unsupported, SendPiece, SendFails, BrokenPipe, UseAfterFree, DropDatabase, Exit,
       vars, clientVars

LEMMA ShapeStep == Shape /\ [Next]_vars => Shape'
<1> SUFFICES ASSUME Shape, [Next]_vars PROVE Shape'
  OBVIOUS
<1> USE DEF workerVars, poolVars, parseVars, clientVars, mainVars
<1>1. /\ state' \in [Client -> {"waiting", "open", "closed"}]
      /\ file' \in [Fd -> Client \cup {None, Elsewhere}]
      /\ pool' \in [Fd -> Client \cup {None}]
  <2> DEFINE Goal == /\ state' \in [Client -> {"waiting", "open", "closed"}]
                     /\ file' \in [Fd -> Client \cup {None, Elsewhere}]
                     /\ pool' \in [Fd -> Client \cup {None}]
  <2>1. CASE UNCHANGED poolVars
    BY <2>1 DEF Shape
  <2>2. ASSUME NEW c \in Client, NEW f \in Fd, Accept(c, f) PROVE Goal
    BY <2>2 DEF Accept, Shape
  <2>3. ASSUME NEW f \in Fd, \/ PeerClosed(f) \/ EraseHanded(f) \/ ElsewhereOpens(f)
                             \/ ElsewhereCloses(f) \/ AgentClosed(f)
        PROVE  Goal
    BY <2>3 DEF PeerClosed, Erase, EraseHanded, ElsewhereOpens, ElsewhereCloses, AgentClosed, Shape
  <2>4. CASE Signal \/ SignalHangs
    BY <2>4, PillsSent DEF Shape
  <2> QED
    BY <2>1, <2>2, <2>3, <2>4
    DEF Dies, Next, World, Reactor, WorkerStep, Send, HangUp, Recv, Dispatch, ParseEnds, HandOver, GetWork,
        GetPill, Unsupported, SendPiece, SendFails, BrokenPipe, UseAfterFree, DropDatabase, Exit, vars
<1>2. reactor' \in Reading /\ (reactor' # Idle => handler' \in Client)
  <2> DEFINE Goal == reactor' \in Reading /\ (reactor' # Idle => handler' \in Client)
  <2>1. CASE UNCHANGED <<reactor, handler>>
    BY <2>1 DEF Shape
  <2>2. ASSUME NEW c \in Client, NEW f \in Fd, Accept(c, f) PROVE Goal
    BY <2>2 DEF Accept, Shape
  <2>3. ASSUME NEW f \in Fd, Recv(f) PROVE Goal
    BY <2>3 DEF Recv, Shape, Reading
  <2>4. ASSUME NEW f \in Fd, PeerClosed(f) PROVE Goal
    BY <2>4 DEF PeerClosed, Shape
  <2>5. ASSUME NEW f \in Fd, ParseEnds(f) \/ EraseHanded(f) PROVE Goal
    BY <2>5 DEF ParseEnds, EraseHanded, Reading
  <2>6. ASSUME NEW f \in Fd, HandOver(f) PROVE Goal
    BY <2>6, ReactorType DEF HandOver, Parsing, Reading
  <2>7. CASE Signal \/ SignalHangs
    BY <2>7, PillsSent DEF Shape
  <2> QED
    BY <2>1, <2>2, <2>3, <2>4, <2>5, <2>6, <2>7
    DEF Dies, Next, World, Reactor, WorkerStep, Send, HangUp, ElsewhereOpens, ElsewhereCloses, AgentClosed,
        Dispatch, GetWork, GetPill, Unsupported, SendPiece, SendFails, BrokenPipe, UseAfterFree,
        DropDatabase, Exit, vars
<1>3. taken' \in [Client -> Seq(Nat)]
  <2>1. CASE UNCHANGED taken
    BY <2>1 DEF Shape
  <2>2. ASSUME NEW f \in Fd, Dispatch(f) \/ HandOver(f) PROVE taken' \in [Client -> Seq(Nat)]
    <3>1. PICK c, end : c = handler /\ end = NextEnd(c)
      OBVIOUS
    <3>2. /\ c \in Client /\ HasRequest(c)
          /\ taken' = [taken EXCEPT ![c] = Append(taken[c], end)]
      BY <2>2, <3>1, ReactorType DEF Dispatch, HandOver, Parsing
    <3>3. end \in Nat
      BY <3>1, <3>2, EndIsNat
    <3> QED
      BY <3>2, <3>3 DEF Shape
  <2> QED
    BY <2>1, <2>2
    DEF Next, World, Reactor, WorkerStep, Send, HangUp, ElsewhereOpens, ElsewhereCloses, AgentClosed,
        Accept, Recv, PeerClosed, ParseEnds, EraseHanded, Dies, Signal, SignalHangs, SendPills, GetWork, GetPill, Unsupported,
        SendPiece, SendFails, BrokenPipe, UseAfterFree, DropDatabase, Exit, vars
<1>4. handed' \subseteq Client
  <2>1. CASE UNCHANGED handed
    BY <2>1 DEF Shape
  <2>2. ASSUME NEW f \in Fd, HandOver(f) PROVE handed' \subseteq Client
    BY <2>2, ReactorType DEF HandOver, Parsing, Shape
  <2> QED
    BY <2>1, <2>2
    DEF Next, World, Reactor, WorkerStep, Send, HangUp, ElsewhereOpens, ElsewhereCloses, AgentClosed,
        Accept, Recv, PeerClosed, Dispatch, ParseEnds, EraseHanded, Dies, Signal, SignalHangs, SendPills, GetWork, GetPill,
        Unsupported, SendPiece, SendFails, BrokenPipe, UseAfterFree, DropDatabase, Exit, vars
<1> QED
  BY <1>1, <1>2, <1>3, <1>4, WorkStep DEF Shape

----------------------------------------------------------------------------
(* The pool and the kernel's table.                                        *)

\* A client is behind one number at most, and behind none before accept(); what
\* was handed over is in the pool only until its entry is erased.
FilesDistinct ==
  \A f, g \in Fd : file[f] \in Client /\ file[f] = file[g] => f = g
WaitingOutside ==
  \A c \in Client : state[c] = "waiting" => c \notin handed /\ \A f \in Fd : file[f] # c
HandedLeaves ==
  \A f \in Fd : pool[f] \in handed => reactor = [at |-> "handing", fd |-> f]

\* The connection that is being read is in the kernel's table under its number; a
\* signal may have taken it out of the pool, but nobody closes its descriptor.
HandlerStays ==
  \A f \in Fd :
    reactor = [at |-> "parsing", fd |-> f] =>
      file[f] = handler /\ state[handler] = "open" /\ handler \notin handed

PoolInv == PoolIsCurrent /\ FilesDistinct /\ WaitingOutside /\ HandedLeaves /\ HandlerStays

LEMMA PoolStep == Shape /\ PoolInv /\ [Next]_vars => PoolInv'
<1> SUFFICES ASSUME Shape, PoolInv, [Next]_vars PROVE PoolInv'
  OBVIOUS
<1> USE WebAssumption DEF workerVars, poolVars, parseVars, clientVars, mainVars
<1> USE DEF PoolInv, PoolIsCurrent, FilesDistinct, WaitingOutside, HandedLeaves, HandlerStays
<1>1. CASE UNCHANGED <<poolVars, handed, reactor, handler>>
  BY <1>1
<1>2. ASSUME NEW f \in Fd, ElsewhereOpens(f) \/ ElsewhereCloses(f) PROVE PoolInv'
  <2>1. /\ UNCHANGED <<state, pool, handed, reactor, handler>>
        /\ file[f] \notin Client /\ \A g \in Fd : g # f => file'[g] = file[g]
        /\ file'[f] \notin Client
    BY <1>2 DEF ElsewhereOpens, ElsewhereCloses, Shape
  <2>2. PoolIsCurrent'
    BY <2>1 DEF Shape
  <2>3. FilesDistinct'
    BY <2>1
  <2>4. WaitingOutside'
    BY <2>1
  <2>5. HandlerStays'
    BY <2>1, ReactorType
  <2> QED
    BY <2>1, <2>2, <2>3, <2>4, <2>5
<1>3. ASSUME NEW c \in Client, NEW f \in Fd, Accept(c, f) PROVE PoolInv'
  <2>1. /\ reactor = Idle /\ UNCHANGED <<reactor, handed>>
        /\ state[c] = "waiting" /\ file[f] = None
        /\ pool' = [pool EXCEPT ![f] = c] /\ state' = [state EXCEPT ![c] = "open"]
    BY <1>3 DEF Accept
  <2>2. reactor # [at |-> "handing", fd |-> f] /\ \A g \in Fd : reactor # [at |-> "handing", fd |-> g]
    BY <2>1 DEF Idle
  <2>3. pool[f] = None
    BY <2>1, <2>2
  <2>4. file' = [file EXCEPT ![f] = c]
    BY <1>3, <2>3 DEF Accept
  <2>5. /\ pool'[f] = c /\ file'[f] = c /\ state'[c] = "open"
        /\ \A g \in Fd : g # f => pool'[g] = pool[g] /\ file'[g] = file[g] /\ file[g] # c
        /\ \A d \in Client : d # c => state'[d] = state[d]
        /\ c \notin handed
    BY <2>1, <2>4 DEF Shape
  <2>6. \A g \in Fd : pool[g] # None => pool[g] \in Client /\ pool[g] # c
    BY <2>1, <2>2, <2>5 DEF Shape
  <2>7. PoolIsCurrent'
    BY <2>2, <2>5, <2>6
  <2>8. FilesDistinct'
    BY <2>5
  <2>9. WaitingOutside'
    BY <2>1, <2>5
  <2>10. HandedLeaves'
    BY <2>1, <2>5
  <2>11. HandlerStays'
    BY <2>1 DEF Idle
  <2> QED
    BY <2>7, <2>8, <2>9, <2>10, <2>11
<1>4. ASSUME NEW f \in Fd, Recv(f) PROVE PoolInv'
  <2>1. /\ reactor = Idle /\ reactor' = [at |-> "parsing", fd |-> f] /\ handler' = pool[f]
        /\ pool[f] \in Client /\ UNCHANGED <<poolVars, handed>>
    BY <1>4 DEF Recv
  <2>2. \A g \in Fd : reactor # [at |-> "handing", fd |-> g] /\ reactor' # [at |-> "handing", fd |-> g]
    BY <2>1 DEF Idle
  <2>3. \A g \in Fd : pool[g] \notin handed
    BY <2>2
  <2>4. file[f] = pool[f] /\ state[pool[f]] = "open"
    BY <2>1, <2>2
  <2>5. HandlerStays'
    BY <2>1, <2>3, <2>4
  <2> QED
    BY <2>1, <2>2, <2>3, <2>5
<1>5. ASSUME NEW f \in Fd, PeerClosed(f) PROVE PoolInv'
  <2>1. /\ reactor = Idle /\ UNCHANGED <<reactor, handed>> /\ pool[f] \in gone /\ file[f] = pool[f]
        /\ pool' = [pool EXCEPT ![f] = None] /\ file' = [file EXCEPT ![f] = None]
        /\ state' = [state EXCEPT ![pool[f]] = "closed"]
    BY <1>5 DEF PeerClosed, Erase
  <2>2. \A g \in Fd : \A what : reactor' # [at |-> what, fd |-> g] \/ what = "idle"
    BY <2>1 DEF Idle
  <2>3. HandlerStays'
    BY <2>2
  <2> QED
    BY <2>1, <2>2, <2>3 DEF Shape
<1>6. ASSUME NEW f \in Fd, Dispatch(f) PROVE PoolInv'
  BY <1>1, <1>6 DEF Dispatch
<1>7. ASSUME NEW f \in Fd, ParseEnds(f) PROVE PoolInv'
  <2>1. /\ reactor = [at |-> "parsing", fd |-> f] /\ reactor' = Idle
        /\ UNCHANGED <<poolVars, handed>>
    BY <1>7 DEF ParseEnds, Parsing
  <2>2. \A g \in Fd : \A what \in {"parsing", "handing"} : reactor' # [at |-> what, fd |-> g]
    BY <2>1 DEF Idle
  <2>3. \A g \in Fd : reactor # [at |-> "handing", fd |-> g]
    BY <2>1
  <2> QED
    BY <2>1, <2>2, <2>3
<1>8. ASSUME NEW f \in Fd, HandOver(f) PROVE PoolInv'
  <2>1. /\ reactor = [at |-> "parsing", fd |-> f] /\ reactor' = [at |-> "handing", fd |-> f]
        /\ handed' = handed \cup {handler} /\ UNCHANGED <<poolVars, handler>>
    BY <1>8 DEF HandOver, Parsing
  <2>2. \A g \in Fd : reactor # [at |-> "handing", fd |-> g] /\ reactor' # [at |-> "parsing", fd |-> g]
    BY <2>1
  <2>3. handler \in Client /\ file[f] = handler /\ state[handler] = "open"
    BY <2>1, ReactorType
  <2>4. \A g \in Fd : pool[g] = handler => g = f
    BY <2>2, <2>3, WebAssumption
  <2>5. PoolIsCurrent' /\ FilesDistinct'
    BY <2>1, <2>2
  <2>6. WaitingOutside'
    BY <2>1, <2>3
  <2>7. HandedLeaves'
    BY <2>1, <2>2, <2>4
  <2>8. HandlerStays'
    BY <2>2
  <2> QED
    BY <2>5, <2>6, <2>7, <2>8
<1>9. ASSUME NEW f \in Fd, EraseHanded(f) PROVE PoolInv'
  <2>1. /\ reactor = [at |-> "handing", fd |-> f] /\ reactor' = Idle
        /\ pool' = [pool EXCEPT ![f] = None] /\ UNCHANGED <<state, file, handed>>
    BY <1>9 DEF EraseHanded
  <2>2. \A g \in Fd : g # f => reactor # [at |-> "handing", fd |-> g]
    BY <2>1
  <2>3. HandlerStays'
    BY <2>1 DEF Idle
  <2> QED
    BY <2>1, <2>2, <2>3 DEF Shape
<1>10. ASSUME NEW f \in Fd, AgentClosed(f) PROVE PoolInv'
  <2>1. /\ file[f] \in handed /\ file' = [file EXCEPT ![f] = None]
        /\ state' = [state EXCEPT ![file[f]] = "closed"]
        /\ UNCHANGED <<pool, handed, reactor, handler>>
    BY <1>10 DEF AgentClosed
  <2>2. \A g \in Fd : pool[g] = file[f] => reactor = [at |-> "handing", fd |-> g]
    BY <2>1
  <2>3. HandlerStays'
    <3> SUFFICES ASSUME NEW g \in Fd, reactor = [at |-> "parsing", fd |-> g]
                 PROVE  file'[g] = handler /\ state'[handler] = "open" /\ handler \notin handed
      BY <2>1
    <3>1. handler \in Client /\ file[g] = handler /\ state[handler] = "open" /\ handler \notin handed
      BY ReactorType
    <3>2. g # f /\ file[f] # handler
      BY <2>1, <3>1
    <3> QED
      BY <2>1, <3>1, <3>2 DEF Shape
  <2> QED
    BY <2>1, <2>2, <2>3 DEF Shape
<1>11. CASE Signal \/ SignalHangs
  <2>1. /\ pool' = [f \in Fd |-> None]
        /\ UNCHANGED <<state, file, handed, reactor, handler>>
    BY <1>11, PillsSent
  <2>2. None \notin handed
    BY DEF Shape
  <2> QED
    BY <2>1, <2>2
<1> QED
  BY <1>1, <1>2, <1>3, <1>4, <1>5, <1>6, <1>7, <1>8, <1>9, <1>10, <1>11
  DEF Next, World, Reactor, WorkerStep, Send, HangUp, Dies, GetWork, GetPill, Unsupported, SendPiece,
      SendFails, BrokenPipe, UseAfterFree, DropDatabase, Exit, vars

----------------------------------------------------------------------------
(* The work in the queues.                                                 *)

Items(w) == Range(queue[w]) \cup {work[w]}
Means(item) == file[item.fd] = item.conn \/ item.conn \in gone \cup handed

LEMMA KeptIsMeant ==
  DescriptorKept <=> \A w \in Worker : \A item \in Items(w) : item # Pill => Means(item)
BY DEF DescriptorKept, Items, Means

LEMMA ItemTypes == ASSUME Shape, NEW w \in Worker, NEW item \in Items(w) PROVE item \in Work
<1>1. queue[w] \in Seq(Work) /\ work[w] \in Work
  BY DEF Shape
<1>2. \A i \in DOMAIN queue[w] : queue[w][i] \in Work
  BY <1>1
<1> QED
  BY <1>1, <1>2 DEF Items, Range

\* A number changes its meaning only for work whose client has gone or was handed
\* over: what is left to say of a step is where its items come from.
LEMMA MeansStep ==
  ASSUME Shape, PoolInv, [Next]_vars, NEW item \in Work, item # Pill, Means(item)
  PROVE  file'[item.fd] = item.conn \/ item.conn \in gone' \cup handed'
<1> DEFINE Goal == file'[item.fd] = item.conn \/ item.conn \in gone' \cup handed'
<1> USE WebAssumption DEF workerVars, poolVars, parseVars, clientVars, mainVars
<1>0. item.fd \in Fd /\ item.conn \in Client /\ item.conn # None /\ item.conn # Elsewhere
  BY PillType
<1>1. CASE UNCHANGED file /\ gone \subseteq gone' /\ handed \subseteq handed'
  BY <1>1 DEF Means
<1>2. ASSUME NEW f \in Fd, file[f] \notin Client \/ file[f] \in gone \cup handed,
             \A g \in Fd : g # f => file'[g] = file[g], UNCHANGED <<gone, handed>>
      PROVE  Goal
  BY <1>0, <1>2 DEF Means
<1>3. ASSUME NEW f \in Fd, ElsewhereOpens(f) \/ ElsewhereCloses(f) \/ AgentClosed(f) PROVE Goal
  BY <1>2, <1>3 DEF ElsewhereOpens, ElsewhereCloses, AgentClosed, Shape
<1>4. ASSUME NEW c \in Client, NEW f \in Fd, Accept(c, f) PROVE Goal
  <2>1. /\ file[f] = None /\ \A g \in Fd : g # f => file'[g] = file[g]
        /\ UNCHANGED <<gone, handed>>
    BY <1>4 DEF Accept, Shape
  <2> QED
    BY <1>2, <2>1
<1>5. ASSUME NEW f \in Fd, PeerClosed(f) PROVE Goal
  <2>1. /\ file[f] \in gone /\ \A g \in Fd : g # f => file'[g] = file[g]
        /\ UNCHANGED <<gone, handed>>
    BY <1>5 DEF PeerClosed, Erase, Shape
  <2> QED
    BY <1>2, <2>1
<1> QED
  BY <1>1, <1>3, <1>4, <1>5
  DEF Next, World, Reactor, WorkerStep, Send, HangUp, Recv, Dispatch, ParseEnds, HandOver, EraseHanded,
      Dies, Signal, SignalHangs, SendPills, GetWork, GetPill, Unsupported, SendPiece, SendFails, BrokenPipe, UseAfterFree,
      DropDatabase, Exit, vars

\* Work was in the hands of its worker, or has just been dealt out, for the
\* connection the kernel has under its number, or is one piece further.
LEMMA ItemStep ==
  ASSUME Shape, PoolInv, [Next]_vars, NEW w \in Worker,
         NEW item \in Range(queue'[w]) \cup {work'[w]}, item # Pill
  PROVE  \/ item \in Items(w)
         \/ \E f \in Fd : /\ Dispatch(f) /\ item = Item(f, handler, Len(taken[handler]) + 1)
                          /\ file'[item.fd] = item.conn
         \/ /\ SendPiece(w) /\ work[w] # Pill
            /\ item = [work[w] EXCEPT !.piece = work[w].piece + 1]
<1> DEFINE Goal == \/ item \in Items(w)
                   \/ \E f \in Fd : /\ Dispatch(f)
                                    /\ item = Item(f, handler, Len(taken[handler]) + 1)
                                    /\ file'[item.fd] = item.conn
                   \/ /\ SendPiece(w) /\ work[w] # Pill
                      /\ item = [work[w] EXCEPT !.piece = work[w].piece + 1]
<1> USE DEF workerVars, poolVars, parseVars, clientVars, mainVars
<1>0. /\ queue \in [Worker -> Seq(Work)] /\ work \in [Worker -> Work]
      /\ queue[w] \in Seq(Work)
      /\ work[w] \in Items(w) /\ \A i \in DOMAIN queue[w] : queue[w][i] \in Items(w)
  BY DEF Shape, Items, Range
<1>1. CASE queue'[w] = queue[w] /\ work'[w] \in {work[w], Pill}
  BY <1>0, <1>1 DEF Items
<1>2. ASSUME NEW f \in Fd, Dispatch(f) PROVE Goal
  <2>0. PICK new : new = Item(f, handler, Len(taken[handler]) + 1)
    OBVIOUS
  <2>1. /\ queue'[w] = queue[w] \/ queue'[w] = Append(queue[w], new)
        /\ UNCHANGED <<work, file>>
    BY <1>2, <2>0 DEF Dispatch
  <2>2. handler \in Client /\ reactor = [at |-> "parsing", fd |-> f]
    BY <1>2, ReactorType DEF Dispatch, Parsing
  <2>3. file[new.fd] = new.conn /\ new \in Work
    <3>1. file[f] = handler
      BY <2>2 DEF PoolInv, HandlerStays
    <3>2. Len(taken[handler]) \in Nat
      BY <2>2 DEF Shape
    <3> QED
      BY <2>0, <2>2, <3>1, <3>2 DEF Item, Work
  <2>4. \A i \in DOMAIN queue'[w] : queue'[w][i] \in Items(w) \cup {new}
    <3>1. CASE queue'[w] = Append(queue[w], new)
      <4>1. /\ queue'[w] \in Seq(Work) /\ Len(queue'[w]) = Len(queue[w]) + 1
            /\ \A i \in 1..Len(queue[w]) : queue'[w][i] = queue[w][i]
            /\ queue'[w][Len(queue[w]) + 1] = new
        BY <1>0, <2>3, <3>1, AppendProperties
      <4>2. \A i \in 1..(Len(queue[w]) + 1) : i \in 1..Len(queue[w]) \/ i = Len(queue[w]) + 1
        BY <1>0
      <4> QED
        BY <1>0, <4>1, <4>2
    <3>2. CASE queue'[w] = queue[w]
      BY <1>0, <3>2
    <3> QED
      BY <2>1, <3>1, <3>2
  <2>5. item \in Items(w) \cup {new}
    BY <1>0, <2>1, <2>4 DEF Range
  <2>6. CASE item = new
    <3>1. file'[item.fd] = item.conn
      BY <2>1, <2>3, <2>6
    <3> QED
      BY <1>2, <2>0, <2>6, <3>1
  <2> QED
    BY <2>5, <2>6
<1>3. CASE Signal \/ SignalHangs
  <2>1. queue'[w] \in {queue[w], Append(queue[w], Pill)} /\ UNCHANGED work
    BY <1>3, PillsSent
  <2>2. CASE queue'[w] = queue[w]
    BY <1>1, <2>1, <2>2
  <2>3. CASE queue'[w] = Append(queue[w], Pill)
    <3>1. item \in Items(w)
      BY <1>0, <2>1, <2>3, PillType DEF Items, Range
    <3> QED
      BY <3>1
  <2> QED
    BY <2>1, <2>2, <2>3
<1>4. ASSUME NEW v \in Worker, GetWork(v) \/ GetPill(v) PROVE Goal
  <2>1. CASE v # w
    BY <1>0, <1>1, <1>4, <2>1 DEF GetWork, GetPill
  <2>2. CASE v = w
    <3>1. queue[w] # <<>> /\ queue'[w] = Tail(queue[w]) /\ work'[w] \in {work[w], Head(queue[w])}
      BY <1>0, <1>4, <2>2 DEF GetWork, GetPill
    <3>2. Head(queue[w]) \in Items(w)
      BY <1>0, <3>1
    <3>3. \A i \in DOMAIN Tail(queue[w]) : Tail(queue[w])[i] \in Items(w)
      BY <1>0, <3>1
    <3>4. item \in Items(w)
      BY <1>0, <3>1, <3>2, <3>3 DEF Range
    <3> QED
      BY <3>4
  <2> QED
    BY <2>1, <2>2
<1>5. ASSUME NEW v \in Worker, Done(v), UNCHANGED queue PROVE Goal
  BY <1>0, <1>1, <1>5 DEF Done
<1>6. ASSUME NEW v \in Worker, SendPiece(v) PROVE Goal
  <2>1. CASE Done(v)
    BY <1>5, <1>6, <2>1 DEF SendPiece
  <2>2. CASE work' = [work EXCEPT ![v].piece = @ + 1] /\ v # w
    BY <1>0, <1>1, <1>6, <2>2 DEF SendPiece
  <2>3. CASE work' = [work EXCEPT ![v].piece = @ + 1] /\ v = w
    <3>1. work[w] # Pill
      BY <1>6, <2>3 DEF SendPiece, Writing, Busy
    <3>2. work'[w] = [work[w] EXCEPT !.piece = work[w].piece + 1]
      BY <1>0, <2>3
    <3>3. queue'[w] = queue[w]
      BY <1>6 DEF SendPiece
    <3> QED
      BY <1>0, <1>6, <2>3, <3>1, <3>2, <3>3 DEF Items
  <2> QED
    BY <1>6, <2>1, <2>2, <2>3 DEF SendPiece
<1> QED
  <2>1. CASE UNCHANGED <<queue, work>>
    BY <1>1, <2>1
  <2> QED
    BY <2>1, <1>2, <1>3, <1>4, <1>5, <1>6
    DEF Next, World, Reactor, WorkerStep, Send, HangUp, ElsewhereOpens, ElsewhereCloses,
        AgentClosed, Accept, Recv, PeerClosed, ParseEnds, HandOver, EraseHanded, Dies, Unsupported,
        SendFails, BrokenPipe, UseAfterFree, DropDatabase, Exit, vars

LEMMA KeptStep ==
  Shape /\ PoolInv /\ DescriptorKept /\ [Next]_vars => DescriptorKept'
<1> SUFFICES ASSUME Shape, PoolInv, DescriptorKept, [Next]_vars,
                    NEW w \in Worker, NEW item \in Range(queue'[w]) \cup {work'[w]}, item # Pill
             PROVE  file'[item.fd] = item.conn \/ item.conn \in gone' \cup handed'
  BY DEF DescriptorKept
<1>1. ASSUME NEW old \in Items(w), old # Pill, old.fd = item.fd, old.conn = item.conn
      PROVE  file'[item.fd] = item.conn \/ item.conn \in gone' \cup handed'
  <2>1. Means(old) /\ old \in Work
    BY <1>1, KeptIsMeant, ItemTypes
  <2> QED
    BY <1>1, <2>1, MeansStep
<1>2. CASE item \in Items(w)
  BY <1>1, <1>2
<1>3. CASE work[w] # Pill /\ item = [work[w] EXCEPT !.piece = work[w].piece + 1]
  <2>1. work[w] \in Items(w) /\ work[w] \in Work
    BY DEF Items, Shape
  <2>2. item.fd = work[w].fd /\ item.conn = work[w].conn
    BY <1>3, <2>1, PillType
  <2> QED
    BY <1>1, <1>3, <2>1, <2>2
<1> QED
  BY <1>2, <1>3, ItemStep

----------------------------------------------------------------------------
(* The rest of the types.                                                  *)

Types ==
  /\ script \in Scripts
  /\ sent \in [Client -> Nat] /\ read \in [Client -> Nat]
  /\ gone \subseteq Client /\ eager \subseteq Client
  /\ current \in 0..Workers
  /\ stopped \subseteq Worker
  /\ finished \subseteq Client \X (Nat \ {0})
  /\ main \in {"serving", "stopping", "nodb", "exited", "hung"}
  /\ handler \in Client \cup {None}
  /\ cutShort \in [conn : Client \cup {None}, after : Nat]

\* The turn of the workers stays within the pool: currentWorker() starts over
\* behind the last one.
LEMMA TurnInPool ==
  ASSUME NEW w \in 0..Workers
  PROVE  NextWorker(w) \in Worker
<1>1. CASE w = 0
  BY <1>1, WebAssumption DEF NextWorker, Worker
<1>2. CASE w # 0
  <2>1. w % Workers \in 0..(Workers - 1)
    BY WebAssumption
  <2> QED
    BY <1>2, <2>1, WebAssumption DEF NextWorker, Worker
<1> QED
  BY <1>1, <1>2

LEMMA TypesStep == Shape /\ Types /\ [Next]_vars => Types'
<1> SUFFICES ASSUME Shape, Types, [Next]_vars PROVE Types'
  OBVIOUS
<1> USE DEF workerVars, poolVars, parseVars, clientVars, mainVars
<1>0. /\ sent \in [Client -> Nat] /\ read \in [Client -> Nat]
      /\ pool \in [Fd -> Client \cup {None}]
      /\ work \in [Worker -> Work]
  BY DEF Types, Shape
<1>1. CASE UNCHANGED <<clientVars, read, handler, current, stopped, finished, mainVars>>
  BY <1>1 DEF Types
<1>2. ASSUME NEW c \in Client, Send(c) PROVE Types'
  BY <1>0, <1>2 DEF Send, Types
<1>3. ASSUME NEW c \in Client, HangUp(c) PROVE Types'
  BY <1>3 DEF HangUp, Types
<1>4. ASSUME NEW f \in Fd, Recv(f) PROVE Types'
  <2>1. PICK n \in (read[pool[f]] + 1)..sent[pool[f]] : read' = [read EXCEPT ![pool[f]] = n]
    BY <1>4 DEF Recv
  <2>2. n \in Nat
    BY <1>0, <1>4 DEF Recv
  <2>3. read' \in [Client -> Nat]
    BY <1>0, <2>1, <2>2
  <2> QED
    BY <1>4, <2>3 DEF Recv, Types
<1>5. ASSUME NEW f \in Fd, Dispatch(f) PROVE Types'
  <2>1. current' \in Worker
    BY <1>5, TurnInPool DEF Dispatch, Types
  <2>2. current' \in 0..Workers
    BY <2>1, WebAssumption DEF Worker
  <2> QED
    BY <1>5, <2>2 DEF Dispatch, Types
<1>6. CASE Signal \/ SignalHangs
  <2>1. /\ Interrupted /\ UNCHANGED <<clientVars, parseVars, stopped, finished>>
        /\ main' \in {"stopping", "hung"}
    BY <1>6, PillsSent DEF Signal, SignalHangs
  <2>2. cutShort' \in [conn : Client \cup {None}, after : Nat]
    <3>1. CASE reactor.at = "parsing"
      <4>1. handler \in Client
        BY <3>1 DEF Shape, Idle
      <4>2. Len(taken[handler]) \in Nat
        BY <4>1 DEF Shape
      <4> QED
        BY <2>1, <3>1, <4>1, <4>2 DEF Interrupted
    <3>2. CASE reactor.at # "parsing"
      BY <2>1, <3>2 DEF Interrupted, Types
    <3> QED
      BY <3>1, <3>2
  <2> QED
    BY <2>1, <2>2 DEF Types
<1>7. ASSUME NEW w \in Worker, GetPill(w) PROVE Types'
  BY <1>7 DEF GetPill, Types
<1>8. ASSUME NEW w \in Worker, Busy(w), Done(w),
             UNCHANGED <<clientVars, read, handler, current, stopped, mainVars>>
      PROVE  Types'
  <2>1. <<work[w].conn, work[w].n>> \in Client \X (Nat \ {0})
    BY <1>0, <1>8, PillType DEF Busy
  <2> QED
    BY <1>8, <2>1 DEF Done, Types
<1>9. ASSUME NEW w \in Worker, Unsupported(w) \/ SendPiece(w) \/ SendFails(w) PROVE Types'
  BY <1>1, <1>8, <1>9 DEF Unsupported, SendPiece, SendFails, Writing
<1>10. ASSUME NEW w \in Worker, BrokenPipe(w) \/ UseAfterFree(w) PROVE Types'
  BY <1>10 DEF BrokenPipe, UseAfterFree, Types
<1>11. CASE DropDatabase \/ Exit \/ Dies
  BY <1>11 DEF DropDatabase, Exit, Dies, Types
<1>12. ASSUME NEW f \in Fd, ParseEnds(f) \/ EraseHanded(f) PROVE Types'
  BY <1>12 DEF ParseEnds, EraseHanded, Types
<1> QED
  BY <1>1, <1>2, <1>3, <1>4, <1>5, <1>6, <1>7, <1>9, <1>10, <1>11, <1>12
  DEF Next, World, Reactor, WorkerStep, ElsewhereOpens, ElsewhereCloses, AgentClosed, Accept,
      PeerClosed, Erase, HandOver, GetWork, vars

----------------------------------------------------------------------------
(* The requests in the queues and in the workers.                          *)

\* A worker's places: 0 is the work it is busy with, the others its queue.
At(w, i) == IF i = 0 THEN work[w] ELSE queue[w][i]
Row(w) == 0..Len(queue[w])
Holds(w, i, c, n) == At(w, i).conn = c /\ At(w, i).n = n

\* The request has been cut off and dealt out, and nobody is done with it.
Pending(c, n) ==
  n \in DOMAIN taken[c] /\ Does(Cut(c, n)) # "upgrade" /\ <<c, n>> \notin finished

Apart ==
  \A v, w \in Worker : \A i \in Row(v), j \in Row(w) : \A c \in Client, n \in Nat :
    Holds(v, i, c, n) /\ Holds(w, j, c, n) => v = w /\ i = j
OnlyPending ==
  \A w \in Worker : \A i \in Row(w) : \A c \in Client, n \in Nat :
    Holds(w, i, c, n) => Pending(c, n)
AllHeld ==
  \A c \in Client, n \in Nat :
    Pending(c, n) => \E w \in Worker : \E i \in Row(w) : Holds(w, i, c, n)

\* What is finished was dealt out before.
DoneTaken ==
  \A c \in Client, n \in Nat : <<c, n>> \in finished => n \in DOMAIN taken[c]

RowsInv == Apart /\ OnlyPending /\ AllHeld /\ DoneTaken

\* A step that moves what the workers hold, each within its own places, keeps the
\* requests apart and held.  was[w][i] is where the content of place i was.
LEMMA Moved ==
  ASSUME RowsInv, UNCHANGED <<script, taken, finished>>,
         NEW was \in [Worker -> [Nat -> Nat]],
         \A w \in Worker : \A i \in Row(w)' : \A c \in Client, n \in Nat :
           Holds(w, i, c, n)' => was[w][i] \in Row(w) /\ Holds(w, was[w][i], c, n),
         \A w \in Worker : \A i, j \in Row(w)' : \A c \in Client, n \in Nat :
           Holds(w, i, c, n)' /\ Holds(w, j, c, n)' /\ was[w][i] = was[w][j] => i = j,
         \A w \in Worker : \A i \in Row(w) : \A c \in Client, n \in Nat :
           Holds(w, i, c, n) => \E j \in Row(w)' : Holds(w, j, c, n)'
  PROVE  RowsInv'
<1>0. \A c, n : Pending(c, n)' <=> Pending(c, n)
  BY DEF Pending, Cut, Stream
<1>1. Apart'
  <2> SUFFICES ASSUME NEW v \in Worker, NEW w \in Worker, NEW i \in Row(v)', NEW j \in Row(w)',
                      NEW c \in Client, NEW n \in Nat, Holds(v, i, c, n)', Holds(w, j, c, n)'
               PROVE  v = w /\ i = j
    BY DEF Apart
  <2>1. /\ was[v][i] \in Row(v) /\ Holds(v, was[v][i], c, n)
        /\ was[w][j] \in Row(w) /\ Holds(w, was[w][j], c, n)
    OBVIOUS
  <2>2. v = w /\ was[v][i] = was[w][j]
    BY <2>1 DEF RowsInv, Apart
  <2> QED
    BY <2>2
<1>2. OnlyPending'
  BY <1>0 DEF RowsInv, OnlyPending
<1>3. AllHeld'
  BY <1>0 DEF RowsInv, AllHeld
<1> QED
  BY <1>1, <1>2, <1>3 DEF RowsInv, DoneTaken

\* What cutting one more request off a buffer does to the requests of the clients.
LEMMA TakenGrows ==
  ASSUME Shape, NEW d \in Client, NEW end \in Nat, NEW k, k = Len(taken[d]) + 1, UNCHANGED script,
         taken' = [taken EXCEPT ![d] = Append(taken[d], end)]
  PROVE  /\ k \in Nat \ {0} /\ k \notin DOMAIN taken[d] /\ DOMAIN taken'[d] = DOMAIN taken[d] \cup {k}
         /\ \A n \in DOMAIN taken[d] : taken'[d][n] = taken[d][n]
         /\ taken'[d][k] = end
         /\ \A c \in Client : c # d => taken'[c] = taken[c]
         /\ \A c \in Client : \A n \in DOMAIN taken[c] : Cut(c, n)' = Cut(c, n)
         /\ Cut(d, k)' = SubSeq(Stream(d), Consumed(d) + 1, end)
<1>1. taken[d] \in Seq(Nat) /\ DOMAIN taken[d] = 1..Len(taken[d]) /\ Len(taken[d]) \in Nat
  BY DEF Shape
<1>2. taken'[d] = Append(taken[d], end) /\ \A c \in Client : c # d => taken'[c] = taken[c]
  BY DEF Shape
<1>3. \A n \in 1..Len(taken[d]) : taken'[d][n] = taken[d][n]
  BY <1>1, <1>2, AppendProperties
<1>4. DOMAIN taken'[d] = 1..(Len(taken[d]) + 1) /\ taken'[d][Len(taken[d]) + 1] = end
  BY <1>1, <1>2, AppendProperties
<1>5. \A n \in 0..Len(taken[d]) : Upto(taken'[d], n) = Upto(taken[d], n)
  BY <1>1, <1>3 DEF Upto
<1>6. ASSUME NEW c \in Client, NEW n \in DOMAIN taken[c] PROVE Cut(c, n)' = Cut(c, n)
  <2>1. CASE c = d
    <3>1. n - 1 \in 0..Len(taken[d]) /\ n \in 1..Len(taken[d])
      BY <1>1, <1>6, <2>1
    <3> QED
      BY <1>3, <1>5, <2>1, <3>1 DEF Cut, Stream
  <2>2. CASE c # d
    BY <1>2, <2>2 DEF Cut, Stream
  <2> QED
    BY <2>1, <2>2
<1>7. Cut(d, k)' = SubSeq(Stream(d), Consumed(d) + 1, end)
  <2>1. k - 1 = Len(taken[d])
    BY <1>1
  <2>2. Cut(d, k)' = SubSeq(Stream(d), Upto(taken'[d], k - 1) + 1, taken'[d][k])
    BY DEF Cut, Stream
  <2>3. Upto(taken'[d], k - 1) = Consumed(d)
    BY <1>1, <1>5, <2>1 DEF Consumed
  <2>4. taken'[d][k] = end
    BY <1>4
  <2> QED
    BY <2>2, <2>3, <2>4
<1> QED
  BY <1>1, <1>2, <1>3, <1>4, <1>6, <1>7

LEMMA RowsStep == Shape /\ Types /\ RowsInv /\ [Next]_vars => RowsInv'
<1> SUFFICES ASSUME Shape, Types, RowsInv, [Next]_vars PROVE RowsInv'
  OBVIOUS
<1> USE DEF workerVars, poolVars, parseVars, clientVars, mainVars
<1>0. /\ queue \in [Worker -> Seq(Work)] /\ work \in [Worker -> Work]
      /\ \A w \in Worker : queue[w] \in Seq(Work) /\ Len(queue[w]) \in Nat
      /\ None \notin Client /\ UNCHANGED script
  BY WebAssumption, ScriptStays DEF Shape
<1>0a. UNCHANGED <<taken, finished>> => \A c, n : Pending(c, n)' <=> Pending(c, n)
  BY <1>0 DEF Pending, Cut, Stream
<1>1. CASE UNCHANGED <<queue, work, taken, finished>>
  <2>1. \A w \in Worker : Row(w)' = Row(w) /\ \A i \in Row(w) : At(w, i)' = At(w, i)
    BY <1>1 DEF Row, At
  <2> QED
    BY <1>0a, <1>1, <2>1 DEF RowsInv, Apart, OnlyPending, AllHeld, DoneTaken, Holds
<1>2. ASSUME NEW f \in Fd, Dispatch(f) PROVE RowsInv'
  <2>0. PICK d, k, u, new, last, end :
          /\ d = handler /\ end = NextEnd(d) /\ k = Len(taken[d]) + 1 /\ new = Item(f, d, k)
          /\ u = NextWorker(current) /\ last = Len(queue[u]) + 1
    OBVIOUS
  <2>1. /\ d \in Client /\ k \in Nat \ {0} /\ u \in Worker
        /\ new.conn = d /\ new.n = k /\ new \in Work
    <3>1. d \in Client
      BY <1>2, <2>0, ReactorType DEF Dispatch, Parsing
    <3>2. Len(taken[d]) \in Nat
      BY <3>1 DEF Shape
    <3> QED
      BY <2>0, <3>1, <3>2, TurnInPool DEF Types, Item, Work
  <2>2. /\ queue' = [w \in Worker |-> IF w = u THEN Append(queue[w], new) ELSE queue[w]]
        /\ UNCHANGED <<work, finished>>
        /\ taken' = [taken EXCEPT ![d] = Append(taken[d], end)]
        /\ Does(SubSeq(Stream(d), Consumed(d) + 1, end)) # "upgrade"
        /\ end \in Nat
    BY <1>2, <2>0, <2>1, EndIsNat DEF Dispatch, NextRequest
  <2>3. /\ k \notin DOMAIN taken[d] /\ DOMAIN taken'[d] = DOMAIN taken[d] \cup {k}
        /\ \A n \in DOMAIN taken[d] : taken'[d][n] = taken[d][n]
        /\ \A c \in Client : c # d => taken'[c] = taken[c]
        /\ \A c \in Client : \A n \in DOMAIN taken[c] : Cut(c, n)' = Cut(c, n)
        /\ Cut(d, k)' = SubSeq(Stream(d), Consumed(d) + 1, end)
    <3>1. taken' = [taken EXCEPT ![d] = Append(taken[d], end)] /\ end \in Nat
      BY <2>2
    <3>2. d \in Client /\ k = Len(taken[d]) + 1
      BY <2>0, <2>1
    <3> QED
      BY <1>0, <3>1, <3>2, TakenGrows
  <2>4. /\ Row(u)' = Row(u) \cup {last} /\ last \notin Row(u) /\ At(u, last)' = new
        /\ \A i \in Row(u) : At(u, i)' = At(u, i)
    <3>1. /\ Len(queue'[u]) = Len(queue[u]) + 1 /\ queue'[u][last] = new
          /\ \A i \in 1..Len(queue[u]) : queue'[u][i] = queue[u][i]
      BY <1>0, <2>0, <2>1, <2>2, AppendProperties
    <3> QED
      BY <1>0, <2>0, <2>1, <2>2, <3>1 DEF Row, At
  <2>5. \A w \in Worker : w # u => Row(w)' = Row(w) /\ \A i \in Row(w) : At(w, i)' = At(w, i)
    BY <1>0, <2>2 DEF Row, At
  <2>6. \A c \in Client, n \in Nat : Pending(c, n)' <=> Pending(c, n) \/ (c = d /\ n = k /\ <<d, k>> \notin finished)
    BY <2>1, <2>2, <2>3 DEF Pending
  <2>7. \A w \in Worker : \A i \in Row(w)' : \A c \in Client, n \in Nat :
          Holds(w, i, c, n)' => \/ i \in Row(w) /\ Holds(w, i, c, n)
                                \/ w = u /\ i = last /\ c = d /\ n = k
    BY <2>1, <2>4, <2>5 DEF Holds
  <2>8. \A w \in Worker : \A i \in Row(w) : ~Holds(w, i, d, k)
    BY <2>1, <2>3 DEF RowsInv, OnlyPending, Pending
  <2>9. <<d, k>> \notin finished /\ DoneTaken'
    BY <2>1, <2>2, <2>3 DEF RowsInv, DoneTaken
  <2>10. Apart'
    BY <2>7, <2>8 DEF RowsInv, Apart
  <2>11. OnlyPending'
    BY <2>1, <2>6, <2>7, <2>9 DEF RowsInv, OnlyPending
  <2>12. AllHeld'
    <3>1. \A w \in Worker : \A i \in Row(w) : i \in Row(w)' /\ \A c \in Client, n \in Nat :
            Holds(w, i, c, n) => Holds(w, i, c, n)'
      BY <2>4, <2>5 DEF Holds
    <3>2. last \in Row(u)' /\ Holds(u, last, d, k)'
      BY <2>1, <2>4 DEF Holds
    <3> QED
      BY <2>1, <2>6, <3>1, <3>2 DEF RowsInv, AllHeld
  <2> QED
    BY <2>9, <2>10, <2>11, <2>12 DEF RowsInv
<1>3. ASSUME NEW f \in Fd, HandOver(f) PROVE RowsInv'
  <2>0. PICK d, k, end : d = handler /\ k = Len(taken[d]) + 1 /\ end = NextEnd(d)
    OBVIOUS
  <2>1. d \in Client
    BY <1>3, <2>0, ReactorType DEF HandOver, Parsing
  <2>2. /\ UNCHANGED <<queue, work, finished>>
        /\ taken' = [taken EXCEPT ![d] = Append(taken[d], end)]
        /\ Does(SubSeq(Stream(d), Consumed(d) + 1, end)) = "upgrade"
        /\ end \in Nat
    BY <1>3, <2>0, <2>1, EndIsNat DEF HandOver, NextRequest
  <2>3. /\ k \notin DOMAIN taken[d] /\ DOMAIN taken'[d] = DOMAIN taken[d] \cup {k}
        /\ \A n \in DOMAIN taken[d] : taken'[d][n] = taken[d][n]
        /\ \A c \in Client : c # d => taken'[c] = taken[c]
        /\ \A c \in Client : \A n \in DOMAIN taken[c] : Cut(c, n)' = Cut(c, n)
        /\ Cut(d, k)' = SubSeq(Stream(d), Consumed(d) + 1, end)
    BY <1>0, <2>0, <2>1, <2>2, TakenGrows
  <2>4. \A c \in Client, n \in Nat : Pending(c, n)' <=> Pending(c, n)
    BY <2>2, <2>3 DEF Pending
  <2>5. \A w \in Worker : Row(w)' = Row(w) /\ \A i \in Row(w) : At(w, i)' = At(w, i)
    BY <2>2 DEF Row, At
  <2> QED
    BY <2>1, <2>2, <2>3, <2>4, <2>5 DEF RowsInv, Apart, OnlyPending, AllHeld, DoneTaken, Holds
<1>4. CASE Signal \/ SignalHangs
  <2> DEFINE was == [w \in Worker |-> [i \in Nat |-> i]]
  <2>1. /\ \A w \in Worker : queue'[w] \in {queue[w], Append(queue[w], Pill)}
        /\ UNCHANGED <<work, taken, finished>>
    BY <1>4, PillsSent
  <2>2. Pill \in Work /\ \A c \in Client : Pill.conn # c
    BY <1>0, PillType DEF Pill
  <2>3. ASSUME NEW w \in Worker
        PROVE  /\ Row(w) \subseteq Row(w)'
               /\ \A i \in Row(w)' : \/ i \in Row(w) /\ At(w, i)' = At(w, i)
                                     \/ i \notin Row(w) /\ At(w, i)' = Pill
    <3>1. CASE queue'[w] = queue[w]
      BY <1>0, <2>1, <3>1 DEF Row, At
    <3>2. CASE queue'[w] = Append(queue[w], Pill)
      <4>1. /\ Len(queue'[w]) = Len(queue[w]) + 1 /\ queue'[w][Len(queue[w]) + 1] = Pill
            /\ \A i \in 1..Len(queue[w]) : queue'[w][i] = queue[w][i]
        BY <1>0, <2>2, <3>2, AppendProperties
      <4> QED
        BY <1>0, <2>1, <4>1 DEF Row, At
    <3> QED
      BY <2>1, <3>1, <3>2
  <2>4. was \in [Worker -> [Nat -> Nat]] /\ \A w \in Worker : \A i \in Row(w)' : was[w][i] = i
    BY DEF Row
  <2> HIDE DEF was
  <2>5. \A w \in Worker : \A i \in Row(w)' : \A c \in Client, n \in Nat :
          Holds(w, i, c, n)' => was[w][i] \in Row(w) /\ Holds(w, was[w][i], c, n)
    BY <2>2, <2>3, <2>4 DEF Holds
  <2>6. \A w \in Worker : \A i \in Row(w) : \A c \in Client, n \in Nat :
          Holds(w, i, c, n) => \E j \in Row(w)' : Holds(w, j, c, n)'
    BY <2>3 DEF Holds
  <2>7. \A w \in Worker : \A i, j \in Row(w)' : \A c \in Client, n \in Nat :
          Holds(w, i, c, n)' /\ Holds(w, j, c, n)' /\ was[w][i] = was[w][j] => i = j
    BY <2>4
  <2> QED
    BY <1>0, <2>1, <2>4, <2>5, <2>6, <2>7, Moved
<1>5. ASSUME NEW v \in Worker, GetWork(v) \/ GetPill(v) PROVE RowsInv'
  <2>0. PICK low \in {0, 1} : low = 0 <=> GetWork(v)
    OBVIOUS
  <2> DEFINE was == [w \in Worker |-> [i \in Nat |-> IF w = v /\ i >= low THEN i + 1 ELSE i]]
  <2>1. /\ queue[v] # <<>> /\ work[v] = Pill /\ Len(queue[v]) \in Nat \ {0}
        /\ queue' = [queue EXCEPT ![v] = Tail(queue[v])]
        /\ UNCHANGED <<taken, finished>>
        /\ low = 0 => work' = [work EXCEPT ![v] = Head(queue[v])]
        /\ low = 1 => Head(queue[v]) = Pill /\ UNCHANGED work
    BY <1>0, <1>5, <2>0 DEF GetWork, GetPill, Busy
  <2>2. was \in [Worker -> [Nat -> Nat]]
    OBVIOUS
  <2>3. \A w \in Worker : w # v => Row(w)' = Row(w) /\ \A i \in Row(w) : At(w, i)' = At(w, i)
    BY <1>0, <2>1 DEF Row, At
  <2>4. /\ Row(v)' = 0..(Len(queue[v]) - 1)
        /\ \A i \in 1..(Len(queue[v]) - 1) : At(v, i)' = At(v, i + 1)
        /\ low = 0 => At(v, 0)' = At(v, 1)
        /\ low = 1 => At(v, 0)' = Pill /\ At(v, 1) = Pill
        /\ At(v, 0) = Pill
    <3>1. /\ Len(queue'[v]) = Len(queue[v]) - 1
          /\ \A i \in 1..(Len(queue[v]) - 1) : queue'[v][i] = queue[v][i + 1]
          /\ Head(queue[v]) = queue[v][1]
      BY <1>0, <2>1
    <3> QED
      BY <1>0, <2>1, <3>1 DEF Row, At
  <2>5. \A w \in Worker : \A i \in Row(w)' :
          was[w][i] = IF w = v /\ i >= low THEN i + 1 ELSE i
    BY DEF Row
  <2>6. \A c \in Client : Pill.conn # c
    BY <1>0 DEF Pill
  <2> HIDE DEF was
  <2>7. \A w \in Worker : \A i \in Row(w)' : \A c \in Client, n \in Nat :
          Holds(w, i, c, n)' => was[w][i] \in Row(w) /\ Holds(w, was[w][i], c, n)
    <3> SUFFICES ASSUME NEW w \in Worker, NEW i \in Row(w)', NEW c \in Client, NEW n \in Nat,
                        Holds(w, i, c, n)'
                 PROVE  was[w][i] \in Row(w) /\ Holds(w, was[w][i], c, n)
      OBVIOUS
    <3>1. CASE w # v
      BY <2>3, <2>5, <3>1 DEF Holds
    <3>2. CASE w = v /\ i = 0
      BY <2>1, <2>4, <2>5, <2>6, <3>2 DEF Holds, Row
    <3>3. CASE w = v /\ i # 0
      <4>1. i \in 1..(Len(queue[v]) - 1) /\ was[w][i] = i + 1 /\ i + 1 \in Row(v)
        BY <2>1, <2>4, <2>5, <3>3 DEF Row
      <4> QED
        BY <2>4, <3>3, <4>1 DEF Holds
    <3> QED
      BY <3>1, <3>2, <3>3
  <2>8. \A w \in Worker : \A i \in Row(w) : \A c \in Client, n \in Nat :
          Holds(w, i, c, n) => \E j \in Row(w)' : Holds(w, j, c, n)'
    <3> SUFFICES ASSUME NEW w \in Worker, NEW i \in Row(w), NEW c \in Client, NEW n \in Nat,
                        Holds(w, i, c, n)
                 PROVE  \E j \in Row(w)' : Holds(w, j, c, n)'
      OBVIOUS
    <3>1. CASE w # v
      BY <2>3, <3>1 DEF Holds
    <3>2. CASE w = v
      <4>1. i # 0
        BY <2>4, <2>6, <3>2 DEF Holds
      <4>2. i \in 1..Len(queue[v]) /\ i - 1 \in Row(v)'
        BY <2>1, <2>4, <3>2, <4>1 DEF Row
      <4>3. At(v, i - 1)' = At(v, i)
        <5>1. CASE i = 1
          BY <2>0, <2>4, <2>6, <3>2, <5>1 DEF Holds
        <5>2. CASE i # 1
          BY <2>1, <2>4, <4>2, <5>2
        <5> QED
          BY <5>1, <5>2
      <4> QED
        BY <3>2, <4>2, <4>3 DEF Holds
    <3> QED
      BY <3>1, <3>2
  <2>9. \A w \in Worker : \A i, j \in Row(w)' : \A c \in Client, n \in Nat :
          Holds(w, i, c, n)' /\ Holds(w, j, c, n)' /\ was[w][i] = was[w][j] => i = j
    <3> SUFFICES ASSUME NEW w \in Worker, NEW i \in Row(w)', NEW j \in Row(w)', NEW c \in Client,
                        NEW n \in Nat, Holds(w, i, c, n)', Holds(w, j, c, n)', was[w][i] = was[w][j]
                 PROVE  i = j
      OBVIOUS
    <3>1. i \in Nat /\ j \in Nat /\ low \in {0, 1}
      BY DEF Row
    <3>2. w = v /\ low = 1 => i # 0 /\ j # 0
      BY <2>4, <2>6 DEF Holds
    <3> QED
      BY <2>5, <3>1, <3>2
  <2> QED
    BY <1>0, <2>1, <2>2, <2>7, <2>8, <2>9, Moved
<1>6. ASSUME NEW v \in Worker, Busy(v), Done(v), UNCHANGED <<queue, taken>> PROVE RowsInv'
  <2>0. PICK d, k : d = work[v].conn /\ k = work[v].n
    OBVIOUS
  <2>1. d \in Client /\ k \in Nat
    BY <1>0, <1>6, <2>0, PillType DEF Busy
  <2>2. /\ work' = [work EXCEPT ![v] = Pill] /\ UNCHANGED <<queue, taken>>
        /\ finished' = finished \cup {<<d, k>>}
    BY <1>6, <2>0 DEF Done
  <2>3. 0 \in Row(v) /\ Holds(v, 0, d, k)
    BY <1>0, <2>0 DEF Holds, Row, At
  <2>4. /\ \A w \in Worker : Row(w)' = Row(w)
        /\ \A w \in Worker : \A i \in Row(w) : w # v \/ i # 0 => At(w, i)' = At(w, i)
        /\ At(v, 0)' = Pill
    BY <1>0, <2>2 DEF Row, At
  <2>5. \A c \in Client : Pill.conn # c
    BY <1>0 DEF Pill
  <2>6. \A w \in Worker : \A i \in Row(w) : \A c \in Client, n \in Nat :
          Holds(w, i, c, n)' <=> Holds(w, i, c, n) /\ ~(c = d /\ n = k)
    <3> SUFFICES ASSUME NEW w \in Worker, NEW i \in Row(w), NEW c \in Client, NEW n \in Nat
                 PROVE  Holds(w, i, c, n)' <=> Holds(w, i, c, n) /\ ~(c = d /\ n = k)
      OBVIOUS
    <3>1. CASE w = v /\ i = 0
      BY <2>1, <2>3, <2>4, <2>5, <3>1 DEF Holds
    <3>2. CASE w # v \/ i # 0
      <4>1. ~Holds(w, i, d, k)
        BY <2>1, <2>3, <3>2 DEF RowsInv, Apart
      <4>2. Holds(w, i, c, n)' <=> Holds(w, i, c, n)
        BY <2>4, <3>2 DEF Holds
      <4> QED
        BY <4>1, <4>2
    <3> QED
      BY <3>1, <3>2
  <2>7. \A c \in Client, n \in Nat : Pending(c, n)' <=> Pending(c, n) /\ ~(c = d /\ n = k)
    BY <1>0, <2>2 DEF Pending, Cut, Stream
  <2>8. k \in DOMAIN taken[d]
    BY <2>1, <2>3 DEF RowsInv, OnlyPending, Pending
  <2>9. DoneTaken'
    BY <2>1, <2>2, <2>8 DEF RowsInv, DoneTaken
  <2>10. Apart'
    BY <2>4, <2>6 DEF RowsInv, Apart
  <2>11. OnlyPending'
    BY <2>4, <2>6, <2>7 DEF RowsInv, OnlyPending
  <2>12. AllHeld'
    BY <2>4, <2>6, <2>7 DEF RowsInv, AllHeld
  <2> QED
    BY <2>9, <2>10, <2>11, <2>12 DEF RowsInv
<1>7. ASSUME NEW v \in Worker, SendPiece(v) PROVE RowsInv'
  <2>1. CASE Done(v)
    BY <1>6, <1>7, <2>1 DEF SendPiece, Writing
  <2>2. CASE work' = [work EXCEPT ![v].piece = @ + 1] /\ UNCHANGED finished
    <3>1. work[v] \in [fd : Fd, conn : Client, n : Nat \ {0}, piece : Nat]
      BY <1>0, <1>7, PillType DEF SendPiece, Writing, Busy
    <3>2. work'[v].n = work[v].n /\ work'[v].conn = work[v].conn
      BY <1>0, <2>2, <3>1
    <3>3. UNCHANGED <<queue, taken>>
      BY <1>7 DEF SendPiece
    <3>4. \A w \in Worker : /\ Row(w)' = Row(w)
                            /\ \A i \in Row(w) : \A c, n : Holds(w, i, c, n)' <=> Holds(w, i, c, n)
      BY <1>0, <2>2, <3>2, <3>3 DEF Row, At, Holds
    <3> QED
      BY <1>0a, <2>2, <3>3, <3>4 DEF RowsInv, Apart, OnlyPending, AllHeld, DoneTaken
  <2> QED
    BY <1>7, <2>1, <2>2 DEF SendPiece
<1>8. ASSUME NEW w \in Worker, Unsupported(w) \/ SendFails(w) PROVE RowsInv'
  BY <1>6, <1>8 DEF Unsupported, SendFails, Writing
<1> QED
  BY <1>1, <1>2, <1>3, <1>4, <1>5, <1>7, <1>8
  DEF Next, World, Reactor, WorkerStep, Send, HangUp, ElsewhereOpens, ElsewhereCloses, AgentClosed,
      Accept, Recv, PeerClosed, Erase, ParseEnds, EraseHanded, Dies, BrokenPipe, UseAfterFree,
      DropDatabase, Exit, vars

----------------------------------------------------------------------------
(* Where the requests are cut.                                             *)

\* A buffer that begins a stream of requests is cut behind the first of them, as
\* soon as it is cut at all.
LEMMA FirstRequest ==
  ASSUME NEW buf, NEW request, IsRequest(request),
         Len(buf) \in Nat, DOMAIN buf = 1..Len(buf),
         Len(request) \in Nat, DOMAIN request = 1..Len(request),
         \A i \in DOMAIN buf : i \in DOMAIN request => buf[i] = request[i],
         Len(request) + 1 \in DOMAIN buf => buf[Len(request) + 1].t # "crlf",
         MessageLength(buf) \in 1..Len(buf)
  PROVE  MessageLength(buf) = Len(request)
<1> DEFINE whole == Len(request)
           headers == Behind(buf, 0, "header")
<1>1. PICK h \in DOMAIN request :
        /\ request[h] \in [t : {"header"}, framing : STRING, length : Nat, does : STRING]
        /\ \A i \in 1..(h - 1) : request[i].t # "header"
        /\ CASE request[h].framing = "chunked"    -> Behind(request, h, "last") = {whole}
             [] request[h].framing = "multipart"  -> Behind(request, h, "fin") = {whole}
             [] request[h].framing = "length"     -> h + request[h].length = whole
             [] request[h].framing = "unreadable" -> TRUE
             [] OTHER                             -> h = whole
  BY DEF IsRequest
<1>2. h \in 1..whole /\ request[h].t = "header"
  BY <1>1
<1>3. h \in DOMAIN buf
  <2>1. PICK k \in 1..Len(buf) : buf[k].t = "header"
    BY DEF MessageLength, Behind
  <2> QED
    BY <1>1, <1>2, <2>1
<1>4. First(headers) = h /\ headers # {} /\ buf[h] = request[h]
  <2>1. h \in headers /\ \A i \in headers : h <= i
    BY <1>1, <1>2, <1>3 DEF Behind
  <2>2. \A i \in headers : i \in Nat
    BY DEF Behind
  <2> QED
    BY <1>2, <1>3, <2>1, <2>2 DEF First, Min
<1>5. ASSUME NEW what, Behind(request, h, what) = {whole}, Behind(buf, h, what) # {}
      PROVE  First(Behind(buf, h, what)) = whole
  <2>1. PICK k \in (h + 1)..Len(buf) : buf[k].t = what
    BY <1>5 DEF Behind
  <2>2. \A i \in Behind(buf, h, what) : i \in Nat /\ whole <= i
    BY <1>2, <1>5 DEF Behind
  <2>3. whole \in (h + 1)..whole /\ request[whole].t = what
    BY <1>5 DEF Behind
  <2>4. whole \in Behind(buf, h, what)
    BY <1>2, <2>1, <2>2, <2>3 DEF Behind
  <2> QED
    BY <2>2, <2>4 DEF First, Min
<1>6. CASE request[h].framing = "chunked"
  <2>1. MessageLength(buf) = ChunkedEnd(buf, h)
    BY <1>4, <1>6 DEF MessageLength
  <2>2. Behind(request, h, "last") = {whole}
    BY <1>1, <1>6
  <2> QED
    BY <1>5, <2>1, <2>2 DEF ChunkedEnd
<1>7. CASE request[h].framing = "multipart"
  <2>1. MessageLength(buf) = MultipartEnd(buf, h)
    BY <1>4, <1>7 DEF MessageLength
  <2>2. Behind(request, h, "fin") = {whole}
    BY <1>1, <1>7
  <2>3. Behind(buf, h, "fin") # {}
    BY <2>1 DEF MultipartEnd
  <2>4. First(Behind(buf, h, "fin")) = whole
    BY <1>5, <2>2, <2>3
  <2>5. whole + 1 \notin Behind(buf, h, "crlf")
    BY DEF Behind
  <2> QED
    BY <2>1, <2>3, <2>4, <2>5 DEF MultipartEnd
<1>8. CASE request[h].framing \notin {"chunked", "multipart"}
  BY <1>1, <1>4, <1>8 DEF MessageLength
<1> QED
  BY <1>6, <1>7, <1>8

\* Cuts are where requests end, and what is cut has been read.
CutsInv ==
  \A c \in Client :
    /\ sent[c] <= Len(Stream(c)) /\ read[c] <= sent[c]
    /\ Len(taken[c]) <= Len(script[c].ends)
    /\ \A n \in 1..Len(taken[c]) : taken[c][n] = script[c].ends[n] /\ taken[c][n] <= read[c]

LEMMA ScriptIs ==
  ASSUME Types, NEW c \in Client
  PROVE  /\ Stream(c) \in Seq(Token) /\ script[c].ends \in Seq(1..Len(Stream(c)))
         /\ \A m, n \in DOMAIN script[c].ends : m < n => script[c].ends[m] < script[c].ends[n]
         /\ Upto(script[c].ends, Len(script[c].ends)) = Len(Stream(c))
         /\ \A n \in DOMAIN script[c].ends :
              IsRequest(SubSeq(Stream(c), Upto(script[c].ends, n - 1) + 1, script[c].ends[n]))
BY ScriptAssumption DEF Types, Stream

LEMMA Slice ==
  ASSUME NEW s \in Seq(Token), NEW from \in Nat, NEW to \in Nat, to <= Len(s)
  PROVE  \E part \in Seq(Token) :
           /\ part = SubSeq(s, from + 1, to)
           /\ Len(part) = (IF from < to THEN to - from ELSE 0)
           /\ DOMAIN part = 1..Len(part) /\ Len(part) \in Nat
           /\ \A i \in 1..Len(part) : part[i] = s[from + i]
<1>0. PICK part : part = SubSeq(s, from + 1, to)
  OBVIOUS
<1>1. \A i \in (from + 1)..to : s[i] \in Token
  OBVIOUS
<1>2. /\ part \in Seq(Token) /\ Len(part) = IF from + 1 <= to THEN to - (from + 1) + 1 ELSE 0
      /\ \A i \in 1..(to - (from + 1) + 1) : part[i] = s[from + 1 + i - 1]
  BY <1>0, <1>1, SubSeqProperties
<1> QED
  BY <1>0, <1>2

\* The next cut is where the next request ends.
LEMMA NextCut ==
  ASSUME Shape, Types, CutsInv, NEW c \in Client, HasRequest(c), NEW k, k = Len(taken[c]) + 1
  PROVE  k \in DOMAIN script[c].ends /\ NextEnd(c) = script[c].ends[k] /\ NextEnd(c) <= read[c]
<1>1. PICK tokens, ends, from, to, end :
        /\ tokens = Stream(c) /\ ends = script[c].ends
        /\ from = Consumed(c) /\ to = read[c] /\ end = ends[k]
  OBVIOUS
<1>2. /\ tokens \in Seq(Token) /\ ends \in Seq(1..Len(tokens))
      /\ Len(tokens) \in Nat /\ Len(ends) \in Nat /\ DOMAIN ends = 1..Len(ends)
      /\ \A m, n \in DOMAIN ends : m < n => ends[m] < ends[n]
      /\ Upto(ends, Len(ends)) = Len(tokens)
      /\ \A n \in DOMAIN ends : IsRequest(SubSeq(tokens, Upto(ends, n - 1) + 1, ends[n]))
  BY <1>1, ScriptIs
<1>3. /\ from \in Nat /\ to \in Nat /\ to <= Len(tokens)
      /\ Len(taken[c]) \in Nat /\ Len(taken[c]) <= Len(ends) /\ from = Upto(ends, Len(taken[c]))
  <2>1. taken[c] \in Seq(Nat) /\ to \in Nat
    BY <1>1 DEF Shape, Types
  <2>2. from \in Nat
    BY <1>1, EndIsNat
  <2>3. sent[c] \in Nat /\ sent[c] <= Len(tokens) /\ to <= sent[c]
    BY <1>1 DEF CutsInv, Types
  <2>4. /\ Len(taken[c]) \in Nat /\ Len(taken[c]) <= Len(ends)
        /\ \A n \in 1..Len(taken[c]) : taken[c][n] = ends[n]
    BY <1>1, <2>1 DEF CutsInv
  <2>5. from = Upto(ends, Len(taken[c]))
    BY <1>1, <2>4 DEF Consumed, Upto
  <2> QED
    BY <1>2, <2>1, <2>2, <2>3, <2>4, <2>5
<1>4. PICK buf : buf = SubSeq(tokens, from + 1, to)
  OBVIOUS
<1>5. MessageLength(buf) \in 1..Len(buf) /\ NextEnd(c) = from + MessageLength(buf)
  BY <1>1, <1>4 DEF HasRequest, NextEnd, RecvBuf
<1>6. /\ Len(buf) = (IF from < to THEN to - from ELSE 0) /\ DOMAIN buf = 1..Len(buf)
      /\ \A i \in 1..Len(buf) : buf[i] = tokens[from + i]
  <2>1. tokens \in Seq(Token) /\ from \in Nat /\ to \in Nat /\ to <= Len(tokens)
    BY <1>2, <1>3
  <2> QED
    BY <1>4, <2>1, Slice
<1>7. from < to /\ Len(buf) = to - from
  BY <1>3, <1>5, <1>6
<1>8. k \in DOMAIN ends /\ k - 1 = Len(taken[c])
  <2>1. Len(taken[c]) # Len(ends)
    BY <1>2, <1>3, <1>7
  <2> QED
    BY <1>2, <1>3, <2>1
<1>9. end \in 1..Len(tokens) /\ end \in Nat /\ end <= Len(tokens) /\ from < end
  <2>1. end \in 1..Len(tokens)
    BY <1>1, <1>2, <1>8
  <2>2. from < end
    <3>1. CASE k = 1
      BY <1>3, <1>8, <2>1, <3>1 DEF Upto
    <3>2. CASE k # 1
      <4>1. k - 1 \in DOMAIN ends /\ from = ends[k - 1]
        BY <1>2, <1>3, <1>8, <3>2 DEF Upto
      <4>2. k - 1 \in Nat /\ k - 1 < k /\ k \in DOMAIN ends /\ end = ends[k]
        BY <1>1, <1>3, <1>8
      <4>3. \A m, n \in DOMAIN ends : m < n => ends[m] < ends[n]
        BY <1>2
      <4>4. ends[k - 1] < ends[k]
        BY <4>1, <4>2, <4>3
      <4> QED
        BY <4>1, <4>2, <4>4
    <3> QED
      BY <3>1, <3>2
  <2> QED
    BY <1>2, <2>1, <2>2
<1>10. PICK request : request = SubSeq(tokens, from + 1, end)
  OBVIOUS
<1>11. /\ Len(request) = end - from /\ DOMAIN request = 1..Len(request) /\ Len(request) \in Nat
       /\ \A i \in 1..Len(request) : request[i] = tokens[from + i]
  <2>1. tokens \in Seq(Token) /\ from \in Nat /\ end \in Nat /\ end <= Len(tokens)
    BY <1>2, <1>3, <1>9
  <2>2. /\ Len(request) = (IF from < end THEN end - from ELSE 0)
        /\ DOMAIN request = 1..Len(request) /\ Len(request) \in Nat
        /\ \A i \in 1..Len(request) : request[i] = tokens[from + i]
    BY <1>10, <2>1, Slice
  <2> QED
    BY <1>9, <2>2
<1>12. IsRequest(request)
  BY <1>1, <1>2, <1>3, <1>8, <1>10
<1>13. ASSUME Len(request) + 1 \in DOMAIN buf PROVE buf[Len(request) + 1].t # "crlf"
  <2>1. end + 1 <= to
    BY <1>3, <1>6, <1>7, <1>9, <1>11, <1>13
  <2>2. buf[Len(request) + 1] = tokens[end + 1]
    <3>1. from + (Len(request) + 1) = end + 1
      BY <1>3, <1>9, <1>11
    <3> QED
      BY <1>6, <1>13, <3>1
  <2>3. k + 1 \in DOMAIN ends /\ k # 0 /\ (k + 1) - 1 = k
    <3>1. k # Len(ends)
      BY <1>1, <1>2, <1>3, <1>8, <1>9, <2>1 DEF Upto
    <3>2. Len(ends) \in Nat /\ DOMAIN ends = 1..Len(ends) /\ k \in DOMAIN ends
      BY <1>2, <1>8
    <3>3. k \in 1..Len(ends) /\ k \in Nat
      BY <3>2
    <3>4. PICK last : last = Len(ends)
      OBVIOUS
    <3>5. last \in Nat /\ k \in 1..last /\ k # last
      BY <3>1, <3>2, <3>3, <3>4
    <3>6. k + 1 \in 1..last /\ k # 0 /\ (k + 1) - 1 = k
      BY <3>5
    <3> QED
      BY <3>2, <3>4, <3>6
  <2>4. PICK last, next : last = ends[k + 1] /\ next = SubSeq(tokens, end + 1, last)
    OBVIOUS
  <2>5. IsRequest(next)
    <3>1. IsRequest(SubSeq(tokens, Upto(ends, (k + 1) - 1) + 1, ends[k + 1]))
      BY <1>2, <2>3
    <3>2. Upto(ends, (k + 1) - 1) = end
      BY <1>1, <2>3 DEF Upto
    <3> QED
      BY <2>4, <3>1, <3>2
  <2>6. end < last /\ last \in 1..Len(tokens)
    <3>1. \A m, n \in DOMAIN ends : m < n => ends[m] < ends[n]
      BY <1>2
    <3>2. k \in Nat /\ k < k + 1 /\ k \in DOMAIN ends
      BY <1>2, <1>8
    <3>3. ends[k] < ends[k + 1]
      BY <2>3, <3>1, <3>2
    <3>4. ends[k + 1] \in 1..Len(tokens)
      BY <1>2, <2>3
    <3> QED
      BY <1>1, <2>4, <3>3, <3>4
  <2>7. last \in Nat /\ last <= Len(tokens)
    BY <1>2, <2>6
  <2>8. 1 \in 1..Len(next) /\ next[1] = tokens[end + 1]
    <3>1. tokens \in Seq(Token) /\ end \in Nat /\ last \in Nat /\ last <= Len(tokens) /\ end < last
      BY <1>2, <1>9, <2>6, <2>7
    <3>2. /\ Len(next) = (IF end < last THEN last - end ELSE 0)
          /\ \A i \in 1..Len(next) : next[i] = tokens[end + i]
      BY <2>4, <3>1, Slice
    <3> QED
      BY <3>1, <3>2
  <2> QED
    BY <2>2, <2>5, <2>8 DEF IsRequest
<1>14. \A i \in DOMAIN buf : i \in DOMAIN request => buf[i] = request[i]
  BY <1>6, <1>11
<1>15. MessageLength(buf) = Len(request)
  BY <1>5, <1>6, <1>11, <1>12, <1>13, <1>14, FirstRequest
<1>16. NextEnd(c) = end /\ NextEnd(c) <= to
  BY <1>3, <1>5, <1>7, <1>9, <1>11, <1>15
<1> QED
  BY <1>1, <1>8, <1>16

LEMMA CutsStep == Shape /\ Types /\ CutsInv /\ [Next]_vars => CutsInv'
<1> SUFFICES ASSUME Shape, Types, CutsInv, [Next]_vars PROVE CutsInv'
  OBVIOUS
<1> USE DEF workerVars, poolVars, parseVars, clientVars, mainVars
<1>0. UNCHANGED script /\ \A c \in Client : Stream(c)' = Stream(c)
  BY ScriptStays DEF Stream
<1>1. CASE UNCHANGED <<sent, read, taken>>
  BY <1>0, <1>1 DEF CutsInv
<1>2. ASSUME NEW c \in Client, Send(c) PROVE CutsInv'
  <2>1. /\ sent[c] < Len(Stream(c)) /\ UNCHANGED <<read, taken>>
        /\ sent' = [sent EXCEPT ![c] = sent[c] + 1]
    BY <1>2 DEF Send
  <2>2. Len(Stream(c)) \in Nat /\ sent \in [Client -> Nat] /\ read \in [Client -> Nat]
    BY ScriptIs DEF Types
  <2>3. \A d \in Client : sent'[d] <= Len(Stream(d)) /\ read[d] <= sent'[d]
    BY <2>1, <2>2 DEF CutsInv
  <2> QED
    BY <1>0, <2>1, <2>3 DEF CutsInv
<1>3. ASSUME NEW f \in Fd, Recv(f) PROVE CutsInv'
  <2>1. PICK c, n : /\ c = pool[f] /\ n \in (read[c] + 1)..sent[c]
                    /\ read' = [read EXCEPT ![c] = n] /\ UNCHANGED <<sent, taken>>
    BY <1>3 DEF Recv
  <2>2. /\ sent \in [Client -> Nat] /\ read \in [Client -> Nat] /\ c \in Client
        /\ taken \in [Client -> Seq(Nat)]
    BY <1>3, <2>1 DEF Types, Shape, Recv
  <2>3. \A d \in Client : read[d] <= read'[d] /\ read'[d] <= sent[d] /\ read'[d] \in Nat
    BY <2>1, <2>2 DEF CutsInv
  <2>4. \A d \in Client : \A i \in 1..Len(taken[d]) : taken[d][i] <= read'[d]
    BY <2>2, <2>3 DEF CutsInv
  <2> QED
    BY <1>0, <2>1, <2>3, <2>4 DEF CutsInv
<1>4. ASSUME NEW f \in Fd, Dispatch(f) \/ HandOver(f) PROVE CutsInv'
  <2>1. PICK c, k, end : c = handler /\ k = Len(taken[c]) + 1 /\ end = NextEnd(c)
    OBVIOUS
  <2>2. /\ c \in Client /\ HasRequest(c) /\ UNCHANGED <<sent, read>>
        /\ taken' = [taken EXCEPT ![c] = Append(taken[c], end)]
    BY <1>4, <2>1, ReactorType DEF Dispatch, HandOver, Parsing
  <2>3. /\ k \in DOMAIN script[c].ends /\ end = script[c].ends[k] /\ end <= read[c]
    BY <2>1, <2>2, NextCut
  <2>4. /\ k \in Nat \ {0} /\ DOMAIN taken'[c] = DOMAIN taken[c] \cup {k}
        /\ \A n \in DOMAIN taken[c] : taken'[c][n] = taken[c][n]
        /\ taken'[c][k] = end
        /\ \A d \in Client : d # c => taken'[d] = taken[d]
    <3>1. end \in Nat /\ UNCHANGED script
      BY <1>0, <2>1, <2>2, EndIsNat
    <3>2. /\ Shape /\ c \in Client /\ end \in Nat /\ k = Len(taken[c]) + 1 /\ UNCHANGED script
          /\ taken' = [taken EXCEPT ![c] = Append(taken[c], end)]
      BY <2>1, <2>2, <3>1
    <3>3. /\ k \in Nat \ {0} /\ DOMAIN taken'[c] = DOMAIN taken[c] \cup {k}
          /\ \A n \in DOMAIN taken[c] : taken'[c][n] = taken[c][n]
          /\ taken'[c][k] = end
      BY <3>2, TakenGrows
    <3>4. \A d \in Client : d # c => taken'[d] = taken[d]
      BY <3>2, TakenGrows
    <3> QED
      BY <3>3, <3>4
  <2>5. /\ taken[c] \in Seq(Nat) /\ taken'[c] = Append(taken[c], end) /\ end \in Nat
        /\ Len(taken'[c]) = k
    BY <2>1, <2>2, EndIsNat DEF Shape
  <2>6. Len(taken'[c]) <= Len(script[c].ends)
    BY <2>2, <2>3, <2>5, ScriptIs
  <2>7. \A n \in 1..Len(taken'[c]) : taken'[c][n] = script[c].ends[n] /\ taken'[c][n] <= read[c]
    BY <2>1, <2>2, <2>3, <2>4, <2>5 DEF CutsInv
  <2> QED
    BY <1>0, <2>2, <2>4, <2>6, <2>7 DEF CutsInv
<1> QED
  BY <1>1, <1>2, <1>3, <1>4
  DEF Next, World, Reactor, WorkerStep, HangUp, ElsewhereOpens, ElsewhereCloses, AgentClosed,
      Accept, PeerClosed, ParseEnds, EraseHanded, Dies, Signal, SignalHangs, SendPills, GetWork, GetPill, Unsupported, SendPiece,
      SendFails, BrokenPipe, UseAfterFree, DropDatabase, Exit, vars

----------------------------------------------------------------------------
(* The order of the answers.                                               *)

\* How many of the pieces that arrived at c are of its own responses.
Count(c) == Cardinality(Own(c))

\* A client that waits for its answers has one request the workers hold at most,
\* the one behind those answered, and all pieces of the others; what is held of it
\* is held where it wants to be written.
Asked(c) == Whole(c, sent[c]) <= Answered(c) + 1
Settled(c) ==
  /\ Answered(c) <= Len(taken[c])
  /\ Answered(c) = Len(taken[c]) => Count(c) % Chunks = 0
Awaited(c) ==
  \A w \in Worker : \A item \in Items(w) :
    item.conn = c => /\ c \notin handed
                     /\ item.n = Answered(c) + 1 /\ item.piece = Count(c) % Chunks
Ordered(c) ==
  \A i \in Own(c) :
    LET before == Cardinality({j \in Own(c) : j < i})
    IN  got[c][i].n = (before \div Chunks) + 1 /\ got[c][i].piece = before % Chunks

OrderInv ==
  /\ got \in [Client -> Seq(Work)]
  /\ \A c \in Client \ eager :
       /\ Asked(c) /\ Settled(c) /\ Ordered(c)
       /\ c \notin gone => Awaited(c)

\* Counting one piece more.
LEMMA NextPiece ==
  ASSUME NEW x \in Nat
  PROVE  /\ x \div Chunks \in Nat /\ x % Chunks \in Nat /\ x % Chunks < Chunks
         /\ (x + 1) \div Chunks = IF (x % Chunks) + 1 = Chunks THEN (x \div Chunks) + 1 ELSE x \div Chunks
         /\ (x + 1) % Chunks = IF (x % Chunks) + 1 = Chunks THEN 0 ELSE (x % Chunks) + 1
<1>1. Chunks \in Nat \ {0}
  BY WebAssumption
<1> QED
  BY <1>1

LEMMA OwnIsFinite ==
  ASSUME got \in [Client -> Seq(Work)], NEW c \in Client
  PROVE  /\ IsFiniteSet(Own(c)) /\ Count(c) \in Nat
         /\ \A i \in Own(c) : i \in 1..Len(got[c])
         /\ Len(got[c]) \in Nat
<1>1. got[c] \in Seq(Work) /\ DOMAIN got[c] = 1..Len(got[c]) /\ Len(got[c]) \in Nat
  OBVIOUS
<1>2. IsFiniteSet(1..Len(got[c]))
  BY <1>1, FS_Interval
<1>3. Own(c) \subseteq 1..Len(got[c])
  BY <1>1 DEF Own
<1> QED
  BY <1>1, <1>2, <1>3, FS_Subset, FS_CardinalityType DEF Count

\* One token more completes one request more at most.
LEMMA WholeGrows ==
  ASSUME Types, NEW c \in Client, NEW n \in Nat
  PROVE  Whole(c, n + 1) \in Nat /\ Whole(c, n) \in Nat /\ Whole(c, n + 1) <= Whole(c, n) + 1
<1>1. PICK ends, old, new :
        /\ ends = script[c].ends
        /\ old = {k \in DOMAIN ends : ends[k] <= n}
        /\ new = {k \in DOMAIN ends : ends[k] <= n + 1}
  OBVIOUS
<1>2. /\ DOMAIN ends = 1..Len(ends) /\ Len(ends) \in Nat /\ \A k \in DOMAIN ends : ends[k] \in Nat
      /\ \A i, j \in DOMAIN ends : i < j => ends[i] < ends[j]
  BY <1>1, ScriptIs
<1>3. IsFiniteSet(old) /\ IsFiniteSet(new) /\ Cardinality(old) \in Nat /\ Cardinality(new) \in Nat
  <2>1. IsFiniteSet(DOMAIN ends)
    BY <1>2, FS_Interval
  <2>2. old \subseteq DOMAIN ends /\ new \subseteq DOMAIN ends
    BY <1>1
  <2> QED
    BY <2>1, <2>2, FS_Subset, FS_CardinalityType
<1>4. Cardinality(new) <= Cardinality(old) + 1
  <2>1. CASE \E k \in DOMAIN ends : ends[k] = n + 1
    <3>1. PICK k \in DOMAIN ends : ends[k] = n + 1
      BY <2>1
    <3>2. new \subseteq old \cup {k}
      <4> SUFFICES ASSUME NEW i \in new, i # k PROVE i \in old
        OBVIOUS
      <4>1. i \in DOMAIN ends /\ ends[i] <= n + 1 /\ ends[i] \in Nat /\ i \in Nat /\ k \in Nat
        BY <1>1, <1>2, <3>1
      <4>2. ends[i] # n + 1
        BY <1>2, <3>1, <4>1
      <4> QED
        BY <1>1, <4>1, <4>2
    <3>3. /\ IsFiniteSet(old \cup {k})
          /\ Cardinality(old \cup {k}) = IF k \in old THEN Cardinality(old) ELSE Cardinality(old) + 1
      BY <1>3, FS_AddElement
    <3>4. Cardinality(new) <= Cardinality(old \cup {k})
      BY <3>2, <3>3, FS_Subset
    <3> QED
      BY <1>3, <3>3, <3>4
  <2>2. CASE \A k \in DOMAIN ends : ends[k] # n + 1
    <3>1. new \subseteq old
      BY <1>1, <1>2, <2>2
    <3>2. Cardinality(new) <= Cardinality(old)
      BY <1>3, <3>1, FS_Subset
    <3> QED
      BY <1>3, <3>2
  <2> QED
    BY <2>1, <2>2
<1> QED
  BY <1>1, <1>3, <1>4 DEF Whole

\* What is cut next has been sent.
LEMMA NextIsWhole ==
  ASSUME Shape, Types, CutsInv, NEW c \in Client, HasRequest(c), NEW k, k = Len(taken[c]) + 1
  PROVE  k \in Nat /\ Whole(c, sent[c]) \in Nat /\ k <= Whole(c, sent[c])
<1>1. PICK ends, whole : ends = script[c].ends /\ whole = {j \in DOMAIN ends : ends[j] <= sent[c]}
  OBVIOUS
<1>2. k \in DOMAIN ends /\ ends[k] <= read[c]
  BY <1>1, NextCut
<1>3. /\ DOMAIN ends = 1..Len(ends) /\ Len(ends) \in Nat /\ \A j \in DOMAIN ends : ends[j] \in Nat
      /\ \A i, j \in DOMAIN ends : i < j => ends[i] < ends[j]
      /\ read[c] \in Nat /\ sent[c] \in Nat /\ read[c] <= sent[c]
  <2>1. script[c].ends \in Seq(1..Len(Stream(c))) /\ Len(Stream(c)) \in Nat
    BY ScriptIs
  <2>2. \A m, n \in DOMAIN script[c].ends : m < n => script[c].ends[m] < script[c].ends[n]
    BY ScriptIs
  <2>3. read[c] \in Nat /\ sent[c] \in Nat /\ read[c] <= sent[c]
    BY DEF Types, CutsInv
  <2> QED
    BY <1>1, <2>1, <2>2, <2>3
<1>4. k \in Nat /\ ends[k] \in Nat /\ ends[k] <= sent[c]
  BY <1>2, <1>3
<1>5. 1..k \subseteq whole
  <2> SUFFICES ASSUME NEW j \in 1..k PROVE j \in DOMAIN ends /\ ends[j] <= sent[c]
    BY <1>1
  <2>1. j \in DOMAIN ends /\ j \in Nat /\ ends[j] \in Nat
    BY <1>2, <1>3, <1>4
  <2>2. j = k \/ ends[j] < ends[k]
    BY <1>2, <1>3, <1>4, <2>1
  <2> QED
    BY <1>3, <1>4, <2>1, <2>2
<1>6. IsFiniteSet(whole) /\ Cardinality(whole) \in Nat
  <2>1. IsFiniteSet(DOMAIN ends)
    <3>1. Len(ends) \in Int /\ DOMAIN ends = 1..Len(ends)
      BY <1>3
    <3> QED
      BY <3>1, FS_Interval
  <2> QED
    BY <1>1, <2>1, FS_Subset, FS_CardinalityType
<1>7. Cardinality(1..k) = k
  BY <1>4, FS_Interval
<1>8. Cardinality(1..k) <= Cardinality(whole)
  BY <1>5, <1>6, FS_Subset
<1> QED
  BY <1>1, <1>4, <1>6, <1>7, <1>8 DEF Whole

\* A piece that arrives at c is one more of its own, or does not touch those.
LEMMA PieceArrives ==
  ASSUME got \in [Client -> Seq(Work)], NEW c \in Client, NEW item \in Work, NEW last,
         last = Len(got[c]) + 1, got'[c] = Append(got[c], item)
  PROVE  /\ \A i \in Own(c) : got'[c][i] = got[c][i]
         /\ item.conn # c => Own(c)' = Own(c)
         /\ item.conn = c => /\ Own(c)' = Own(c) \cup {last}
                             /\ got'[c][last] = item /\ last \notin Own(c)
                             /\ Count(c)' = Count(c) + 1
<1>1. /\ got[c] \in Seq(Work) /\ DOMAIN got[c] = 1..Len(got[c]) /\ Len(got[c]) \in Nat
      /\ IsFiniteSet(Own(c)) /\ Count(c) \in Nat /\ \A i \in Own(c) : i \in 1..Len(got[c])
  BY OwnIsFinite
<1>2. /\ DOMAIN got'[c] = 1..Len(got[c]) \cup {last} /\ got'[c][last] = item
      /\ last \in Nat /\ last \notin 1..Len(got[c])
      /\ \A i \in 1..Len(got[c]) : got'[c][i] = got[c][i]
  <2>1. /\ got'[c] \in Seq(Work) /\ Len(got'[c]) = Len(got[c]) + 1
        /\ \A i \in 1..Len(got[c]) : got'[c][i] = got[c][i]
        /\ got'[c][Len(got[c]) + 1] = item
    BY <1>1, AppendProperties
  <2>2. DOMAIN got'[c] = 1..(Len(got[c]) + 1)
    BY <2>1
  <2> QED
    BY <1>1, <2>1, <2>2
<1>3. Own(c)' = {i \in 1..Len(got[c]) \cup {last} : got'[c][i].conn = c}
  BY <1>2 DEF Own
<1>4. Own(c) = {i \in 1..Len(got[c]) : got[c][i].conn = c}
  BY <1>1 DEF Own
<1>5. item.conn # c => Own(c)' = Own(c)
  BY <1>2, <1>3, <1>4
<1>6. ASSUME item.conn = c
      PROVE  Own(c)' = Own(c) \cup {last} /\ last \notin Own(c) /\ Count(c)' = Count(c) + 1
  <2>1. Own(c)' = Own(c) \cup {last} /\ last \notin Own(c)
    BY <1>2, <1>3, <1>4, <1>6
  <2>2. Cardinality(Own(c) \cup {last}) = Cardinality(Own(c)) + 1
    BY <1>1, <2>1, FS_AddElement
  <2> QED
    BY <2>1, <2>2 DEF Count
<1> QED
  BY <1>1, <1>2, <1>5, <1>6

\* What is not about the pieces of c leaves them in order.
LEMMA SameOrder ==
  ASSUME NEW c \in Client, Own(c)' = Own(c), \A i \in Own(c) : got'[c][i] = got[c][i]
  PROVE  /\ Count(c)' = Count(c) /\ Answered(c)' = Answered(c)
         /\ Ordered(c) => Ordered(c)'
BY DEF Count, Answered, Ordered

LEMMA SendPieceOrder ==
  ASSUME Shape, Types, DescriptorKept, RowsInv, OrderInv, NEW v \in Worker, SendPiece(v)
  PROVE  OrderInv'
<1> USE DEF workerVars, poolVars, parseVars, clientVars, mainVars
<1>0. PICK item, to : item = work[v] /\ to = file[item.fd]
  OBVIOUS
<1>1. /\ item \in Work /\ item # Pill /\ item.fd \in Fd /\ item.conn \in Client
      /\ item \in [fd : Fd, conn : Client, n : Nat \ {0}, piece : Nat]
      /\ item \in Items(v)
  BY <1>0, PillType DEF Shape, SendPiece, Writing, Busy, Items
<1>2. /\ UNCHANGED <<script, sent, eager, taken, gone, handed, queue>>
      /\ got' = IF to \in Client \ gone THEN [got EXCEPT ![to] = Append(got[to], item)] ELSE got
  BY <1>0, <1>1 DEF SendPiece
<1>3. \/ work' = [work EXCEPT ![v] = Pill] /\ item.piece + 1 = Chunks
      \/ work' = [work EXCEPT ![v] = [item EXCEPT !.piece = item.piece + 1]] /\ item.piece + 1 # Chunks
  BY <1>0, <1>1 DEF SendPiece, Done
<1>4. got \in [Client -> Seq(Work)] /\ work \in [Worker -> Work]
  BY DEF OrderInv, Shape
<1>5. got' \in [Client -> Seq(Work)]
  <2>1. CASE to \in Client \ gone
    <3>1. Append(got[to], item) \in Seq(Work)
      BY <1>1, <1>4, <2>1, AppendProperties
    <3> QED
      BY <1>2, <1>4, <2>1, <3>1
  <2>2. CASE to \notin Client \ gone
    BY <1>2, <1>4, <2>2
  <2> QED
    BY <2>1, <2>2
<1>6. ASSUME NEW c \in Client \ eager
      PROVE  Asked(c)' /\ Settled(c)' /\ Ordered(c)' /\ (c \notin gone => Awaited(c)')
  <2>1. /\ Asked(c) /\ Settled(c) /\ Ordered(c) /\ (c \notin gone => Awaited(c))
        /\ Whole(c, sent[c])' = Whole(c, sent[c])
    BY <1>2 DEF OrderInv, Whole
  <2>2. CASE c \in gone \/ item.conn # c
    <3>1. Own(c)' = Own(c) /\ \A i \in Own(c) : got'[c][i] = got[c][i]
      <4>1. CASE got'[c] = got[c]
        BY <4>1 DEF Own
      <4>2. CASE c \notin gone /\ got'[c] = Append(got[c], item)
        BY <1>1, <1>4, <2>2, <4>2, PieceArrives
      <4> QED
        BY <1>2, <1>4, <4>1, <4>2
    <3>2. Count(c)' = Count(c) /\ Answered(c)' = Answered(c) /\ Ordered(c)'
      BY <2>1, <3>1, SameOrder
    <3>3. ASSUME c \notin gone, NEW w \in Worker, NEW other \in Range(queue'[w]) \cup {work'[w]},
                 other.conn = c
          PROVE  other \in Items(w)
      <4>1. w = v => work'[w].conn # c
        BY <1>1, <1>3, <1>4, <2>2, <3>3, WebAssumption DEF Pill
      <4>2. w # v => work'[w] = work[w]
        BY <1>3, <1>4
      <4> QED
        BY <1>2, <3>3, <4>1, <4>2 DEF Items
    <3>4. c \notin gone => Awaited(c)'
      BY <1>2, <2>1, <3>2, <3>3 DEF Awaited, Items
    <3>5. Asked(c)' /\ Settled(c)'
      BY <1>2, <2>1, <3>2 DEF Asked, Settled
    <3> QED
      BY <3>2, <3>4, <3>5
  <2>3. CASE c \notin gone /\ item.conn = c
    <3>1. /\ c \notin handed /\ item.n = Answered(c) + 1 /\ item.piece = Count(c) % Chunks
      BY <1>1, <2>1, <2>3 DEF Awaited
    <3>2. to = c
      BY <1>0, <1>1, <2>3, <3>1, KeptIsMeant DEF Means
    <3>3. PICK last : last = Len(got[c]) + 1
      OBVIOUS
    <3>4. got'[c] = Append(got[c], item)
      BY <1>2, <1>4, <2>3, <3>2
    <3>5. /\ Own(c)' = Own(c) \cup {last} /\ got'[c][last] = item /\ last \notin Own(c)
          /\ \A i \in Own(c) : got'[c][i] = got[c][i]
          /\ Count(c)' = Count(c) + 1
      <4>1. /\ got \in [Client -> Seq(Work)] /\ c \in Client /\ item \in Work /\ item.conn = c
            /\ last = Len(got[c]) + 1 /\ got'[c] = Append(got[c], item)
        BY <1>1, <1>4, <2>3, <3>3, <3>4
      <4>2. \A i \in Own(c) : got'[c][i] = got[c][i]
        BY <4>1, PieceArrives
      <4>3. /\ Own(c)' = Own(c) \cup {last} /\ got'[c][last] = item /\ last \notin Own(c)
            /\ Count(c)' = Count(c) + 1
        BY <4>1, PieceArrives
      <4> QED
        BY <4>2, <4>3
    <3>6. PICK x, q, r : x = Count(c) /\ q = x \div Chunks /\ r = x % Chunks
      OBVIOUS
    <3>7. /\ x \in Nat /\ q \in Nat /\ r \in Nat /\ r < Chunks
          /\ (x + 1) \div Chunks = IF r + 1 = Chunks THEN q + 1 ELSE q
          /\ (x + 1) % Chunks = IF r + 1 = Chunks THEN 0 ELSE r + 1
      BY <1>4, <3>6, OwnIsFinite, NextPiece
    <3>8. /\ Answered(c) = q /\ Answered(c)' = (x + 1) \div Chunks
          /\ Count(c) % Chunks = r /\ Count(c)' % Chunks = (x + 1) % Chunks
      BY <3>5, <3>6 DEF Count, Answered
    <3>9. item.n \in Nat /\ item.n \in DOMAIN taken[c] /\ item.n <= Len(taken[c]) /\ Len(taken[c]) \in Nat
      <4>1. Holds(v, 0, c, item.n) /\ 0 \in Row(v) /\ item.n \in Nat
        BY <1>0, <1>1, <2>3 DEF Holds, Row, At, Shape
      <4>2. item.n \in DOMAIN taken[c]
        BY <4>1 DEF RowsInv, OnlyPending, Pending
      <4> QED
        BY <4>1, <4>2 DEF Shape
    <3>10. Asked(c)'
      <4>1. Whole(c, sent[c]) <= q + 1 /\ Whole(c, sent[c]) \in Int
        BY <2>1, <3>8, WholeGrows DEF Asked, Types
      <4>2. Answered(c)' \in {q, q + 1}
        BY <3>7, <3>8
      <4> QED
        BY <2>1, <3>7, <4>1, <4>2 DEF Asked
    <3>11. Settled(c)'
      <4>1. item.n = q + 1
        BY <3>1, <3>8
      <4>2. /\ (x + 1) \div Chunks <= Len(taken[c])
            /\ (x + 1) \div Chunks = Len(taken[c]) => (x + 1) % Chunks = 0
        BY <3>7, <3>9, <4>1
      <4> QED
        BY <1>2, <3>8, <4>2 DEF Settled
    <3>12. Ordered(c)'
      <4> SUFFICES ASSUME NEW i \in Own(c)', NEW before, before = Cardinality({j \in Own(c)' : j < i})
                   PROVE  /\ got'[c][i].n = (before \div Chunks) + 1
                          /\ got'[c][i].piece = before % Chunks
        BY DEF Ordered
      <4>1. CASE i \in Own(c)
        <5>1. \A j \in Own(c) : j \in Nat /\ j < last
          BY <1>4, <3>3, OwnIsFinite
        <5>2. last \in Nat
          BY <1>4, <3>3, OwnIsFinite
        <5>3. {j \in Own(c)' : j < i} = {j \in Own(c) : j < i}
          BY <3>5, <4>1, <5>1, <5>2
        <5> QED
          BY <2>1, <3>5, <4>1, <5>3 DEF Ordered
      <4>2. CASE i = last
        <5>1. \A j \in Own(c) : j \in Nat /\ j < last
          BY <1>4, <3>3, OwnIsFinite
        <5>2. last \in Nat
          BY <1>4, <3>3, OwnIsFinite
        <5>3. {j \in Own(c)' : j < i} = Own(c)
          BY <3>5, <4>2, <5>1, <5>2
        <5>4. before = x
          BY <3>6, <5>3 DEF Count
        <5> QED
          BY <3>1, <3>5, <3>6, <3>8, <4>2, <5>4
      <4> QED
        BY <3>5, <4>1, <4>2
    <3>13. Awaited(c)'
      <4> SUFFICES ASSUME NEW w \in Worker, NEW other \in Range(queue'[w]) \cup {work'[w]},
                          other.conn = c
                   PROVE  /\ other.n = Answered(c)' + 1 /\ other.piece = Count(c)' % Chunks
        BY <1>2, <3>1 DEF Awaited, Items
      <4>1. CASE w = v /\ other = work'[w]
        <5>1. other # Pill
          BY <4>1, WebAssumption DEF Pill
        <5>2. other = [item EXCEPT !.piece = item.piece + 1] /\ item.piece + 1 # Chunks
          BY <1>3, <1>4, <4>1, <5>1
        <5>3. other.n = item.n /\ other.piece = item.piece + 1
          BY <1>1, <5>2
        <5> QED
          BY <3>1, <3>6, <3>7, <3>8, <5>2, <5>3
      <4>2. CASE w # v \/ other # work'[w]
        <5>1. other \in Items(w) /\ (w = v => other \in Range(queue[w]))
          BY <1>2, <1>3, <1>4, <4>2 DEF Items
        <5>2. PICK i \in Row(w) : At(w, i) = other /\ (w = v => i # 0)
          <6>1. CASE other \in Range(queue[w])
            <7>1. PICK i \in DOMAIN queue[w] : queue[w][i] = other
              BY <6>1 DEF Range
            <7>2. i \in Row(w) /\ i # 0
              BY <7>1 DEF Row, Shape
            <7> QED
              BY <7>1, <7>2 DEF At
          <6>2. CASE w # v /\ other = work[w]
            <7>1. 0 \in Row(w)
              BY DEF Row, Shape
            <7> QED
              BY <6>2, <7>1 DEF At
          <6> QED
            BY <5>1, <6>1, <6>2 DEF Items
        <5>3. other.n = item.n /\ item.n \in Nat
          BY <1>1, <2>1, <2>3, <3>1, <5>1 DEF Awaited
        <5>4. /\ Holds(w, i, c, item.n) /\ Holds(v, 0, c, item.n) /\ 0 \in Row(v)
          BY <1>0, <2>3, <5>2, <5>3 DEF Holds, At, Row, Shape
        <5> QED
          BY <5>2, <5>3, <5>4 DEF RowsInv, Apart
      <4> QED
        BY <4>1, <4>2
    <3> QED
      BY <3>10, <3>11, <3>12, <3>13
  <2> QED
    BY <2>2, <2>3
<1> QED
  BY <1>2, <1>5, <1>6 DEF OrderInv

\* Nothing arrives: what a step hands to the workers decides.
LEMMA NothingArrives ==
  ASSUME UNCHANGED got, NEW c \in Client
  PROVE  /\ Own(c)' = Own(c) /\ Count(c)' = Count(c) /\ Answered(c)' = Answered(c)
         /\ Ordered(c)' <=> Ordered(c)
<1>1. Own(c)' = Own(c)
  BY DEF Own
<1> QED
  BY <1>1 DEF Count, Answered, Ordered

\* A client that waits has all its answers when its next request is cut off.
LEMMA WaitedForAnswers ==
  ASSUME Shape, Types, CutsInv, OrderInv, NEW c \in Client \ eager, HasRequest(c)
  PROVE  /\ Len(taken[c]) \in Nat /\ Answered(c) = Len(taken[c]) /\ Count(c) % Chunks = 0
<1>1. Asked(c) /\ Settled(c)
  BY DEF OrderInv
<1>2. PICK k : k = Len(taken[c]) + 1
  OBVIOUS
<1>3. k \in Nat /\ Whole(c, sent[c]) \in Nat /\ k <= Whole(c, sent[c])
  BY <1>2, NextIsWhole
<1>4. Len(taken[c]) \in Nat
  BY DEF Shape
<1>5. Answered(c) \in Nat
  BY OwnIsFinite, NextPiece DEF OrderInv, Answered, Count
<1>6. Answered(c) = Len(taken[c])
  BY <1>1, <1>2, <1>3, <1>4, <1>5 DEF Asked, Settled
<1> QED
  BY <1>1, <1>4, <1>6 DEF Settled

LEMMA DispatchOrder ==
  ASSUME Shape, Types, PoolInv, RowsInv, CutsInv, OrderInv, [Next]_vars, NEW f \in Fd, Dispatch(f),
         \A v \in Worker : ~SendPiece(v)
  PROVE  OrderInv'
<1> USE DEF workerVars, poolVars, parseVars, clientVars, mainVars
<1>0. PICK d, k, new, end : /\ d = handler /\ k = Len(taken[d]) + 1 /\ new = Item(f, d, k)
                            /\ end = NextEnd(d)
  OBVIOUS
<1>1. /\ d \in Client /\ HasRequest(d) /\ reactor = [at |-> "parsing", fd |-> f]
      /\ UNCHANGED <<script, sent, eager, gone, handed, got>>
      /\ taken' = [taken EXCEPT ![d] = Append(taken[d], end)]
  BY <1>0, ReactorType DEF Dispatch, Parsing
<1>2. d \notin handed
  BY <1>0, <1>1 DEF PoolInv, HandlerStays
<1>3. /\ \A c \in Client : c # d => taken'[c] = taken[c]
      /\ Len(taken[d]) \in Nat /\ Len(taken'[d]) = k /\ k \in Nat
  <2>1. taken[d] \in Seq(Nat) /\ end \in Nat
    BY <1>0, <1>1, EndIsNat DEF Shape
  <2>2. taken'[d] = Append(taken[d], end)
    BY <1>1 DEF Shape
  <2>3. Len(taken'[d]) = Len(taken[d]) + 1
    BY <2>1, <2>2, AppendProperties
  <2> QED
    BY <1>0, <1>1, <2>1, <2>3 DEF Shape
<1>4. ASSUME NEW w \in Worker, NEW item \in Range(queue'[w]) \cup {work'[w]}, item.conn \in Client
      PROVE  item \in Items(w) \/ item = new
  <2>1. item # Pill
    BY <1>4, WebAssumption DEF Pill
  <2>2. item \in Items(w) \/ \E g \in Fd : /\ Dispatch(g)
                                            /\ item = Item(g, handler, Len(taken[handler]) + 1)
    BY <1>4, <2>1, ItemStep
  <2>3. \A g \in Fd : Dispatch(g) => g = f
    BY <1>1 DEF Dispatch, Parsing
  <2> QED
    BY <1>0, <2>2, <2>3
<1>5. ASSUME NEW c \in Client \ eager
      PROVE  Asked(c)' /\ Settled(c)' /\ Ordered(c)' /\ (c \notin gone => Awaited(c)')
  <2>1. /\ Asked(c) /\ Settled(c) /\ Ordered(c) /\ (c \notin gone => Awaited(c))
        /\ Whole(c, sent[c])' = Whole(c, sent[c])
    BY <1>1 DEF OrderInv, Whole
  <2>2. Count(c)' = Count(c) /\ Answered(c)' = Answered(c) /\ Ordered(c)'
    BY <1>1, <2>1, NothingArrives
  <2>3. Answered(c) \in Nat
    BY OwnIsFinite, NextPiece DEF OrderInv, Answered, Count
  <2>4. c = d => Answered(c) = Len(taken[d]) /\ Count(c) % Chunks = 0
    BY <1>1, WaitedForAnswers
  <2>5. Asked(c)'
    BY <2>1, <2>2 DEF Asked
  <2>6. Settled(c)'
    <3>1. CASE c # d
      BY <1>1, <1>3, <2>1, <2>2, <3>1 DEF Settled
    <3>2. CASE c = d
      <4>1. Answered(c) # k /\ Answered(c) <= k
        BY <1>0, <1>3, <2>4, <3>2
      <4> QED
        BY <1>3, <2>2, <3>2, <4>1 DEF Settled
    <3> QED
      BY <3>1, <3>2
  <2>7. ASSUME c \notin gone PROVE Awaited(c)'
    <3> SUFFICES ASSUME NEW w \in Worker, NEW item \in Range(queue'[w]) \cup {work'[w]}, item.conn = c
                 PROVE  /\ c \notin handed
                        /\ item.n = Answered(c) + 1 /\ item.piece = Count(c) % Chunks
      BY <1>1, <2>2 DEF Awaited, Items
    <3>1. CASE item \in Items(w)
      BY <2>1, <2>7, <3>1 DEF Awaited
    <3>2. CASE item = new
      <4>1. new.conn = d /\ new.n = k /\ new.piece = 0
        BY <1>0 DEF Item
      <4> QED
        BY <1>0, <1>2, <1>3, <2>4, <3>2, <4>1
    <3> QED
      BY <1>4, <3>1, <3>2
  <2> QED
    BY <2>2, <2>5, <2>6, <2>7
<1> QED
  BY <1>1, <1>5 DEF OrderInv

LEMMA OrderStep ==
  Shape /\ Types /\ PoolInv /\ DescriptorKept /\ RowsInv /\ CutsInv /\ OrderInv /\ [Next]_vars
    => OrderInv'
<1> SUFFICES ASSUME Shape, Types, PoolInv, DescriptorKept, RowsInv, CutsInv, OrderInv, [Next]_vars
             PROVE  OrderInv'
  OBVIOUS
<1> USE DEF workerVars, poolVars, parseVars, clientVars, mainVars
<1>1. CASE \E v \in Worker : SendPiece(v)
  BY <1>1, SendPieceOrder
<1>2. CASE (\E f \in Fd : Dispatch(f)) /\ \A v \in Worker : ~SendPiece(v)
  BY <1>2, DispatchOrder
<1>3. CASE (\A f \in Fd : ~Dispatch(f)) /\ \A v \in Worker : ~SendPiece(v)
  <2>1. UNCHANGED got /\ gone \subseteq gone' /\ UNCHANGED script
    BY <1>3, ScriptStays
    DEF Next, World, Reactor, WorkerStep, Send, HangUp, ElsewhereOpens, ElsewhereCloses,
        AgentClosed, Accept, Recv, PeerClosed, ParseEnds, HandOver, EraseHanded, Dies, Signal, SignalHangs, SendPills, GetWork,
        GetPill, Unsupported, SendFails, BrokenPipe, UseAfterFree, DropDatabase, Exit, vars
  <2>2. ASSUME NEW w \in Worker, NEW item \in Range(queue'[w]) \cup {work'[w]}, item.conn \in Client
        PROVE  item \in Items(w)
    <3>1. item # Pill
      BY <2>2, WebAssumption DEF Pill
    <3> QED
      BY <1>3, <2>2, <3>1, ItemStep
  <2>3. ASSUME NEW c \in Client
        PROVE  /\ Count(c)' = Count(c) /\ Answered(c)' = Answered(c) /\ (Ordered(c)' <=> Ordered(c))
               /\ Answered(c) \in Nat /\ \A n : Whole(c, n)' = Whole(c, n)
    <3>1. Answered(c) \in Nat
      BY OwnIsFinite, NextPiece DEF OrderInv, Answered, Count
    <3> QED
      BY <2>1, <3>1, NothingArrives DEF Whole
  <2>4. ASSUME NEW c \in Client, c \notin eager, c \notin gone', c \in handed' => c \in handed
        PROVE  Awaited(c)'
    <3>1. Awaited(c)
      BY <2>1, <2>4 DEF OrderInv
    <3> QED
      BY <2>2, <2>3, <2>4, <3>1 DEF Awaited, Items
  <2>5. CASE UNCHANGED <<sent, eager, taken, handed>>
    <3>1. ASSUME NEW c \in Client \ eager'
          PROVE  Asked(c)' /\ Settled(c)' /\ Ordered(c)' /\ (c \notin gone' => Awaited(c)')
      <4>1. Asked(c) /\ Settled(c) /\ Ordered(c)
        BY <2>5, <3>1 DEF OrderInv
      <4> QED
        BY <2>3, <2>4, <2>5, <3>1, <4>1 DEF Asked, Settled
    <3> QED
      BY <2>1, <3>1 DEF OrderInv
  <2>6. ASSUME NEW d \in Client, Send(d) PROVE OrderInv'
    <3>1. /\ UNCHANGED <<taken, handed, gone>> /\ sent' = [sent EXCEPT ![d] = sent[d] + 1]
          /\ eager' = IF Answered(d) < Whole(d, sent[d]) THEN eager \cup {d} ELSE eager
      BY <2>6 DEF Send
    <3>2. sent \in [Client -> Nat]
      BY DEF Types
    <3>3. ASSUME NEW c \in Client \ eager'
          PROVE  Asked(c)' /\ Settled(c)' /\ Ordered(c)' /\ (c \notin gone' => Awaited(c)')
      <4>1. c \notin eager /\ (c = d => ~(Answered(d) < Whole(d, sent[d])))
        BY <3>1, <3>3
      <4>2. Asked(c) /\ Settled(c) /\ Ordered(c)
        BY <4>1 DEF OrderInv
      <4>3. Asked(c)'
        <5>1. CASE c # d
          BY <2>3, <3>1, <3>2, <4>2, <5>1 DEF Asked
        <5>2. CASE c = d
          <6>1. sent'[d] = sent[d] + 1 /\ sent[d] \in Nat
            BY <3>1, <3>2
          <6>2. /\ Whole(d, sent[d] + 1) \in Nat /\ Whole(d, sent[d]) \in Nat
                /\ Whole(d, sent[d] + 1) <= Whole(d, sent[d]) + 1
            BY <6>1, WholeGrows
          <6>3. Whole(d, sent[d]) <= Answered(d) /\ Answered(d) \in Nat
            BY <2>3, <4>1, <5>2, <6>2
          <6> QED
            BY <2>3, <5>2, <6>1, <6>2, <6>3 DEF Asked
        <5> QED
          BY <5>1, <5>2
      <4>4. Settled(c)' /\ Ordered(c)'
        BY <2>3, <3>1, <4>2 DEF Settled
      <4> QED
        BY <2>4, <3>1, <4>1, <4>3, <4>4
    <3> QED
      BY <2>1, <3>3 DEF OrderInv
  <2>7. ASSUME NEW f \in Fd, HandOver(f) PROVE OrderInv'
    <3>0. PICK d, k, end : d = handler /\ k = Len(taken[d]) + 1 /\ end = NextEnd(d)
      OBVIOUS
    <3>1. /\ d \in Client /\ HasRequest(d) /\ handed' = handed \cup {d}
          /\ UNCHANGED <<sent, eager, gone>>
          /\ taken' = [taken EXCEPT ![d] = Append(taken[d], end)]
      BY <2>7, <3>0, ReactorType DEF HandOver, Parsing
    <3>2. /\ \A c \in Client : c # d => taken'[c] = taken[c]
          /\ Len(taken[d]) \in Nat /\ Len(taken'[d]) = k /\ k \in Nat
      <4>1. taken[d] \in Seq(Nat) /\ end \in Nat
        BY <3>0, <3>1, EndIsNat DEF Shape
      <4>2. taken'[d] = Append(taken[d], end)
        BY <3>1 DEF Shape
      <4>3. Len(taken'[d]) = Len(taken[d]) + 1
        BY <4>1, <4>2, AppendProperties
      <4> QED
        BY <3>0, <3>1, <4>1, <4>3 DEF Shape
    <3>3. ASSUME NEW c \in Client \ eager
          PROVE  Asked(c)' /\ Settled(c)' /\ Ordered(c)' /\ (c \notin gone => Awaited(c)')
      <4>1. Asked(c) /\ Settled(c) /\ Ordered(c) /\ (c \notin gone => Awaited(c))
        BY DEF OrderInv
      <4>2. c = d => Answered(c) = Len(taken[d]) /\ Count(c) % Chunks = 0
        BY <3>1, WaitedForAnswers
      <4>3. Asked(c)' /\ Ordered(c)'
        BY <2>3, <3>1, <4>1 DEF Asked
      <4>4. Settled(c)'
        <5>1. CASE c # d
          BY <2>3, <3>1, <3>2, <4>1, <5>1 DEF Settled
        <5>2. CASE c = d
          <6>1. Answered(c) # k /\ Answered(c) <= k
            BY <3>0, <3>2, <4>2, <5>2
          <6> QED
            BY <2>3, <3>2, <5>2, <6>1 DEF Settled
        <5> QED
          BY <5>1, <5>2
      <4>5. ASSUME c \notin gone PROVE Awaited(c)'
        <5>1. CASE c # d
          BY <2>4, <3>1, <3>3, <4>5, <5>1
        <5>2. CASE c = d
          <6>1. ASSUME NEW w \in Worker, NEW item \in Items(w), item.conn = c PROVE FALSE
            <7>1. item.n = Len(taken[d]) + 1 /\ item \in Work /\ item # Pill
              BY <4>1, <4>2, <4>5, <5>2, <6>1, ItemTypes, WebAssumption DEF Awaited, Pill
            <7>2. PICK i \in Row(w) : At(w, i) = item
              <8>1. CASE item \in Range(queue[w])
                <9>1. PICK i \in DOMAIN queue[w] : queue[w][i] = item
                  BY <8>1 DEF Range
                <9>2. i \in Row(w) /\ i # 0
                  BY <9>1 DEF Row, Shape
                <9> QED
                  BY <9>1, <9>2 DEF At
              <8>2. CASE item = work[w]
                <9>1. 0 \in Row(w)
                  BY DEF Row, Shape
                <9> QED
                  BY <8>2, <9>1 DEF At
              <8> QED
                BY <6>1, <8>1, <8>2 DEF Items
            <7>3. Holds(w, i, c, item.n) /\ item.n \in Nat
              BY <6>1, <7>1, <7>2, PillType DEF Holds
            <7>4. item.n \in DOMAIN taken[d]
              BY <5>2, <7>2, <7>3 DEF RowsInv, OnlyPending, Pending
            <7> QED
              BY <3>1, <7>1, <7>4 DEF Shape
          <6> QED
            BY <2>2, <6>1 DEF Awaited, Items
        <5> QED
          BY <5>1, <5>2
      <4> QED
        BY <4>3, <4>4, <4>5
    <3> QED
      BY <2>1, <3>1, <3>3 DEF OrderInv
  <2> QED
    BY <1>3, <2>5, <2>6, <2>7
    DEF Next, World, Reactor, WorkerStep, HangUp, ElsewhereOpens, ElsewhereCloses,
        AgentClosed, Accept, Recv, PeerClosed, ParseEnds, EraseHanded, Dies, Signal, SignalHangs, SendPills, GetWork,
        GetPill, Unsupported, SendFails, BrokenPipe, UseAfterFree, DropDatabase, Exit, vars
<1> QED
  BY <1>1, <1>2, <1>3

----------------------------------------------------------------------------
WebInv == Shape /\ Types /\ PoolInv /\ DescriptorKept /\ RowsInv /\ CutsInv /\ OrderInv

LEMMA Invariance == Spec => []WebInv
<1>1. Init => WebInv
  <2> SUFFICES ASSUME Init PROVE WebInv
    OBVIOUS
  <2>1. PoolInv
    BY WebAssumption DEF Init, PoolInv, PoolIsCurrent, FilesDistinct, WaitingOutside, HandedLeaves,
                         HandlerStays, Idle
  <2>2. \A w \in Worker : Items(w) = {Pill}
    BY DEF Init, Items, Range
  <2>3. Types
    BY WebAssumption DEF Init, Types
  <2>4. /\ \A w \in Worker : Row(w) = {0} /\ At(w, 0) = Pill
        /\ \A c \in Client : DOMAIN taken[c] = {} /\ Pill.conn # c
        /\ finished = {}
    BY WebAssumption DEF Init, Row, At, Pill
  <2>5. RowsInv
    BY <2>4 DEF RowsInv, Apart, OnlyPending, AllHeld, DoneTaken, Holds, Pending
  <2>6. CutsInv
    <3>1. \A c \in Client : /\ Len(Stream(c)) \in Nat /\ Len(script[c].ends) \in Nat
                           /\ sent[c] = 0 /\ read[c] = 0 /\ Len(taken[c]) = 0
      BY <2>3, ScriptIs DEF Init
    <3> QED
      BY <3>1 DEF CutsInv
  <2>7. OrderInv
    <3>1. got \in [Client -> Seq(Work)] /\ \A c \in Client : got[c] = <<>> /\ Own(c) = {}
      BY DEF Init, Own
    <3>2. ASSUME NEW c \in Client PROVE Asked(c) /\ Settled(c) /\ Ordered(c) /\ Awaited(c)
      <4>1. Count(c) = 0 /\ Len(taken[c]) = 0
        BY <3>1, FS_EmptySet DEF Count, Init
      <4>2. Answered(c) = 0 /\ Count(c) % Chunks = 0
        BY <4>1, WebAssumption DEF Answered, Count
      <4>3. Whole(c, sent[c]) = 0
        <5>1. /\ sent[c] = 0 /\ script[c].ends \in Seq(1..Len(Stream(c)))
              /\ Len(Stream(c)) \in Nat
          BY <2>3, ScriptIs DEF Init
        <5>2. {k \in DOMAIN script[c].ends : script[c].ends[k] <= 0} = {}
          BY <5>1
        <5> QED
          BY <5>1, <5>2, FS_EmptySet DEF Whole
      <4>4. Awaited(c)
        BY <2>2, WebAssumption DEF Awaited, Pill
      <4> QED
        BY <3>1, <4>1, <4>2, <4>3, <4>4 DEF Asked, Settled, Ordered
    <3> QED
      BY <3>1, <3>2 DEF OrderInv
  <2> QED
    BY <2>1, <2>2, <2>3, <2>5, <2>6, <2>7, InitShape, KeptIsMeant DEF WebInv
<1>2. WebInv /\ [Next]_vars => WebInv'
  BY ShapeStep, TypesStep, PoolStep, KeptStep, RowsStep, CutsStep, OrderStep DEF WebInv
<1> QED
  BY <1>1, <1>2, PTL DEF Spec

\* Every variable has its type, for any scripts of any clients: the turn of the
\* workers included, which currentWorker() keeps within the pool
\* (webservice.cpp:2702-2707).
THEOREM TypeCorrect == Spec => []TypeOK
<1>1. WebInv => TypeOK
  <2> SUFFICES ASSUME WebInv PROVE TypeOK
    OBVIOUS
  <2>1. reactor \in [at : {"idle", "parsing", "handing"}, fd : Fd \cup {None}]
    BY DEF WebInv, Shape, Reading, Idle
  <2> QED
    BY <2>1 DEF WebInv, Shape, Types, TypeOK
<1> QED
  BY <1>1, Invariance, PTL

\* webservice.cpp:2702-2707: whatever the workers, the connections and the order in
\* which queues are served, a request cut off a buffer has one place among the
\* workers until it is finished, and none afterwards: it is neither executed twice
\* nor lost, by the shutdown either.
THEOREM WorkConserved == Spec => []Conserved
<1>1. WebInv => Conserved
  <2> SUFFICES ASSUME WebInv, NEW c \in Client, NEW n \in DOMAIN taken[c],
                      Does(Cut(c, n)) # "upgrade"
               PROVE  Cardinality(Places(c, n)) = IF <<c, n>> \in finished THEN 0 ELSE 1
    BY DEF Conserved
  <2>1. n \in Nat
    BY DEF WebInv, Shape
  <2>2. /\ \A slot : slot \in Slots <=> \E w \in Worker : \E i \in Row(w) : slot = <<w, i>>
        /\ \A w \in Worker : \A i \in Row(w) : ItemAt(<<w, i>>) = At(w, i)
    BY DEF Slots, Row, ItemAt, At
  <2>3. \A slot : slot \in Places(c, n) <=>
          \E w \in Worker : \E i \in Row(w) : slot = <<w, i>> /\ Holds(w, i, c, n)
    BY <2>2 DEF Places, Holds
  <2>4. CASE <<c, n>> \in finished
    <3>1. \A w \in Worker : \A i \in Row(w) : ~Holds(w, i, c, n)
      BY <2>1, <2>4 DEF WebInv, RowsInv, OnlyPending, Pending
    <3>2. Places(c, n) = {}
      BY <2>3, <3>1
    <3> QED
      BY <2>4, <3>2, FS_EmptySet
  <2>5. CASE <<c, n>> \notin finished
    <3>1. PICK w \in Worker : \E i \in Row(w) : Holds(w, i, c, n)
      BY <2>1, <2>5 DEF WebInv, RowsInv, AllHeld, Pending
    <3>2. PICK i \in Row(w) : Holds(w, i, c, n)
      BY <3>1
    <3>3. \A v \in Worker : \A j \in Row(v) : Holds(v, j, c, n) => v = w /\ j = i
      BY <2>1, <3>2 DEF WebInv, RowsInv, Apart
    <3>4. Places(c, n) = {<<w, i>>}
      BY <2>3, <3>2, <3>3
    <3> QED
      BY <2>5, <3>4, FS_Singleton
  <2> QED
    BY <2>4, <2>5
<1> QED
  BY <1>1, Invariance, PTL

\* webservice.cpp:2640-2654: whatever requests the clients send and in whatever
\* pieces they arrive, a buffer is cut where a request ends and nowhere else.
THEOREM RequestsAreWhole == Spec => []WholeRequests
<1>1. WebInv => WholeRequests
  <2> SUFFICES ASSUME WebInv, NEW c \in Client PROVE IsPrefix(taken[c], script[c].ends)
    BY DEF WholeRequests
  <2>1. PICK ends, cuts, n : ends = script[c].ends /\ cuts = taken[c] /\ n = Len(cuts)
    OBVIOUS
  <2>2. /\ n \in Nat /\ Len(ends) \in Nat /\ n <= Len(ends)
        /\ \A i \in 1..n : cuts[i] \in Nat /\ cuts[i] = ends[i]
    <3>1. Types /\ taken[c] \in Seq(Nat)
      BY DEF WebInv, Shape
    <3>2. /\ Len(cuts) <= Len(ends)
          /\ \A i \in 1..Len(cuts) : cuts[i] = ends[i]
      BY <2>1 DEF WebInv, CutsInv
    <3>3. script[c].ends \in Seq(1..Len(Stream(c)))
      BY <3>1, ScriptIs
    <3> QED
      BY <2>1, <3>1, <3>2, <3>3
  <2>3. /\ SubSeq(cuts, 1, n) \in Seq(Nat) /\ SubSeq(ends, 1, n) \in Seq(Nat)
        /\ Len(SubSeq(cuts, 1, n)) = n /\ Len(SubSeq(ends, 1, n)) = n
        /\ \A i \in 1..n : SubSeq(cuts, 1, n)[i] = SubSeq(ends, 1, n)[i]
    BY <2>2, SubSeqProperties
  <2>4. SubSeq(cuts, 1, n) = SubSeq(ends, 1, n)
    BY <2>3, SeqEqual
  <2> QED
    BY <2>1, <2>2, <2>4 DEF IsPrefix
<1> QED
  BY <1>1, Invariance, PTL

\* webservice.cpp:2702-2707, 150-161: however the workers are scheduled, a client that
\* waits for each answer gets all pieces of the answers to its requests in order and
\* none of them twice.
THEOREM AnswersInOrder == Spec => []InOrder
<1>1. WebInv => InOrder
  BY DEF WebInv, OrderInv, Ordered, InOrder
<1> QED
  BY <1>1, Invariance, PTL

\* webservice.cpp:2204: however many connections, workers and numbers there are,
\* the pool never holds a connection the kernel no longer has there.
THEOREM PoolStaysCurrent == Spec => []PoolIsCurrent
<1>1. WebInv => PoolIsCurrent
  BY DEF WebInv, PoolInv
<1> QED
  BY <1>1, Invariance, PTL

\* webservice.cpp:2705: the number in a work item is its client's until the client
\* hangs up or becomes an agent.
THEOREM DescriptorsKept == Spec => []DescriptorKept
<1>1. WebInv => DescriptorKept
  BY DEF WebInv
<1> QED
  BY <1>1, Invariance, PTL

\* webservice.cpp:2693-2697: no change of the pool closes what another part of
\* the process has open.
THEOREM OthersStay == Spec => OthersKept
<1>1. WebInv /\ [Next]_vars =>
        [pool' # pool => \A f \in Fd : file[f] = Elsewhere => file'[f] = Elsewhere]_vars
  <2> SUFFICES ASSUME WebInv, [Next]_vars, pool' # pool, NEW f \in Fd, file[f] = Elsewhere
               PROVE  file'[f] = Elsewhere
    OBVIOUS
  <2> USE WebAssumption DEF workerVars, poolVars, parseVars, clientVars, mainVars
  <2>1. ASSUME NEW c \in Client, NEW g \in Fd, Accept(c, g) PROVE file'[f] = Elsewhere
    BY <2>1 DEF Accept, WebInv, Shape
  <2>2. ASSUME NEW g \in Fd, PeerClosed(g) PROVE file'[f] = Elsewhere
    <3>1. file[g] = pool[g] /\ pool[g] \in Client \cup {None}
      BY <2>2 DEF PeerClosed, WebInv, Shape
    <3> QED
      BY <2>2, <3>1 DEF PeerClosed, Erase, WebInv, Shape
  <2>3. ASSUME NEW g \in Fd, EraseHanded(g) PROVE file'[f] = Elsewhere
    BY <2>3 DEF EraseHanded
  <2>4. CASE Signal \/ SignalHangs
    BY <2>4, PillsSent DEF WebInv
  <2> QED
    BY <2>1, <2>2, <2>3, <2>4
    DEF Next, Dies, World, Reactor, WorkerStep, Send, HangUp, ElsewhereOpens, ElsewhereCloses,
        AgentClosed, Recv, Dispatch, ParseEnds, HandOver, GetWork, GetPill, Unsupported, SendPiece,
        SendFails, BrokenPipe, UseAfterFree, DropDatabase, Exit, vars
<1> QED
  BY <1>1, Invariance, PTL DEF Spec, OthersKept
=============================================================================
