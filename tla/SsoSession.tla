----------------------------- MODULE SsoSession -----------------------------
(***************************************************************************)
(* SsoSession (modules/module/sso, sso_session): the server-side sessions, *)
(* their documents in the collection "sessions" and the cache in front of  *)
(* it, shared by the MicroService workers of one process.  Each access to  *)
(* the database and each section under m_mtx or m_refresh_mtx is a step.   *)
(*                                                                         *)
(* The clock goes forward (the code reads the wall clock).  Delay is an    *)
(* assumption on the environment: no lookup() or revoke() takes longer,    *)
(* its database calls included (60 s each at most in remote mode).         *)
(***************************************************************************)
EXTENDS Naturals, SequencesExt

CONSTANTS
  Sid,       \* the opaque ids random_token(32) draws
  Worker,    \* the MicroService threads
  None,      \* no session id
  Ttl,       \* m_ttl, 60 s
  Throttle,  \* kLastSeenThrottleSecs, 60 s
  MaxAge,    \* m_max_age, 12 h
  Capacity,  \* m_capacity, 4096
  Delay,     \* the longest a lookup() or a revoke() takes
  MaxTime    \* bound of the model: the clock stops there

ASSUME TimesAssumption ==
  /\ Ttl \in Nat \ {0} /\ Throttle \in Nat \ {0} /\ MaxAge \in Nat \ {0}
  /\ Delay \in Nat /\ MaxTime \in Nat
ASSUME CapacityAssumption == Capacity \in Nat
ASSUME NoneAssumption == None \notin Sid

VARIABLES
  now,          \* m_clock.now_unix()
  docs,         \* the ids with a document in "sessions"
  expires,      \* its expiresAt; 0 for an id not drawn yet
  lastSeen,     \* its lastSeenAt
  gone,         \* when it was deleted (history)
  cache,        \* m_map: the cached ids, with their inserted_at
  lru,          \* m_lru, the most recently used first
  lastRefresh,  \* m_last_refresh
  pc, sid,      \* what each worker is doing, and for which session
  start,        \* when it began to (history)
  seen,         \* the now of maybe_refresh_last_seen()
  lastValid     \* when lookup() last answered "valid" (history)

docVars    == <<docs, expires, lastSeen, gone>>
cacheVars  == <<cache, lru>>
workerVars == <<pc, sid, start, seen>>
vars == <<now, docVars, cacheVars, lastRefresh, workerVars, lastValid>>

Steps == {"idle", "read", "check", "put", "refresh", "decide", "write", "delete"}

Types ==
  /\ now \in Nat
  /\ docs \subseteq Sid /\ expires \in [Sid -> Nat]
  /\ lastSeen \in [Sid -> Nat] /\ gone \in [Sid -> Nat]
  /\ DOMAIN cache \subseteq Sid /\ \A s \in DOMAIN cache : cache[s] \in Nat
  /\ DOMAIN lastRefresh \subseteq Sid /\ \A s \in DOMAIN lastRefresh : lastRefresh[s] \in Nat
  /\ pc \in [Worker -> Steps] /\ sid \in [Worker -> Sid \cup {None}]
  /\ start \in [Worker -> Nat] /\ seen \in [Worker -> Nat]
  /\ lastValid \in [Sid -> Nat]

TypeOK == Types /\ lru \in Seq(Sid)

Empty == [s \in {} |-> 0]

Init ==
  /\ now = 0 /\ docs = {} /\ lru = <<>> /\ cache = Empty /\ lastRefresh = Empty
  /\ expires = [s \in Sid |-> 0] /\ lastSeen = [s \in Sid |-> 0] /\ gone = [s \in Sid |-> 0]
  /\ pc = [w \in Worker |-> "idle"] /\ sid = [w \in Worker |-> None]
  /\ start = [w \in Worker |-> 0] /\ seen = [w \in Worker |-> 0]
  /\ lastValid = [s \in Sid |-> 0]

----------------------------------------------------------------------------
(* A worker enters an operation, moves on in it and leaves it. *)

Enter(w, s, l) ==
  /\ pc[w] = "idle"
  /\ pc' = [pc EXCEPT ![w] = l] /\ sid' = [sid EXCEPT ![w] = s]
  /\ start' = [start EXCEPT ![w] = now] /\ UNCHANGED seen

Goto(w, l) == pc' = [pc EXCEPT ![w] = l] /\ UNCHANGED <<sid, start, seen>>

Leave(w) ==
  /\ pc' = [pc EXCEPT ![w] = "idle"] /\ sid' = [sid EXCEPT ![w] = None]
  /\ start' = [start EXCEPT ![w] = 0] /\ seen' = [seen EXCEPT ![w] = 0]

AnswersValid(s) == lastValid' = [lastValid EXCEPT ![s] = now]

(* SessionCache. *)

\* Where the lru_it of an entry points to, and m_lru without that node: what is
\* not in m_map has no lru_it and leaves the list alone.
Node(s) == CHOOSE i \in DOMAIN lru : lru[i] = s
Unlinked(s) == IF s \in DOMAIN cache THEN RemoveAt(lru, Node(s)) ELSE lru

ToFront(s) == lru' = <<s>> \o Unlinked(s)

Fresh(s) == s \in DOMAIN cache /\ now - cache[s] < Ttl

\* Mutant: the entry leaves m_map only.
CacheEraseMapOnly(s) ==
  /\ cache' = [x \in DOMAIN cache \ {s} |-> cache[x]]
  /\ lru' = lru

\* erase(), also what get() does to an entry it finds expired.
CacheErase(s) ==
  /\ cache' = [x \in DOMAIN cache \ {s} |-> cache[x]]
  /\ lru' = Unlinked(s)

\* put(): the entry is refreshed and the least recently used ones give way.
CachePut(s) ==
  LET order == <<s>> \o Unlinked(s)
      size  == IF Len(order) > Capacity THEN Capacity ELSE Len(order)
      kept  == {order[i] : i \in 1..size}
  IN /\ lru' = SubSeq(order, 1, size)
     /\ cache' = [x \in (DOMAIN cache \cup {s}) \cap kept |-> IF x = s THEN now ELSE cache[x]]

----------------------------------------------------------------------------
(* create_session().  If create_document() fails the id has no document,  *)
(* as one never drawn. *)

Create(s) ==
  /\ expires[s] = 0
  /\ docs' = docs \cup {s}
  /\ expires' = [expires EXCEPT ![s] = now + MaxAge]
  /\ lastSeen' = [lastSeen EXCEPT ![s] = now]
  /\ UNCHANGED <<now, gone, cacheVars, lastRefresh, workerVars, lastValid>>

(* lookup(). *)

\* Mutant: a hit renews the entry, as a sliding TTL would.
LookupHitSlides(w, s) ==
  /\ pc[w] = "idle" /\ Fresh(s)
  /\ ToFront(s) /\ AnswersValid(s)
  /\ cache' = [cache EXCEPT ![s] = now]
  /\ UNCHANGED <<now, docVars, lastRefresh, workerVars>>

LookupHit(w, s) ==
  /\ pc[w] = "idle" /\ Fresh(s)
  /\ ToFront(s) /\ AnswersValid(s)
  /\ UNCHANGED <<now, docVars, cache, lastRefresh, workerVars>>

LookupMiss(w, s) ==
  /\ ~Fresh(s) /\ Enter(w, s, "read")
  /\ CacheErase(s)
  /\ UNCHANGED <<now, docVars, lastRefresh, lastValid>>

\* get_document() answers: with the document, or with nothing if there is
\* none or the call failed.
ReadFinds(w) ==
  /\ pc[w] = "read" /\ sid[w] \in docs
  /\ Goto(w, "check")
  /\ UNCHANGED <<now, docVars, cacheVars, lastRefresh, lastValid>>

ReadFindsNothing(w) ==
  /\ pc[w] = "read"
  /\ Leave(w)
  /\ UNCHANGED <<now, docVars, cacheVars, lastRefresh, lastValid>>

\* expiresAt, which no write changes, against the clock.
Check(w) ==
  /\ pc[w] = "check"
  /\ IF expires[sid[w]] <= now THEN Leave(w) ELSE Goto(w, "put")
  /\ UNCHANGED <<now, docVars, cacheVars, lastRefresh, lastValid>>

Put(w) ==
  /\ pc[w] = "put"
  /\ CachePut(sid[w]) /\ Goto(w, "refresh")
  /\ UNCHANGED <<now, docVars, lastRefresh, lastValid>>

(* maybe_refresh_last_seen(): the clock is read before m_refresh_mtx is taken. *)

RefreshReads(w) ==
  /\ pc[w] = "refresh"
  /\ seen' = [seen EXCEPT ![w] = now]
  /\ pc' = [pc EXCEPT ![w] = "decide"] /\ UNCHANGED <<sid, start>>
  /\ UNCHANGED <<now, docVars, cacheVars, lastRefresh, lastValid>>

\* now - it->second < kLastSeenThrottleSecs; it may be in the future.
Throttled(w) ==
  sid[w] \in DOMAIN lastRefresh /\ seen[w] < lastRefresh[sid[w]] + Throttle

RefreshSkipped(w) ==
  /\ pc[w] = "decide" /\ Throttled(w)
  /\ AnswersValid(sid[w]) /\ Leave(w)
  /\ UNCHANGED <<now, docVars, cacheVars, lastRefresh>>

\* Mutant: the refresh is decided but not recorded.
RefreshUnrecorded(w) ==
  /\ pc[w] = "decide" /\ ~Throttled(w)
  /\ lastRefresh' = lastRefresh
  /\ Goto(w, "write")
  /\ UNCHANGED <<now, docVars, cacheVars, lastValid>>

RefreshDecided(w) ==
  /\ pc[w] = "decide" /\ ~Throttled(w)
  /\ lastRefresh' = [x \in DOMAIN lastRefresh \cup {sid[w]} |->
                       IF x = sid[w] THEN seen[w] ELSE lastRefresh[x]]
  /\ Goto(w, "write")
  /\ UNCHANGED <<now, docVars, cacheVars, lastValid>>

\* update_many without upsert: nothing happens to a deleted document, nor if
\* the call fails.
RefreshWrites(w) ==
  /\ pc[w] = "write"
  /\ \/ sid[w] \in docs /\ lastSeen' = [lastSeen EXCEPT ![sid[w]] = seen[w]]
     \/ UNCHANGED lastSeen
  /\ AnswersValid(sid[w]) /\ Leave(w)
  /\ UNCHANGED <<now, docs, expires, gone, cacheVars, lastRefresh>>

(* revoke(). *)

RevokeErases(w, s) ==
  /\ Enter(w, s, "delete")
  /\ CacheErase(s)
  /\ UNCHANGED <<now, docVars, lastRefresh, lastValid>>

RevokeDeletes(w) ==
  /\ pc[w] = "delete"
  /\ docs' = docs \ {sid[w]}
  /\ gone' = IF sid[w] \in docs THEN [gone EXCEPT ![sid[w]] = now] ELSE gone
  /\ Leave(w)
  /\ UNCHANGED <<now, expires, lastSeen, cacheVars, lastRefresh, lastValid>>

\* delete_document() returned false, which revoke() does not look at.
RevokeFails(w) ==
  /\ pc[w] = "delete"
  /\ Leave(w)
  /\ UNCHANGED <<now, docVars, cacheVars, lastRefresh, lastValid>>

----------------------------------------------------------------------------
(* The clock, and a restart of the process (SessionManager is made anew). *)

Tick ==
  /\ now < MaxTime
  /\ \A w \in Worker : pc[w] # "idle" => now < start[w] + Delay
  /\ now' = now + 1
  /\ UNCHANGED <<docVars, cacheVars, lastRefresh, workerVars, lastValid>>

Restart ==
  /\ cache' = Empty /\ lru' = <<>> /\ lastRefresh' = Empty
  /\ pc' = [w \in Worker |-> "idle"] /\ sid' = [w \in Worker |-> None]
  /\ start' = [w \in Worker |-> 0] /\ seen' = [w \in Worker |-> 0]
  /\ UNCHANGED <<now, docVars, lastValid>>

----------------------------------------------------------------------------

Lookup(w) ==
  \/ \E s \in Sid : LookupHit(w, s) \/ LookupMiss(w, s)
  \/ ReadFinds(w) \/ ReadFindsNothing(w) \/ Check(w) \/ Put(w)
  \/ RefreshReads(w) \/ RefreshSkipped(w) \/ RefreshDecided(w) \/ RefreshWrites(w)

Revoke(w) ==
  (\E s \in Sid : RevokeErases(w, s)) \/ RevokeDeletes(w) \/ RevokeFails(w)

Next ==
  \/ \E s \in Sid : Create(s)
  \/ \E w \in Worker : Lookup(w) \/ Revoke(w)
  \/ Tick \/ Restart

Spec == Init /\ [][Next]_vars

----------------------------------------------------------------------------
(* What holds. *)

\* However lookups, revocations, expiry and eviction interleave, a session is
\* answered "valid" for less than Delay + Ttl after its document was deleted
\* and after it expired: the read a lookup began before may be cached after,
\* and that entry lives for its TTL, but no entry outlives it by being used.
StaleBound ==
  \A s \in Sid :
    /\ expires[s] > 0 => lastValid[s] < expires[s] + Delay + Ttl
    /\ expires[s] > 0 /\ s \notin docs => lastValid[s] < gone[s] + Delay + Ttl

\* m_map and m_lru hold the same ids, each once, at most m_capacity of them:
\* every lru_it points into the list and eviction always finds its victim.
CacheConsistent ==
  /\ {lru[i] : i \in DOMAIN lru} = DOMAIN cache
  /\ \A i, j \in DOMAIN lru : lru[i] = lru[j] => i = j
  /\ Len(lru) <= Capacity

\* "at most once per minute per sid": two workers never write lastSeenAt of
\* one session at times closer than the throttle, although each read the
\* clock before taking m_refresh_mtx and writes after releasing it.
RefreshesApart ==
  \A w, v \in Worker :
    w # v /\ pc[w] = "write" /\ pc[v] = "write" /\ sid[w] = sid[v] =>
      seen[w] >= seen[v] + Throttle \/ seen[v] >= seen[w] + Throttle

----------------------------------------------------------------------------
(* The inductive invariant behind StaleBound and RefreshesApart. *)

Checked == {"put", "refresh", "decide", "write"}

\* A worker that holds a document it read began before that document went.
HeldInv ==
  \A w \in Worker :
    /\ pc[w] # "idle" => start[w] <= now /\ now <= start[w] + Delay /\ sid[w] \in Sid
    /\ pc[w] \in Checked \cup {"check"} /\ sid[w] \notin docs => start[w] <= gone[sid[w]]
    /\ pc[w] \in Checked => start[w] < expires[sid[w]]

\* A cached answer is not much younger than the end of its session.
CacheInv ==
  \A s \in DOMAIN cache :
    /\ cache[s] <= now
    /\ cache[s] < expires[s] + Delay
    /\ s \notin docs => cache[s] <= gone[s] + Delay

AnswerInv == \A s \in Sid : lastValid[s] <= now

\* Whoever is about to write is on record, and no record is younger by less
\* than the throttle.
RefreshInv ==
  \A w \in Worker : pc[w] = "write" =>
    /\ sid[w] \in DOMAIN lastRefresh
    /\ seen[w] <= lastRefresh[sid[w]]
    /\ \A v \in Worker : v # w /\ pc[v] = "write" /\ sid[v] = sid[w] /\ seen[v] <= seen[w] =>
         seen[v] + Throttle <= seen[w]

IInv == Types /\ HeldInv /\ CacheInv /\ AnswerInv /\ StaleBound /\ RefreshInv
=============================================================================
