------------------------- MODULE SsoSession_proofs -------------------------
(***************************************************************************)
(* Proofs about SsoSession: IInv is inductive, so a session is never       *)
(* answered "valid" for long after its end (StaleBound) and two workers    *)
(* never write its lastSeenAt close together (RefreshesApart).             *)
(***************************************************************************)
EXTENDS SsoSession, SequenceTheorems, TLAPS

USE DEF Checked

\* What put() does to the map: the new entry is of now, the others are kept
\* as they are or evicted.
LEMMA CachePutEffect ==
  ASSUME NEW s, CachePut(s)
  PROVE  /\ DOMAIN cache' \subseteq DOMAIN cache \cup {s}
         /\ \A x \in DOMAIN cache' : cache'[x] = IF x = s THEN now ELSE cache[x]
BY DEF CachePut

\* An id is in the list once; map and list are in step.
Once(seq) == \A i, j \in DOMAIN seq : seq[i] = seq[j] => i = j

LruInv == lru \in Seq(Sid) /\ CacheConsistent

LEMMA InitInv == Init => IInv /\ LruInv
<1>1. Init => IInv
  BY TimesAssumption
  DEF Init, IInv, Types, HeldInv, CacheInv, AnswerInv, StaleBound, RefreshInv, Steps, Empty
<1>2. Init => LruInv
  BY CapacityAssumption DEF Init, LruInv, CacheConsistent, Empty
<1> QED
  BY <1>1, <1>2

----------------------------------------------------------------------------
(* One lemma for each part of IInv. *)

\* Every action keeps the types; that of sid inside an operation is in HeldInv.
LEMMA TypesStep ==
  Types /\ HeldInv /\ [Next]_vars => Types'
<1> SUFFICES ASSUME Types, HeldInv, [Next]_vars PROVE Types'
  OBVIOUS
<1> USE DEF Types, HeldInv, Steps
<1>1. ASSUME NEW s \in Sid, Create(s) PROVE Types'
  BY <1>1, TimesAssumption DEF Create, cacheVars, workerVars
<1>2. ASSUME NEW w \in Worker, NEW s \in Sid, LookupHit(w, s) PROVE Types'
  BY <1>2 DEF LookupHit, AnswersValid, Fresh, docVars, workerVars
<1>3. ASSUME NEW w \in Worker, NEW s \in Sid, LookupMiss(w, s) PROVE Types'
  BY <1>3 DEF LookupMiss, Enter, Fresh, CacheErase, docVars
<1>4. ASSUME NEW w \in Worker, ReadFinds(w) PROVE Types'
  BY <1>4 DEF ReadFinds, Goto, docVars, cacheVars
<1>5. ASSUME NEW w \in Worker, ReadFindsNothing(w) PROVE Types'
  BY <1>5 DEF ReadFindsNothing, Leave, docVars, cacheVars
<1>6. ASSUME NEW w \in Worker, Check(w) PROVE Types'
  BY <1>6 DEF Check, Goto, Leave, docVars, cacheVars
<1>7. ASSUME NEW w \in Worker, Put(w) PROVE Types'
  BY <1>7, CachePutEffect DEF Put, Goto, docVars
<1>8. ASSUME NEW w \in Worker, RefreshReads(w) PROVE Types'
  BY <1>8 DEF RefreshReads, docVars, cacheVars
<1>9. ASSUME NEW w \in Worker, RefreshSkipped(w) PROVE Types'
  BY <1>9 DEF RefreshSkipped, Leave, AnswersValid, Throttled, docVars, cacheVars
<1>10. ASSUME NEW w \in Worker, RefreshDecided(w) PROVE Types'
  BY <1>10 DEF RefreshDecided, Goto, Throttled, docVars, cacheVars
<1>11. ASSUME NEW w \in Worker, RefreshWrites(w) PROVE Types'
  BY <1>11 DEF RefreshWrites, Leave, AnswersValid, cacheVars
<1>12. ASSUME NEW w \in Worker, NEW s \in Sid, RevokeErases(w, s) PROVE Types'
  BY <1>12 DEF RevokeErases, Enter, CacheErase, docVars
<1>13. ASSUME NEW w \in Worker, RevokeDeletes(w) PROVE Types'
  BY <1>13 DEF RevokeDeletes, Leave, cacheVars
<1>14. ASSUME NEW w \in Worker, RevokeFails(w) PROVE Types'
  BY <1>14 DEF RevokeFails, Leave, docVars, cacheVars
<1>15. CASE Tick
  BY <1>15, TimesAssumption DEF Tick, docVars, cacheVars, workerVars
<1>16. CASE Restart
  BY <1>16 DEF Restart, Empty, docVars
<1>17. CASE UNCHANGED vars
  BY <1>17 DEF vars, docVars, cacheVars, workerVars
<1> QED
  BY <1>1, <1>2, <1>3, <1>4, <1>5, <1>6, <1>7, <1>8, <1>9, <1>10, <1>11, <1>12,
     <1>13, <1>14, <1>15, <1>16, <1>17 DEF Next, Lookup, Revoke

\* No operation outlasts Delay, and what was read was there when it began.
LEMMA HeldStep ==
  Types /\ HeldInv /\ [Next]_vars => HeldInv'
<1> SUFFICES ASSUME Types, HeldInv, [Next]_vars PROVE HeldInv'
  OBVIOUS
<1> USE DEF Types, HeldInv
<1>1. ASSUME NEW s \in Sid, Create(s) PROVE HeldInv'
  BY <1>1, TimesAssumption DEF Create, workerVars
<1>2. ASSUME NEW w \in Worker, NEW s \in Sid, LookupHit(w, s) PROVE HeldInv'
  BY <1>2, TimesAssumption DEF LookupHit, docVars, workerVars
<1>3. ASSUME NEW w \in Worker, NEW s \in Sid, LookupMiss(w, s) PROVE HeldInv'
  BY <1>3, TimesAssumption DEF LookupMiss, Enter, docVars
<1>4. ASSUME NEW w \in Worker, ReadFinds(w) PROVE HeldInv'
  BY <1>4, TimesAssumption DEF ReadFinds, Goto, docVars
<1>5. ASSUME NEW w \in Worker, ReadFindsNothing(w) PROVE HeldInv'
  BY <1>5, TimesAssumption DEF ReadFindsNothing, Leave, docVars
<1>6. ASSUME NEW w \in Worker, Check(w) PROVE HeldInv'
  BY <1>6, TimesAssumption DEF Check, Goto, Leave, docVars
<1>7. ASSUME NEW w \in Worker, Put(w) PROVE HeldInv'
  BY <1>7, TimesAssumption DEF Put, Goto, docVars
<1>8. ASSUME NEW w \in Worker, RefreshReads(w) PROVE HeldInv'
  BY <1>8, TimesAssumption DEF RefreshReads, docVars
<1>9. ASSUME NEW w \in Worker, RefreshSkipped(w) PROVE HeldInv'
  BY <1>9, TimesAssumption DEF RefreshSkipped, Leave, docVars
<1>10. ASSUME NEW w \in Worker, RefreshDecided(w) PROVE HeldInv'
  BY <1>10, TimesAssumption DEF RefreshDecided, Goto, docVars
<1>11. ASSUME NEW w \in Worker, RefreshWrites(w) PROVE HeldInv'
  BY <1>11, TimesAssumption DEF RefreshWrites, Leave
<1>12. ASSUME NEW w \in Worker, NEW s \in Sid, RevokeErases(w, s) PROVE HeldInv'
  BY <1>12, TimesAssumption DEF RevokeErases, Enter, docVars
<1>13. ASSUME NEW w \in Worker, RevokeDeletes(w) PROVE HeldInv'
  BY <1>13, TimesAssumption DEF RevokeDeletes, Leave
<1>14. ASSUME NEW w \in Worker, RevokeFails(w) PROVE HeldInv'
  BY <1>14, TimesAssumption DEF RevokeFails, Leave, docVars
<1>15. CASE Tick
  BY <1>15, TimesAssumption DEF Tick, docVars, workerVars
<1>16. CASE Restart
  BY <1>16, TimesAssumption DEF Restart, docVars
<1>17. CASE UNCHANGED vars
  BY <1>17 DEF vars, docVars, cacheVars, workerVars
<1> QED
  BY <1>1, <1>2, <1>3, <1>4, <1>5, <1>6, <1>7, <1>8, <1>9, <1>10, <1>11, <1>12,
     <1>13, <1>14, <1>15, <1>16, <1>17 DEF Next, Lookup, Revoke

\* Only put() makes an entry, from a document some lookup read.
LEMMA CacheStep ==
  Types /\ HeldInv /\ CacheInv /\ [Next]_vars => CacheInv'
<1> SUFFICES ASSUME Types, HeldInv, CacheInv, [Next]_vars PROVE CacheInv'
  OBVIOUS
<1> USE DEF Types, HeldInv, CacheInv
<1>1. ASSUME NEW s \in Sid, Create(s) PROVE CacheInv'
  BY <1>1, TimesAssumption DEF Create, cacheVars
<1>2. ASSUME NEW w \in Worker, NEW s \in Sid, LookupHit(w, s) PROVE CacheInv'
  BY <1>2 DEF LookupHit, docVars
<1>3. ASSUME NEW w \in Worker, NEW s \in Sid, LookupMiss(w, s) PROVE CacheInv'
  BY <1>3, TimesAssumption DEF LookupMiss, CacheErase, docVars
<1>4. ASSUME NEW w \in Worker, ReadFinds(w) PROVE CacheInv'
  BY <1>4 DEF ReadFinds, docVars, cacheVars
<1>5. ASSUME NEW w \in Worker, ReadFindsNothing(w) PROVE CacheInv'
  BY <1>5 DEF ReadFindsNothing, docVars, cacheVars
<1>6. ASSUME NEW w \in Worker, Check(w) PROVE CacheInv'
  BY <1>6 DEF Check, docVars, cacheVars
<1>7. ASSUME NEW w \in Worker, Put(w) PROVE CacheInv'
  BY <1>7, CachePutEffect, TimesAssumption DEF Put, Goto, docVars
<1>8. ASSUME NEW w \in Worker, RefreshReads(w) PROVE CacheInv'
  BY <1>8 DEF RefreshReads, docVars, cacheVars
<1>9. ASSUME NEW w \in Worker, RefreshSkipped(w) PROVE CacheInv'
  BY <1>9 DEF RefreshSkipped, docVars, cacheVars
<1>10. ASSUME NEW w \in Worker, RefreshDecided(w) PROVE CacheInv'
  BY <1>10 DEF RefreshDecided, docVars, cacheVars
<1>11. ASSUME NEW w \in Worker, RefreshWrites(w) PROVE CacheInv'
  BY <1>11 DEF RefreshWrites, cacheVars
<1>12. ASSUME NEW w \in Worker, NEW s \in Sid, RevokeErases(w, s) PROVE CacheInv'
  BY <1>12, TimesAssumption DEF RevokeErases, CacheErase, docVars
<1>13. ASSUME NEW w \in Worker, RevokeDeletes(w) PROVE CacheInv'
  BY <1>13, TimesAssumption DEF RevokeDeletes, cacheVars
<1>14. ASSUME NEW w \in Worker, RevokeFails(w) PROVE CacheInv'
  BY <1>14 DEF RevokeFails, docVars, cacheVars
<1>15. CASE Tick
  BY <1>15, TimesAssumption DEF Tick, docVars, cacheVars
<1>16. CASE Restart
  BY <1>16 DEF Restart, Empty, docVars
<1>17. CASE UNCHANGED vars
  BY <1>17 DEF vars, docVars, cacheVars, workerVars
<1> QED
  BY <1>1, <1>2, <1>3, <1>4, <1>5, <1>6, <1>7, <1>8, <1>9, <1>10, <1>11, <1>12,
     <1>13, <1>14, <1>15, <1>16, <1>17 DEF Next, Lookup, Revoke

\* An answer is not from the future.
LEMMA AnswerStep ==
  Types /\ AnswerInv /\ [Next]_vars => AnswerInv'
<1> SUFFICES ASSUME Types, AnswerInv, [Next]_vars PROVE AnswerInv'
  OBVIOUS
<1> USE DEF Types, AnswerInv
<1>1. ASSUME NEW s \in Sid, Create(s) PROVE AnswerInv'
  BY <1>1 DEF Create
<1>2. ASSUME NEW w \in Worker, NEW s \in Sid, LookupHit(w, s) PROVE AnswerInv'
  BY <1>2 DEF LookupHit, AnswersValid
<1>3. ASSUME NEW w \in Worker, NEW s \in Sid, LookupMiss(w, s) PROVE AnswerInv'
  BY <1>3 DEF LookupMiss
<1>4. ASSUME NEW w \in Worker, ReadFinds(w) PROVE AnswerInv'
  BY <1>4 DEF ReadFinds
<1>5. ASSUME NEW w \in Worker, ReadFindsNothing(w) PROVE AnswerInv'
  BY <1>5 DEF ReadFindsNothing
<1>6. ASSUME NEW w \in Worker, Check(w) PROVE AnswerInv'
  BY <1>6 DEF Check
<1>7. ASSUME NEW w \in Worker, Put(w) PROVE AnswerInv'
  BY <1>7 DEF Put
<1>8. ASSUME NEW w \in Worker, RefreshReads(w) PROVE AnswerInv'
  BY <1>8 DEF RefreshReads
<1>9. ASSUME NEW w \in Worker, RefreshSkipped(w) PROVE AnswerInv'
  BY <1>9 DEF RefreshSkipped, AnswersValid
<1>10. ASSUME NEW w \in Worker, RefreshDecided(w) PROVE AnswerInv'
  BY <1>10 DEF RefreshDecided
<1>11. ASSUME NEW w \in Worker, RefreshWrites(w) PROVE AnswerInv'
  BY <1>11 DEF RefreshWrites, AnswersValid
<1>12. ASSUME NEW w \in Worker, NEW s \in Sid, RevokeErases(w, s) PROVE AnswerInv'
  BY <1>12 DEF RevokeErases
<1>13. ASSUME NEW w \in Worker, RevokeDeletes(w) PROVE AnswerInv'
  BY <1>13 DEF RevokeDeletes
<1>14. ASSUME NEW w \in Worker, RevokeFails(w) PROVE AnswerInv'
  BY <1>14 DEF RevokeFails
<1>15. CASE Tick
  BY <1>15 DEF Tick
<1>16. CASE Restart
  BY <1>16 DEF Restart
<1>17. CASE UNCHANGED vars
  BY <1>17 DEF vars, docVars, cacheVars, workerVars
<1> QED
  BY <1>1, <1>2, <1>3, <1>4, <1>5, <1>6, <1>7, <1>8, <1>9, <1>10, <1>11, <1>12,
     <1>13, <1>14, <1>15, <1>16, <1>17 DEF Next, Lookup, Revoke

\* A hit is younger than Ttl, a lookup that reads takes no longer than Delay.
LEMMA StaleStep ==
  Types /\ HeldInv /\ CacheInv /\ AnswerInv /\ StaleBound /\ [Next]_vars => StaleBound'
<1> SUFFICES ASSUME Types, HeldInv, CacheInv, AnswerInv, StaleBound, [Next]_vars PROVE StaleBound'
  OBVIOUS
<1> USE DEF Types, HeldInv, CacheInv, AnswerInv, StaleBound
<1>1. ASSUME NEW s \in Sid, Create(s) PROVE StaleBound'
  BY <1>1, TimesAssumption DEF Create
<1>2. ASSUME NEW w \in Worker, NEW s \in Sid, LookupHit(w, s) PROVE StaleBound'
  <2>1. /\ s \in DOMAIN cache /\ now < cache[s] + Ttl
        /\ lastValid' = [lastValid EXCEPT ![s] = now] /\ UNCHANGED docVars
    BY <1>2, TimesAssumption DEF LookupHit, Fresh, AnswersValid
  <2>2. /\ now < expires[s] + Delay + Ttl
        /\ s \notin docs => now < gone[s] + Delay + Ttl
    BY <2>1, TimesAssumption
  <2> QED BY <2>1, <2>2 DEF docVars
<1>3. ASSUME NEW w \in Worker, NEW s \in Sid, LookupMiss(w, s) PROVE StaleBound'
  BY <1>3 DEF LookupMiss, Fresh, docVars
<1>4. ASSUME NEW w \in Worker, ReadFinds(w) PROVE StaleBound'
  BY <1>4 DEF ReadFinds, docVars
<1>5. ASSUME NEW w \in Worker, ReadFindsNothing(w) PROVE StaleBound'
  BY <1>5 DEF ReadFindsNothing, docVars
<1>6. ASSUME NEW w \in Worker, Check(w) PROVE StaleBound'
  BY <1>6 DEF Check, docVars
<1>7. ASSUME NEW w \in Worker, Put(w) PROVE StaleBound'
  BY <1>7 DEF Put, docVars
<1>8. ASSUME NEW w \in Worker, RefreshReads(w) PROVE StaleBound'
  BY <1>8 DEF RefreshReads, docVars
<1>9. ASSUME NEW w \in Worker, RefreshSkipped(w) PROVE StaleBound'
  BY <1>9, TimesAssumption DEF RefreshSkipped, AnswersValid, docVars
<1>10. ASSUME NEW w \in Worker, RefreshDecided(w) PROVE StaleBound'
  BY <1>10 DEF RefreshDecided, docVars
<1>11. ASSUME NEW w \in Worker, RefreshWrites(w) PROVE StaleBound'
  BY <1>11, TimesAssumption DEF RefreshWrites, AnswersValid
<1>12. ASSUME NEW w \in Worker, NEW s \in Sid, RevokeErases(w, s) PROVE StaleBound'
  BY <1>12 DEF RevokeErases, docVars
<1>13. ASSUME NEW w \in Worker, RevokeDeletes(w) PROVE StaleBound'
  BY <1>13, TimesAssumption DEF RevokeDeletes
<1>14. ASSUME NEW w \in Worker, RevokeFails(w) PROVE StaleBound'
  BY <1>14 DEF RevokeFails, docVars
<1>15. CASE Tick
  BY <1>15 DEF Tick, docVars
<1>16. CASE Restart
  BY <1>16 DEF Restart, docVars
<1>17. CASE UNCHANGED vars
  BY <1>17 DEF vars, docVars, cacheVars, workerVars
<1> QED
  BY <1>1, <1>2, <1>3, <1>4, <1>5, <1>6, <1>7, <1>8, <1>9, <1>10, <1>11, <1>12,
     <1>13, <1>14, <1>15, <1>16, <1>17 DEF Next, Lookup, Revoke

\* Whoever decides to write has seen the record of whoever decided before.
LEMMA RefreshStep ==
  Types /\ HeldInv /\ RefreshInv /\ [Next]_vars => RefreshInv'
<1> SUFFICES ASSUME Types, HeldInv, RefreshInv, [Next]_vars PROVE RefreshInv'
  OBVIOUS
<1> USE DEF Types, HeldInv, RefreshInv
<1>1. ASSUME NEW s \in Sid, Create(s) PROVE RefreshInv'
  BY <1>1 DEF Create, workerVars
<1>2. ASSUME NEW w \in Worker, NEW s \in Sid, LookupHit(w, s) PROVE RefreshInv'
  BY <1>2 DEF LookupHit, workerVars
<1>3. ASSUME NEW w \in Worker, NEW s \in Sid, LookupMiss(w, s) PROVE RefreshInv'
  BY <1>3 DEF LookupMiss, Enter
<1>4. ASSUME NEW w \in Worker, ReadFinds(w) PROVE RefreshInv'
  BY <1>4 DEF ReadFinds, Goto
<1>5. ASSUME NEW w \in Worker, ReadFindsNothing(w) PROVE RefreshInv'
  BY <1>5 DEF ReadFindsNothing, Leave
<1>6. ASSUME NEW w \in Worker, Check(w) PROVE RefreshInv'
  BY <1>6 DEF Check, Goto, Leave
<1>7. ASSUME NEW w \in Worker, Put(w) PROVE RefreshInv'
  BY <1>7 DEF Put, Goto
<1>8. ASSUME NEW w \in Worker, RefreshReads(w) PROVE RefreshInv'
  BY <1>8 DEF RefreshReads
<1>9. ASSUME NEW w \in Worker, RefreshSkipped(w) PROVE RefreshInv'
  BY <1>9 DEF RefreshSkipped, Leave, Throttled
<1>10. ASSUME NEW w \in Worker, RefreshDecided(w) PROVE RefreshInv'
  BY <1>10, TimesAssumption DEF RefreshDecided, Goto, Throttled
<1>11. ASSUME NEW w \in Worker, RefreshWrites(w) PROVE RefreshInv'
  BY <1>11 DEF RefreshWrites, Leave
<1>12. ASSUME NEW w \in Worker, NEW s \in Sid, RevokeErases(w, s) PROVE RefreshInv'
  BY <1>12 DEF RevokeErases, Enter
<1>13. ASSUME NEW w \in Worker, RevokeDeletes(w) PROVE RefreshInv'
  BY <1>13 DEF RevokeDeletes, Leave
<1>14. ASSUME NEW w \in Worker, RevokeFails(w) PROVE RefreshInv'
  BY <1>14 DEF RevokeFails, Leave
<1>15. CASE Tick
  BY <1>15 DEF Tick, workerVars
<1>16. CASE Restart
  BY <1>16 DEF Restart, Empty
<1>17. CASE UNCHANGED vars
  BY <1>17 DEF vars, docVars, cacheVars, workerVars
<1> QED
  BY <1>1, <1>2, <1>3, <1>4, <1>5, <1>6, <1>7, <1>8, <1>9, <1>10, <1>11, <1>12,
     <1>13, <1>14, <1>15, <1>16, <1>17 DEF Next, Lookup, Revoke
----------------------------------------------------------------------------

----------------------------------------------------------------------------
(* SessionCache: m_map and m_lru.                                          *)

LEMMA LruInvIs ==
  LruInv <=> lru \in Seq(Sid) /\ Range(lru) = DOMAIN cache /\ Once(lru) /\ Len(lru) <= Capacity
BY DEF LruInv, CacheConsistent, Once, Range

\* Erasing a node by its iterator: the others stay, each once.
LEMMA NodeErased ==
  ASSUME NEW S, NEW seq \in Seq(S), Once(seq), NEW p \in DOMAIN seq
  PROVE  /\ RemoveAt(seq, p) \in Seq(S) /\ Len(RemoveAt(seq, p)) = Len(seq) - 1
         /\ Range(RemoveAt(seq, p)) = Range(seq) \ {seq[p]}
         /\ Once(RemoveAt(seq, p))
<1> DEFINE a == SubSeq(seq, 1, p - 1)
           b == SubSeq(seq, p + 1, Len(seq))
           r == RemoveAt(seq, p)
<1>1. p \in 1..Len(seq) /\ Len(seq) \in Nat /\ DOMAIN seq = 1..Len(seq)
  OBVIOUS
<1>2. /\ a \in Seq(S) /\ Len(a) = p - 1 /\ \A i \in 1..(p - 1) : a[i] = seq[i]
      /\ b \in Seq(S) /\ Len(b) = Len(seq) - p /\ \A i \in 1..(Len(seq) - p) : b[i] = seq[p + i]
  <2>1. /\ a \in Seq(S) /\ Len(a) = p - 1 /\ \A i \in 1..(p - 1) : a[i] = seq[i]
    <3>1. \A i \in 1..(p - 1) : seq[i] \in S
      BY <1>1
    <3> QED
      BY <1>1, <3>1, SubSeqProperties
  <2>2. /\ b \in Seq(S) /\ Len(b) = Len(seq) - p /\ \A i \in 1..(Len(seq) - p) : b[i] = seq[p + i]
    <3>1. \A i \in (p + 1)..Len(seq) : seq[i] \in S
      BY <1>1
    <3>2. /\ b \in Seq(S) /\ Len(b) = IF p + 1 <= Len(seq) THEN Len(seq) - (p + 1) + 1 ELSE 0
          /\ \A i \in 1..(Len(seq) - (p + 1) + 1) : b[i] = seq[(p + 1) + i - 1]
      BY <1>1, <3>1, SubSeqProperties
    <3> QED
      BY <1>1, <3>2
  <2> QED
    BY <2>1, <2>2
<1>3. r = a \o b
  BY DEF RemoveAt
<1> HIDE DEF a, b, r
<1>4. /\ r \in Seq(S) /\ Len(r) = Len(seq) - 1
      /\ \A i \in 1..Len(r) : r[i] = IF i < p THEN seq[i] ELSE seq[i + 1]
  <2>1. /\ r \in Seq(S) /\ Len(r) = Len(a) + Len(b)
        /\ \A i \in 1..(Len(a) + Len(b)) : r[i] = IF i <= Len(a) THEN a[i] ELSE b[i - Len(a)]
    BY <1>2, <1>3, ConcatProperties
  <2>2. ASSUME NEW i \in 1..Len(r) PROVE r[i] = IF i < p THEN seq[i] ELSE seq[i + 1]
    <3>1. CASE i < p
      BY <1>1, <1>2, <2>1, <3>1
    <3>2. CASE i >= p
      <4>1. r[i] = b[i - (p - 1)] /\ i - (p - 1) \in 1..(Len(seq) - p)
        BY <1>1, <1>2, <2>1, <3>2
      <4>2. b[i - (p - 1)] = seq[p + (i - (p - 1))] /\ p + (i - (p - 1)) = i + 1
        BY <1>1, <1>2, <3>2, <4>1
      <4> QED
        BY <1>1, <3>2, <4>1, <4>2
    <3> QED
      BY <1>1, <3>1, <3>2
  <2> QED
    BY <1>1, <1>2, <2>1, <2>2
<1>5. DOMAIN r = 1..(Len(seq) - 1)
  BY <1>4
<1>6. Once(r)
  <2> SUFFICES ASSUME NEW i \in 1..(Len(seq) - 1), NEW j \in 1..(Len(seq) - 1), r[i] = r[j]
               PROVE  i = j
    BY <1>5 DEF Once
  <2> DEFINE from(k) == IF k < p THEN k ELSE k + 1
  <2>1. /\ from(i) \in 1..Len(seq) /\ r[i] = seq[from(i)]
        /\ from(j) \in 1..Len(seq) /\ r[j] = seq[from(j)]
    BY <1>1, <1>4
  <2>2. from(i) = from(j)
    <3> HIDE DEF from
    <3> QED
      BY <1>1, <2>1 DEF Once
  <2> QED
    BY <1>1, <2>2
<1>7. ASSUME NEW x PROVE x \in Range(r) <=> x \in Range(seq) /\ x # seq[p]
  <2>1. ASSUME x \in Range(r) PROVE x \in Range(seq) /\ x # seq[p]
    <3>1. PICK i \in 1..(Len(seq) - 1) : r[i] = x
      BY <1>5, <2>1 DEF Range
    <3>2. PICK j \in 1..Len(seq) : seq[j] = x /\ j # p
      BY <1>1, <1>4, <3>1
    <3> QED
      BY <1>1, <3>2 DEF Range, Once
  <2>2. ASSUME x \in Range(seq), x # seq[p] PROVE x \in Range(r)
    <3>1. PICK j \in 1..Len(seq) : seq[j] = x /\ j # p
      BY <1>1, <2>2 DEF Range
    <3>2. CASE j < p
      <4>1. j \in 1..(Len(seq) - 1) /\ r[j] = x
        BY <1>1, <1>4, <3>1, <3>2
      <4> QED
        BY <1>5, <4>1 DEF Range
    <3>3. CASE j > p
      <4>1. j - 1 \in 1..(Len(seq) - 1) /\ r[j - 1] = x
        BY <1>1, <1>4, <3>1, <3>3
      <4> QED
        BY <1>5, <4>1 DEF Range
    <3> QED
      BY <1>1, <3>1, <3>2, <3>3
  <2> QED
    BY <2>1, <2>2
<1>8. Range(r) = Range(seq) \ {seq[p]}
  BY <1>7
<1> QED
  BY <1>4, <1>6, <1>8 DEF r

\* m_lru.push_front() of what is not in the list.
LEMMA PushedFront ==
  ASSUME NEW S, NEW seq \in Seq(S), Once(seq), NEW x \in S, x \notin Range(seq)
  PROVE  /\ <<x>> \o seq \in Seq(S) /\ Len(<<x>> \o seq) = Len(seq) + 1
         /\ Range(<<x>> \o seq) = Range(seq) \cup {x} /\ Once(<<x>> \o seq)
<1> DEFINE r == <<x>> \o seq
<1>1. Len(seq) \in Nat /\ DOMAIN seq = 1..Len(seq)
  OBVIOUS
<1>2. /\ r \in Seq(S) /\ Len(r) = Len(seq) + 1
      /\ \A i \in 1..(Len(seq) + 1) : r[i] = IF i <= 1 THEN x ELSE seq[i - 1]
  <2>1. <<x>> \in Seq(S) /\ Len(<<x>>) = 1 /\ <<x>>[1] = x
    OBVIOUS
  <2>2. /\ r \in Seq(S) /\ Len(r) = 1 + Len(seq)
        /\ \A i \in 1..(1 + Len(seq)) : r[i] = IF i <= 1 THEN <<x>>[i] ELSE seq[i - 1]
    BY <2>1, ConcatProperties
  <2> QED
    BY <1>1, <2>1, <2>2
<1> HIDE DEF r
<1>3. DOMAIN r = 1..(Len(seq) + 1) /\ r[1] = x /\ \A i \in 1..Len(seq) : r[i + 1] = seq[i]
  BY <1>1, <1>2
<1>4. \A i \in 2..(Len(seq) + 1) : i - 1 \in 1..Len(seq) /\ r[i] = seq[i - 1]
  BY <1>1, <1>2
<1>5. \A i \in 1..Len(seq) : seq[i] # x
  BY <1>1 DEF Range
<1>6. Once(r)
  <2> SUFFICES ASSUME NEW i \in 1..(Len(seq) + 1), NEW j \in 1..(Len(seq) + 1), r[i] = r[j]
               PROVE  i = j
    BY <1>3 DEF Once
  <2>1. CASE i = 1
    BY <1>1, <1>3, <1>4, <1>5, <2>1
  <2>2. CASE j = 1
    BY <1>1, <1>3, <1>4, <1>5, <2>2
  <2>3. CASE i # 1 /\ j # 1
    BY <1>1, <1>4, <2>3 DEF Once
  <2> QED
    BY <2>1, <2>2, <2>3
<1>7. Range(r) = Range(seq) \cup {x}
  <2>1. \A y \in Range(r) : y \in Range(seq) \cup {x}
    BY <1>1, <1>3, <1>4 DEF Range
  <2>2. \A y \in Range(seq) : y \in Range(r)
    <3> SUFFICES ASSUME NEW i \in 1..Len(seq) PROVE seq[i] \in Range(r)
      BY <1>1 DEF Range
    <3> QED
      BY <1>1, <1>3 DEF Range
  <2>3. x \in Range(r)
    BY <1>1, <1>3 DEF Range
  <2> QED
    BY <2>1, <2>2, <2>3
<1> QED
  BY <1>2, <1>6, <1>7 DEF r

\* m_lru without the node of s, which is where erase() and the touch begin.
LEMMA UnlinkedIs ==
  ASSUME LruInv, NEW s \in Sid
  PROVE  /\ Unlinked(s) \in Seq(Sid) /\ Once(Unlinked(s))
         /\ Range(Unlinked(s)) = DOMAIN cache \ {s}
         /\ Len(Unlinked(s)) = IF s \in DOMAIN cache THEN Len(lru) - 1 ELSE Len(lru)
<1>0. lru \in Seq(Sid) /\ Range(lru) = DOMAIN cache /\ Once(lru)
  BY LruInvIs
<1>1. CASE s \in DOMAIN cache
  <2>1. \E i \in DOMAIN lru : lru[i] = s
    BY <1>0, <1>1 DEF Range
  <2>2. Node(s) \in DOMAIN lru /\ lru[Node(s)] = s
    BY <2>1 DEF Node
  <2>3. Unlinked(s) = RemoveAt(lru, Node(s))
    BY <1>1 DEF Unlinked
  <2> HIDE DEF Node
  <2> QED
    BY <1>0, <1>1, <2>2, <2>3, NodeErased
<1>2. CASE s \notin DOMAIN cache
  BY <1>0, <1>2 DEF Unlinked
<1> QED
  BY <1>1, <1>2

LEMMA TouchedIs ==
  ASSUME LruInv, NEW s \in Sid
  PROVE  /\ <<s>> \o Unlinked(s) \in Seq(Sid) /\ Once(<<s>> \o Unlinked(s))
         /\ Range(<<s>> \o Unlinked(s)) = DOMAIN cache \cup {s}
         /\ Len(<<s>> \o Unlinked(s)) = IF s \in DOMAIN cache THEN Len(lru) ELSE Len(lru) + 1
<1>1. s \notin Range(Unlinked(s)) /\ Len(lru) \in Nat
  BY UnlinkedIs DEF LruInv
<1> QED
  BY <1>1, UnlinkedIs, PushedFront

LEMMA LruStep ==
  Types /\ HeldInv /\ LruInv /\ [Next]_vars => LruInv'
<1> SUFFICES ASSUME Types, HeldInv, LruInv, [Next]_vars PROVE LruInv'
  OBVIOUS
<1>0. /\ lru \in Seq(Sid) /\ Range(lru) = DOMAIN cache /\ Once(lru)
      /\ Len(lru) \in Nat /\ Len(lru) <= Capacity
  BY LruInvIs
<1>g. (lru' \in Seq(Sid) /\ Range(lru') = DOMAIN cache' /\ Once(lru') /\ Len(lru') <= Capacity)
        => LruInv'
  BY DEF LruInv, CacheConsistent, Once, Range
<1>1. CASE UNCHANGED cacheVars
  BY <1>1 DEF cacheVars, LruInv, CacheConsistent
<1>2. ASSUME NEW w \in Worker, NEW s \in Sid, LookupHit(w, s) PROVE LruInv'
  <2>1. s \in DOMAIN cache /\ lru' = <<s>> \o Unlinked(s) /\ UNCHANGED cache
    BY <1>2 DEF LookupHit, Fresh, ToFront
  <2> QED
    BY <1>0, <1>g, <2>1, TouchedIs
<1>3. ASSUME NEW s \in Sid, CacheErase(s) PROVE LruInv'
  <2>1. lru' = Unlinked(s) /\ DOMAIN cache' = DOMAIN cache \ {s}
    BY <1>3 DEF CacheErase
  <2>2. Len(Unlinked(s)) <= Capacity
    BY <1>0, UnlinkedIs, CapacityAssumption
  <2> QED
    BY <1>g, <2>1, <2>2, UnlinkedIs
<1>4. ASSUME NEW s \in Sid, CachePut(s) PROVE LruInv'
  <2>1. PICK order, size : /\ order = <<s>> \o Unlinked(s)
                           /\ size = IF Len(order) > Capacity THEN Capacity ELSE Len(order)
    OBVIOUS
  <2>2. /\ lru' = SubSeq(order, 1, size)
        /\ DOMAIN cache' = (DOMAIN cache \cup {s}) \cap {order[i] : i \in 1..size}
    BY <1>4, <2>1 DEF CachePut
  <2>3. order \in Seq(Sid) /\ Once(order) /\ Range(order) = DOMAIN cache \cup {s}
    BY <2>1, TouchedIs
  <2>4. Len(order) \in Nat /\ size \in Nat /\ size <= Len(order) /\ size <= Capacity
    BY <2>1, <2>3, CapacityAssumption
  <2>5. \A i \in 1..size : order[i] \in Sid /\ i \in DOMAIN order
    BY <2>3, <2>4
  <2>6. /\ lru' \in Seq(Sid) /\ Len(lru') = size /\ \A i \in 1..size : lru'[i] = order[i]
    <3>1. /\ lru' \in Seq(Sid) /\ Len(lru') = IF 1 <= size THEN size - 1 + 1 ELSE 0
          /\ \A i \in 1..(size - 1 + 1) : lru'[i] = order[1 + i - 1]
      BY <2>2, <2>4, <2>5, SubSeqProperties
    <3> QED
      BY <2>4, <3>1
  <2>7. DOMAIN lru' = 1..size
    BY <2>4, <2>6
  <2>8. Once(lru')
    BY <2>3, <2>5, <2>6, <2>7 DEF Once
  <2>9. Range(lru') = {order[i] : i \in 1..size}
    BY <2>6, <2>7 DEF Range
  <2>10. {order[i] : i \in 1..size} \subseteq DOMAIN cache \cup {s}
    BY <2>3, <2>5 DEF Range
  <2>11. Range(lru') = DOMAIN cache'
    BY <2>2, <2>9, <2>10
  <2> QED
    BY <1>g, <2>4, <2>6, <2>8, <2>11
<1>5. ASSUME NEW w \in Worker, Put(w) PROVE LruInv'
  <2>1. sid[w] \in Sid /\ CachePut(sid[w])
    BY <1>5 DEF Put, HeldInv
  <2> QED
    BY <1>4, <2>1
<1>6. CASE Restart
  <2>1. lru' = <<>> /\ DOMAIN cache' = {}
    BY <1>6 DEF Restart, Empty
  <2> QED
    BY <1>g, <2>1, CapacityAssumption DEF Range, Once
<1> QED
  BY <1>1, <1>2, <1>3, <1>5, <1>6
  DEF Next, Lookup, Revoke, Create, LookupMiss, ReadFinds, ReadFindsNothing, Check, RefreshReads,
      RefreshSkipped, RefreshDecided, RefreshWrites, RevokeErases, RevokeDeletes, RevokeFails,
      Tick, vars

\* The invariant is inductive.
LEMMA NextInv == IInv /\ LruInv /\ [Next]_vars => IInv' /\ LruInv'
BY TypesStep, HeldStep, CacheStep, AnswerStep, StaleStep, RefreshStep, LruStep DEF IInv

\* Every behaviour of the sessions keeps the invariant.
THEOREM Invariance == Spec => [](IInv /\ LruInv)
BY InitInv, NextInv, PTL DEF Spec

\* Every variable of the sessions has its type.
THEOREM TypeCorrect == Spec => []TypeOK
<1>1. IInv /\ LruInv => TypeOK BY DEF IInv, LruInv, TypeOK
<1> QED BY <1>1, Invariance, PTL

\* For any number of sessions, workers and entries, and whatever the times:
\* no session is answered "valid" Delay + Ttl after its end or later.
THEOREM StaleBounded == Spec => []StaleBound
<1>1. IInv => StaleBound BY DEF IInv
<1> QED BY <1>1, Invariance, PTL

\* However look-ups, evictions and revocations of the workers follow one another,
\* m_map and m_lru hold the same ids, each once, and at most m_capacity of them: no
\* entry's iterator dangles and no id stays in the list without its entry
\* (sso_session.cpp:130-185).
THEOREM CacheInStep == Spec => []CacheConsistent
<1>1. LruInv => CacheConsistent BY DEF LruInv
<1> QED BY <1>1, Invariance, PTL

\* lastSeenAt of one session is never being written twice within the throttle.
THEOREM RefreshesStayApart == Spec => []RefreshesApart
<1>1. IInv => RefreshesApart
  <2> SUFFICES ASSUME IInv, NEW w \in Worker, NEW v \in Worker,
                      w # v, pc[w] = "write", pc[v] = "write", sid[w] = sid[v]
               PROVE  seen[w] >= seen[v] + Throttle \/ seen[v] >= seen[w] + Throttle
    BY DEF RefreshesApart
  <2>1. CASE seen[v] <= seen[w] BY <2>1 DEF IInv, RefreshInv
  <2>2. CASE seen[w] <= seen[v] BY <2>2 DEF IInv, RefreshInv
  <2> QED BY <2>1, <2>2 DEF IInv, Types
<1> QED BY <1>1, Invariance, PTL
=============================================================================
