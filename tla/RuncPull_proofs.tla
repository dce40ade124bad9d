-------------------------- MODULE RuncPull_proofs --------------------------
(***************************************************************************)
(* Proofs about RuncPull, for every image and whatever is in the bundle:   *)
(* what a successful pull leaves on the disk, that the unpacker keeps a     *)
(* tree, and that it is the tree the layers stand for.                     *)
(***************************************************************************)
EXTENDS RuncPull, SequenceTheorems, FiniteSetTheorems, TLAPS

\* A pull has its result when it is over.
EndInv == pull.at = "none" <=> result # "running"

LEMMA InitEnd == Init => EndInv
BY DEF Init, EndInv, NoPull

Run == [at : {"none", "manifest", "platform", "config", "layer", "write", "replace", "rename",
              "unpack"},
        force : BOOLEAN, layer : Nat, entry : Nat, hops : Nat, body : {"empty", "spoiled"}]

\* A step of a pull ends it, or leaves it running.
Goes == pull' \in Run /\ pull'.at # "none" /\ UNCHANGED result
Ends == pull' = NoPull /\ result' \in {"ok", "error", "killed"}

LEMMA StepGoes ==
  ASSUME pull \in Run, Step
  PROVE  Goes \/ Ends
<1>1. CASE Manifest
  BY <1>1 DEF Manifest, Goes, Run
<1>1a. CASE Platform
  BY <1>1a DEF Platform, Goes, Run
<1>2. CASE PinnedIndex \/ NoPlatform \/ RequestFails \/ RedirectLimit \/ DigestMismatch
  BY <1>2 DEF PinnedIndex, NoPlatform, RequestFails, RedirectLimit, DigestMismatch, Fail, Ends
<1>3. ASSUME NEW spoils \in BOOLEAN, Redirected(spoils) PROVE Goes
  <2>1. Received(spoils) \in {"empty", "spoiled"}
    BY DEF Received, Run
  <2>2. pull.at # "none" /\ pull' = [pull EXCEPT !.hops = @ + 1, !.body = Received(spoils)]
    BY <1>3 DEF Redirected, Fetching
  <2>3. pull.hops + 1 \in Nat
    BY DEF Run
  <2>4. pull' \in Run /\ pull'.at # "none"
    BY <2>1, <2>2, <2>3, Zenon DEF Run
  <2> QED
    BY <1>3, <2>4 DEF Redirected, Goes
<1>4. CASE Delivered
  BY <1>4 DEF Delivered, Fetching, AfterBlob, Goes, Run
<1>5. CASE Refuse \/ WriteFails \/ UnpackFails
  BY <1>5 DEF Refuse, WriteFails, UnpackFails, Fail, Ends
<1>6. CASE Prepare
  BY <1>6 DEF Prepare, Goes, Run
<1>6a. CASE RemoveOld
  BY <1>6a DEF RemoveOld, Goes, Run
<1>7. CASE Rename
  BY <1>7 DEF Rename, Goes, Run
<1>8. CASE Unpack
  BY <1>8 DEF Unpack, Unpacking, Goes, Run
<1>9. CASE LayerDone
  <2>1. pull' = [pull EXCEPT !.at = "layer", !.layer = @ + 1] /\ UNCHANGED result
    BY <1>9 DEF LayerDone
  <2>2. pull.layer + 1 \in Nat
    BY DEF Run
  <2>3. pull' \in Run /\ pull'.at # "none"
    BY <2>1, <2>2, Zenon DEF Run
  <2> QED
    BY <2>1, <2>3 DEF Goes
<1>10. CASE Success
  BY <1>10 DEF Success, Ends
<1> QED
  BY <1>1, <1>1a, <1>2, <1>3, <1>4, <1>5, <1>6, <1>6a, <1>7, <1>8, <1>9, <1>10 DEF Step

LEMMA StepRuns == Step => pull.at # "none"
BY DEF Step, Manifest, Platform, PinnedIndex, NoPlatform, RequestFails, RedirectLimit,
   DigestMismatch, Redirected, Delivered, Refuse, Prepare, RemoveOld, Rename, WriteFails,
   Unpack, UnpackFails, LayerDone, Success, Fetching, Unpacking

PullInv == pull \in Run /\ EndInv

LEMMA PullStep == PullInv /\ [Next]_vars => PullInv'
<1> SUFFICES ASSUME PullInv, [Next]_vars PROVE PullInv'
  OBVIOUS
<1> USE DEF PullInv, EndInv
<1>0. NoPull \in Run /\ NoPull.at = "none"
  BY DEF NoPull, Run
<1>1. ASSUME NEW force \in BOOLEAN, Begin(force) PROVE PullInv'
  BY <1>0, <1>1 DEF Begin, NoPull, Run
<1>2. CASE Step
  <2>1. CASE Goes
    BY <1>2, <2>1, StepRuns DEF Goes
  <2>2. CASE Ends
    BY <1>0, <1>2, <2>2, StepRuns DEF Ends
  <2> QED
    BY <1>2, <2>1, <2>2, StepGoes
<1>3. CASE Kill
  BY <1>0, <1>3 DEF Kill
<1>4. CASE UNCHANGED vars
  BY <1>4 DEF vars
<1>5. CASE Unsupported
  BY <1>5 DEF Unsupported
<1> QED
  BY <1>1, <1>2, <1>3, <1>4, <1>5 DEF Next

----------------------------------------------------------------------------
(* Paths.                                                                  *)

LEMMA AboveIs ==
  ASSUME NEW p \in Path, NEW a \in Above(p)
  PROVE  /\ a \in Path /\ Len(a) \in Nat /\ Len(p) \in Nat /\ Len(a) < Len(p)
         /\ \A i \in 1 .. Len(a) : a[i] = p[i]
         /\ Above(a) \subseteq Above(p)
<1>1. PICK k \in 1 .. (Len(p) - 1) : a = SubSeq(p, 1, k)
  BY DEF Above
<1>2. p \in Seq(STRING) /\ Len(p) \in Nat /\ k \in Int
  BY <1>1 DEF Path
<1>3. a \in Seq(STRING) /\ Len(a) = k /\ \A i \in 1 .. k : a[i] = p[i]
  BY <1>1, <1>2, SubSeqProperties
<1>4. ASSUME NEW j \in 1 .. (Len(a) - 1) PROVE SubSeq(a, 1, j) = SubSeq(p, 1, j)
  BY <1>1, <1>2, <1>3, SubSeqOfSubSeq
<1> QED
  BY <1>1, <1>2, <1>3, <1>4 DEF Path, Above

LEMMA PrefixOfAbove ==
  ASSUME NEW p \in Path, NEW a \in Above(p), NEW q \in Path, IsPrefix(q, a)
  PROVE  IsPrefix(q, p) /\ q # p
<1>1. a \in Path /\ Len(a) \in Nat /\ Len(p) \in Nat /\ Len(a) < Len(p) /\ Len(q) \in Nat
  BY AboveIs DEF Path
<1>2. \A i \in 1 .. Len(a) : a[i] = p[i]
  BY AboveIs
<1>3. Len(q) <= Len(a) /\ SubSeq(q, 1, Len(q)) = SubSeq(a, 1, Len(q))
  BY DEF IsPrefix
<1>4. SubSeq(a, 1, Len(q)) = SubSeq(p, 1, Len(q))
  <2>1. PICK k \in Nat : k = Len(q)
    BY <1>1
  <2>2. \A i \in 1 .. k : a[i] \in STRING /\ p[i] \in STRING /\ a[i] = p[i]
    BY <1>1, <1>2, <1>3, <2>1 DEF Path
  <2>3. SubSeq(a, 1, k) \in Seq(STRING) /\ SubSeq(p, 1, k) \in Seq(STRING)
    BY <2>2, SubSeqProperties
  <2>4. Len(SubSeq(a, 1, k)) = k /\ Len(SubSeq(p, 1, k)) = k
    BY <2>2, SubSeqProperties
  <2>5. \A i \in 1 .. k : SubSeq(a, 1, k)[i] = SubSeq(p, 1, k)[i]
    BY <2>2, SubSeqProperties
  <2>6. SubSeq(a, 1, k) = SubSeq(p, 1, k)
    BY <2>3, <2>4, <2>5, SeqEqual
  <2> QED
    BY <2>1, <2>6
<1> QED
  BY <1>1, <1>3, <1>4 DEF IsPrefix

----------------------------------------------------------------------------
(* The tree.                                                               *)

EntryType == [kind : Kind, path : Path, to : Path]

IsNode(node) == node.kind \in {"dir", "file", "symlink"}

LEMMA NodeIs ==
  ASSUME NEW kind \in {"dir", "file", "symlink"}, NEW data, NEW ino
  PROVE  IsNode(Node(kind, data, ino))
BY DEF IsNode, Node

\* A tree with a name more is a tree, if what is above the name is.
LEMMA TreeSet ==
  ASSUME NEW fs, IsTree(fs), NEW p \in Path, At(fs, p) = "nothing",
         \A a \in Above(p) : At(fs, a) = "dir",
         NEW node, IsNode(node)
  PROVE  IsTree(Set(fs, p, node)) /\ DOMAIN Set(fs, p, node) = DOMAIN fs \cup {p}
<1>1. p \notin DOMAIN fs
  BY DEF At, IsTree
<1>2. /\ DOMAIN Set(fs, p, node) = DOMAIN fs \cup {p} /\ Set(fs, p, node)[p] = node
      /\ \A q \in DOMAIN fs : Set(fs, p, node)[q] = fs[q]
  BY <1>1 DEF Set
<1>3. \A a : At(fs, a) = "dir" => At(Set(fs, p, node), a) = "dir"
  BY <1>2 DEF At
<1> QED
  BY <1>2, <1>3 DEF IsTree, IsNode

LEMMA TreeWrite ==
  ASSUME NEW fs, IsTree(fs), NEW p \in Path, NEW data, At(fs, p) \in {"file", "nothing"},
         \A a \in Above(p) : At(fs, a) = "dir"
  PROVE  IsTree(Write(fs, p, data))
<1>1. CASE At(fs, p) = "file"
  <2>1. Write(fs, p, data) =
          [q \in DOMAIN fs |-> IF fs[q].kind = "file" /\ fs[q].ino = fs[p].ino
                               THEN [fs[q] EXCEPT !.data = data] ELSE fs[q]]
    BY <1>1 DEF Write
  <2>2. DOMAIN Write(fs, p, data) = DOMAIN fs
    BY <2>1
  <2>3. \A q \in DOMAIN fs : Write(fs, p, data)[q].kind = fs[q].kind
    BY <2>1
  <2> QED
    BY <2>2, <2>3 DEF IsTree, At
<1>2. CASE At(fs, p) = "nothing"
  <2>1. Write(fs, p, data) = Set(fs, p, Node("file", data, Unused(fs)))
    BY <1>2 DEF Write
  <2>2. IsNode(Node("file", data, Unused(fs)))
    BY NodeIs
  <2>3. IsTree(Set(fs, p, Node("file", data, Unused(fs))))
    BY <1>2, <2>2, TreeSet
  <2> QED
    BY <2>1, <2>3
<1> QED
  BY <1>1, <1>2

LEMMA TreeStrike ==
  ASSUME NEW fs, IsTree(fs), NEW e \in EntryType
  PROVE  IsTree(Strike(fs, e))
<1> DEFINE left == {p \in DOMAIN fs : ~Covers(e, p)}
<1>1. Strike(fs, e) = [p \in left |-> fs[p]]
  BY DEF Strike, Restrict
<1>2. ASSUME NEW p \in left, NEW a \in Above(p) PROVE a \in left /\ fs[a].kind = "dir"
  <2>1. p \in Path /\ At(fs, a) = "dir"
    BY <1>2 DEF IsTree
  <2>2. a \in DOMAIN fs /\ fs[a].kind = "dir"
    BY <2>1 DEF At
  <2>3. ~Covers(e, a)
    BY <1>2, <2>1, PrefixOfAbove DEF Covers, IsStrictPrefix, EntryType
  <2> QED
    BY <2>2, <2>3
<1> QED
  BY <1>1, <1>2 DEF IsTree, At

\* When an entry is not refused, its parents are there unless one is below a file; the
\* entry itself is no symlink any more.
LEMMA TreeCleared ==
  ASSUME NEW fs, IsTree(fs), NEW p \in Path, \A a \in Above(p) : At(fs, a) # "symlink"
  PROVE  /\ IsTree(Cleared(fs, p))
         /\ ~BelowFile(fs, p) => \A a \in Above(p) : At(Cleared(fs, p), a) = "dir"
         /\ BelowFile(Cleared(fs, p), p) = BelowFile(fs, p)
         /\ At(Cleared(fs, p), p) = IF At(fs, p) = "symlink" THEN "nothing" ELSE At(fs, p)
<1>1. PICK bare : bare = IF At(fs, p) = "symlink" THEN Restrict(fs, DOMAIN fs \ {p}) ELSE fs
  OBVIOUS
<1>2. p \notin Above(p) /\ \A a \in Above(p) : a \in Path /\ Above(a) \subseteq Above(p)
  BY AboveIs
<1>3. /\ DOMAIN bare = IF At(fs, p) = "symlink" THEN DOMAIN fs \ {p} ELSE DOMAIN fs
      /\ \A q \in DOMAIN bare : bare[q] = fs[q]
  BY <1>1 DEF Restrict
<1>4. /\ \A q : q # p => At(bare, q) = At(fs, q)
      /\ At(bare, p) = IF At(fs, p) = "symlink" THEN "nothing" ELSE At(fs, p)
  BY <1>3 DEF At
<1>5. IsTree(bare)
  <2>1. ASSUME NEW q \in DOMAIN bare, NEW a \in Above(q) PROVE At(bare, a) = "dir"
    <3>1. At(fs, a) = "dir"
      BY <1>3, <2>1 DEF IsTree
    <3> QED
      BY <1>4, <3>1
  <2> QED
    BY <1>3, <2>1 DEF IsTree
<1>6. PICK new : new = {b \in Above(p) : ~BelowFile(fs, b)}
  OBVIOUS
<1>7. /\ DOMAIN Cleared(fs, p) = DOMAIN bare \cup new
      /\ \A q \in DOMAIN bare : Cleared(fs, p)[q] = bare[q]
      /\ \A q \in new \ DOMAIN bare : Cleared(fs, p)[q].kind = "dir"
  BY <1>1, <1>6 DEF Cleared, Node
<1>8. /\ \A q \in DOMAIN bare : At(Cleared(fs, p), q) = At(bare, q)
      /\ \A q \in new \ DOMAIN bare : At(Cleared(fs, p), q) = "dir"
      /\ \A q : q \notin DOMAIN bare \cup new => At(Cleared(fs, p), q) = "nothing"
  BY <1>7 DEF At
<1>9. \A a \in Above(p) : At(fs, a) \in {"dir", "file", "nothing"}
  BY DEF IsTree, At
<1>10. ASSUME NEW a \in Above(p)
       PROVE  /\ At(fs, a) # "file" /\ ~BelowFile(fs, a) => At(Cleared(fs, p), a) = "dir"
              /\ (At(fs, a) = "file") = (At(Cleared(fs, p), a) = "file")
  <2>1. a # p /\ At(bare, a) = At(fs, a)
    BY <1>2, <1>4
  <2>2. CASE a \in DOMAIN bare
    <3>1. At(Cleared(fs, p), a) = At(fs, a)
      BY <1>8, <2>1, <2>2
    <3>2. At(fs, a) \in {"dir", "file"}
      BY <1>5, <1>9, <2>1, <2>2 DEF At, IsTree
    <3> QED
      BY <3>1, <3>2
  <2>3. CASE a \notin DOMAIN bare
    <3>1. At(fs, a) = "nothing"
      BY <2>1, <2>3 DEF At
    <3> QED
      BY <1>6, <1>8, <2>3, <3>1
  <2> QED
    BY <2>2, <2>3
<1>11. IsTree(Cleared(fs, p))
  <2>1. ASSUME NEW q \in DOMAIN bare, NEW a \in Above(q) PROVE At(Cleared(fs, p), a) = "dir"
    <3>1. At(bare, a) = "dir"
      BY <1>5, <2>1 DEF IsTree
    <3> QED
      BY <1>8, <3>1 DEF At
  <2>2. ASSUME NEW q \in new, NEW a \in Above(q) PROVE At(Cleared(fs, p), a) = "dir"
    <3>1. a \in Above(p) /\ Above(a) \subseteq Above(q)
      BY <1>2, <1>6, <2>2, AboveIs
    <3>2. At(fs, a) # "file" /\ ~BelowFile(fs, a)
      BY <1>6, <2>2, <3>1 DEF BelowFile
    <3> QED
      BY <1>10, <3>1, <3>2
  <2>3. \A q \in DOMAIN Cleared(fs, p) : /\ q \in Path
                                         /\ Cleared(fs, p)[q].kind \in {"dir", "file", "symlink"}
    BY <1>2, <1>5, <1>6, <1>7 DEF IsTree
  <2> QED
    BY <1>7, <2>1, <2>2, <2>3 DEF IsTree
<1>12. ASSUME ~BelowFile(fs, p), NEW a \in Above(p) PROVE At(Cleared(fs, p), a) = "dir"
  BY <1>2, <1>10, <1>12 DEF BelowFile
<1>13. BelowFile(Cleared(fs, p), p) = BelowFile(fs, p)
  BY <1>10 DEF BelowFile
<1>14. At(Cleared(fs, p), p) = At(bare, p)
  BY <1>2, <1>6, <1>8 DEF At
<1> QED
  BY <1>4, <1>11, <1>12, <1>13, <1>14

\* Whatever the entry, a round of the unpacker leaves a tree.
LEMMA TreeApply ==
  ASSUME NEW fs, IsTree(fs), NEW e \in EntryType, ~Refused(fs, e), NEW data
  PROVE  IsTree(Apply(fs, e, data))
<1> DEFINE p == e.path
           ready == Cleared(fs, p)
<1>1. p \in Path /\ e.to \in Path /\ e.kind \in Kind
  BY DEF EntryType
<1>2. CASE IsMarker(e)
  BY <1>2, TreeStrike DEF Apply, IsMarker
<1>3. CASE ~IsMarker(e)
  <2>1. /\ IsTree(ready)
        /\ ~BelowFile(fs, p) => \A a \in Above(p) : At(ready, a) = "dir"
        /\ BelowFile(ready, p) = BelowFile(fs, p)
        /\ At(ready, p) = IF At(fs, p) = "symlink" THEN "nothing" ELSE At(fs, p)
    BY <1>1, <1>3, TreeCleared DEF Refused
  <2>2. At(fs, p) \in {"dir", "file", "symlink", "nothing"}
    BY DEF IsTree, At
  <2>3. e.kind \in {"dir", "file", "symlink", "hardlink", "other"}
    BY <1>1, <1>3 DEF Kind, IsMarker, Refused
  <2> HIDE DEF ready, p
  <2>4. CASE e.kind = "dir"
    <3>1. Apply(fs, e, data) = IF At(ready, p) = "dir" THEN ready
                               ELSE Set(ready, p, Node("dir", Empty, 0))
      BY <2>4 DEF Apply, IsMarker, ready, p
    <3>2. ~BelowFile(fs, p) /\ At(ready, p) \in {"nothing", "dir"}
      BY <2>1, <2>2, <2>4 DEF Refused, Unfit, p
    <3>3. At(ready, p) = "nothing" => IsTree(Set(ready, p, Node("dir", Empty, 0)))
      BY <1>1, <2>1, <3>2, TreeSet, NodeIs DEF p
    <3> QED
      BY <2>1, <3>1, <3>2, <3>3
  <2>5. CASE e.kind = "file"
    <3>1. Apply(fs, e, data) = Write(ready, p, data)
      BY <2>5 DEF Apply, IsMarker, ready, p
    <3>2. ~BelowFile(fs, p) /\ At(ready, p) \in {"nothing", "file"}
      BY <2>1, <2>2, <2>5 DEF Refused, Unfit, p
    <3> QED
      BY <1>1, <2>1, <3>1, <3>2, TreeWrite DEF p
  <2>6. CASE e.kind = "symlink"
    <3>1. Apply(fs, e, data) = Set(ready, p, Node("symlink", data, 0))
      BY <2>6 DEF Apply, IsMarker, ready, p
    <3>2. ~BelowFile(fs, p) /\ At(ready, p) = "nothing"
      BY <2>1, <2>2, <2>6 DEF Refused, Unfit, p
    <3>3. IsTree(Set(ready, p, Node("symlink", data, 0)))
      BY <1>1, <2>1, <3>2, TreeSet, NodeIs DEF p
    <3> QED
      BY <3>1, <3>3
  <2>7. CASE e.kind = "hardlink"
    <3>1. Apply(fs, e, data) = Link(ready, p, e.to)
      BY <2>7 DEF Apply, IsMarker, ready, p
    <3>2. CASE At(ready, p) = "nothing" /\ ~BelowFile(ready, p)
      <4>1. Link(ready, p, e.to) = IF At(ready, e.to) \in {"file", "symlink"}
                                   THEN Set(ready, p, ready[e.to]) ELSE Write(ready, p, Empty)
        BY <3>2 DEF Link
      <4>2. \A a \in Above(p) : At(ready, a) = "dir"
        BY <2>1, <3>2
      <4>3. ASSUME At(ready, e.to) \in {"file", "symlink"} PROVE IsTree(Set(ready, p, ready[e.to]))
        <5>1. IsNode(ready[e.to])
          BY <4>3 DEF At, IsNode
        <5> QED
          BY <1>1, <2>1, <3>2, <4>2, <5>1, TreeSet DEF p
      <4>4. IsTree(Write(ready, p, Empty))
        BY <1>1, <2>1, <3>2, <4>2, TreeWrite DEF p
      <4> QED
        BY <3>1, <4>1, <4>3, <4>4
    <3>3. CASE At(ready, p) = "file"
      <4>1. \A a \in Above(p) : At(ready, a) = "dir"
        BY <2>1, <3>3 DEF At, IsTree
      <4>2. \E content : Link(ready, p, e.to) \in {Write(ready, p, content), ready}
        BY <3>3 DEF Link
      <4> QED
        BY <1>1, <2>1, <3>1, <3>3, <4>1, <4>2, TreeWrite DEF p
    <3>4. CASE ~(At(ready, p) = "nothing" /\ ~BelowFile(ready, p)) /\ At(ready, p) # "file"
      BY <2>1, <3>1, <3>4 DEF Link
    <3> QED
      BY <3>2, <3>3, <3>4
  <2>8. CASE e.kind = "other"
    BY <2>1, <2>8 DEF Apply, IsMarker, ready, p
  <2> QED
    BY <2>3, <2>4, <2>5, <2>6, <2>7, <2>8
<1> QED
  BY <1>2, <1>3

----------------------------------------------------------------------------
(* The bundle.                                                             *)

\* The bundle is a record whose root is a tree, and the layer that is unpacked is one
\* of the image's.
TreeInv ==
  /\ pull \in Run
  /\ image \in Image
  /\ \E there, fs : there \in BOOLEAN /\ bundle = [there |-> there, rootfs |-> fs] /\ IsTree(fs)
  /\ pull.at = "unpack" => pull.layer \in DOMAIN image.layers

LEMMA NoTreeIsTree == IsTree(NoTree)
BY DEF IsTree, NoTree

LEMMA InitTree == Init => TreeInv
<1> SUFFICES ASSUME Init PROVE TreeInv
  OBVIOUS
<1>1. pull \in Run /\ pull.at = "none" /\ image \in Image
  BY DEF Init, NoPull, Run
<1>2. CASE bundle = NoBundle
  BY <1>1, <1>2, NoTreeIsTree DEF TreeInv, NoBundle
<1>3. CASE \E fs \in Leftover : bundle = [there |-> TRUE, rootfs |-> fs]
  BY <1>1, <1>3, LeftoverAssumption DEF TreeInv
<1> QED
  BY <1>2, <1>3 DEF Init

\* The entry a pull is at.
LEMMA EntryIs ==
  ASSUME TreeInv, Unpacking
  PROVE  ThisEntry \in EntryType
<1>1. PICK layers : layers = image.layers
  OBVIOUS
<1>2. layers \in Seq(Seq(EntryType)) /\ pull.layer \in DOMAIN layers
  BY <1>1, ImageAssumption DEF TreeInv, Unpacking, EntryType
<1>3. layers[pull.layer] \in Seq(EntryType)
  BY <1>2
<1>4. pull.entry \in DOMAIN layers[pull.layer]
  BY <1>1 DEF Unpacking
<1> QED
  BY <1>1, <1>3, <1>4 DEF ThisEntry

\* A step writes the bundle in three ways.
LEMMA StepWrites ==
  ASSUME Step
  PROVE  \/ UNCHANGED bundle \/ bundle' = NoBundle \/ bundle' = [there |-> TRUE, rootfs |-> NoTree]
         \/ Unpack
<1>1. CASE Manifest \/ Platform \/ Delivered \/ LayerDone \/ Success
  BY <1>1 DEF Manifest, Platform, Delivered, LayerDone, Success
<1>2. CASE \E spoils \in BOOLEAN : Redirected(spoils)
  BY <1>2 DEF Redirected
<1>3. CASE PinnedIndex \/ NoPlatform \/ RequestFails \/ RedirectLimit \/ DigestMismatch
  BY <1>3 DEF PinnedIndex, NoPlatform, RequestFails, RedirectLimit, DigestMismatch, Fail,
     RemoveBundle
<1>4. CASE Refuse \/ Prepare \/ RemoveOld \/ Rename \/ WriteFails \/ UnpackFails
  BY <1>4 DEF Refuse, Prepare, RemoveOld, Rename, WriteFails, UnpackFails, Fail, RemoveBundle
<1> QED
  BY <1>1, <1>2, <1>3, <1>4 DEF Step

\* A pull gets to a layer when the layer has arrived.
LEMMA StepLayer ==
  ASSUME TreeInv, Step, pull'.at = "unpack"
  PROVE  pull'.layer \in DOMAIN image.layers
<1>1. CASE Manifest \/ Platform
  BY <1>1 DEF Manifest, Platform, TreeInv, Run
<1>2. CASE PinnedIndex \/ NoPlatform \/ RequestFails \/ RedirectLimit \/ DigestMismatch
  BY <1>2 DEF PinnedIndex, NoPlatform, RequestFails, RedirectLimit, DigestMismatch, Fail, NoPull
<1>3. CASE \E spoils \in BOOLEAN : Redirected(spoils)
  BY <1>3 DEF Redirected, Fetching, TreeInv, Run
<1>4. CASE Delivered
  BY <1>4 DEF Delivered, Fetching, AfterBlob, TreeInv, Run
<1>5. CASE Refuse \/ WriteFails \/ UnpackFails
  <2>1. Fail
    BY <1>5, Zenon DEF Refuse, WriteFails, UnpackFails
  <2> QED
    BY <2>1 DEF Fail, NoPull
<1>5a. CASE Success
  BY <1>5a DEF Success, NoPull
<1>6. CASE Prepare \/ RemoveOld \/ Rename
  BY <1>6 DEF Prepare, RemoveOld, Rename, TreeInv, Run
<1>7. CASE Unpack
  BY <1>7 DEF Unpack, Unpacking, TreeInv, Run
<1>8. CASE LayerDone
  BY <1>8 DEF LayerDone, TreeInv, Run
<1> QED
  BY <1>1, <1>2, <1>3, <1>4, <1>5, <1>5a, <1>6, <1>7, <1>8 DEF Step

LEMMA StepImage == Step => UNCHANGED image
BY DEF Step, Manifest, Platform, PinnedIndex, NoPlatform, RequestFails, RedirectLimit,
   DigestMismatch, Redirected, Delivered, Refuse, Prepare, RemoveOld, Rename, WriteFails,
   Unpack, UnpackFails, LayerDone, Success

LEMMA TreeStep == TreeInv /\ [Next]_vars => TreeInv'
<1> SUFFICES ASSUME TreeInv, [Next]_vars PROVE TreeInv'
  OBVIOUS
<1>1. NoPull \in Run /\ NoPull.at = "none"
  BY DEF NoPull, Run
<1>2. PICK there, fs : there \in BOOLEAN /\ bundle = [there |-> there, rootfs |-> fs] /\ IsTree(fs)
  BY DEF TreeInv
<1>3. CASE Step
  <2>1. pull' \in Run /\ image' \in Image /\ image' = image
    <3>1. pull' \in Run
      BY <1>1, <1>3, StepGoes DEF TreeInv, Goes, Ends
    <3>2. UNCHANGED image
      BY <1>3, StepImage
    <3> QED
      BY <3>1, <3>2 DEF TreeInv
  <2>2. pull'.at = "unpack" => pull'.layer \in DOMAIN image'.layers
    BY <1>3, <2>1, StepLayer
  <2>3. \E t, tree : t \in BOOLEAN /\ bundle' = [there |-> t, rootfs |-> tree] /\ IsTree(tree)
    <3>1. CASE Unpack
      <4>1. ThisEntry \in EntryType /\ ~Refused(fs, ThisEntry)
        BY <1>2, <3>1, EntryIs DEF Unpack
      <4>2. IsTree(Apply(fs, ThisEntry, pull.layer))
        BY <1>2, <4>1, TreeApply
      <4>3. bundle' = [there |-> there, rootfs |-> Apply(fs, ThisEntry, pull.layer)]
        BY <1>2, <3>1 DEF Unpack
      <4> QED
        BY <1>2, <4>2, <4>3
    <3>2. CASE bundle' = NoBundle \/ bundle' = [there |-> TRUE, rootfs |-> NoTree]
      BY <3>2, NoTreeIsTree DEF NoBundle
    <3>3. CASE UNCHANGED bundle
      BY <1>2, <3>3
    <3> QED
      BY <1>3, <3>1, <3>2, <3>3, StepWrites
  <2> QED
    BY <2>1, <2>2, <2>3 DEF TreeInv
<1>4. ASSUME NEW force \in BOOLEAN, Begin(force) PROVE TreeInv'
  <2>1. pull' \in Run /\ pull'.at = "manifest" /\ UNCHANGED <<image, bundle>>
    BY <1>1, <1>4 DEF Begin, NoPull, Run
  <2> QED
    BY <2>1 DEF TreeInv
<1>5. CASE Kill
  BY <1>1, <1>5 DEF Kill, TreeInv
<1>6. CASE UNCHANGED vars
  BY <1>6 DEF vars, TreeInv
<1>7. CASE Unsupported
  BY <1>7 DEF Unsupported, TreeInv
<1> QED
  BY <1>3, <1>4, <1>5, <1>6, <1>7 DEF Next

\* layer_unpack.cpp:536-546: whatever image is unpacked, over whatever tree is there,
\* every entry leaves a tree behind: nothing is made through a symlink or below a file.
THEOREM RootStaysTree == Spec => []RootIsTree
<1>1. TreeInv => RootIsTree
  BY DEF TreeInv, RootIsTree
<1> QED
  BY <1>1, InitTree, TreeStep, PTL DEF Spec

----------------------------------------------------------------------------
(* What the bundle is made of.                                             *)

\* The names an image has entries for, with the directories above them.
Paths(layers) == UNION {{layers[k][i].path : i \in DOMAIN layers[k]} : k \in DOMAIN layers}
Names(layers) == Paths(layers) \cup UNION {Above(p) : p \in Paths(layers)}
Origins(layers) == {Empty} \cup DOMAIN layers

IsFrom(node, origins) == node.data \in origins /\ node = Node(node.kind, node.data, node.ino)
MadeOf(fs, names, origins) == \A p \in DOMAIN fs : p \in names /\ IsFrom(fs[p], origins)

LEMMA NodeFrom ==
  ASSUME NEW origins, NEW kind, NEW data \in origins, NEW ino
  PROVE  IsFrom(Node(kind, data, ino), origins)
BY DEF IsFrom, Node

LEMMA MadeSet ==
  ASSUME NEW names, NEW origins, NEW fs, MadeOf(fs, names, origins),
         NEW p \in names, NEW node, IsFrom(node, origins)
  PROVE  MadeOf(Set(fs, p, node), names, origins)
BY DEF MadeOf, Set

LEMMA MadeRestrict ==
  ASSUME NEW names, NEW origins, NEW fs, MadeOf(fs, names, origins), NEW S, S \subseteq DOMAIN fs
  PROVE  MadeOf(Restrict(fs, S), names, origins)
BY DEF MadeOf, Restrict

LEMMA MadeWrite ==
  ASSUME NEW names, NEW origins, NEW fs, MadeOf(fs, names, origins),
         NEW p \in names, NEW data \in origins
  PROVE  MadeOf(Write(fs, p, data), names, origins)
<1>1. CASE At(fs, p) = "file"
  <2>1. /\ DOMAIN Write(fs, p, data) = DOMAIN fs
        /\ \A q \in DOMAIN fs : Write(fs, p, data)[q] \in {fs[q], [fs[q] EXCEPT !.data = data]}
    BY <1>1 DEF Write
  <2>2. ASSUME NEW q \in DOMAIN fs PROVE IsFrom([fs[q] EXCEPT !.data = data], origins)
    <3>1. PICK kind, old, ino : fs[q] = Node(kind, old, ino)
      BY <2>2 DEF MadeOf, IsFrom
    <3>2. [fs[q] EXCEPT !.data = data] = Node(kind, data, ino)
      BY <3>1 DEF Node
    <3> QED
      BY <3>2, NodeFrom
  <2> QED
    BY <2>1, <2>2 DEF MadeOf
<1>2. CASE At(fs, p) # "file"
  <2>1. Write(fs, p, data) = Set(fs, p, Node("file", data, Unused(fs)))
    BY <1>2 DEF Write
  <2>2. IsFrom(Node("file", data, Unused(fs)), origins)
    BY NodeFrom
  <2> QED
    BY <2>1, <2>2, MadeSet
<1> QED
  BY <1>1, <1>2

\* An entry makes its own name and the directories above it, out of its layer or of
\* what is there.
LEMMA MadeApply ==
  ASSUME NEW names, NEW origins, NEW fs, MadeOf(fs, names, origins), Empty \in origins,
         NEW e \in EntryType, e.kind # "bad", e.path \in names, Above(e.path) \subseteq names,
         NEW data \in origins
  PROVE  MadeOf(Apply(fs, e, data), names, origins)
<1>1. PICK p, to, ready : p = e.path /\ to = e.to /\ ready = Cleared(fs, p)
  OBVIOUS
<1>2. MadeOf(ready, names, origins)
  <2>1. PICK bare : bare = IF At(fs, p) = "symlink" THEN Restrict(fs, DOMAIN fs \ {p}) ELSE fs
    OBVIOUS
  <2>2. MadeOf(bare, names, origins)
    BY <2>1, MadeRestrict
  <2>3. IsFrom(Node("dir", Empty, 0), origins)
    BY NodeFrom
  <2>4. PICK made : made = {a \in Above(p) : ~BelowFile(fs, a)}
    OBVIOUS
  <2>5. ready = [q \in DOMAIN bare \cup made |->
                   IF q \in DOMAIN bare THEN bare[q] ELSE Node("dir", Empty, 0)]
    BY <1>1, <2>1, <2>4 DEF Cleared
  <2>6. made \subseteq names
    BY <1>1, <2>4
  <2> QED
    BY <2>2, <2>3, <2>5, <2>6 DEF MadeOf
<1>3. CASE IsMarker(e)
  <2>0. Apply(fs, e, data) = Strike(fs, e)
    BY <1>3 DEF Apply, IsMarker
  <2>1. Apply(fs, e, data) = Restrict(fs, {q \in DOMAIN fs : ~Covers(e, q)})
    BY <2>0 DEF Strike
  <2>2. {q \in DOMAIN fs : ~Covers(e, q)} \subseteq DOMAIN fs
    OBVIOUS
  <2> QED
    BY <2>1, <2>2, MadeRestrict
<1>4. CASE e.kind = "dir"
  <2>1. Apply(fs, e, data) \in {ready, Set(ready, p, Node("dir", Empty, 0))}
    BY <1>1, <1>4 DEF Apply, IsMarker
  <2>2. IsFrom(Node("dir", Empty, 0), origins)
    BY NodeFrom
  <2> QED
    BY <1>1, <1>2, <2>1, <2>2, MadeSet
<1>5. CASE e.kind = "file"
  <2>1. Apply(fs, e, data) = Write(ready, p, data)
    BY <1>1, <1>5 DEF Apply, IsMarker
  <2> QED
    BY <1>1, <1>2, <2>1, MadeWrite
<1>6. CASE e.kind = "symlink"
  <2>1. Apply(fs, e, data) = Set(ready, p, Node("symlink", data, 0))
    BY <1>1, <1>6 DEF Apply, IsMarker
  <2>2. IsFrom(Node("symlink", data, 0), origins)
    BY NodeFrom
  <2> QED
    BY <1>1, <1>2, <2>1, <2>2, MadeSet
<1>7. CASE e.kind = "hardlink"
  <2>1. Apply(fs, e, data) = Link(ready, p, to)
    BY <1>1, <1>7 DEF Apply, IsMarker
  <2>2. \/ Link(ready, p, to) \in {ready, Write(ready, p, Empty)}
        \/ At(ready, to) # "nothing"
           /\ Link(ready, p, to) \in {Set(ready, p, ready[to]), Write(ready, p, ready[to].data)}
    BY DEF Link
  <2>3. MadeOf(Write(ready, p, Empty), names, origins)
    BY <1>1, <1>2, MadeWrite
  <2>4. ASSUME At(ready, to) # "nothing"
        PROVE  /\ MadeOf(Set(ready, p, ready[to]), names, origins)
               /\ MadeOf(Write(ready, p, ready[to].data), names, origins)
    <3>1. IsFrom(ready[to], origins)
      BY <1>2, <2>4 DEF At, MadeOf
    <3>2. ready[to].data \in origins
      BY <3>1 DEF IsFrom, Node
    <3> QED
      BY <1>1, <1>2, <3>1, <3>2, MadeSet, MadeWrite
  <2> QED
    BY <1>2, <2>1, <2>2, <2>3, <2>4
<1>8. CASE e.kind = "other"
  BY <1>1, <1>2, <1>8 DEF Apply, IsMarker
<1> QED
  BY <1>3, <1>4, <1>5, <1>6, <1>7, <1>8 DEF EntryType, Kind, IsMarker

\* Once its bundle is in place, a pull has made all that is in it.
Made == bundle.there /\ MadeOf(bundle.rootfs, Names(image.layers), Origins(image.layers))

\* bundle_writer.cpp:120-126: a pull that succeeds leaves a bundle in which every name is one
\* of the image's and every content comes from one of its layers: nothing of what an
\* earlier image, a failed pull or a killed one had put there is left.  Of images
\* whose hard links and markers are looked for through a symlink nothing is said:
\* layer_unpack.cpp:587-600 links or copies what a live one leads to.
OnlyTheImage == result = "ok" /\ NotThroughSymlinks(image.layers) => Made

OriginInv ==
  /\ TreeInv /\ EndInv
  /\ pull.at \in {"layer", "unpack"} => Made
  /\ result = "ok" => Made

LEMMA EntryNames ==
  ASSUME TreeInv, Unpacking
  PROVE  /\ ThisEntry \in EntryType
         /\ ThisEntry.path \in Names(image.layers)
         /\ Above(ThisEntry.path) \subseteq Names(image.layers)
         /\ pull.layer \in Origins(image.layers)
<1>1. ThisEntry \in EntryType
  BY EntryIs
<1>3. pull.layer \in DOMAIN image.layers /\ pull.entry \in DOMAIN image.layers[pull.layer]
  BY DEF Unpacking, TreeInv
<1>4. ThisEntry = image.layers[pull.layer][pull.entry]
  BY DEF ThisEntry
<1>5. ThisEntry.path \in Paths(image.layers)
  BY <1>3, <1>4 DEF Paths
<1> QED
  BY <1>1, <1>3, <1>5 DEF Names, Origins

LEMMA UnpackMakes ==
  ASSUME OriginInv, Unpack
  PROVE  Made'
<1>1. PICK there, fs : there \in BOOLEAN /\ bundle = [there |-> there, rootfs |-> fs] /\ IsTree(fs)
  BY DEF OriginInv, TreeInv
<1>2. PICK names, origins : names = Names(image.layers) /\ origins = Origins(image.layers)
  OBVIOUS
<1>3. Unpacking /\ pull.at = "unpack" /\ UNCHANGED image
  BY DEF Unpack, Unpacking
<1>4. there = TRUE /\ MadeOf(fs, names, origins)
  BY <1>1, <1>2, <1>3 DEF OriginInv, Made
<1>5. PICK e, data : e = ThisEntry /\ data = pull.layer
  OBVIOUS
<1>6. e \in EntryType /\ e.path \in names /\ Above(e.path) \subseteq names /\ data \in origins
  BY <1>2, <1>3, <1>5, EntryNames DEF OriginInv
<1>7. e.kind # "bad" /\ Empty \in origins
  BY <1>2, <1>5 DEF Unpack, Refused, Origins
<1>8. MadeOf(Apply(fs, e, data), names, origins)
  BY <1>4, <1>6, <1>7, MadeApply
<1>9. bundle' = [there |-> TRUE, rootfs |-> Apply(fs, e, data)]
  BY <1>1, <1>4, <1>5 DEF Unpack
<1> QED
  BY <1>2, <1>3, <1>8, <1>9 DEF Made

\* A pull is at its layers when it was there before, or has put its bundle in place.
LEMMA StepAtLayers ==
  ASSUME pull \in Run, Step
  PROVE  \/ pull'.at \notin {"layer", "unpack"} /\ (UNCHANGED result \/ result' = "error")
         \/ /\ pull.at \in {"layer", "unpack"}
            /\ UNCHANGED <<image, bundle>> /\ (UNCHANGED result \/ result' = "ok")
         \/ Unpack
         \/ Rename
<1>1. CASE Manifest \/ Platform
  BY <1>1 DEF Manifest, Platform, Run
<1>2. CASE PinnedIndex \/ NoPlatform \/ RequestFails \/ RedirectLimit \/ DigestMismatch
  BY <1>2 DEF PinnedIndex, NoPlatform, RequestFails, RedirectLimit, DigestMismatch, Fail, NoPull
<1>3. ASSUME NEW spoils \in BOOLEAN, Redirected(spoils)
      PROVE  pull'.at = pull.at /\ UNCHANGED <<image, bundle, result>>
  BY <1>3 DEF Redirected, Run
<1>4. CASE Delivered
  BY <1>4 DEF Delivered, Fetching, AfterBlob, Run
<1>5. CASE Refuse \/ WriteFails \/ UnpackFails
  <2>1. Fail
    BY <1>5, Zenon DEF Refuse, WriteFails, UnpackFails
  <2> QED
    BY <2>1 DEF Fail, NoPull
<1>6. CASE Prepare \/ RemoveOld
  BY <1>6 DEF Prepare, RemoveOld, Run
<1>7. CASE LayerDone
  BY <1>7 DEF LayerDone
<1>8. CASE Success
  BY <1>8 DEF Success
<1> QED
  BY <1>1, <1>2, <1>3, <1>4, <1>5, <1>6, <1>7, <1>8 DEF Step

LEMMA OriginStep == OriginInv /\ [Next]_vars => OriginInv'
<1> SUFFICES ASSUME OriginInv, [Next]_vars PROVE OriginInv'
  OBVIOUS
<1>1. TreeInv' /\ EndInv'
  BY TreeStep, PullStep DEF OriginInv, TreeInv, PullInv
<1>2. UNCHANGED <<image, bundle>> /\ Made => Made'
  BY DEF Made
<1>3. CASE Step
  <2>1. result = "running" /\ pull \in Run
    BY <1>3, StepRuns DEF OriginInv, TreeInv, EndInv
  <2>2. CASE pull'.at \notin {"layer", "unpack"} /\ (UNCHANGED result \/ result' = "error")
    BY <1>1, <2>1, <2>2 DEF OriginInv
  <2>3. CASE /\ pull.at \in {"layer", "unpack"}
             /\ UNCHANGED <<image, bundle>> /\ (UNCHANGED result \/ result' = "ok")
    BY <1>1, <1>2, <2>3 DEF OriginInv
  <2>4. CASE Unpack
    BY <1>1, <2>4, UnpackMakes DEF OriginInv
  <2>5. CASE Rename
    <3>1. bundle' = [there |-> TRUE, rootfs |-> NoTree]
      BY <2>5 DEF Rename
    <3>2. Made'
      BY <3>1 DEF Made, MadeOf, NoTree
    <3> QED
      BY <1>1, <3>2 DEF OriginInv
  <2> QED
    BY <1>3, <2>1, <2>2, <2>3, <2>4, <2>5, StepAtLayers
<1>4. ASSUME NEW force \in BOOLEAN, Begin(force) PROVE OriginInv'
  <2>1. pull'.at = "manifest" /\ result' = "running"
    BY <1>4 DEF Begin, NoPull
  <2> QED
    BY <1>1, <2>1 DEF OriginInv
<1>5. CASE Kill
  <2>1. pull'.at = "none" /\ result' = "killed"
    BY <1>5 DEF Kill, NoPull
  <2> QED
    BY <1>1, <2>1 DEF OriginInv
<1>6. CASE UNCHANGED vars
  BY <1>1, <1>2, <1>6 DEF vars, OriginInv
<1>7. CASE Unsupported
  BY <1>1, <1>2, <1>7 DEF Unsupported, OriginInv, EndInv
<1> QED
  BY <1>3, <1>4, <1>5, <1>6, <1>7 DEF Next

\* bundle_writer.cpp:120-126: whatever was in the bundle before, and however many pulls have
\* failed or been killed, a pull that succeeds leaves nothing there but its image, if
\* that has no hard link or marker to be looked for through a symlink.
THEOREM OnlyTheImageStays == Spec => []OnlyTheImage
<1>1. Init => OriginInv
  BY InitTree, InitEnd DEF Init, OriginInv, NoPull
<1>2. OriginInv => OnlyTheImage
  BY DEF OriginInv, OnlyTheImage
<1> QED
  BY <1>1, <1>2, OriginStep, PTL DEF Spec

----------------------------------------------------------------------------
(* The variables.                                                          *)

\* A step sets the count of redirects back, keeps it, or adds one below the limit.
LEMMA StepHops ==
  ASSUME pull \in Run, pull.hops < MaxHops, Step
  PROVE  pull'.hops \in Nat /\ pull'.hops < MaxHops
<1>0. pull.hops \in Nat /\ MaxHops \in Nat \ {0}
  BY PullAssumption DEF Run
<1>1. CASE Manifest \/ Platform
  BY <1>0, <1>1 DEF Manifest, Platform, Run
<1>2. CASE PinnedIndex \/ NoPlatform \/ RequestFails \/ RedirectLimit \/ DigestMismatch
  BY <1>0, <1>2 DEF PinnedIndex, NoPlatform, RequestFails, RedirectLimit, DigestMismatch, Fail, NoPull
<1>3. ASSUME NEW spoils \in BOOLEAN, Redirected(spoils)
      PROVE  pull'.hops \in Nat /\ pull'.hops < MaxHops
  <2>1. pull'.hops = pull.hops + 1 /\ pull.hops + 1 < MaxHops
    BY <1>3 DEF Redirected, Run
  <2> QED
    BY <1>0, <2>1
<1>4. CASE Delivered
  BY <1>0, <1>4 DEF Delivered, Run
<1>5. CASE Refuse \/ WriteFails \/ UnpackFails
  <2>1. Fail
    BY <1>5, Zenon DEF Refuse, WriteFails, UnpackFails
  <2> QED
    BY <1>0, <2>1 DEF Fail, NoPull
<1>6. CASE Prepare \/ RemoveOld \/ Rename
  BY <1>0, <1>6 DEF Prepare, RemoveOld, Rename, Run
<1>7. CASE Unpack \/ LayerDone
  BY <1>0, <1>7 DEF Unpack, LayerDone, Run
<1>8. CASE Success
  BY <1>0, <1>8 DEF Success, NoPull
<1> QED
  BY <1>1, <1>2, <1>3, <1>4, <1>5, <1>6, <1>7, <1>8 DEF Step

LEMMA StepTemp ==
  ASSUME Step, temp \in BOOLEAN
  PROVE  temp' \in BOOLEAN
<1>1. CASE Manifest \/ Platform \/ Delivered \/ LayerDone \/ Success \/ Unpack \/ UnpackFails
  BY <1>1 DEF Manifest, Platform, Delivered, LayerDone, Success, Unpack, UnpackFails
<1>2. CASE \E spoils \in BOOLEAN : Redirected(spoils)
  BY <1>2 DEF Redirected
<1>3. CASE PinnedIndex \/ NoPlatform \/ RequestFails \/ RedirectLimit \/ DigestMismatch
  BY <1>3 DEF PinnedIndex, NoPlatform, RequestFails, RedirectLimit, DigestMismatch
<1>4. CASE Refuse \/ Prepare \/ RemoveOld \/ Rename \/ WriteFails
  BY <1>4 DEF Refuse, Prepare, RemoveOld, Rename, WriteFails
<1> QED
  BY <1>1, <1>2, <1>3, <1>4 DEF Step

TypeInv ==
  /\ TreeInv
  /\ pull.hops < MaxHops
  /\ temp \in BOOLEAN
  /\ result \in {"none", "running", "ok", "error", "killed"}

LEMMA TypeStep == TypeInv /\ [Next]_vars => TypeInv'
<1> SUFFICES ASSUME TypeInv, [Next]_vars PROVE TypeInv'
  OBVIOUS
<1>1. TreeInv' /\ pull \in Run
  BY TreeStep DEF TypeInv, TreeInv
<1>2. CASE Step
  <2>1. pull'.hops < MaxHops
    BY <1>1, <1>2, StepHops DEF TypeInv
  <2>2. temp' \in BOOLEAN
    BY <1>2, StepTemp DEF TypeInv
  <2>3. result' \in {"none", "running", "ok", "error", "killed"}
    BY <1>1, <1>2, StepGoes DEF TypeInv, Goes, Ends
  <2> QED
    BY <1>1, <2>1, <2>2, <2>3 DEF TypeInv
<1>3. ASSUME NEW force \in BOOLEAN, Begin(force) PROVE TypeInv'
  <2>1. pull'.hops = 0 /\ result' = "running" /\ UNCHANGED temp
    BY <1>3 DEF Begin, NoPull
  <2> QED
    BY <1>1, <2>1, PullAssumption DEF TypeInv
<1>4. CASE Kill
  <2>1. pull'.hops = 0 /\ result' = "killed" /\ UNCHANGED temp
    BY <1>4 DEF Kill, NoPull
  <2> QED
    BY <1>1, <2>1, PullAssumption DEF TypeInv
<1>5. CASE UNCHANGED vars
  BY <1>1, <1>5 DEF vars, TypeInv
<1>6. CASE Unsupported
  BY <1>1, <1>6 DEF Unsupported, TypeInv
<1> QED
  BY <1>2, <1>3, <1>4, <1>5, <1>6 DEF Next

\* Every variable keeps its type; redirects are counted below kMaxHops.
THEOREM TypeCorrect == Spec => []TypeOK
<1>1. ASSUME Init PROVE TypeInv
  <2>1. TreeInv /\ temp \in BOOLEAN /\ result = "none"
    BY <1>1, InitTree DEF Init
  <2>2. pull.hops = 0 /\ 0 < MaxHops
    BY <1>1, PullAssumption DEF Init, NoPull
  <2> QED
    BY <2>1, <2>2 DEF TypeInv
<1>2. TypeInv => TypeOK
  <2>1. ASSUME TypeInv PROVE pull.hops \in 0 .. MaxHops
    BY <2>1, PullAssumption DEF TypeInv, TreeInv, Run
  <2> QED
    BY <2>1 DEF TypeInv, TreeInv, TypeOK, Run
<1> QED
  BY <1>1, <1>2, TypeStep, PTL DEF Spec

----------------------------------------------------------------------------
(* What the layers stand for, as far as a pull has come.                   *)

\* What the entries in front of a position have made and not removed again.
Past(layers, at) == {a \in Positions(layers) : Before(a, at)}

Struck(layers, past, a, p) ==
  \E b \in past : a[1] < b[1] /\ IsMarker(EntryAt(layers, b)) /\ Covers(EntryAt(layers, b), p)
Stands(layers, past, a, p) ==
  a \in past /\ Makes(EntryAt(layers, a), p) /\ ~Struck(layers, past, a, p)
Bears(layers, past, a, p) == Stands(layers, past, a, p) /\ EntryAt(layers, a).path = p
IsNewest(layers, past, a, p) ==
  Bears(layers, past, a, p) /\ \A b \in past : Bears(layers, past, b, p) => ~Before(a, b)

\* The last entry for the name gives what is there; if there is none, a directory is.
Dated(layers, past, p, shape) ==
  \/ (\A a \in past : ~Bears(layers, past, a, p)) /\ shape = <<"dir", Empty>>
  \/ \E a \in past : IsNewest(layers, past, a, p) /\ shape = Gives(layers, a)

Unpacked(layers, past, fs) ==
  /\ \A p : p \in DOMAIN fs <=> \E a \in past : Stands(layers, past, a, p)
  /\ \A p \in DOMAIN fs : Dated(layers, past, p, <<fs[p].kind, fs[p].data>>)

\* Only the names of hard links share an inode.
SameFile(fs, p, q) ==
  p # q /\ fs[p].kind = "file" /\ fs[q].kind = "file" /\ fs[p].ino = fs[q].ino
Linking(layers, past, p) ==
  \E h \in past : /\ EntryAt(layers, h).kind = "hardlink"
                  /\ p \in {EntryAt(layers, h).path, EntryAt(layers, h).to}
Linked(layers, past, fs) ==
  \A p, q \in DOMAIN fs : SameFile(fs, p, q) => Linking(layers, past, p)

LEMMA PositionIs ==
  ASSUME NEW layers \in Seq(Seq(EntryType)), NEW a \in Positions(layers)
  PROVE  /\ a = <<a[1], a[2]>> /\ a[1] \in DOMAIN layers /\ a[1] \in Nat /\ a[1] > 0 /\ a[2] \in Nat
         /\ a[2] \in DOMAIN layers[a[1]] /\ EntryAt(layers, a) \in EntryType
         /\ EntryAt(layers, a) \in Range(layers[a[1]])
<1>1. PICK k \in DOMAIN layers : \E i \in DOMAIN layers[k] : a = <<k, i>>
  BY DEF Positions
<1>2. PICK i \in DOMAIN layers[k] : a = <<k, i>>
  BY <1>1
<1>3. layers[k] \in Seq(EntryType)
  OBVIOUS
<1>4. layers[k][i] \in EntryType /\ k \in Nat /\ i \in Nat /\ k > 0
  BY <1>3
<1> QED
  BY <1>2, <1>4 DEF EntryAt, Range

LEMMA PositionOf ==
  ASSUME NEW layers, NEW k \in DOMAIN layers, NEW i \in DOMAIN layers[k]
  PROVE  <<k, i>> \in Positions(layers)
BY DEF Positions

\* A marker of its own layer removes nothing an entry makes or links.
LEMMA MarkerFirst ==
  ASSUME NEW layers \in Seq(Seq(EntryType)), Plain(layers),
         NEW a \in Positions(layers), NEW b \in Positions(layers), a[1] = b[1], Before(a, b),
         IsMarker(EntryAt(layers, b)), ~IsMarker(EntryAt(layers, a)), NEW p,
         Makes(EntryAt(layers, a), p) \/ p = EntryAt(layers, a).to
  PROVE  ~Covers(EntryAt(layers, b), p)
<1>1. PICK e, m : e = EntryAt(layers, a) /\ m = EntryAt(layers, b)
  OBVIOUS
<1>2. e \in EntryType /\ m \in EntryType
  BY <1>1, PositionIs
<1>3. ~Covers(m, e.path) /\ ~Covers(m, e.to)
  <2>1. PICK k : k = a[1]
    OBVIOUS
  <2>2. k \in DOMAIN layers /\ a[2] \in DOMAIN layers[k] /\ b[2] \in DOMAIN layers[k] /\ a[2] < b[2]
    BY <2>1, PositionIs DEF Before
  <2>3. e = layers[k][a[2]] /\ m = layers[k][b[2]]
    BY <1>1, <2>1 DEF EntryAt
  <2>4. MarkersFirst(layers[k])
    BY <2>2 DEF Plain
  <2> QED
    BY <1>1, <2>2, <2>3, <2>4 DEF MarkersFirst
<1>4. ASSUME p \in Above(e.path), Covers(m, p) PROVE FALSE
  <2>1. e.path \in Path /\ m.path \in Path
    BY <1>2 DEF EntryType
  <2>2. IsPrefix(m.path, p)
    BY <1>4 DEF Covers, IsStrictPrefix
  <2>3. IsPrefix(m.path, e.path) /\ m.path # e.path
    BY <1>4, <2>1, <2>2, PrefixOfAbove
  <2>4. Covers(m, e.path)
    BY <2>3 DEF Covers, IsStrictPrefix
  <2> QED
    BY <1>3, <2>4
<1> QED
  BY <1>1, <1>3, <1>4 DEF Makes

\* The entries in front of a position, and what comes after.
LEMMA PastIs ==
  ASSUME NEW layers \in Seq(Seq(EntryType)), NEW at \in Positions(layers)
  PROVE  /\ at \notin Past(layers, at) /\ Past(layers, at) \subseteq Positions(layers)
         /\ \A a \in Past(layers, at) : Before(a, at) /\ ~Before(at, a) /\ ~(at[1] < a[1])
         /\ ~Before(at, at)
<1>1. at[1] \in Nat /\ at[2] \in Nat
  BY PositionIs
<1>2. ~Before(at, at)
  BY <1>1 DEF Before
<1>3. ASSUME NEW a \in Past(layers, at) PROVE Before(a, at) /\ ~Before(at, a) /\ ~(at[1] < a[1])
  <2>1. a \in Positions(layers) /\ Before(a, at)
    BY <1>3 DEF Past
  <2>2. a[1] \in Nat /\ a[2] \in Nat
    BY <2>1, PositionIs
  <2> QED
    BY <1>1, <2>1, <2>2 DEF Before
<1> QED
  BY <1>2, <1>3 DEF Past

\* An entry takes its place at the end of the past.
LEMMA StruckAfter ==
  ASSUME NEW layers \in Seq(Seq(EntryType)), NEW at \in Positions(layers), NEW past, past = Past(layers, at),
         ~IsMarker(EntryAt(layers, at)), NEW a, NEW p
  PROVE  Struck(layers, past \cup {at}, a, p) = Struck(layers, past, a, p)
BY DEF Struck

LEMMA NotStruck ==
  ASSUME NEW layers \in Seq(Seq(EntryType)), NEW at \in Positions(layers),
         NEW past, past = Past(layers, at), NEW p
  PROVE  ~Struck(layers, past \cup {at}, at, p)
<1>1. ~(at[1] < at[1])
  BY PositionIs
<1> QED
  BY <1>1, PastIs DEF Struck

LEMMA MakesPath ==
  ASSUME NEW e \in EntryType, NEW p, Makes(e, p)
  PROVE  p \in Path
<1>1. e.path \in Path
  BY DEF EntryType
<1> QED
  BY <1>1, AboveIs DEF Makes

\* A marker.
LEMMA StandsAfterMarker ==
  ASSUME NEW layers \in Seq(Seq(EntryType)), Plain(layers), NEW at \in Positions(layers),
         NEW past, past = Past(layers, at), IsMarker(EntryAt(layers, at)), NEW a, NEW p
  PROVE  Stands(layers, past \cup {at}, a, p) <=>
           Stands(layers, past, a, p) /\ ~Covers(EntryAt(layers, at), p)
<1>1. PICK m : m = EntryAt(layers, at)
  OBVIOUS
<1>2. ~Makes(m, p)
  BY <1>1 DEF Makes
<1>3. CASE a \notin past
  BY <1>1, <1>2, <1>3 DEF Stands
<1>4. CASE a \in past
  <2>1. a \in Positions(layers) /\ Before(a, at)
    BY <1>4 DEF Past
  <2>2. ASSUME Makes(EntryAt(layers, a), p), ~(a[1] < at[1]) PROVE ~Covers(m, p)
    <3>1. a[1] = at[1]
      BY <2>1, <2>2 DEF Before
    <3>2. ~IsMarker(EntryAt(layers, a))
      BY <2>2 DEF Makes
    <3> QED
      BY <1>1, <2>1, <2>2, <3>1, <3>2, MarkerFirst
  <2>3. Struck(layers, past \cup {at}, a, p) <=>
          Struck(layers, past, a, p) \/ (a[1] < at[1] /\ Covers(m, p))
    BY <1>1 DEF Struck
  <2>4. Stands(layers, past \cup {at}, a, p) <=>
          Makes(EntryAt(layers, a), p) /\ ~Struck(layers, past \cup {at}, a, p)
    BY <1>4 DEF Stands
  <2>5. Stands(layers, past, a, p) <=>
          Makes(EntryAt(layers, a), p) /\ ~Struck(layers, past, a, p)
    BY <1>4 DEF Stands
  <2> QED
    BY <1>1, <2>2, <2>3, <2>4, <2>5
<1> QED
  BY <1>3, <1>4

LEMMA UnpackMarker ==
  ASSUME NEW layers \in Seq(Seq(EntryType)), Plain(layers), NEW at \in Positions(layers),
         NEW past, past = Past(layers, at), NEW e, e = EntryAt(layers, at), IsMarker(e),
         NEW fs, Unpacked(layers, past, fs)
  PROVE  Unpacked(layers, past \cup {at}, Strike(fs, e))
<1>1. PICK new : new = Strike(fs, e)
  OBVIOUS
<1>2. DOMAIN new = {p \in DOMAIN fs : ~Covers(e, p)} /\ \A p \in DOMAIN new : new[p] = fs[p]
  BY <1>1 DEF Strike, Restrict
<1>3. \A a, p : Stands(layers, past \cup {at}, a, p) <=> Stands(layers, past, a, p) /\ ~Covers(e, p)
  BY StandsAfterMarker
<1>4. \A a, p : Stands(layers, past, a, p) => a \in past
  BY DEF Stands
<1>5. ASSUME NEW p PROVE p \in DOMAIN new <=> \E a \in past \cup {at} : Stands(layers, past \cup {at}, a, p)
  <2>1. p \in DOMAIN fs <=> \E a \in past : Stands(layers, past, a, p)
    BY DEF Unpacked
  <2> QED
    BY <1>2, <1>3, <1>4, <2>1
<1>6. ASSUME NEW p \in DOMAIN new
      PROVE  Dated(layers, past \cup {at}, p, <<new[p].kind, new[p].data>>)
  <2>1. PICK shape : shape = <<new[p].kind, new[p].data>>
    OBVIOUS
  <2>2. ~Covers(e, p) /\ Dated(layers, past, p, shape)
    BY <1>2, <1>6, <2>1 DEF Unpacked
  <2>3. \A a : Bears(layers, past \cup {at}, a, p) <=> Bears(layers, past, a, p)
    BY <1>3, <2>2 DEF Bears
  <2>4. \A a : Bears(layers, past, a, p) => a \in past
    BY <1>4 DEF Bears
  <2>5. \A a : IsNewest(layers, past \cup {at}, a, p) <=> IsNewest(layers, past, a, p)
    BY <2>3, <2>4 DEF IsNewest
  <2>6. Dated(layers, past \cup {at}, p, shape)
    BY <2>2, <2>3, <2>4, <2>5 DEF Dated
  <2> QED
    BY <2>1, <2>6
<1> QED
  BY <1>1, <1>5, <1>6 DEF Unpacked

\* Any other entry, when it makes its name and the directories above it, and leaves the rest.
LEMMA UnpackMade ==
  ASSUME NEW layers \in Seq(Seq(EntryType)), NEW at \in Positions(layers),
         NEW past, past = Past(layers, at), NEW e, e = EntryAt(layers, at), ~IsMarker(e),
         NEW fs, Unpacked(layers, past, fs),
         NEW new, DOMAIN new = DOMAIN fs \cup {e.path} \cup Above(e.path),
         \A p \in DOMAIN fs : p # e.path => new[p].kind = fs[p].kind /\ new[p].data = fs[p].data,
         \A p \in Above(e.path) \ DOMAIN fs : new[p].kind = "dir" /\ new[p].data = Empty,
         <<new[e.path].kind, new[e.path].data>> = Gives(layers, at)
  PROVE  Unpacked(layers, past \cup {at}, new)
<1>0. e \in EntryType /\ e.path \in Path
  BY PositionIs DEF EntryType
<1>1. e.path \notin Above(e.path)
  BY <1>0, AboveIs
<1>2. at \notin past /\ \A a \in past : Before(a, at) /\ ~Before(at, a)
  BY PastIs
<1>3. ~Before(at, at)
  BY PastIs
<1>4. \A p : Stands(layers, past \cup {at}, at, p) <=> p = e.path \/ p \in Above(e.path)
  BY NotStruck DEF Stands, Makes
<1>5. \A p : \A a \in past : Stands(layers, past \cup {at}, a, p) <=> Stands(layers, past, a, p)
  BY StruckAfter DEF Stands
<1>6. ASSUME NEW p PROVE p \in DOMAIN new <=> \E a \in past \cup {at} : Stands(layers, past \cup {at}, a, p)
  <2>1. p \in DOMAIN fs <=> \E a \in past : Stands(layers, past, a, p)
    BY DEF Unpacked
  <2> QED
    BY <1>4, <1>5, <2>1
<1>7. \A p : \A a \in past : Bears(layers, past \cup {at}, a, p) <=> Bears(layers, past, a, p)
  BY <1>5 DEF Bears
<1>8. \A p : Bears(layers, past \cup {at}, at, p) <=> p = e.path
  BY <1>4 DEF Bears
<1>9. ASSUME NEW p \in DOMAIN new, p # e.path
      PROVE  Dated(layers, past \cup {at}, p, <<new[p].kind, new[p].data>>)
  <2>1. PICK shape : shape = <<new[p].kind, new[p].data>>
    OBVIOUS
  <2>2. \A a \in past : IsNewest(layers, past \cup {at}, a, p) <=> IsNewest(layers, past, a, p)
    BY <1>7, <1>8, <1>9 DEF IsNewest
  <2>3. ~Bears(layers, past \cup {at}, at, p)
    BY <1>8, <1>9
  <2>4. Dated(layers, past, p, shape) => Dated(layers, past \cup {at}, p, shape)
    BY <1>7, <2>2, <2>3 DEF Dated
  <2>5. CASE p \in DOMAIN fs
    <3>1. shape = <<fs[p].kind, fs[p].data>>
      BY <1>9, <2>1, <2>5
    <3>2. Dated(layers, past, p, shape)
      BY <2>5, <3>1 DEF Unpacked
    <3> QED
      BY <2>1, <2>4, <3>2
  <2>6. CASE p \notin DOMAIN fs
    <3>1. p \in Above(e.path) /\ shape = <<"dir", Empty>>
      BY <1>9, <2>1, <2>6
    <3>2. \A a \in past : ~Bears(layers, past, a, p)
      BY <2>6 DEF Unpacked, Bears
    <3>3. Dated(layers, past, p, shape)
      BY <3>1, <3>2 DEF Dated
    <3> QED
      BY <2>1, <2>4, <3>3
  <2> QED
    BY <2>5, <2>6
<1>10. Dated(layers, past \cup {at}, e.path, <<new[e.path].kind, new[e.path].data>>)
  <2>1. IsNewest(layers, past \cup {at}, at, e.path)
    BY <1>2, <1>3, <1>8 DEF IsNewest
  <2> QED
    BY <2>1 DEF Dated
<1> QED
  BY <1>6, <1>9, <1>10 DEF Unpacked

\* What a hard link finds is what has its name.
LEMMA EarlierIs ==
  ASSUME NEW layers \in Seq(Seq(EntryType)), Plain(layers), NEW at \in Positions(layers),
         NEW past, past = Past(layers, at), NEW e, e = EntryAt(layers, at), ~IsMarker(e),
         NEW p \in {e.path, e.to}, NEW a
  PROVE  a \in Earlier(layers, p, at) <=> Bears(layers, past, a, p)
<1>1. Makes(e, p) \/ p = e.to
  BY DEF Makes
<1>2. ASSUME a \in Positions(layers), Before(a, at)
      PROVE  Hidden(layers, p, a[1], at[1]) <=> Struck(layers, past, a, p)
  <2>0. a[1] \in Nat /\ at[1] \in Nat /\ at[2] \in Nat /\ at = <<at[1], at[2]>>
    BY <1>2, PositionIs
  <2>1. ASSUME NEW b \in past, a[1] < b[1], IsMarker(EntryAt(layers, b)), Covers(EntryAt(layers, b), p)
        PROVE  Hidden(layers, p, a[1], at[1])
    <3>1. b \in Positions(layers) /\ Before(b, at)
      BY <2>1 DEF Past
    <3>2. b[1] \in DOMAIN layers /\ b[1] \in Nat /\ EntryAt(layers, b) \in Range(layers[b[1]])
      BY <3>1, PositionIs
    <3>3. b[1] <= at[1]
      BY <2>0, <3>1, <3>2 DEF Before
    <3> QED
      BY <2>1, <3>2, <3>3 DEF Hidden
  <2>2. ASSUME NEW m \in DOMAIN layers, a[1] < m, m <= at[1],
               NEW i \in DOMAIN layers[m], IsMarker(layers[m][i]), Covers(layers[m][i], p)
        PROVE  Struck(layers, past, a, p)
    <3>1. PICK b : b = <<m, i>>
      OBVIOUS
    <3>2. b \in Positions(layers)
      BY <3>1, PositionOf
    <3>3. b[1] = m /\ b[2] = i /\ EntryAt(layers, b) = layers[m][i]
      BY <3>1 DEF EntryAt
    <3>4. m \in Nat /\ i \in Nat
      BY <3>2, <3>3, PositionIs
    <3>5. b # at
      BY <2>2, <3>3
    <3>6. CASE Before(b, at)
      <4>1. b \in past
        BY <3>2, <3>6 DEF Past
      <4> QED
        BY <2>2, <3>3, <4>1 DEF Struck
    <3>7. CASE ~Before(b, at)
      <4>1. at[1] = m /\ at[2] <= i
        BY <2>0, <2>2, <3>3, <3>4, <3>7 DEF Before
      <4>2. at[2] # i
        BY <2>0, <3>1, <3>5, <4>1
      <4>3. Before(at, b)
        BY <2>0, <3>3, <3>4, <4>1, <4>2 DEF Before
      <4> QED
        BY <1>1, <2>2, <3>2, <3>3, <4>1, <4>3, MarkerFirst
    <3> QED
      BY <3>6, <3>7
  <2>3. Struck(layers, past, a, p) => Hidden(layers, p, a[1], at[1])
    BY <2>1 DEF Struck
  <2>4. Hidden(layers, p, a[1], at[1]) => Struck(layers, past, a, p)
    BY <2>2 DEF Hidden, Range
  <2> QED
    BY <2>3, <2>4
<1>3. a \in past <=> a \in Positions(layers) /\ Before(a, at)
  BY DEF Past
<1> QED
  BY <1>2, <1>3 DEF Earlier, Bears, Stands, Makes

LEMMA NewestIs ==
  ASSUME NEW layers \in Seq(Seq(EntryType)), NEW past, past \subseteq Positions(layers), NEW p,
         NEW S, \A a : a \in S <=> Bears(layers, past, a, p), NEW a, IsNewest(layers, past, a, p)
  PROVE  Newest(S) = a /\ S # {}
<1>1. a \in S /\ \A b \in S : b \in past /\ ~Before(a, b)
  BY DEF IsNewest, Bears, Stands
<1>2. Newest(S) \in S /\ \A b \in S : ~Before(Newest(S), b)
  BY <1>1 DEF Newest
<1>3. PICK b : b = Newest(S)
  OBVIOUS
<1>4. a \in Positions(layers) /\ b \in Positions(layers) /\ ~Before(a, b) /\ ~Before(b, a)
  BY <1>1, <1>2, <1>3
<1>5. /\ a = <<a[1], a[2]>> /\ a[1] \in Nat /\ a[2] \in Nat
      /\ b = <<b[1], b[2]>> /\ b[1] \in Nat /\ b[2] \in Nat
  BY <1>4, PositionIs
<1>6. a[1] = b[1] /\ a[2] = b[2]
  BY <1>4, <1>5 DEF Before
<1> QED
  BY <1>1, <1>3, <1>5, <1>6

----------------------------------------------------------------------------
(* What an entry finds.                                                    *)

LEMMA GivesKind ==
  ASSUME NEW layers, NEW a
  PROVE  /\ Gives(layers, a)[1] = "dir" => EntryAt(layers, a).kind = "dir" /\ Gives(layers, a) = <<"dir", Empty>>
         /\ Gives(layers, a)[1] = "file" => EntryAt(layers, a).kind \in {"file", "hardlink"}
         /\ EntryAt(layers, a).kind \notin {"dir", "hardlink"} => Gives(layers, a) = <<EntryAt(layers, a).kind, a[1]>>
         /\ EntryAt(layers, a).kind = "dir" => Gives(layers, a) = <<"dir", Empty>>
<1>1. PICK e : e = EntryAt(layers, a)
  OBVIOUS
<1>2. CASE e.kind = "dir"
  <2>1. Gives(layers, a) = <<"dir", Empty>>
    BY <1>1, <1>2 DEF Gives
  <2> QED
    BY <1>1, <1>2, <2>1
<1>3. CASE e.kind = "hardlink"
  <2>1. Gives(layers, a)[1] = "file"
    BY <1>1, <1>3 DEF Gives
  <2> QED
    BY <1>1, <1>3, <2>1
<1>4. CASE e.kind \notin {"dir", "hardlink"}
  <2>1. Gives(layers, a) = <<e.kind, a[1]>>
    BY <1>1, <1>4 DEF Gives
  <2> QED
    BY <1>1, <1>4, <2>1
<1> QED
  BY <1>2, <1>3, <1>4

\* No link goes below a file.
LEMMA LinkNotBelow ==
  ASSUME NEW layers \in Seq(Seq(EntryType)), Plain(layers), NEW at \in Positions(layers),
         NEW past, past = Past(layers, at), NEW e, e = EntryAt(layers, at), e.kind = "hardlink",
         NEW fs, Unpacked(layers, past, fs)
  PROVE  ~BelowFile(fs, e.path)
<1> SUFFICES ASSUME NEW p \in Above(e.path), At(fs, p) = "file" PROVE FALSE
  BY DEF BelowFile
<1>1. p \in DOMAIN fs /\ fs[p].kind = "file"
  BY DEF At
<1>2. Dated(layers, past, p, <<"file", fs[p].data>>)
  BY <1>1 DEF Unpacked
<1>3. PICK a \in past : IsNewest(layers, past, a, p) /\ <<"file", fs[p].data>> = Gives(layers, a)
  BY <1>2 DEF Dated
<1>4. PICK f : f = EntryAt(layers, a)
  OBVIOUS
<1>5. f.kind \in {"file", "hardlink"}
  BY <1>3, <1>4, GivesKind
<1>6. f.path = p /\ ~IsMarker(f) /\ a \in Positions(layers)
  BY <1>3, <1>4 DEF IsNewest, Bears, Stands, Makes, Past
<1>7. f.path \notin Above(e.path)
  BY <1>4, <1>5, <1>6 DEF Plain, LinksFiles
<1> QED
  BY <1>6, <1>7

\* The names of a hard link are those of files, its own may be that of a symlink.
LEMMA LinkName ==
  ASSUME NEW layers \in Seq(Seq(EntryType)), Plain(layers), NEW at \in Positions(layers),
         NEW past, past = Past(layers, at), NEW e, e = EntryAt(layers, at), e.kind = "hardlink",
         NEW fs, IsTree(fs), Unpacked(layers, past, fs), NEW p \in {e.path, e.to}, p \in DOMAIN fs
  PROVE  \E a \in past : /\ IsNewest(layers, past, a, p)
                         /\ <<fs[p].kind, fs[p].data>> = <<EntryAt(layers, a).kind, a[1]>>
                         /\ EntryAt(layers, a).kind \in IF p = e.to THEN {"file"} ELSE {"file", "symlink"}
<1>1. PICK b \in past : Stands(layers, past, b, p)
  BY DEF Unpacked
<1>2. \A a \in past : a \in Positions(layers) /\ Before(a, at)
  BY DEF Past
<1>3. p \notin Above(EntryAt(layers, b).path)
  BY <1>1, <1>2 DEF Plain, LinksFiles, Stands, Makes
<1>4. Bears(layers, past, b, p)
  BY <1>1, <1>3 DEF Bears, Stands, Makes
<1>5. Dated(layers, past, p, <<fs[p].kind, fs[p].data>>)
  BY DEF Unpacked
<1>6. PICK a \in past : IsNewest(layers, past, a, p) /\ <<fs[p].kind, fs[p].data>> = Gives(layers, a)
  BY <1>4, <1>5 DEF Dated
<1>7. PICK f : f = EntryAt(layers, a)
  OBVIOUS
<1>8. f.path = p /\ ~IsMarker(f) /\ a \in Positions(layers) /\ Before(a, at)
  BY <1>2, <1>6, <1>7 DEF IsNewest, Bears, Stands, Makes
<1>9. f.kind # "dir"
  BY <1>7, <1>8 DEF Plain, LinksFiles
<1>10. f.kind # "hardlink"
  BY <1>7, <1>8 DEF Plain, LinkedOnce
<1>11. <<fs[p].kind, fs[p].data>> = <<f.kind, a[1]>>
  BY <1>6, <1>7, <1>9, <1>10, GivesKind
<1>12. f.kind \in {"file", "symlink"}
  BY <1>9, <1>11 DEF IsTree
<1>13. p = e.to => f.kind # "symlink"
  <2>1. f.kind = "symlink" => ~IsPrefix(f.path, e.to)
    BY <1>7, <1>8 DEF Plain, NotThroughSymlinks
  <2>2. p \in Path
    BY DEF IsTree
  <2>3. IsPrefix(p, p)
    BY <2>2 DEF IsPrefix, Path
  <2> QED
    BY <1>8, <2>1, <2>3
<1> QED
  BY <1>6, <1>7, <1>11, <1>12, <1>13

\* The content of a hard link is that of the file it finds.
LEMMA LinkGives ==
  ASSUME NEW layers \in Seq(Seq(EntryType)), Plain(layers), NEW at \in Positions(layers),
         NEW past, past = Past(layers, at), NEW e, e = EntryAt(layers, at), e.kind = "hardlink",
         NEW fs, IsTree(fs), Unpacked(layers, past, fs)
  PROVE  /\ At(fs, e.to) \in {"nothing", "file"} /\ At(fs, e.path) \in {"nothing", "file", "symlink"}
         /\ At(fs, e.to) = "file" => Gives(layers, at) = <<"file", fs[e.to].data>>
         /\ At(fs, e.to) = "nothing" /\ At(fs, e.path) = "file" =>
              Gives(layers, at) = <<"file", fs[e.path].data>>
         /\ At(fs, e.to) = "nothing" /\ At(fs, e.path) # "file" =>
              Gives(layers, at) = <<"file", Empty>>
<1>0. ~IsMarker(e) /\ past \subseteq Positions(layers)
  BY DEF IsMarker, Past
<1>1. PICK from, own : from = Earlier(layers, e.to, at) /\ own = Earlier(layers, e.path, at)
  OBVIOUS
<1>2. /\ \A a : a \in from <=> Bears(layers, past, a, e.to)
      /\ \A a : a \in own <=> Bears(layers, past, a, e.path)
  BY <1>0, <1>1, EarlierIs
<1>3. Gives(layers, at) =
        IF from # {}
        THEN IF EntryAt(layers, Newest(from)).kind = "file" THEN <<"file", Newest(from)[1]>> ELSE <<"file", Empty>>
        ELSE IF own # {} /\ EntryAt(layers, Newest(own)).kind = "file"
             THEN <<"file", Newest(own)[1]>> ELSE <<"file", Empty>>
  BY <1>1 DEF Gives
<1>4. ASSUME NEW p \in {e.path, e.to}, p \notin DOMAIN fs, NEW a PROVE ~Bears(layers, past, a, p)
  BY <1>4 DEF Unpacked, Bears, Stands
<1>5. /\ At(fs, e.to) \in {"nothing", "file"}
      /\ At(fs, e.to) = "file" => Gives(layers, at) = <<"file", fs[e.to].data>>
      /\ At(fs, e.to) = "nothing" => from = {}
  <2>1. CASE e.to \notin DOMAIN fs
    BY <1>2, <1>4, <2>1 DEF At
  <2>2. CASE e.to \in DOMAIN fs
    <3>1. PICK a \in past : /\ IsNewest(layers, past, a, e.to)
                            /\ <<fs[e.to].kind, fs[e.to].data>> = <<EntryAt(layers, a).kind, a[1]>>
                            /\ EntryAt(layers, a).kind = "file"
      BY <2>2, LinkName
    <3>2. Newest(from) = a /\ from # {}
      BY <1>0, <1>2, <3>1, NewestIs
    <3>3. At(fs, e.to) = "file"
      BY <2>2, <3>1 DEF At
    <3> QED
      BY <1>3, <3>1, <3>2, <3>3
  <2> QED
    BY <2>1, <2>2
<1>6. /\ At(fs, e.path) \in {"nothing", "file", "symlink"}
      /\ At(fs, e.path) = "file" => /\ own # {} /\ EntryAt(layers, Newest(own)).kind = "file"
                                    /\ Newest(own)[1] = fs[e.path].data
      /\ At(fs, e.path) = "symlink" => EntryAt(layers, Newest(own)).kind # "file"
      /\ At(fs, e.path) = "nothing" => own = {}
  <2>1. CASE e.path \notin DOMAIN fs
    BY <1>2, <1>4, <2>1 DEF At
  <2>2. CASE e.path \in DOMAIN fs
    <3>1. PICK a \in past : /\ IsNewest(layers, past, a, e.path)
                            /\ <<fs[e.path].kind, fs[e.path].data>> = <<EntryAt(layers, a).kind, a[1]>>
                            /\ EntryAt(layers, a).kind \in {"file", "symlink"}
      BY <2>2, LinkName
    <3>2. Newest(own) = a /\ own # {}
      BY <1>0, <1>2, <3>1, NewestIs
    <3>3. At(fs, e.path) = EntryAt(layers, a).kind /\ fs[e.path].data = a[1]
      BY <2>2, <3>1 DEF At
    <3> QED
      BY <3>1, <3>2, <3>3
  <2> QED
    BY <2>1, <2>2
<1> QED
  BY <1>3, <1>5, <1>6

----------------------------------------------------------------------------
(* What an entry leaves.                                                   *)

AreNodes(fs) == \A p \in DOMAIN fs : fs[p] = Node(fs[p].kind, fs[p].data, fs[p].ino)

\* The entry has put its name and the directories above it, and left the rest.
Puts(fs, new, p, shape) ==
  /\ DOMAIN new = DOMAIN fs \cup {p} \cup Above(p)
  /\ \A q \in DOMAIN fs : q # p => new[q].kind = fs[q].kind /\ new[q].data = fs[q].data
  /\ \A q \in Above(p) \ DOMAIN fs : new[q].kind = "dir" /\ new[q].data = Empty
  /\ <<new[p].kind, new[p].data>> = shape

\* There is a number that no file has.
LEMMA UnusedIs ==
  ASSUME NEW fs, IsFiniteSet(DOMAIN fs), NEW p \in DOMAIN fs
  PROVE  fs[p].ino # Unused(fs)
<1> DEFINE S == DOMAIN fs
           n == Cardinality(S)
           inos == {fs[q].ino : q \in S}
           f == [q \in S |-> fs[q].ino]
<1>1. n \in Nat
  BY FS_CardinalityType
<1>2. f \in Surjection(S, inos)
  BY DEF Surjection
<1>3. IsFiniteSet(inos) /\ Cardinality(inos) <= n
  BY <1>2, FS_Surjection
<1>4. \E k \in 1..(n + 1) : k \notin inos
  <2> SUFFICES ASSUME 1..(n + 1) \subseteq inos PROVE FALSE
    OBVIOUS
  <2>1. Cardinality(1..(n + 1)) = n + 1
    BY <1>1, FS_Interval
  <2>2. Cardinality(1..(n + 1)) <= Cardinality(inos)
    BY <1>3, FS_Subset
  <2>3. Cardinality(inos) \in Nat
    BY <1>3, FS_CardinalityType
  <2> QED
    BY <1>1, <1>3, <2>1, <2>2, <2>3
<1>5. \E k \in 1..(n + 1) : \A q \in DOMAIN fs : fs[q].ino # k
  BY <1>4
<1>6. \A q \in DOMAIN fs : fs[q].ino # Unused(fs)
  BY <1>5 DEF Unused
<1> QED
  BY <1>6

LEMMA AboveFinite ==
  ASSUME NEW p \in Path
  PROVE  IsFiniteSet(Above(p))
<1>0. Len(p) \in Nat
  BY DEF Path
<1>1. PICK n \in Int : n = Len(p) - 1
  BY <1>0
<1>2. Above(p) = {SubSeq(p, 1, k) : k \in 1..n}
  BY <1>1 DEF Above
<1> DEFINE f == [k \in 1..n |-> SubSeq(p, 1, k)]
<1>3. f \in Surjection(1..n, Above(p))
  BY <1>2 DEF Surjection
<1>4. IsFiniteSet(1..n)
  BY FS_Interval
<1> QED
  BY <1>3, <1>4, FS_Surjection

LEMMA PutsFinite ==
  ASSUME NEW fs, IsFiniteSet(DOMAIN fs), NEW p \in Path, NEW new, NEW shape, Puts(fs, new, p, shape)
  PROVE  IsFiniteSet(DOMAIN new)
<1>1. IsFiniteSet(DOMAIN fs \cup {p})
  BY FS_AddElement
<1>2. IsFiniteSet(DOMAIN fs \cup {p} \cup Above(p))
  BY <1>1, AboveFinite, FS_Union
<1> QED
  BY <1>2 DEF Puts

\* The parents are made; a symlink in the way is gone.
LEMMA ClearedIs ==
  ASSUME NEW fs, NEW p \in Path, ~BelowFile(fs, p)
  PROVE  /\ DOMAIN Cleared(fs, p) =
              (IF At(fs, p) = "symlink" THEN DOMAIN fs \ {p} ELSE DOMAIN fs) \cup Above(p)
         /\ \A q \in DOMAIN fs : q # p \/ At(fs, p) # "symlink" => Cleared(fs, p)[q] = fs[q]
         /\ \A q \in Above(p) \ DOMAIN fs : Cleared(fs, p)[q] = Node("dir", Empty, 0)
         /\ p \notin Above(p)
         /\ \A q : q # p /\ q \notin Above(p) => At(Cleared(fs, p), q) = At(fs, q)
         /\ At(Cleared(fs, p), p) = IF At(fs, p) = "symlink" THEN "nothing" ELSE At(fs, p)
<1>1. PICK bare : bare = IF At(fs, p) = "symlink" THEN Restrict(fs, DOMAIN fs \ {p}) ELSE fs
  OBVIOUS
<1>2. PICK made : made = {a \in Above(p) : ~BelowFile(fs, a)}
  OBVIOUS
<1>3. p \notin Above(p) /\ \A a \in Above(p) : Above(a) \subseteq Above(p)
  BY AboveIs
<1>4. made = Above(p)
  BY <1>2, <1>3 DEF BelowFile
<1>5. /\ DOMAIN bare = IF At(fs, p) = "symlink" THEN DOMAIN fs \ {p} ELSE DOMAIN fs
      /\ \A q \in DOMAIN bare : bare[q] = fs[q]
  BY <1>1 DEF Restrict
<1>6. Cleared(fs, p) = [q \in DOMAIN bare \cup made |->
                          IF q \in DOMAIN bare THEN bare[q] ELSE Node("dir", Empty, 0)]
  BY <1>1, <1>2 DEF Cleared
<1>7. /\ DOMAIN Cleared(fs, p) = DOMAIN bare \cup Above(p)
      /\ \A q \in DOMAIN bare : Cleared(fs, p)[q] = fs[q]
      /\ \A q \in Above(p) \ DOMAIN bare : Cleared(fs, p)[q] = Node("dir", Empty, 0)
  BY <1>4, <1>5, <1>6
<1> HIDE <1>6
<1>8. \A q \in Above(p) : q # p
  BY <1>3
<1>9. \A q : q # p /\ q \notin Above(p) => At(Cleared(fs, p), q) = At(fs, q)
  BY <1>5, <1>7 DEF At
<1>10. At(Cleared(fs, p), p) = IF At(fs, p) = "symlink" THEN "nothing" ELSE At(fs, p)
  <2>1. CASE At(fs, p) = "symlink"
    BY <1>3, <1>5, <1>7, <2>1 DEF At
  <2>2. CASE At(fs, p) # "symlink"
    BY <1>3, <1>5, <1>7, <2>2 DEF At
  <2> QED
    BY <2>1, <2>2
<1> QED
  BY <1>3, <1>5, <1>7, <1>8, <1>9, <1>10

\* Putting a name where the parents are made.
LEMMA PutsSet ==
  ASSUME NEW fs, NEW p \in Path, ~BelowFile(fs, p), NEW node
  PROVE  Puts(fs, Set(Cleared(fs, p), p, node), p, <<node.kind, node.data>>)
<1>1. PICK ready, new : ready = Cleared(fs, p) /\ new = Set(ready, p, node)
  OBVIOUS
<1>2. /\ DOMAIN ready \cup {p} = DOMAIN fs \cup {p} \cup Above(p)
      /\ \A q \in DOMAIN fs : q # p => ready[q] = fs[q] /\ q \in DOMAIN ready
      /\ \A q \in Above(p) \ DOMAIN fs : ready[q] = Node("dir", Empty, 0) /\ q \in DOMAIN ready /\ q # p
  <2>1. /\ DOMAIN ready = (IF At(fs, p) = "symlink" THEN DOMAIN fs \ {p} ELSE DOMAIN fs) \cup Above(p)
        /\ \A q \in DOMAIN fs : q # p \/ At(fs, p) # "symlink" => ready[q] = fs[q]
        /\ \A q \in Above(p) \ DOMAIN fs : ready[q] = Node("dir", Empty, 0)
        /\ p \notin Above(p)
    BY <1>1, ClearedIs
  <2>2. At(fs, p) = "symlink" => p \in DOMAIN fs
    BY DEF At
  <2> QED
    BY <2>1, <2>2
<1>3. DOMAIN new = DOMAIN ready \cup {p} /\ new[p] = node /\ \A q \in DOMAIN ready : q # p => new[q] = ready[q]
  BY <1>1 DEF Set
<1>4. Node("dir", Empty, 0).kind = "dir" /\ Node("dir", Empty, 0).data = Empty
  BY DEF Node
<1> QED
  BY <1>1, <1>2, <1>3, <1>4 DEF Puts

\* Leaving what is there.
LEMMA PutsReady ==
  ASSUME NEW fs, NEW p \in Path, ~BelowFile(fs, p), At(fs, p) \in {"dir", "file"}
  PROVE  Puts(fs, Cleared(fs, p), p, <<fs[p].kind, fs[p].data>>)
<1>1. PICK ready : ready = Cleared(fs, p)
  OBVIOUS
<1>2. p \in DOMAIN fs /\ At(fs, p) # "symlink"
  BY DEF At
<1>3. /\ DOMAIN ready = DOMAIN fs \cup Above(p)
      /\ \A q \in DOMAIN fs : ready[q] = fs[q]
      /\ \A q \in Above(p) \ DOMAIN fs : ready[q] = Node("dir", Empty, 0)
  BY <1>1, <1>2, ClearedIs
<1>4. Node("dir", Empty, 0).kind = "dir" /\ Node("dir", Empty, 0).data = Empty
  BY DEF Node
<1> QED
  BY <1>1, <1>2, <1>3, <1>4 DEF Puts

\* Writing a file that is there, when it has no other name.
LEMMA PutsWritten ==
  ASSUME NEW fs, IsTree(fs), AreNodes(fs), NEW p \in Path, ~BelowFile(fs, p), At(fs, p) = "file",
         \A q \in DOMAIN fs : ~SameFile(fs, p, q), NEW data
  PROVE  /\ Puts(fs, Write(Cleared(fs, p), p, data), p, <<"file", data>>)
         /\ \A q \in DOMAIN Write(Cleared(fs, p), p, data) :
              Write(Cleared(fs, p), p, data)[q].kind = "file" =>
                q \in DOMAIN fs /\ fs[q].kind = "file" /\ Write(Cleared(fs, p), p, data)[q].ino = fs[q].ino
<1>1. PICK ready, new : ready = Cleared(fs, p) /\ new = Write(ready, p, data)
  OBVIOUS
<1>2. p \in DOMAIN fs /\ At(fs, p) # "symlink" /\ fs[p].kind = "file"
  BY DEF At
<1>3. /\ DOMAIN ready = DOMAIN fs \cup Above(p)
      /\ \A q \in DOMAIN fs : ready[q] = fs[q]
      /\ \A q \in Above(p) \ DOMAIN fs : ready[q] = Node("dir", Empty, 0)
  BY <1>1, <1>2, ClearedIs
<1>4. At(ready, p) = "file" /\ ready[p] = fs[p]
  BY <1>2, <1>3 DEF At
<1>5. new = [q \in DOMAIN ready |-> IF ready[q].kind = "file" /\ ready[q].ino = ready[p].ino
                                    THEN [ready[q] EXCEPT !.data = data] ELSE ready[q]]
  BY <1>1, <1>4 DEF Write
<1>6. Node("dir", Empty, 0).kind = "dir" /\ Node("dir", Empty, 0).data = Empty
  BY DEF Node
<1>7. /\ DOMAIN new = DOMAIN fs \cup Above(p)
      /\ new[p] = [fs[p] EXCEPT !.data = data]
      /\ \A q \in DOMAIN fs : q # p => new[q] = fs[q]
      /\ \A q \in Above(p) \ DOMAIN fs : new[q] = Node("dir", Empty, 0)
  BY <1>2, <1>3, <1>4, <1>5, <1>6 DEF SameFile
<1>8. new[p].kind = "file" /\ new[p].data = data /\ new[p].ino = fs[p].ino
  BY <1>2, <1>7 DEF AreNodes, Node
<1>9. Puts(fs, new, p, <<"file", data>>)
  BY <1>2, <1>6, <1>7, <1>8 DEF Puts
<1>10. ASSUME NEW q \in DOMAIN new, new[q].kind = "file"
       PROVE  q \in DOMAIN fs /\ fs[q].kind = "file" /\ new[q].ino = fs[q].ino
  BY <1>2, <1>6, <1>7, <1>8, <1>10
<1> QED
  BY <1>1, <1>9, <1>10

\* Inodes.
LEMMA LinkedKept ==
  ASSUME NEW layers, NEW past, NEW more, past \subseteq more, NEW fs, Linked(layers, past, fs), NEW new,
         \A q \in DOMAIN new :
           new[q].kind = "file" => q \in DOMAIN fs /\ fs[q].kind = "file" /\ new[q].ino = fs[q].ino
  PROVE  Linked(layers, more, new)
<1> SUFFICES ASSUME NEW p \in DOMAIN new, NEW q \in DOMAIN new, SameFile(new, p, q)
             PROVE  Linking(layers, more, p)
  BY DEF Linked
<1>1. p \in DOMAIN fs /\ q \in DOMAIN fs /\ SameFile(fs, p, q)
  BY DEF SameFile
<1>2. Linking(layers, past, p)
  BY <1>1 DEF Linked
<1> QED
  BY <1>2 DEF Linking

LEMMA LinkedNew ==
  ASSUME NEW layers, NEW past, NEW fs, IsFiniteSet(DOMAIN fs), Linked(layers, past, fs),
         NEW p, p \notin DOMAIN fs, NEW data
  PROVE  Linked(layers, past, Set(fs, p, Node("file", data, Unused(fs))))
<1>1. PICK new, ino : ino = Unused(fs) /\ new = Set(fs, p, Node("file", data, ino))
  OBVIOUS
<1>2. DOMAIN new = DOMAIN fs \cup {p} /\ new[p].ino = ino /\ \A q \in DOMAIN fs : new[q] = fs[q]
  BY <1>1 DEF Set, Node
<1>3. \A q \in DOMAIN fs : fs[q].ino # ino
  BY <1>1, UnusedIs
<1>4. ASSUME NEW q \in DOMAIN new, NEW r \in DOMAIN new, SameFile(new, q, r)
      PROVE  q \in DOMAIN fs /\ r \in DOMAIN fs /\ SameFile(fs, q, r)
  BY <1>2, <1>3, <1>4 DEF SameFile
<1>5. Linked(layers, past, new)
  BY <1>4 DEF Linked
<1> QED
  BY <1>1, <1>5

LEMMA LinkedOneMore ==
  ASSUME NEW layers, NEW past, NEW fs, Linked(layers, past, fs), NEW h \in past, NEW e,
         e = EntryAt(layers, h), e.kind = "hardlink", e.path \notin DOMAIN fs, e.to \in DOMAIN fs,
         fs[e.to].kind = "file"
  PROVE  Linked(layers, past, Set(fs, e.path, fs[e.to]))
<1>1. PICK p, to, new : p = e.path /\ to = e.to /\ new = Set(fs, p, fs[to])
  OBVIOUS
<1>2. /\ DOMAIN new = DOMAIN fs \cup {p} /\ new[p] = fs[to] /\ \A q \in DOMAIN fs : new[q] = fs[q]
      /\ to \in DOMAIN fs /\ p \notin DOMAIN fs /\ fs[to].kind = "file"
  BY <1>1 DEF Set
<1>3. Linking(layers, past, p) /\ Linking(layers, past, to)
  BY <1>1 DEF Linking
<1>4. ASSUME NEW q \in DOMAIN new, NEW r \in DOMAIN new, SameFile(new, q, r), q # p, q # to
      PROVE  SameFile(fs, q, to) \/ (r \in DOMAIN fs /\ SameFile(fs, q, r))
  BY <1>2, <1>4 DEF SameFile
<1>5. ASSUME NEW q \in DOMAIN new, NEW r \in DOMAIN new, SameFile(new, q, r)
      PROVE  Linking(layers, past, q)
  <2>1. CASE q = p \/ q = to
    BY <1>3, <2>1
  <2>2. CASE q # p /\ q # to
    <3>1. q \in DOMAIN fs
      BY <1>2, <2>2
    <3> QED
      BY <1>2, <1>4, <1>5, <2>2, <3>1 DEF Linked
  <2> QED
    BY <2>1, <2>2
<1>6. Linked(layers, past, new)
  BY <1>5 DEF Linked
<1> QED
  BY <1>1, <1>6

\* A name that is written has no other.
LEMMA Unlinked ==
  ASSUME NEW layers \in Seq(Seq(EntryType)), Plain(layers), NEW at \in Positions(layers),
         NEW past, past = Past(layers, at), NEW e, e = EntryAt(layers, at), e.kind \in {"file", "hardlink"},
         NEW fs, Linked(layers, past, fs), e.path \in DOMAIN fs, NEW q \in DOMAIN fs
  PROVE  ~SameFile(fs, e.path, q)
<1> SUFFICES ASSUME SameFile(fs, e.path, q) PROVE FALSE
  OBVIOUS
<1>1. PICK h \in past : /\ EntryAt(layers, h).kind = "hardlink"
                        /\ e.path \in {EntryAt(layers, h).path, EntryAt(layers, h).to}
  BY DEF Linked, Linking
<1>2. h \in Positions(layers) /\ Before(h, at)
  BY DEF Past
<1> QED
  BY <1>1, <1>2 DEF Plain, LinkedOnce

\* What the tree is while the entries in front of a position have been unpacked.
Faithful(layers, past, fs) ==
  IsFiniteSet(DOMAIN fs) /\ Unpacked(layers, past, fs) /\ Linked(layers, past, fs)

LEMMA FaithfulPut ==
  ASSUME NEW layers \in Seq(Seq(EntryType)), NEW at \in Positions(layers),
         NEW past, past = Past(layers, at), NEW e, e = EntryAt(layers, at), ~IsMarker(e),
         NEW fs, Faithful(layers, past, fs),
         NEW new, Puts(fs, new, e.path, Gives(layers, at)), Linked(layers, past \cup {at}, new)
  PROVE  Faithful(layers, past \cup {at}, new)
<1>1. e.path \in Path
  BY PositionIs DEF EntryType
<1>2. IsFiniteSet(DOMAIN new)
  BY <1>1, PutsFinite DEF Faithful
<1>3. Unpacked(layers, past \cup {at}, new)
  <2>1. Unpacked(layers, past, fs)
    BY DEF Faithful
  <2>2. /\ DOMAIN new = DOMAIN fs \cup {e.path} \cup Above(e.path)
        /\ \A p \in DOMAIN fs : p # e.path => new[p].kind = fs[p].kind /\ new[p].data = fs[p].data
        /\ \A p \in Above(e.path) \ DOMAIN fs : new[p].kind = "dir" /\ new[p].data = Empty
        /\ <<new[e.path].kind, new[e.path].data>> = Gives(layers, at)
    BY DEF Puts
  <2> QED
    BY <2>1, <2>2, UnpackMade
<1> QED
  BY <1>2, <1>3 DEF Faithful

\* The tree that is ready for an entry.
LEMMA ReadyLinked ==
  ASSUME NEW layers, NEW past, NEW more, past \subseteq more, NEW fs, Linked(layers, past, fs),
         IsFiniteSet(DOMAIN fs), NEW p \in Path, ~BelowFile(fs, p)
  PROVE  /\ Linked(layers, more, Cleared(fs, p)) /\ IsFiniteSet(DOMAIN Cleared(fs, p))
         /\ \A node : node.kind # "file" => Linked(layers, more, Set(Cleared(fs, p), p, node))
<1>1. PICK ready : ready = Cleared(fs, p)
  OBVIOUS
<1>2. /\ DOMAIN ready \subseteq DOMAIN fs \cup Above(p)
      /\ \A q \in DOMAIN ready : q \in DOMAIN fs => ready[q] = fs[q]
      /\ \A q \in DOMAIN ready : q \notin DOMAIN fs => ready[q] = Node("dir", Empty, 0)
  <2>1. /\ DOMAIN ready = (IF At(fs, p) = "symlink" THEN DOMAIN fs \ {p} ELSE DOMAIN fs) \cup Above(p)
        /\ \A q \in DOMAIN fs : q # p \/ At(fs, p) # "symlink" => ready[q] = fs[q]
        /\ \A q \in Above(p) \ DOMAIN fs : ready[q] = Node("dir", Empty, 0)
        /\ p \notin Above(p)
    BY <1>1, ClearedIs
  <2> QED
    BY <2>1
<1>3. Node("dir", Empty, 0).kind = "dir"
  BY DEF Node
<1>4. \A q \in DOMAIN ready :
        ready[q].kind = "file" => q \in DOMAIN fs /\ fs[q].kind = "file" /\ ready[q].ino = fs[q].ino
  BY <1>2, <1>3
<1>5. Linked(layers, more, ready)
  BY <1>4, LinkedKept
<1>6. IsFiniteSet(DOMAIN fs \cup Above(p))
  BY AboveFinite, FS_Union
<1>7. IsFiniteSet(DOMAIN ready)
  BY <1>2, <1>6, FS_Subset
<1>8. ASSUME NEW node, node.kind # "file" PROVE Linked(layers, more, Set(ready, p, node))
  <2>1. PICK new : new = Set(ready, p, node)
    OBVIOUS
  <2>2. DOMAIN new = DOMAIN ready \cup {p} /\ new[p] = node /\ \A q \in DOMAIN ready : q # p => new[q] = ready[q]
    BY <2>1 DEF Set
  <2>3. \A q \in DOMAIN new :
          new[q].kind = "file" => q \in DOMAIN fs /\ fs[q].kind = "file" /\ new[q].ino = fs[q].ino
    BY <1>4, <1>8, <2>2
  <2> QED
    BY <2>1, <2>3, LinkedKept
<1> QED
  BY <1>1, <1>5, <1>7, <1>8

LEMMA FaithfulMarker ==
  ASSUME NEW layers \in Seq(Seq(EntryType)), Plain(layers), NEW at \in Positions(layers),
         NEW past, past = Past(layers, at), NEW e, e = EntryAt(layers, at), IsMarker(e),
         NEW fs, Faithful(layers, past, fs)
  PROVE  Faithful(layers, past \cup {at}, Strike(fs, e))
<1>1. PICK new : new = Strike(fs, e)
  OBVIOUS
<1>2. DOMAIN new \subseteq DOMAIN fs /\ \A q \in DOMAIN new : new[q] = fs[q]
  BY <1>1 DEF Strike, Restrict
<1>3. IsFiniteSet(DOMAIN new)
  BY <1>2, FS_Subset DEF Faithful
<1>4. Linked(layers, past \cup {at}, new)
  BY <1>2, LinkedKept DEF Faithful
<1>5. Unpacked(layers, past \cup {at}, new)
  BY <1>1, UnpackMarker DEF Faithful
<1> QED
  BY <1>1, <1>3, <1>4, <1>5 DEF Faithful

LEMMA FaithfulDir ==
  ASSUME NEW layers \in Seq(Seq(EntryType)), NEW at \in Positions(layers),
         NEW past, past = Past(layers, at), NEW e, e = EntryAt(layers, at), e.kind = "dir",
         NEW fs, IsTree(fs), Faithful(layers, past, fs), ~Refused(fs, e), NEW data
  PROVE  Faithful(layers, past \cup {at}, Apply(fs, e, data))
<1>1. PICK p, ready : p = e.path /\ ready = Cleared(fs, p)
  OBVIOUS
<1>2. p \in Path /\ ~IsMarker(e)
  BY <1>1, PositionIs DEF EntryType, IsMarker
<1>3. ~BelowFile(fs, p) /\ At(fs, p) # "file"
  BY <1>1 DEF Refused, Unfit
<1>4. Apply(fs, e, data) = IF At(ready, p) = "dir" THEN ready ELSE Set(ready, p, Node("dir", Empty, 0))
  BY <1>1 DEF Apply, IsMarker
<1>5. At(ready, p) = IF At(fs, p) = "symlink" THEN "nothing" ELSE At(fs, p)
  BY <1>1, <1>2, <1>3, ClearedIs
<1>6. Gives(layers, at) = <<"dir", Empty>>
  BY GivesKind
<1>7. CASE At(ready, p) = "dir"
  <2>1. At(fs, p) = "dir" /\ p \in DOMAIN fs /\ fs[p].kind = "dir"
    BY <1>5, <1>7 DEF At
  <2>2. Puts(fs, ready, p, <<fs[p].kind, fs[p].data>>)
    BY <1>1, <1>2, <1>3, <2>1, PutsReady
  <2>3. Dated(layers, past, p, <<"dir", fs[p].data>>)
    BY <2>1 DEF Faithful, Unpacked
  <2>4. fs[p].data = Empty
    BY <2>3, GivesKind DEF Dated
  <2>5. Linked(layers, past \cup {at}, ready)
    BY <1>1, <1>2, <1>3, ReadyLinked DEF Faithful
  <2>6. Puts(fs, ready, e.path, Gives(layers, at))
    BY <1>1, <1>6, <2>1, <2>2, <2>4
  <2> QED
    BY <1>2, <1>4, <1>7, <2>5, <2>6, FaithfulPut
<1>8. CASE At(ready, p) # "dir"
  <2>1. PICK node : node = Node("dir", Empty, 0)
    OBVIOUS
  <2>2. node.kind = "dir" /\ node.data = Empty
    BY <2>1 DEF Node
  <2>3. Puts(fs, Set(ready, p, node), p, <<node.kind, node.data>>)
    BY <1>1, <1>2, <1>3, PutsSet
  <2>4. Puts(fs, Set(ready, p, node), e.path, Gives(layers, at))
    BY <1>1, <1>6, <2>2, <2>3
  <2>5. Linked(layers, past \cup {at}, Set(ready, p, node))
    BY <1>1, <1>2, <1>3, <2>2, ReadyLinked DEF Faithful
  <2> QED
    BY <1>2, <1>4, <1>8, <2>1, <2>4, <2>5, FaithfulPut
<1> QED
  BY <1>7, <1>8

LEMMA FaithfulSymlink ==
  ASSUME NEW layers \in Seq(Seq(EntryType)), NEW at \in Positions(layers),
         NEW past, past = Past(layers, at), NEW e, e = EntryAt(layers, at), e.kind = "symlink",
         NEW fs, Faithful(layers, past, fs), ~Refused(fs, e)
  PROVE  Faithful(layers, past \cup {at}, Apply(fs, e, at[1]))
<1>1. PICK p, ready, node : p = e.path /\ ready = Cleared(fs, p) /\ node = Node("symlink", at[1], 0)
  OBVIOUS
<1>2. p \in Path /\ ~IsMarker(e)
  BY <1>1, PositionIs DEF EntryType, IsMarker
<1>3. ~BelowFile(fs, p)
  BY <1>1 DEF Refused, Unfit
<1>4. Apply(fs, e, at[1]) = Set(ready, p, node)
  BY <1>1 DEF Apply, IsMarker
<1>5. Gives(layers, at) = <<"symlink", at[1]>> /\ node.kind = "symlink" /\ node.data = at[1]
  BY <1>1, GivesKind DEF Node
<1>6. Puts(fs, Set(ready, p, node), p, <<node.kind, node.data>>)
  BY <1>1, <1>2, <1>3, PutsSet
<1>7. Puts(fs, Set(ready, p, node), e.path, Gives(layers, at))
  BY <1>1, <1>5, <1>6
<1>8. Linked(layers, past \cup {at}, Set(ready, p, node))
  BY <1>1, <1>2, <1>3, <1>5, ReadyLinked DEF Faithful
<1> QED
  BY <1>2, <1>4, <1>7, <1>8, FaithfulPut

\* A file that is new.
LEMMA WrittenNew ==
  ASSUME NEW layers, NEW past, NEW more, past \subseteq more, NEW fs, IsTree(fs),
         Faithful(layers, past, fs),
         NEW p \in Path, ~BelowFile(fs, p), At(fs, p) \in {"nothing", "symlink"}, NEW data
  PROVE  /\ Puts(fs, Write(Cleared(fs, p), p, data), p, <<"file", data>>)
         /\ Linked(layers, more, Write(Cleared(fs, p), p, data))
<1>1. PICK ready, node : ready = Cleared(fs, p) /\ node = Node("file", data, Unused(ready))
  OBVIOUS
<1>2. At(ready, p) = "nothing"
  BY <1>1, ClearedIs
<1>3. Linked(layers, more, ready) /\ IsFiniteSet(DOMAIN ready)
  BY <1>1, ReadyLinked DEF Faithful
<1>4. Write(ready, p, data) = Set(ready, p, node)
  BY <1>1, <1>2 DEF Write
<1>5. p \notin DOMAIN ready
  <2>1. /\ DOMAIN ready = (IF At(fs, p) = "symlink" THEN DOMAIN fs \ {p} ELSE DOMAIN fs) \cup Above(p)
        /\ p \notin Above(p)
    BY <1>1, ClearedIs
  <2>2. p \in DOMAIN fs => At(fs, p) # "nothing"
    BY DEF At, IsTree
  <2> QED
    BY <2>1, <2>2
<1>6. Linked(layers, more, Set(ready, p, node))
  BY <1>1, <1>3, <1>5, LinkedNew
<1>7. node.kind = "file" /\ node.data = data
  BY <1>1 DEF Node
<1>8. Puts(fs, Set(ready, p, node), p, <<node.kind, node.data>>)
  BY <1>1, PutsSet
<1> QED
  BY <1>1, <1>4, <1>6, <1>7, <1>8

LEMMA FaithfulFile ==
  ASSUME NEW layers \in Seq(Seq(EntryType)), Plain(layers), NEW at \in Positions(layers),
         NEW past, past = Past(layers, at), NEW e, e = EntryAt(layers, at), e.kind = "file",
         NEW fs, IsTree(fs), AreNodes(fs), Faithful(layers, past, fs), ~Refused(fs, e)
  PROVE  Faithful(layers, past \cup {at}, Apply(fs, e, at[1]))
<1>1. PICK p, data, new : p = e.path /\ data = at[1] /\ new = Write(Cleared(fs, p), p, data)
  OBVIOUS
<1>2. p \in Path /\ ~IsMarker(e)
  BY <1>1, PositionIs DEF EntryType, IsMarker
<1>3. ~BelowFile(fs, p) /\ At(fs, p) # "dir"
  BY <1>1 DEF Refused, Unfit
<1>4. Apply(fs, e, at[1]) = new
  BY <1>1 DEF Apply, IsMarker
<1>5. Gives(layers, at) = <<"file", data>>
  BY <1>1, GivesKind
<1>6. Puts(fs, new, p, <<"file", data>>) /\ Linked(layers, past \cup {at}, new)
  <2>1. CASE At(fs, p) = "file"
    <3>1. p \in DOMAIN fs
      BY <2>1 DEF At
    <3>2. \A q \in DOMAIN fs : ~SameFile(fs, p, q)
      BY <1>1, <3>1, Unlinked DEF Faithful
    <3>3. /\ Puts(fs, new, p, <<"file", data>>)
          /\ \A q \in DOMAIN new :
               new[q].kind = "file" => q \in DOMAIN fs /\ fs[q].kind = "file" /\ new[q].ino = fs[q].ino
      BY <1>1, <1>2, <1>3, <2>1, <3>2, PutsWritten
    <3>4. Linked(layers, past \cup {at}, new)
      BY <3>3, LinkedKept DEF Faithful
    <3> QED
      BY <3>3, <3>4
  <2>2. CASE At(fs, p) \in {"nothing", "symlink"}
    BY <1>1, <1>2, <1>3, <2>2, WrittenNew
  <2> QED
    BY <1>3, <2>1, <2>2 DEF IsTree, At
<1> QED
  BY <1>1, <1>2, <1>4, <1>5, <1>6, FaithfulPut

LEMMA FaithfulLink ==
  ASSUME NEW layers \in Seq(Seq(EntryType)), Plain(layers), NEW at \in Positions(layers),
         NEW past, past = Past(layers, at), NEW e, e = EntryAt(layers, at), e.kind = "hardlink",
         NEW fs, IsTree(fs), AreNodes(fs), Faithful(layers, past, fs), ~Refused(fs, e), NEW data
  PROVE  Faithful(layers, past \cup {at}, Apply(fs, e, data))
<1>1. PICK p, to, ready : p = e.path /\ to = e.to /\ ready = Cleared(fs, p)
  OBVIOUS
<1>2. p \in Path /\ ~IsMarker(e)
  BY <1>1, PositionIs DEF EntryType, IsMarker
<1>3. ~BelowFile(fs, p) /\ ~BelowFile(ready, p)
  <2>1. ~BelowFile(fs, p)
    BY <1>1, LinkNotBelow DEF Faithful
  <2>2. \A a \in Above(p) : At(fs, a) # "symlink"
    BY <1>1, <1>2 DEF Refused
  <2> QED
    BY <1>1, <1>2, <2>1, <2>2, TreeCleared
<1>4. Apply(fs, e, data) = Link(ready, p, to)
  BY <1>1 DEF Apply, IsMarker
<1>5. to # p /\ to \notin Above(p)
  BY <1>1, <1>2 DEF Plain, LinksFiles
<1>6. /\ At(ready, p) = IF At(fs, p) = "symlink" THEN "nothing" ELSE At(fs, p)
      /\ At(ready, to) = At(fs, to)
      /\ to \in DOMAIN fs => to \in DOMAIN ready /\ ready[to] = fs[to]
      /\ p \in DOMAIN fs /\ At(fs, p) # "symlink" => ready[p] = fs[p]
  <2>0. p \in Path /\ ~BelowFile(fs, p) /\ ready = Cleared(fs, p)
    BY <1>1, <1>2, <1>3
  <2>1. /\ DOMAIN ready = (IF At(fs, p) = "symlink" THEN DOMAIN fs \ {p} ELSE DOMAIN fs) \cup Above(p)
        /\ \A q \in DOMAIN fs : q # p \/ At(fs, p) # "symlink" => ready[q] = fs[q]
        /\ \A q : q # p /\ q \notin Above(p) => At(ready, q) = At(fs, q)
        /\ At(ready, p) = IF At(fs, p) = "symlink" THEN "nothing" ELSE At(fs, p)
    BY <2>0, ClearedIs
  <2> QED
    BY <1>5, <2>1
<1>7. /\ At(fs, to) \in {"nothing", "file"} /\ At(fs, p) \in {"nothing", "file", "symlink"}
      /\ At(fs, to) = "file" => Gives(layers, at) = <<"file", fs[to].data>>
      /\ At(fs, to) = "nothing" /\ At(fs, p) = "file" => Gives(layers, at) = <<"file", fs[p].data>>
      /\ At(fs, to) = "nothing" /\ At(fs, p) # "file" => Gives(layers, at) = <<"file", Empty>>
  BY <1>1, LinkGives DEF Faithful
<1>8. Linked(layers, past, fs) /\ IsFiniteSet(DOMAIN fs)
  BY DEF Faithful
<1>9. CASE At(fs, p) # "file" /\ At(fs, to) = "file"
  <2>1. Link(ready, p, to) = Set(ready, p, fs[to])
    BY <1>3, <1>6, <1>7, <1>9 DEF Link, At
  <2>2. to \in DOMAIN fs /\ fs[to].kind = "file"
    BY <1>9 DEF At
  <2>3. Puts(fs, Set(ready, p, fs[to]), p, <<fs[to].kind, fs[to].data>>)
    BY <1>1, <1>2, <1>3, PutsSet
  <2>4. p \notin DOMAIN ready
    <3>1. p \in DOMAIN ready => ready[p].kind \in {"dir", "file", "symlink"}
      <4>1. IsTree(ready)
        BY <1>1, <1>2, TreeCleared DEF Refused
      <4> QED
        BY <4>1 DEF IsTree
    <3> QED
      BY <1>6, <1>7, <1>9, <3>1 DEF At
  <2>5. Linked(layers, past \cup {at}, ready)
    BY <1>1, <1>2, <1>3, <1>8, ReadyLinked
  <2>6. Linked(layers, past \cup {at}, Set(ready, p, ready[to]))
    BY <1>1, <1>6, <2>2, <2>4, <2>5, LinkedOneMore
  <2> QED
    BY <1>1, <1>2, <1>4, <1>6, <1>7, <1>9, <2>1, <2>2, <2>3, <2>6, FaithfulPut
<1>10. CASE At(fs, p) # "file" /\ At(fs, to) = "nothing"
  <2>1. Link(ready, p, to) = Write(ready, p, Empty)
    BY <1>3, <1>6, <1>7, <1>10 DEF Link
  <2>2. Puts(fs, Write(ready, p, Empty), p, <<"file", Empty>>)
        /\ Linked(layers, past \cup {at}, Write(ready, p, Empty))
    BY <1>1, <1>2, <1>3, <1>7, <1>10, WrittenNew
  <2> QED
    BY <1>1, <1>2, <1>4, <1>7, <1>10, <2>1, <2>2, FaithfulPut
<1>11. CASE At(fs, p) = "file" /\ At(fs, to) = "file"
  <2>1. p \in DOMAIN fs /\ to \in DOMAIN fs /\ fs[p].kind = "file" /\ fs[to].kind = "file"
    BY <1>11 DEF At
  <2>2. \A q \in DOMAIN fs : ~SameFile(fs, p, q)
    BY <1>1, <1>8, <2>1, Unlinked
  <2>3. ready[p] = fs[p] /\ ready[to] = fs[to]
    BY <1>6, <1>11, <2>1
  <2>4. ready[p].ino # ready[to].ino
    BY <1>5, <2>1, <2>2, <2>3 DEF SameFile
  <2>5. Link(ready, p, to) = Write(ready, p, fs[to].data)
    BY <1>6, <1>11, <2>3, <2>4 DEF Link
  <2>6. PICK new : new = Write(ready, p, fs[to].data)
    OBVIOUS
  <2>7. /\ Puts(fs, new, p, <<"file", fs[to].data>>)
        /\ \A q \in DOMAIN new :
             new[q].kind = "file" => q \in DOMAIN fs /\ fs[q].kind = "file" /\ new[q].ino = fs[q].ino
    BY <1>1, <1>2, <1>3, <1>11, <2>2, <2>6, PutsWritten
  <2>8. Linked(layers, past \cup {at}, new)
    BY <1>8, <2>7, LinkedKept
  <2> QED
    BY <1>1, <1>2, <1>4, <1>7, <1>11, <2>5, <2>6, <2>7, <2>8, FaithfulPut
<1>12. CASE At(fs, p) = "file" /\ At(fs, to) = "nothing"
  <2>1. Link(ready, p, to) = ready
    BY <1>6, <1>12 DEF Link
  <2>2. fs[p].kind = "file"
    BY <1>12 DEF At
  <2>3. Puts(fs, ready, p, <<fs[p].kind, fs[p].data>>)
    BY <1>1, <1>2, <1>3, <1>12, PutsReady
  <2>4. Linked(layers, past \cup {at}, ready)
    BY <1>1, <1>2, <1>3, <1>8, ReadyLinked
  <2> QED
    BY <1>1, <1>2, <1>4, <1>7, <1>12, <2>1, <2>2, <2>3, <2>4, FaithfulPut
<1> QED
  BY <1>7, <1>9, <1>10, <1>11, <1>12

\* A round of the unpacker adds its entry to what the tree stands for.
LEMMA FaithfulApply ==
  ASSUME NEW layers \in Seq(Seq(EntryType)), Plain(layers), NEW at \in Positions(layers),
         NEW past, past = Past(layers, at), NEW e, e = EntryAt(layers, at),
         NEW fs, IsTree(fs), AreNodes(fs), Faithful(layers, past, fs), ~Refused(fs, e)
  PROVE  Faithful(layers, past \cup {at}, Apply(fs, e, at[1]))
<1>1. e.kind \in {"dir", "file", "symlink", "hardlink", "whiteout", "opaque"}
  BY PositionIs DEF EntryType, Kind, Refused, Plain, NoOthers
<1>2. CASE IsMarker(e)
  <2>1. Apply(fs, e, at[1]) = Strike(fs, e)
    BY <1>2 DEF Apply, IsMarker
  <2> QED
    BY <1>2, <2>1, FaithfulMarker
<1>3. CASE e.kind = "dir"
  BY <1>3, FaithfulDir
<1>4. CASE e.kind = "symlink"
  BY <1>4, FaithfulSymlink
<1>5. CASE e.kind = "file"
  BY <1>5, FaithfulFile
<1>6. CASE e.kind = "hardlink"
  BY <1>6, FaithfulLink
<1> QED
  BY <1>1, <1>2, <1>3, <1>4, <1>5, <1>6 DEF IsMarker

\* In the end the tree is what the layers stand for.
LEMMA UnpackedView ==
  ASSUME NEW layers \in Seq(Seq(EntryType)), NEW fs, Unpacked(layers, Positions(layers), fs)
  PROVE  Shape(fs) = View(layers)
<1>1. PICK all, end, n : all = Positions(layers) /\ n = Len(layers) /\ end = <<n + 1, 1>>
  OBVIOUS
<1>2. n \in Nat /\ DOMAIN layers = 1..n
  BY <1>1
<1>3. ASSUME NEW a \in all, NEW p, NEW upto \in {n, n + 1}
      PROVE  Hidden(layers, p, a[1], upto) <=> Struck(layers, all, a, p)
  <2>1. ASSUME NEW b \in all, a[1] < b[1], IsMarker(EntryAt(layers, b)), Covers(EntryAt(layers, b), p)
        PROVE  Hidden(layers, p, a[1], upto)
    <3>1. b[1] \in DOMAIN layers /\ b[1] <= upto /\ EntryAt(layers, b) \in Range(layers[b[1]])
      BY <1>1, <1>2, <2>1, PositionIs
    <3> QED
      BY <2>1, <3>1 DEF Hidden
  <2>2. ASSUME NEW m \in DOMAIN layers, a[1] < m,
               NEW i \in DOMAIN layers[m], IsMarker(layers[m][i]), Covers(layers[m][i], p)
        PROVE  Struck(layers, all, a, p)
    <3>1. PICK b : b = <<m, i>>
      OBVIOUS
    <3>2. b \in all /\ b[1] = m /\ EntryAt(layers, b) = layers[m][i]
      BY <1>1, <3>1, PositionOf DEF EntryAt
    <3> QED
      BY <2>2, <3>2 DEF Struck
  <2>3. Struck(layers, all, a, p) => Hidden(layers, p, a[1], upto)
    BY <2>1 DEF Struck
  <2>4. Hidden(layers, p, a[1], upto) => Struck(layers, all, a, p)
    BY <2>2 DEF Hidden, Range
  <2> QED
    BY <2>3, <2>4
<1>4. \A a \in all : Before(a, end)
  BY <1>1, <1>2, PositionIs DEF Before
<1>5. end[1] = n + 1
  BY <1>1
<1>6. ASSUME NEW p, NEW a PROVE a \in Earlier(layers, p, end) <=> Bears(layers, all, a, p)
  BY <1>1, <1>3, <1>4, <1>5 DEF Earlier, Bears, Stands, Makes
<1> DEFINE Shown(a) == {q \in {EntryAt(layers, a).path} \cup Above(EntryAt(layers, a).path) :
                          Makes(EntryAt(layers, a), q) /\ ~Hidden(layers, q, a[1], n)}
           dom == UNION {Shown(a) : a \in all}
<1>7. View(layers) = [p \in dom |-> IF Earlier(layers, p, end) = {} THEN <<"dir", Empty>>
                                    ELSE Gives(layers, Newest(Earlier(layers, p, end)))]
  BY <1>1 DEF View
<1>8. ASSUME NEW p PROVE p \in dom <=> \E a \in all : Stands(layers, all, a, p)
  <2>1. ASSUME NEW a \in all PROVE p \in Shown(a) <=> Stands(layers, all, a, p)
    <3>1. Hidden(layers, p, a[1], n) <=> Struck(layers, all, a, p)
      BY <1>3, <2>1
    <3> QED
      BY <2>1, <3>1 DEF Stands, Makes
  <2>2. p \in dom <=> \E a \in all : p \in Shown(a)
    OBVIOUS
  <2> QED
    BY <2>1, <2>2
<1>9. DOMAIN fs = dom
  BY <1>1, <1>8 DEF Unpacked
<1>10. ASSUME NEW p \in DOMAIN fs
       PROVE  <<fs[p].kind, fs[p].data>> =
                IF Earlier(layers, p, end) = {} THEN <<"dir", Empty>>
                ELSE Gives(layers, Newest(Earlier(layers, p, end)))
  <2>1. PICK S : S = Earlier(layers, p, end)
    OBVIOUS
  <2>2. \A a : a \in S <=> Bears(layers, all, a, p)
    BY <1>6, <2>1
  <2>3. Dated(layers, all, p, <<fs[p].kind, fs[p].data>>)
    BY <1>1 DEF Unpacked
  <2>4. CASE (\A a \in all : ~Bears(layers, all, a, p)) /\ <<fs[p].kind, fs[p].data>> = <<"dir", Empty>>
    <3>1. S = {}
      BY <2>2, <2>4 DEF Bears, Stands
    <3> QED
      BY <2>1, <2>4, <3>1
  <2>5. ASSUME NEW a \in all, IsNewest(layers, all, a, p), <<fs[p].kind, fs[p].data>> = Gives(layers, a)
        PROVE  S # {} /\ <<fs[p].kind, fs[p].data>> = Gives(layers, Newest(S))
    BY <1>1, <2>2, <2>5, NewestIs
  <2> QED
    BY <2>1, <2>3, <2>4, <2>5 DEF Dated
<1>11. Shape(fs) = [p \in DOMAIN fs |-> <<fs[p].kind, fs[p].data>>]
  BY DEF Shape
<1> HIDE DEF dom
<1> QED
  BY <1>7, <1>9, <1>10, <1>11

----------------------------------------------------------------------------
(* The pull.                                                               *)

\* Where a pull is in its layers: at an entry, or in front of a layer.
Cursor(p) == <<p.layer, IF p.at = "unpack" THEN p.entry ELSE 1>>

LEMMA PastFirst ==
  ASSUME NEW layers \in Seq(Seq(EntryType))
  PROVE  Past(layers, <<1, 1>>) = {} /\ Faithful(layers, {}, NoTree)
<1>1. ASSUME NEW a \in Positions(layers) PROVE ~Before(a, <<1, 1>>)
  <2>1. a[1] \in Nat /\ a[1] > 0 /\ a[2] \in Nat /\ a[2] \in DOMAIN layers[a[1]] /\ layers[a[1]] \in Seq(EntryType)
    BY PositionIs
  <2>2. a[2] > 0
    BY <2>1
  <2> QED
    BY <2>1, <2>2 DEF Before
<1>2. DOMAIN NoTree = {}
  BY DEF NoTree
<1> QED
  BY <1>1, <1>2, FS_EmptySet DEF Past, Faithful, Unpacked, Linked

LEMMA PastNext ==
  ASSUME NEW layers \in Seq(Seq(EntryType)), NEW k \in DOMAIN layers, NEW i \in DOMAIN layers[k]
  PROVE  Past(layers, <<k, i + 1>>) = Past(layers, <<k, i>>) \cup {<<k, i>>}
<1>1. <<k, i>> \in Positions(layers)
  BY PositionOf
<1>2. k \in Nat /\ i \in Nat
  BY <1>1, PositionIs
<1>3. ASSUME NEW a \in Positions(layers)
      PROVE  Before(a, <<k, i + 1>>) <=> Before(a, <<k, i>>) \/ a = <<k, i>>
  <2>1. a = <<a[1], a[2]>> /\ a[1] \in Nat /\ a[2] \in Nat
    BY PositionIs
  <2>2. a = <<k, i>> <=> a[1] = k /\ a[2] = i
    BY <2>1
  <2> QED
    BY <1>2, <2>1, <2>2 DEF Before
<1> QED
  BY <1>1, <1>3 DEF Past

LEMMA PastLayer ==
  ASSUME NEW layers \in Seq(Seq(EntryType)), NEW k \in DOMAIN layers,
         NEW i \in Nat, i > 0, i \notin DOMAIN layers[k]
  PROVE  Past(layers, <<k + 1, 1>>) = Past(layers, <<k, i>>)
<1>1. PICK n \in Nat : n = Len(layers[k]) /\ DOMAIN layers[k] = 1..n
  OBVIOUS
<1>2. k \in Nat
  OBVIOUS
<1>3. ASSUME NEW a \in Positions(layers) PROVE Before(a, <<k + 1, 1>>) <=> Before(a, <<k, i>>)
  <2>1. a[1] \in Nat /\ a[2] \in Nat /\ a[2] \in DOMAIN layers[a[1]] /\ a[1] \in DOMAIN layers
    BY PositionIs
  <2>2. a[2] > 0
    BY <2>1
  <2>3. a[1] = k => a[2] <= n
    BY <1>1, <2>1
  <2> QED
    BY <1>1, <1>2, <2>1, <2>2, <2>3 DEF Before
<1> QED
  BY <1>3 DEF Past

LEMMA PastLast ==
  ASSUME NEW layers \in Seq(Seq(EntryType)), NEW k \in Nat, k > 0, k \notin DOMAIN layers
  PROVE  Past(layers, <<k, 1>>) = Positions(layers)
<1>1. ASSUME NEW a \in Positions(layers) PROVE Before(a, <<k, 1>>)
  <2>1. PICK n \in Nat : n = Len(layers) /\ DOMAIN layers = 1..n
    OBVIOUS
  <2>2. a[1] \in Nat /\ a[1] \in DOMAIN layers
    BY PositionIs
  <2> QED
    BY <2>1, <2>2 DEF Before
<1> QED
  BY <1>1 DEF Past

\* A step of a pull that is at its layers.
Stays ==
  /\ UNCHANGED <<image, bundle, result>> /\ pull'.at \in {"layer", "unpack"}
  /\ pull'.layer = pull.layer /\ Cursor(pull') = Cursor(pull)
  /\ pull'.at = "unpack" => pull'.entry = 1

LEMMA StepLayers ==
  ASSUME pull \in Run, Step, pull.at \in {"layer", "unpack"}
  PROVE  \/ Unpack \/ LayerDone \/ Success \/ Stays
         \/ pull'.at = "none" /\ result' = "error"
<1>1. CASE Manifest \/ Platform \/ Prepare \/ RemoveOld \/ Rename
  BY <1>1 DEF Manifest, Platform, Prepare, RemoveOld, Rename
<1>2. CASE PinnedIndex \/ NoPlatform \/ RequestFails \/ RedirectLimit \/ DigestMismatch
  BY <1>2 DEF PinnedIndex, NoPlatform, RequestFails, RedirectLimit, DigestMismatch, Fail, NoPull
<1>3. ASSUME NEW spoils \in BOOLEAN, Redirected(spoils) PROVE Stays
  <2>1. /\ pull.at = "layer" /\ UNCHANGED <<image, bundle, result>>
        /\ pull' = [pull EXCEPT !.hops = @ + 1, !.body = Received(spoils)]
    BY <1>3 DEF Redirected, Fetching
  <2>2. pull'.at = pull.at /\ pull'.layer = pull.layer
    BY <2>1 DEF Run
  <2> QED
    BY <2>1, <2>2 DEF Stays, Cursor
<1>4. CASE Delivered
  <2>1. /\ pull.at = "layer" /\ UNCHANGED <<image, bundle, result>>
        /\ pull' = [pull EXCEPT !.at = "unpack", !.entry = 1, !.hops = 0]
    BY <1>4 DEF Delivered, Fetching, AfterBlob
  <2>2. pull'.at = "unpack" /\ pull'.layer = pull.layer /\ pull'.entry = 1
    BY <2>1 DEF Run
  <2> QED
    BY <2>1, <2>2 DEF Stays, Cursor
<1>5. CASE Refuse \/ WriteFails \/ UnpackFails
  <2>1. Fail
    BY <1>5, Zenon DEF Refuse, WriteFails, UnpackFails
  <2> QED
    BY <2>1 DEF Fail, NoPull
<1> QED
  BY <1>1, <1>2, <1>3, <1>4, <1>5 DEF Step

\* While a pull is at its layers the bundle is what the entries so far stand for.
AtLayers ==
  /\ pull.layer > 0
  /\ pull.at = "unpack" => pull.entry > 0
  /\ Plain(image.layers) => Faithful(image.layers, Past(image.layers, Cursor(pull)), bundle.rootfs)

FlatInv ==
  /\ OriginInv
  /\ pull.at \in {"layer", "unpack"} => AtLayers
  /\ Flattened

LEMMA LayersAre == OriginInv => image.layers \in Seq(Seq(EntryType)) /\ pull.layer \in Nat /\ pull.entry \in Nat
BY ImageAssumption DEF OriginInv, TreeInv, EntryType, Run

LEMMA UnpackStays ==
  ASSUME FlatInv, Unpack
  PROVE  AtLayers'
<1>1. PICK layers, k, i : layers = image.layers /\ k = pull.layer /\ i = pull.entry
  OBVIOUS
<1>2. PICK there, fs : there \in BOOLEAN /\ bundle = [there |-> there, rootfs |-> fs] /\ IsTree(fs)
  BY DEF FlatInv, OriginInv, TreeInv
<1>3. /\ pull.at = "unpack" /\ i \in DOMAIN layers[k] /\ UNCHANGED image /\ ~Refused(fs, ThisEntry)
      /\ pull' = [pull EXCEPT !.entry = @ + 1]
  BY <1>1, <1>2 DEF Unpack, Unpacking
<1>4. layers \in Seq(Seq(EntryType)) /\ k \in DOMAIN layers /\ k \in Nat /\ i \in Nat /\ k > 0
  BY <1>1, <1>3, LayersAre DEF FlatInv, OriginInv, TreeInv, AtLayers
<1>5. pull'.at = "unpack" /\ pull'.layer = k /\ pull'.entry = i + 1
  BY <1>1, <1>3 DEF FlatInv, OriginInv, TreeInv, Run
<1>6. PICK at, e : at = <<k, i>> /\ e = EntryAt(layers, at)
  OBVIOUS
<1>7. at \in Positions(layers) /\ at[1] = k /\ e = ThisEntry
  BY <1>1, <1>3, <1>4, <1>6, PositionOf DEF EntryAt, ThisEntry
<1>8. bundle' = [there |-> there, rootfs |-> Apply(fs, e, at[1])]
  BY <1>1, <1>2, <1>7 DEF Unpack
<1>9. AreNodes(fs)
  BY <1>2, <1>3 DEF FlatInv, OriginInv, Made, MadeOf, IsFrom, AreNodes
<1>10. ASSUME Plain(layers) PROVE Faithful(layers, Past(layers, <<k, i + 1>>), Apply(fs, e, at[1]))
  <2>1. PICK past : past = Past(layers, at)
    OBVIOUS
  <2>2. Faithful(layers, past, fs)
    BY <1>1, <1>2, <1>3, <1>6, <1>10, <2>1 DEF FlatInv, AtLayers, Cursor
  <2>3. ~Refused(fs, e)
    BY <1>3, <1>7
  <2>4. Faithful(layers, past \cup {at}, Apply(fs, e, at[1]))
    BY <1>2, <1>4, <1>6, <1>7, <1>9, <1>10, <2>1, <2>2, <2>3, FaithfulApply
  <2>5. Past(layers, <<k, i + 1>>) = past \cup {at}
    BY <1>3, <1>4, <1>6, <2>1, PastNext
  <2> QED
    BY <2>4, <2>5
<1>11. Cursor(pull') = <<k, i + 1>> /\ image'.layers = layers /\ bundle'.rootfs = Apply(fs, e, at[1])
  BY <1>1, <1>3, <1>5, <1>8 DEF Cursor
<1> QED
  BY <1>4, <1>5, <1>10, <1>11 DEF AtLayers

LEMMA LayerDoneStays ==
  ASSUME FlatInv, LayerDone
  PROVE  AtLayers'
<1>1. PICK layers, k, i : layers = image.layers /\ k = pull.layer /\ i = pull.entry
  OBVIOUS
<1>2. /\ pull.at = "unpack" /\ i \notin DOMAIN layers[k] /\ UNCHANGED <<image, bundle>>
      /\ pull' = [pull EXCEPT !.at = "layer", !.layer = @ + 1]
  BY <1>1 DEF LayerDone, Unpacking
<1>3. layers \in Seq(Seq(EntryType)) /\ k \in DOMAIN layers /\ k \in Nat /\ i \in Nat /\ k > 0 /\ i > 0
  BY <1>1, <1>2, LayersAre DEF FlatInv, OriginInv, TreeInv, AtLayers
<1>4. pull'.at = "layer" /\ pull'.layer = k + 1
  BY <1>1, <1>2 DEF FlatInv, OriginInv, TreeInv, Run
<1>5. Past(layers, <<k + 1, 1>>) = Past(layers, <<k, i>>)
  BY <1>2, <1>3, PastLayer
<1>6. Cursor(pull') = <<k + 1, 1>> /\ Cursor(pull) = <<k, i>>
  BY <1>1, <1>2, <1>4 DEF Cursor
<1>7. Plain(layers) => Faithful(layers, Past(layers, Cursor(pull')), bundle.rootfs)
  BY <1>1, <1>2, <1>5, <1>6 DEF FlatInv, AtLayers
<1>8. k + 1 > 0
  BY <1>3
<1> QED
  BY <1>1, <1>2, <1>4, <1>7, <1>8 DEF AtLayers

LEMMA SuccessFlattens ==
  ASSUME FlatInv, Success
  PROVE  Flattened'
<1>1. PICK layers, k, fs : layers = image.layers /\ k = pull.layer /\ fs = bundle.rootfs
  OBVIOUS
<1>2. pull.at = "layer" /\ k \notin DOMAIN layers /\ UNCHANGED <<image, bundle>>
  BY <1>1 DEF Success, Fetching
<1>3. layers \in Seq(Seq(EntryType)) /\ k \in Nat /\ k > 0
  BY <1>1, <1>2, LayersAre DEF FlatInv, AtLayers
<1>4. bundle.there
  BY <1>2 DEF FlatInv, OriginInv, Made
<1>5. ASSUME Plain(layers) PROVE Shape(fs) = View(layers)
  <2>1. Faithful(layers, Past(layers, <<k, 1>>), fs)
    BY <1>1, <1>2, <1>5 DEF FlatInv, AtLayers, Cursor
  <2>2. Unpacked(layers, Positions(layers), fs)
    BY <1>2, <1>3, <2>1, PastLast DEF Faithful
  <2> QED
    BY <1>3, <2>2, UnpackedView
<1> QED
  BY <1>1, <1>2, <1>4, <1>5 DEF Flattened

LEMMA FlatStep == FlatInv /\ [Next]_vars => FlatInv'
<1> SUFFICES ASSUME FlatInv, [Next]_vars PROVE FlatInv'
  OBVIOUS
<1>1. OriginInv' /\ pull \in Run
  BY OriginStep DEF FlatInv, OriginInv, TreeInv
<1>2. result' # "ok" => Flattened'
  BY DEF Flattened
<1>3. CASE Step
  <2>1. result = "running"
    BY <1>3, StepRuns DEF FlatInv, OriginInv, EndInv
  <2>2. CASE pull.at \in {"layer", "unpack"}
    <3>1. CASE Unpack
      <4>1. result' = "running"
        BY <2>1, <3>1 DEF Unpack
      <4> QED
        BY <1>1, <1>2, <3>1, <4>1, UnpackStays DEF FlatInv
    <3>2. CASE LayerDone
      <4>1. result' = "running"
        BY <2>1, <3>2 DEF LayerDone
      <4> QED
        BY <1>1, <1>2, <3>2, <4>1, LayerDoneStays DEF FlatInv
    <3>3. CASE Success
      <4>1. pull'.at = "none"
        BY <3>3 DEF Success, NoPull
      <4> QED
        BY <1>1, <3>3, <4>1, SuccessFlattens DEF FlatInv
    <3>4. CASE Stays
      <4>1. AtLayers'
        BY <2>2, <3>4 DEF Stays, FlatInv, AtLayers
      <4>2. result' = "running"
        BY <2>1, <3>4 DEF Stays
      <4> QED
        BY <1>1, <1>2, <4>1, <4>2 DEF FlatInv
    <3>5. CASE pull'.at = "none" /\ result' = "error"
      BY <1>1, <1>2, <3>5 DEF FlatInv
    <3> QED
      BY <1>1, <1>3, <2>2, <3>1, <3>2, <3>3, <3>4, <3>5, StepLayers
  <2>3. CASE pull.at \notin {"layer", "unpack"}
    <3>1. CASE pull'.at \notin {"layer", "unpack"} /\ (UNCHANGED result \/ result' = "error")
      BY <1>1, <1>2, <2>1, <3>1 DEF FlatInv
    <3>2. CASE Unpack
      BY <2>3, <3>2 DEF Unpack, Unpacking
    <3>3. CASE Rename
      <4>1. /\ bundle' = [there |-> TRUE, rootfs |-> NoTree] /\ UNCHANGED <<image, result>>
            /\ pull' = [pull EXCEPT !.at = "layer", !.layer = 1]
        BY <3>3 DEF Rename
      <4>2. pull'.at = "layer" /\ pull'.layer = 1
        BY <1>1, <4>1 DEF Run
      <4>3. Cursor(pull') = <<1, 1>>
        BY <4>2 DEF Cursor
      <4>4. image.layers \in Seq(Seq(EntryType))
        BY LayersAre DEF FlatInv
      <4>5. Faithful(image'.layers, Past(image'.layers, Cursor(pull')), bundle'.rootfs)
        BY <4>1, <4>3, <4>4, PastFirst
      <4>6. AtLayers'
        BY <4>2, <4>5 DEF AtLayers
      <4> QED
        BY <1>1, <1>2, <2>1, <4>1, <4>6 DEF FlatInv
    <3> QED
      BY <1>1, <1>3, <2>3, <3>1, <3>2, <3>3, StepAtLayers
  <2> QED
    BY <2>2, <2>3
<1>4. ASSUME NEW force \in BOOLEAN, Begin(force) PROVE FlatInv'
  <2>1. pull'.at = "manifest" /\ result' = "running"
    BY <1>4 DEF Begin, NoPull
  <2> QED
    BY <1>1, <1>2, <2>1 DEF FlatInv
<1>5. CASE Kill
  <2>1. pull'.at = "none" /\ result' = "killed"
    BY <1>5 DEF Kill, NoPull
  <2> QED
    BY <1>1, <1>2, <2>1 DEF FlatInv
<1>6. CASE UNCHANGED vars
  BY <1>1, <1>6 DEF vars, FlatInv, AtLayers, Flattened
<1>7. CASE Unsupported
  <2>1. pull.at = "none" /\ UNCHANGED pull /\ result' = "error"
    BY <1>7 DEF Unsupported
  <2> QED
    BY <1>1, <1>2, <2>1 DEF FlatInv
<1> QED
  BY <1>3, <1>4, <1>5, <1>6, <1>7 DEF Next

\* operator-runc.md:201, layer_unpack.hpp:200: for every image whose hard links and markers
\* are plain, whatever was in the bundle and however many pulls have failed or been
\* killed, a pull that succeeds leaves the tree the layers stand for.
THEOREM PullsFlatten == Spec => []Flattened
<1>1. Init => FlatInv
  <2> SUFFICES ASSUME Init PROVE FlatInv
    OBVIOUS
  <2>1. pull.at = "none" /\ result = "none"
    BY DEF Init, NoPull
  <2>2. OriginInv
    BY <2>1, InitTree, InitEnd DEF OriginInv
  <2> QED
    BY <2>1, <2>2 DEF FlatInv, Flattened
<1>2. FlatInv => Flattened
  BY DEF FlatInv
<1> QED
  BY <1>1, <1>2, FlatStep, PTL DEF Spec

----------------------------------------------------------------------------
(* The end of a pull.                                                      *)

\* What a pull has left to do: its phase, its layers, whether the layer has yet to arrive, and
\* the entries of the layer or the redirects that may still come.
Phase(at) ==
  CASE at = "manifest" -> 7 [] at = "platform" -> 6 [] at = "config" -> 5 [] at = "write" -> 4
    [] at = "replace" -> 3 [] at = "rename" -> 2 [] at \in {"layer", "unpack"} -> 1 [] OTHER -> 0
LayersLeft(p, layers) == IF p.at \in {"layer", "unpack"} THEN Len(layers) + 1 - p.layer ELSE 0
Arriving(p) == IF p.at = "layer" THEN 1 ELSE 0
RoundsLeft(p, layers) ==
  IF p.at = "unpack" THEN Len(layers[p.layer]) + 1 - p.entry ELSE MaxHops - p.hops

\* One is in front of the other, by the first of the four that differs.
Nearer(p, q, layers) ==
  \/ Phase(p.at) < Phase(q.at)
  \/ /\ Phase(p.at) = Phase(q.at)
     /\ \/ LayersLeft(p, layers) < LayersLeft(q, layers)
        \/ /\ LayersLeft(p, layers) = LayersLeft(q, layers)
           /\ \/ Arriving(p) < Arriving(q)
              \/ Arriving(p) = Arriving(q) /\ RoundsLeft(p, layers) < RoundsLeft(q, layers)

\* What is left is a number: the count down cannot go below zero.
Counted == LayersLeft(pull, image.layers) \in Nat /\ RoundsLeft(pull, image.layers) \in Nat
\* registry_client.cpp:414 counts the redirects of a blob, layer_unpack.cpp the entries of a layer,
\* and pull_orchestrator.cpp:234 the layers of the image: each step of a pull brings it nearer to its end.
StepsEnd == [][Step => Nearer(pull', pull, image.layers)]_vars

LeftInv ==
  /\ TypeInv
  /\ pull.at \in {"layer", "unpack"} => pull.layer \in 1 .. (Len(image.layers) + 1)
  /\ pull.at = "unpack" => pull.entry \in 1 .. (Len(image.layers[pull.layer]) + 1)

LEMMA ImageIs ==
  ASSUME image \in Image
  PROVE  /\ image.layers \in Seq(Seq(EntryType)) /\ Len(image.layers) \in Nat
         /\ DOMAIN image.layers = 1 .. Len(image.layers)
         /\ \A k \in DOMAIN image.layers : /\ Len(image.layers[k]) \in Nat
                                           /\ DOMAIN image.layers[k] = 1 .. Len(image.layers[k])
<1>1. PICK layers : layers = image.layers
  OBVIOUS
<1>2. layers \in Seq(Seq(EntryType))
  BY <1>1, ImageAssumption DEF EntryType
<1>3. \A k \in DOMAIN layers : layers[k] \in Seq(EntryType)
  BY <1>2
<1> QED
  BY <1>1, <1>2, <1>3

LEMMA LeftStep == LeftInv /\ [Next]_vars => LeftInv'
<1> SUFFICES ASSUME LeftInv, [Next]_vars PROVE LeftInv'
  OBVIOUS
<1>1. TypeInv' /\ pull \in Run /\ image \in Image
  BY TypeStep DEF LeftInv, TypeInv, TreeInv
<1>2. pull'.at \notin {"layer", "unpack"} => LeftInv'
  BY <1>1 DEF LeftInv
<1>3. PICK layers, n : layers = image.layers /\ n = Len(layers)
  OBVIOUS
<1>4. /\ n \in Nat /\ DOMAIN layers = 1..n
      /\ \A k \in DOMAIN layers : Len(layers[k]) \in Nat /\ DOMAIN layers[k] = 1..Len(layers[k])
  BY <1>1, <1>3, ImageIs
<1>5. CASE Step
  <2>1. UNCHANGED image
    BY <1>5, StepImage
  <2>2. CASE Unpack
    <3>1. PICK k, i : k = pull.layer /\ i = pull.entry
      OBVIOUS
    <3>2. /\ k \in DOMAIN layers /\ k \in 1 .. (n + 1) /\ i \in DOMAIN layers[k]
          /\ pull' = [pull EXCEPT !.entry = @ + 1]
      BY <1>3, <2>2, <3>1 DEF Unpack, Unpacking, LeftInv, TypeInv, TreeInv
    <3>3. pull'.layer = k /\ pull'.entry = i + 1
      BY <1>1, <3>1, <3>2 DEF Run
    <3>4. i + 1 \in 1 .. (Len(layers[k]) + 1)
      BY <1>4, <3>2
    <3> QED
      BY <1>1, <1>3, <2>1, <3>2, <3>3, <3>4 DEF LeftInv
  <2>3. CASE LayerDone
    <3>1. PICK k : k = pull.layer
      OBVIOUS
    <3>2. k \in DOMAIN layers /\ pull' = [pull EXCEPT !.at = "layer", !.layer = @ + 1]
      BY <1>3, <2>3, <3>1 DEF LayerDone, LeftInv, TypeInv, TreeInv
    <3>3. pull'.at = "layer" /\ pull'.layer = k + 1
      BY <1>1, <3>1, <3>2 DEF Run
    <3>4. k + 1 \in 1 .. (n + 1)
      BY <1>4, <3>2
    <3> QED
      BY <1>1, <1>3, <2>1, <3>3, <3>4 DEF LeftInv
  <2>4. CASE Rename
    <3>1. pull'.at = "layer" /\ pull'.layer = 1
      BY <1>1, <2>4 DEF Rename, Run
    <3>2. 1 \in 1 .. (n + 1)
      BY <1>4
    <3> QED
      BY <1>1, <1>3, <2>1, <3>1, <3>2 DEF LeftInv
  <2>5. CASE pull.at \in {"layer", "unpack"} /\ Stays
    <3>1. pull'.layer = pull.layer /\ (pull'.at = "unpack" => pull'.entry = 1)
      BY <2>5 DEF Stays
    <3>2. pull.layer \in 1 .. (n + 1)
      BY <1>3, <2>5 DEF LeftInv
    <3>3. pull'.at = "unpack" => pull'.layer \in DOMAIN layers
      BY <1>3, <1>5, StepLayer DEF LeftInv, TypeInv
    <3>4. pull'.at = "unpack" => 1 \in 1 .. (Len(layers[pull'.layer]) + 1)
      BY <1>4, <3>3
    <3> QED
      BY <1>1, <1>3, <2>1, <3>1, <3>2, <3>4 DEF LeftInv
  <2>6. CASE Success
    BY <1>2, <2>6 DEF Success, NoPull
  <2>7. CASE pull.at \in {"layer", "unpack"}
    BY <1>1, <1>2, <1>5, <2>2, <2>3, <2>5, <2>6, <2>7, StepLayers
  <2>8. CASE pull.at \notin {"layer", "unpack"}
    BY <1>1, <1>2, <1>5, <2>2, <2>4, <2>8, StepAtLayers
  <2> QED
    BY <2>7, <2>8
<1>6. ASSUME NEW force \in BOOLEAN, Begin(force) PROVE LeftInv'
  BY <1>2, <1>6 DEF Begin, NoPull
<1>7. CASE Kill
  BY <1>2, <1>7 DEF Kill, NoPull
<1>8. CASE UNCHANGED vars
  BY <1>1, <1>8 DEF vars, LeftInv
<1>9. CASE Unsupported
  BY <1>2, <1>9 DEF Unsupported
<1> QED
  BY <1>5, <1>6, <1>7, <1>8, <1>9 DEF Next

LEMMA LeftCounted == LeftInv => Counted
<1> SUFFICES ASSUME LeftInv PROVE Counted
  OBVIOUS
<1>1. image \in Image /\ pull \in Run /\ pull.hops < MaxHops
  BY DEF LeftInv, TypeInv, TreeInv
<1>2. LayersLeft(pull, image.layers) \in Nat
  BY <1>1, ImageIs DEF LayersLeft, LeftInv
<1>3. CASE pull.at = "unpack"
  <2>1. PICK n \in Nat : n = Len(image.layers[pull.layer])
    BY <1>1, <1>3, ImageIs DEF LeftInv, TypeInv, TreeInv
  <2>2. pull.entry \in 1 .. (n + 1)
    BY <1>3, <2>1 DEF LeftInv
  <2>3. RoundsLeft(pull, image.layers) = n + 1 - pull.entry
    BY <1>3, <2>1 DEF RoundsLeft
  <2> QED
    BY <1>2, <2>2, <2>3 DEF Counted
<1>4. CASE pull.at # "unpack"
  <2>1. pull.hops \in Nat /\ MaxHops \in Nat
    BY <1>1, PullAssumption DEF Run
  <2>2. RoundsLeft(pull, image.layers) = MaxHops - pull.hops
    BY <1>4 DEF RoundsLeft
  <2> QED
    BY <1>1, <1>2, <2>1, <2>2 DEF Counted
<1> QED
  BY <1>3, <1>4

LEMMA StepNearer ==
  ASSUME LeftInv, Step
  PROVE  Nearer(pull', pull, image.layers)
<1>1. image \in Image /\ pull \in Run /\ pull.hops \in Nat /\ MaxHops \in Nat /\ pull.layer \in Nat /\ pull.entry \in Nat
  BY PullAssumption DEF LeftInv, TypeInv, TreeInv, Run
<1>2. PICK layers, n : layers = image.layers /\ n = Len(layers)
  OBVIOUS
<1>3. /\ n \in Nat /\ DOMAIN layers = 1..n
      /\ \A k \in DOMAIN layers : Len(layers[k]) \in Nat
  BY <1>1, <1>2, ImageIs
<1>4. pull.at # "none" /\ Phase(pull.at) > 0
  BY <1>1, StepRuns DEF Phase, Run
<1>5. pull' = NoPull => Nearer(pull', pull, layers)
  BY <1>4 DEF NoPull, Phase, Nearer
<1>6. CASE Manifest \/ Platform \/ Prepare \/ RemoveOld \/ Rename
  <2>1. Phase(pull'.at) < Phase(pull.at)
    <3>1. CASE Manifest
      BY <1>1, <3>1 DEF Manifest, Phase, Run
    <3>2. CASE Platform
      BY <1>1, <3>2 DEF Platform, Phase, Run
    <3>3. CASE Prepare
      BY <1>1, <3>3 DEF Prepare, Phase, Run
    <3>4. CASE RemoveOld
      BY <1>1, <3>4 DEF RemoveOld, Phase, Run
    <3>5. CASE Rename
      BY <1>1, <3>5 DEF Rename, Phase, Run
    <3> QED
      BY <1>6, <3>1, <3>2, <3>3, <3>4, <3>5
  <2> QED
    BY <1>2, <2>1 DEF Nearer
<1>7. CASE PinnedIndex \/ NoPlatform \/ RequestFails \/ RedirectLimit \/ DigestMismatch
  BY <1>2, <1>5, <1>7 DEF PinnedIndex, NoPlatform, RequestFails, RedirectLimit, DigestMismatch, Fail
<1>8. CASE Refuse \/ WriteFails \/ UnpackFails \/ Success
  BY <1>2, <1>5, <1>8 DEF Refuse, WriteFails, UnpackFails, Success, Fail
<1>9. ASSUME NEW spoils \in BOOLEAN, Redirected(spoils) PROVE Nearer(pull', pull, layers)
  <2>1. pull'.at = pull.at /\ pull'.layer = pull.layer /\ pull'.hops = pull.hops + 1 /\ pull.at # "unpack"
    BY <1>1, <1>9 DEF Redirected, Fetching, Run
  <2>2. /\ LayersLeft(pull', layers) = LayersLeft(pull, layers) /\ Arriving(pull') = Arriving(pull)
        /\ RoundsLeft(pull', layers) < RoundsLeft(pull, layers)
    BY <1>1, <2>1 DEF LayersLeft, Arriving, RoundsLeft
  <2> QED
    BY <2>1, <2>2 DEF Nearer
<1>10. CASE Delivered
  <2>1. CASE pull.at = "config"
    <3>1. pull'.at = "write"
      BY <1>1, <1>10, <2>1 DEF Delivered, AfterBlob, Run
    <3> QED
      BY <1>2, <2>1, <3>1 DEF Nearer, Phase
  <2>2. CASE pull.at = "layer"
    <3>1. pull'.at = "unpack" /\ pull'.layer = pull.layer
      BY <1>1, <1>10, <2>2 DEF Delivered, AfterBlob, Run
    <3>2. LayersLeft(pull', layers) = LayersLeft(pull, layers) /\ Arriving(pull') < Arriving(pull)
      BY <2>2, <3>1 DEF LayersLeft, Arriving
    <3> QED
      BY <1>2, <2>2, <3>1, <3>2 DEF Nearer, Phase
  <2> QED
    BY <1>10, <2>1, <2>2 DEF Delivered, Fetching
<1>11. CASE Unpack
  <2>1. PICK k, i : k = pull.layer /\ i = pull.entry
    OBVIOUS
  <2>2. pull.at = "unpack" /\ k \in DOMAIN layers /\ pull' = [pull EXCEPT !.entry = @ + 1]
    BY <1>2, <1>11, <2>1 DEF Unpack, Unpacking, LeftInv, TypeInv, TreeInv
  <2>3. pull'.at = "unpack" /\ pull'.layer = k /\ pull'.entry = i + 1
    BY <1>1, <2>1, <2>2 DEF Run
  <2>4. /\ LayersLeft(pull', layers) = LayersLeft(pull, layers) /\ Arriving(pull') = Arriving(pull)
    BY <2>1, <2>2, <2>3 DEF LayersLeft, Arriving
  <2>5. PICK m \in Nat : m = Len(layers[k])
    BY <1>3, <2>2
  <2>6. RoundsLeft(pull', layers) = m + 1 - (i + 1) /\ RoundsLeft(pull, layers) = m + 1 - i
    BY <2>1, <2>2, <2>3, <2>5 DEF RoundsLeft
  <2>7. RoundsLeft(pull', layers) < RoundsLeft(pull, layers)
    BY <1>1, <2>1, <2>6
  <2> QED
    BY <1>2, <2>2, <2>3, <2>4, <2>7 DEF Nearer
<1>12. CASE LayerDone
  <2>1. pull.at = "unpack" /\ pull'.at = "layer" /\ pull'.layer = pull.layer + 1
    BY <1>1, <1>12 DEF LayerDone, Run
  <2>2. LayersLeft(pull', layers) = n + 1 - (pull.layer + 1) /\ LayersLeft(pull, layers) = n + 1 - pull.layer
    BY <1>2, <2>1 DEF LayersLeft
  <2>3. LayersLeft(pull', layers) < LayersLeft(pull, layers)
    BY <1>1, <1>3, <2>2
  <2>4. Phase(pull'.at) = Phase(pull.at)
    BY <2>1 DEF Phase
  <2> QED
    BY <1>2, <2>3, <2>4 DEF Nearer
<1> QED
  BY <1>2, <1>6, <1>7, <1>8, <1>9, <1>10, <1>11, <1>12 DEF Step

\* registry_client.cpp:414, layer_unpack.cpp: for every image and limit, each step of a pull
\* brings it nearer to its end, so that no sequence of redirects, layers and entries goes
\* on for ever.
THEOREM PullsWindDown == Spec => []Counted /\ StepsEnd
<1>1. ASSUME Init PROVE LeftInv
  <2>1. TreeInv /\ temp \in BOOLEAN /\ result = "none"
    BY <1>1, InitTree DEF Init
  <2>2. pull.hops = 0 /\ 0 < MaxHops /\ pull.at = "none"
    BY <1>1, PullAssumption DEF Init, NoPull
  <2> QED
    BY <2>1, <2>2 DEF TypeInv, LeftInv
<1>2. LeftInv /\ [Next]_vars => [Step => Nearer(pull', pull, image.layers)]_vars
  BY StepNearer
<1> QED
  BY <1>1, <1>2, LeftStep, LeftCounted, PTL DEF Spec, StepsEnd
=============================================================================
