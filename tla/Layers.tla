------------------------------- MODULE Layers -------------------------------
(***************************************************************************)
(* The layers of an image and the root file system they unpack to.  Apply  *)
(* is one round of LayerUnpacker::apply_layer_tar(), which edits the tree  *)
(* in place; View is the tree the layers stand for.  A tree is a function  *)
(* from the paths that exist; names of one file share an inode number.     *)
(* Content is the number of the layer it comes from.                       *)
(***************************************************************************)
EXTENDS Naturals, SequencesExt

Path == Seq(STRING)
Empty == 0    \* the content of a file with nothing in it

\* What a tar entry asks for.  "other" is a device or a fifo; "bad" stands for a name
\* with too many "..", a symlink out of the root and a size beyond the limits.
Kind == {"dir", "file", "symlink", "hardlink", "other", "whiteout", "opaque", "bad"}
Entry(kind, path) == [kind |-> kind, path |-> path, to |-> path]
HardLink(path, to) == [kind |-> "hardlink", path |-> path, to |-> to]
IsMarker(e) == e.kind \in {"whiteout", "opaque"}

Above(p) == {SubSeq(p, 1, k) : k \in 1..(Len(p) - 1)}
\* The paths a marker is about.
Covers(e, p) == IF e.kind = "opaque" THEN IsStrictPrefix(e.path, p) ELSE IsPrefix(e.path, p)

----------------------------------------------------------------------------
(* The unpacker.                                                           *)
NoTree == <<>>
Node(kind, data, ino) == [kind |-> kind, data |-> data, ino |-> ino]
At(fs, p) == IF p \in DOMAIN fs THEN fs[p].kind ELSE "nothing"
Set(fs, p, node) == [q \in DOMAIN fs \cup {p} |-> IF q = p THEN node ELSE fs[q]]

\* Nothing is below a symlink or a file.
IsTree(fs) ==
  \A p \in DOMAIN fs :
    /\ p \in Path /\ fs[p].kind \in {"dir", "file", "symlink"}
    /\ \A a \in Above(p) : At(fs, a) = "dir"

Unused(fs) == CHOOSE k \in 1..(Cardinality(DOMAIN fs) + 1) : \A p \in DOMAIN fs : fs[p].ino # k

\* Nothing can be made below a file.
BelowFile(fs, p) == \E a \in Above(p) : At(fs, a) = "file"

\* What the file system refuses.
Unfit(fs, e) ==
  \/ e.kind \in {"dir", "file", "symlink"} /\ BelowFile(fs, e.path)
  \/ e.kind = "dir" /\ At(fs, e.path) = "file"
  \/ e.kind = "file" /\ At(fs, e.path) = "dir"
  \/ e.kind = "symlink" /\ At(fs, e.path) \in {"file", "dir"}

\* Mutant: the parents of an entry are not looked at.
RefusedThroughSymlink(fs, e) == e.kind = "bad" \/ Unfit(fs, e)

\* An entry ends the pull: the checks on names and sizes, a parent that is a symlink.
Refused(fs, e) ==
  \/ e.kind = "bad"
  \/ ~IsMarker(e) /\ \E a \in Above(e.path) : At(fs, a) = "symlink"
  \/ Unfit(fs, e)

\* Mutant: the name goes, what is below it stays.
StrikeNameOnly(fs, e) == Restrict(fs, {p \in DOMAIN fs : p # e.path})

\* remove_all() of a whiteout's name, or of all children of its directory, where no
\* symlink is among the parents (NotThroughSymlinks): a live one would be followed.
Strike(fs, e) == Restrict(fs, {p \in DOMAIN fs : ~Covers(e, p)})

\* ensure_parent_dirs(), and a symlink in the way of the entry removed.  A parent
\* that cannot be made is passed over.
Cleared(fs, p) ==
  LET bare == IF At(fs, p) = "symlink" THEN Restrict(fs, DOMAIN fs \ {p}) ELSE fs
      made == {a \in Above(p) : ~BelowFile(fs, a)}
  IN  [q \in DOMAIN bare \cup made |-> IF q \in DOMAIN bare THEN bare[q] ELSE Node("dir", Empty, 0)]

\* An existing file is truncated in place, under every name it has.
Write(fs, p, data) ==
  IF At(fs, p) = "file"
  THEN [q \in DOMAIN fs |-> IF fs[q].kind = "file" /\ fs[q].ino = fs[p].ino
                            THEN [fs[q] EXCEPT !.data = data] ELSE fs[q]]
  ELSE Set(fs, p, Node("file", data, Unused(fs)))

\* create_hard_link(), else a copy, else an empty file.  Where a file has the name
\* already and there is nothing to copy, that file stays.  The source is named
\* through no symlink (NotThroughSymlinks): a live one would be followed.
Link(fs, p, to) ==
  CASE At(fs, p) = "nothing" /\ ~BelowFile(fs, p) ->
         IF At(fs, to) \in {"file", "symlink"} THEN Set(fs, p, fs[to]) ELSE Write(fs, p, Empty)
    [] At(fs, p) = "file" /\ At(fs, to) = "file" /\ fs[p].ino # fs[to].ino ->
         Write(fs, p, fs[to].data)
    [] At(fs, p) = "file" /\ (At(fs, to) = "dir" \/ (At(fs, to) = "file" /\ fs[p].ino = fs[to].ino)) ->
         Write(fs, p, Empty)
    [] OTHER -> fs

Apply(fs, e, data) ==
  LET ready == Cleared(fs, e.path) IN
  CASE IsMarker(e)          -> Strike(fs, e)
    [] e.kind = "dir"       -> IF At(ready, e.path) = "dir" THEN ready
                               ELSE Set(ready, e.path, Node("dir", Empty, 0))
    [] e.kind = "file"      -> Write(ready, e.path, data)
    [] e.kind = "symlink"   -> Set(ready, e.path, Node("symlink", data, 0))
    [] e.kind = "hardlink"  -> Link(ready, e.path, e.to)
    [] e.kind = "other"     -> ready

----------------------------------------------------------------------------
(* What the layers stand for: every layer hides what its markers cover in  *)
(* the layers below it, and puts its own entries on top.                   *)
Shape(fs) == [p \in DOMAIN fs |-> <<fs[p].kind, fs[p].data>>]

\* An entry has a position: its layer, and its place in the layer.
Positions(layers) == UNION {{<<k, i>> : i \in DOMAIN layers[k]} : k \in DOMAIN layers}
EntryAt(layers, a) == layers[a[1]][a[2]]
Before(a, b) == a[1] < b[1] \/ (a[1] = b[1] /\ a[2] < b[2])
Newest(S) == CHOOSE a \in S : \A b \in S : ~Before(a, b)

\* The name is covered by a marker of a layer above that one, up to this.
Hidden(layers, p, from, upto) ==
  \E m \in DOMAIN layers : /\ from < m /\ m <= upto
                           /\ \E e \in Range(layers[m]) : IsMarker(e) /\ Covers(e, p)

Makes(e, p) == ~IsMarker(e) /\ (p = e.path \/ p \in Above(e.path))

\* The entries with that name in front of a position, as far as its layer shows them.
Earlier(layers, p, at) ==
  {a \in Positions(layers) : /\ Before(a, at)
                             /\ ~IsMarker(EntryAt(layers, a)) /\ EntryAt(layers, a).path = p
                             /\ ~Hidden(layers, p, a[1], at[1])}

\* A hard link has the content of the file it names, or of the file that had its own
\* name, or none.
Gives(layers, a) ==
  LET e == EntryAt(layers, a)
      named == Earlier(layers, e.to, a)
      was == IF named # {} THEN named ELSE Earlier(layers, e.path, a)
  IN  CASE e.kind = "dir"      -> <<"dir", Empty>>
        [] e.kind = "hardlink" -> IF was # {} /\ EntryAt(layers, Newest(was)).kind = "file"
                                  THEN <<"file", Newest(was)[1]>> ELSE <<"file", Empty>>
        [] OTHER               -> <<e.kind, a[1]>>

\* The last entry for a name counts; a name that only has others below it is a directory.
View(layers) ==
  LET end == <<Len(layers) + 1, 1>>
      Shown(a) == LET p == EntryAt(layers, a).path IN
                  {q \in {p} \cup Above(p) : /\ Makes(EntryAt(layers, a), q)
                                             /\ ~Hidden(layers, q, a[1], Len(layers))}
  IN  [p \in UNION {Shown(a) : a \in Positions(layers)} |->
         LET named == Earlier(layers, p, end) IN
         IF named = {} THEN <<"dir", Empty>> ELSE Gives(layers, Newest(named))]

----------------------------------------------------------------------------
(* The images on which the two agree.                                      *)

\* No marker comes after an entry of its own layer that it would remove, or
\* after a hard link to one.
MarkersFirst(layer) ==
  \A i, j \in DOMAIN layer :
    i < j /\ IsMarker(layer[j]) /\ ~IsMarker(layer[i]) =>
      ~Covers(layer[j], layer[i].path) /\ ~Covers(layer[j], layer[i].to)

\* Neither name of a hard link is written again, and its own is not linked to.
LinkedOnce(layers) ==
  \A a, b \in Positions(layers) :
    LET link == EntryAt(layers, a)
        e == EntryAt(layers, b)
    IN  Before(a, b) /\ link.kind = "hardlink" /\ e.kind \in {"file", "hardlink"} =>
          e.path \notin {link.path, link.to} /\ (e.kind = "hardlink" => e.to # link.path)

\* A hard link has two names, neither of a directory, and is not below a file.
LinksFiles(layers) ==
  \A a, b \in Positions(layers) :
    LET link == EntryAt(layers, a)
        e == EntryAt(layers, b)
    IN  link.kind = "hardlink" /\ ~IsMarker(e) =>
          /\ link.path # link.to
          /\ \A p \in {link.path, link.to} : /\ e.kind = "dir" => e.path # p
                                             /\ p \notin Above(e.path)
          /\ e.kind \in {"file", "hardlink"} => e.path \notin Above(link.path)

\* A marker or the file of a hard link is not looked for through a symlink.
NotThroughSymlinks(layers) ==
  \A a, b \in Positions(layers) :
    LET link == EntryAt(layers, a)
        e == EntryAt(layers, b)
    IN  link.kind = "symlink" =>
          /\ IsMarker(e) => ~IsStrictPrefix(link.path, e.path)
          /\ e.kind = "opaque" => e.path # link.path
          /\ e.kind = "hardlink" => ~IsPrefix(link.path, e.to)

\* No devices and fifos: they leave their directories, and take a symlink away.
NoOthers(layers) == \A a \in Positions(layers) : EntryAt(layers, a).kind # "other"

Plain(layers) ==
  /\ NoOthers(layers)
  /\ \A k \in DOMAIN layers : MarkersFirst(layers[k])
  /\ LinkedOnce(layers)
  /\ LinksFiles(layers)
  /\ NotThroughSymlinks(layers)
============================================================================
