------------------------------ MODULE RuncPull ------------------------------
(***************************************************************************)
(* xpmile-pull: PullOrchestrator::run() resolves a reference, fetches the  *)
(* configuration and the layers of the image, checks every blob against    *)
(* its digest, writes an empty bundle in place of the old one and unpacks  *)
(* the layers into it.  Requests fail, blobs arrive spoiled, the process   *)
(* is killed and the operator runs it again.                               *)
(***************************************************************************)
EXTENDS Layers

CONSTANTS Image,      \* what the reference may mean
          Leftover,   \* what may be in the bundle before the first pull
          MaxHops,    \* kMaxHops
          MaxPulls,   \* bound: pulls of one behaviour
          MaxFaults   \* bound: requests that fail, blobs spoiled, kills

ASSUME ImageAssumption ==
  \A i \in Image : i.layers \in Seq(Seq([kind : Kind, path : Path, to : Path]))
ASSUME LeftoverAssumption == \A fs \in Leftover : IsTree(fs)
ASSUME PullAssumption == MaxHops \in Nat \ {0} /\ MaxPulls \in Nat /\ MaxFaults \in Nat

VARIABLES image,    \* what it does mean: [hub: docker.io has it, layers, list: an
                    \* index of platforms, match: ours is in it, pinned: by digest]
          bundle,   \* [there, rootfs]
          temp,     \* <bundle>.tmp exists
          pull,     \* the run of the orchestrator
          result,   \* how the last one ended
          pulls, faults

vars == <<image, bundle, temp, pull, result, pulls, faults>>

NoBundle == [there |-> FALSE, rootfs |-> NoTree]
NoPull == [at |-> "none", force |-> FALSE, layer |-> 0, entry |-> 0,
           hops |-> 0, body |-> "empty"]

Init ==
  /\ image \in Image
  /\ bundle \in {NoBundle} \cup {[there |-> TRUE, rootfs |-> fs] : fs \in Leftover}
  /\ temp = FALSE
  /\ pull = NoPull
  /\ result = "none"
  /\ pulls = 0 /\ faults = 0

----------------------------------------------------------------------------
Fault == faults < MaxFaults /\ faults' = faults + 1

\* best_effort_remove_all() and BundleCleanup: that it fails goes unnoticed.  What
\* it leaves of the bundle counts as the bundle.
RemoveBundle == bundle' \in {NoBundle, bundle}

\* An error return: BundleCleanup removes the bundle, whoever wrote it.
Fail ==
  /\ RemoveBundle
  /\ pull' = NoPull /\ result' = "error"

Begin(force) ==
  /\ pull.at = "none" /\ pulls < MaxPulls
  /\ image.hub
  /\ pull' = [NoPull EXCEPT !.at = "manifest", !.force = force]
  /\ result' = "running"
  /\ pulls' = pulls + 1
  /\ UNCHANGED <<image, bundle, temp, faults>>

\* Another registry: the error returns before there is a BundleCleanup.
Unsupported ==
  /\ pull.at = "none" /\ pulls < MaxPulls
  /\ ~image.hub
  /\ result' = "error"
  /\ pulls' = pulls + 1
  /\ UNCHANGED <<image, bundle, temp, pull, faults>>

\* The probe, the token, a manifest or a blob: refused, missing, unreachable.
RequestFails ==
  /\ pull.at \in {"manifest", "platform", "config", "layer"}
  /\ Fault
  /\ Fail
  /\ UNCHANGED <<image, temp, pulls>>

Manifest ==
  /\ pull.at = "manifest"
  /\ image.list => ~image.pinned
  /\ pull' = [pull EXCEPT !.at = IF image.list THEN "platform" ELSE "config"]
  /\ UNCHANGED <<image, bundle, temp, result, pulls, faults>>

PinnedIndex ==
  /\ pull.at = "manifest"
  /\ image.list /\ image.pinned
  /\ Fail
  /\ UNCHANGED <<image, temp, pulls, faults>>

Platform ==
  /\ pull.at = "platform"
  /\ image.match
  /\ pull' = [pull EXCEPT !.at = "config"]
  /\ UNCHANGED <<image, bundle, temp, result, pulls, faults>>

NoPlatform ==
  /\ pull.at = "platform"
  /\ ~image.match
  /\ Fail
  /\ UNCHANGED <<image, temp, pulls, faults>>

----------------------------------------------------------------------------
(* Fetching a blob.  Whatever body a response has is added to the blob,    *)
(* that of a redirect too.                                                 *)
Fetching == pull.at = "config" \/ (pull.at = "layer" /\ pull.layer \in DOMAIN image.layers)
Received(spoils) == IF spoils THEN "spoiled" ELSE pull.body

\* Mutant: the count starts over with every change of the host.
RedirectedRestarts(spoils) ==
  /\ Fetching
  /\ pull' = [pull EXCEPT !.hops = (@ + 1) % MaxHops, !.body = Received(spoils)]
  /\ UNCHANGED <<image, bundle, temp, result, pulls, faults>>

Redirected(spoils) ==
  /\ Fetching /\ pull.hops + 1 < MaxHops
  /\ pull' = [pull EXCEPT !.hops = @ + 1, !.body = Received(spoils)]
  /\ UNCHANGED <<image, bundle, temp, result, pulls, faults>>

RedirectLimit ==
  /\ Fetching /\ pull.hops + 1 = MaxHops
  /\ Fail
  /\ UNCHANGED <<image, temp, pulls, faults>>

AfterBlob == IF pull.at = "config" THEN "write" ELSE "unpack"

Delivered ==
  /\ Fetching /\ pull.body = "empty"
  /\ pull' = [pull EXCEPT !.at = AfterBlob, !.entry = 1, !.hops = 0]
  /\ UNCHANGED <<image, bundle, temp, result, pulls, faults>>

\* The digest of what arrived is not the one asked for.
DigestMismatch ==
  /\ Fetching
  /\ IF pull.body = "spoiled" THEN UNCHANGED faults ELSE Fault
  /\ Fail
  /\ UNCHANGED <<image, temp, pulls>>

----------------------------------------------------------------------------
(* BundleWriter::write().                                                  *)
Refuse ==
  /\ pull.at = "write"
  /\ bundle.there /\ ~pull.force
  /\ Fail
  /\ UNCHANGED <<image, temp, pulls, faults>>

Prepare ==
  /\ pull.at = "write"
  /\ bundle.there => pull.force
  /\ temp' = TRUE
  /\ pull' = [pull EXCEPT !.at = "replace"]
  /\ UNCHANGED <<image, bundle, result, pulls, faults>>

RemoveOld ==
  /\ pull.at = "replace"
  /\ RemoveBundle
  /\ pull' = [pull EXCEPT !.at = "rename"]
  /\ UNCHANGED <<image, temp, result, pulls, faults>>

Rename ==
  /\ pull.at = "rename" /\ ~bundle.there
  /\ bundle' = [there |-> TRUE, rootfs |-> NoTree]
  /\ temp' = FALSE
  /\ pull' = [pull EXCEPT !.at = "layer", !.layer = 1]
  /\ UNCHANGED <<image, result, pulls, faults>>

\* Nothing is renamed to a directory that has something in it.
WriteFails ==
  /\ pull.at \in {"replace", "rename"}
  /\ \/ pull.at = "rename" /\ bundle.there /\ UNCHANGED faults
     \/ Fault
  /\ temp' \in {FALSE, temp}
  /\ Fail
  /\ UNCHANGED <<image, pulls>>

----------------------------------------------------------------------------
(* LayerUnpacker, one entry at a time.                                     *)
Unpacking == pull.at = "unpack" /\ pull.entry \in DOMAIN image.layers[pull.layer]
ThisEntry == image.layers[pull.layer][pull.entry]

Unpack ==
  /\ Unpacking /\ ~Refused(bundle.rootfs, ThisEntry)
  /\ bundle' = [bundle EXCEPT !.rootfs = Apply(@, ThisEntry, pull.layer)]
  /\ pull' = [pull EXCEPT !.entry = @ + 1]
  /\ UNCHANGED <<image, temp, result, pulls, faults>>

UnpackFails ==
  /\ Unpacking /\ Refused(bundle.rootfs, ThisEntry)
  /\ Fail
  /\ UNCHANGED <<image, temp, pulls, faults>>

LayerDone ==
  /\ pull.at = "unpack" /\ ~Unpacking
  /\ pull' = [pull EXCEPT !.at = "layer", !.layer = @ + 1]
  /\ UNCHANGED <<image, bundle, temp, result, pulls, faults>>

Success ==
  /\ pull.at = "layer" /\ ~Fetching
  /\ pull' = NoPull /\ result' = "ok"
  /\ UNCHANGED <<image, bundle, temp, pulls, faults>>

----------------------------------------------------------------------------
\* The process dies; what is on the disk stays.
Kill ==
  /\ pull.at # "none"
  /\ Fault
  /\ pull' = NoPull /\ result' = "killed"
  /\ UNCHANGED <<image, bundle, temp, pulls>>

Step ==
  \/ Manifest \/ PinnedIndex \/ Platform \/ NoPlatform
  \/ RequestFails
  \/ \E spoils \in BOOLEAN : Redirected(spoils)
  \/ RedirectLimit \/ Delivered \/ DigestMismatch
  \/ Refuse \/ Prepare \/ RemoveOld \/ Rename \/ WriteFails
  \/ Unpack \/ UnpackFails \/ LayerDone \/ Success

Next ==
  \/ \E force \in BOOLEAN : Begin(force)
  \/ Unsupported
  \/ Step \/ Kill

Spec == Init /\ [][Next]_vars

\* Every read of the HTTP client has a timeout, so that a running pull goes on unless a
\* peer sends for ever.
FairSpec == Spec /\ WF_vars(Step)
----------------------------------------------------------------------------
\* Every variable has its type.
TypeOK ==
  /\ image \in Image
  /\ bundle.there \in BOOLEAN /\ temp \in BOOLEAN
  /\ pull.at \in {"none", "manifest", "platform", "config", "layer",
                  "write", "replace", "rename", "unpack"}
  /\ pull.body \in {"empty", "spoiled"} /\ pull.hops \in 0..MaxHops
  /\ result \in {"none", "running", "ok", "error", "killed"}

\* operator-runc.md:201, layer_unpack.hpp:200: after a successful pull the root
\* file system is what the layers of the image stand for, whatever an earlier
\* image, a failed pull or a killed one has left in the bundle.
Flattened ==
  result = "ok" /\ Plain(image.layers) => /\ bundle.there
                                          /\ Shape(bundle.rootfs) = View(image.layers)

\* layer_unpack.cpp:531-546: whatever the layers say, and at every moment of a pull,
\* no entry has been written through a symlink of the bundle or below a file of it.
\* Deletions (505-514) and the sources of hard links (587-600) are another matter.
RootIsTree == IsTree(bundle.rootfs)

\* Redirects, layers and entries come to an end: so does every pull.
PullEnds == result = "running" ~> result # "running"
============================================================================
