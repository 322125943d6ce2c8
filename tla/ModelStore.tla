----------------------------- MODULE ModelStore -----------------------------
(***************************************************************************)
(* The model store of one node: the cache directory with its reference     *)
(* ledger (pkg/modelmanager/store), the CSI calls that mount and unmount   *)
(* trees out of it (pkg/modelmanager/driver), the collector's removal of a *)
(* tree (pkg/modelmanager/gc), and the rebuild at start                    *)
(* (pkg/modelmanager/manager.go).                                          *)
(*                                                                         *)
(* A digest's tree is built in an attempt directory, published by one      *)
(* rename, bind-mounted read-only into Pods, and removed by one rename     *)
(* into trash/.  Every process step may be the last before a crash of the  *)
(* plugin (its memory goes; directories, ledger and mounts stay) or a loss *)
(* of power (mounts go too, and so does what was not synced).              *)
(*                                                                         *)
(* When a collection runs, and when a digest may be downloaded again, are  *)
(* left open here: any moment will do.                                     *)
(***************************************************************************)
EXTENDS Naturals

CONSTANTS
    Hex,         \* the digests, by their hexadecimal part
    Target,      \* the target paths; each is one Pod volume, so also its volume ID
    NoTree,      \* no digest: an empty reference, a path nothing is mounted on
    Trashed,     \* the root of a mount whose tree was renamed into trash/
    MaxCrashes   \* how many crashes and power losses a behaviour may have

ASSUME StoreAssumption ==
    /\ NoTree \notin Hex
    /\ Trashed \notin Hex
    /\ NoTree # Trashed
    /\ MaxCrashes \in Nat

VARIABLES
    published,   \* what published/<hex> holds, as the running system sees it
    durable,     \* what published/<hex> held when that directory was last synced
    lingering,   \* digests whose durable entry is still a tree renamed away
    trash,       \* digests with something left in trash/
    attempt,     \* how far the running attempt at a digest is
    synced,      \* digests whose attempt directory has every file synced
    refs,        \* the reference ledger: the digest each target mounts
    root,        \* the mount table: the tree each target is mounted from
    readOnly,    \* the mounted targets that were remounted read-only
    pc, want,    \* the CSI call in progress on a target, and its digest
    gcPc, gcHex, \* the collector's removal in progress, and its digest
    boot,        \* how far the plugin's start is
    seen,        \* the mounts the rebuild read
    ledger,      \* the references the rebuild read
    todo,        \* the targets the rebuild has yet to reconcile
    crashes

disk   == <<published, durable, lingering, trash>>
work   == <<attempt, synced>>
mounts == <<root, readOnly>>
calls  == <<pc, want>>
gc     == <<gcPc, gcHex>>
start  == <<boot, seen, ledger, todo>>
vars   == <<disk, work, refs, mounts, calls, gc, start, crashes>>

\* "dirty" is a tree with files that were never synced, "torn" one that lost
\* some of its bytes.  "cut" is a tree a start deleted from trash/ while the disk
\* still had it under published/, as far as its marker is left, and "bare" one
\* whose marker is gone too.
Content == {"none", "dirty", "whole", "torn", "cut", "bare"}
Phases  == {"idle", "fetch", "verified", "sealed", "marked", "renamed"}
Steps   == {"idle", "claim", "ensure", "reclaim", "write", "bind", "remount",
            "drop", "unref"}

TypeOK ==
    /\ published \in [Hex -> Content]
    /\ durable \in [Hex -> Content]
    /\ lingering \subseteq Hex
    /\ trash \subseteq Hex
    /\ attempt \in [Hex -> Phases]
    /\ synced \subseteq Hex
    /\ refs \in [Target -> Hex \cup {NoTree}]
    /\ root \in [Target -> Hex \cup {NoTree, Trashed}]
    /\ readOnly \subseteq Target
    /\ pc \in [Target -> Steps]
    /\ want \in [Target -> Hex \cup {NoTree}]
    /\ gcPc \in {"idle", "listed", "locked", "renamed", "delete"}
    /\ gcHex \in Hex \cup {NoTree}
    /\ boot \in {"trash", "mounts", "ledger", "fix", "ready"}
    /\ seen \in [Target -> Hex \cup {NoTree}]
    /\ ledger \in [Target -> Hex \cup {NoTree}]
    /\ todo \subseteq Target
    /\ crashes \in 0..MaxCrashes

Nothing == [t \in Target |-> NoTree]

\* A new, empty cache root, and a plugin that has just started on it.
Init ==
    /\ published = [h \in Hex |-> "none"]
    /\ durable = [h \in Hex |-> "none"]
    /\ lingering = {}
    /\ trash = {}
    /\ attempt = [h \in Hex |-> "idle"]
    /\ synced = {}
    /\ refs = Nothing
    /\ root = Nothing
    /\ readOnly = {}
    /\ pc = [t \in Target |-> "idle"]
    /\ want = Nothing
    /\ gcPc = "idle"
    /\ gcHex = NoTree
    /\ boot = "trash"
    /\ seen = Nothing
    /\ ledger = Nothing
    /\ todo = {}
    /\ crashes = 0

-----------------------------------------------------------------------------
(* Store: what is published and referenced, and the lock of a claim.       *)

\* A directory without a marker is not a published tree.
IsPublished(h) == published[h] \notin {"none", "bare"}

Referenced(h) == \E t \in Target : refs[t] = h

\* Fault model: a removal does not take claimMu.
ClaimMuOfClaims == \A t \in Target : pc[t] # "write"

\* claimMu is held from a claim's check to its record, and from a removal's
\* reading of the references to the sync of its rename.
ClaimMuFree ==
    /\ gcPc \notin {"locked", "renamed"}
    /\ \A t \in Target : pc[t] # "write"

\* A call answers, releasing its target.
Return(t) ==
    /\ pc' = [pc EXCEPT ![t] = "idle"]
    /\ want' = [want EXCEPT ![t] = NoTree]

\* The directory entries of published/ become durable, all of them at once.
SyncPublished ==
    /\ durable' = published
    /\ lingering' = {}

-----------------------------------------------------------------------------
(* An attempt at a digest, run by the materializer.                        *)

\* Every file of the manifest was downloaded and verified.
Fetched(h) ==
    /\ attempt[h] = "fetch"
    /\ attempt' = [attempt EXCEPT ![h] = "verified"]
    /\ UNCHANGED <<disk, synced, refs, mounts, calls, gc, start, crashes>>

\* Fault model: files are made read-only but not synced.
SealOnly(h) == UNCHANGED synced

\* Every file is made read-only and synced, then every directory.
SealAndSync(h) == synced' = synced \cup {h}

SealFiles(h) ==
    /\ attempt[h] = "verified"
    /\ attempt' = [attempt EXCEPT ![h] = "sealed"]
    /\ SealAndSync(h)
    /\ UNCHANGED <<disk, refs, mounts, calls, gc, start, crashes>>

WriteMarker(h) ==
    /\ attempt[h] = "sealed"
    /\ attempt' = [attempt EXCEPT ![h] = "marked"]
    /\ UNCHANGED <<disk, synced, refs, mounts, calls, gc, start, crashes>>

\* The rename into published/, which fails on a directory that is already there.
RenameIn(h) ==
    /\ attempt[h] = "marked"
    /\ published[h] = "none"
    /\ published' = [published EXCEPT ![h] = IF h \in synced THEN "whole" ELSE "dirty"]
    /\ attempt' = [attempt EXCEPT ![h] = "renamed"]
    /\ synced' = synced \ {h}
    /\ UNCHANGED <<durable, lingering, trash, refs, mounts, calls, gc, start, crashes>>

SyncRename(h) ==
    /\ attempt[h] = "renamed"
    /\ attempt' = [attempt EXCEPT ![h] = "idle"]
    /\ SyncPublished
    /\ UNCHANGED <<published, trash, synced, refs, mounts, calls, gc, start, crashes>>

\* A download, a seal, the marker, the rename or its sync fails, or nobody
\* waits any more: the attempt leaves its files for a later one.
AttemptFails(h) ==
    /\ attempt[h] # "idle"
    /\ attempt' = [attempt EXCEPT ![h] = "idle"]
    /\ UNCHANGED <<disk, synced, refs, mounts, calls, gc, start, crashes>>

Materialize(h) ==
    Fetched(h) \/ SealFiles(h) \/ WriteMarker(h) \/ RenameIn(h) \/ SyncRename(h)
               \/ AttemptFails(h)

-----------------------------------------------------------------------------
(* NodePublishVolume.  lockTarget gives a target to one call at a time.  A  *)
(* call that is refused, or that finds a read-only mount and succeeds at    *)
(* once, changes nothing.                                                   *)

PublishVolume(t, h) ==
    /\ boot = "ready"
    /\ pc[t] = "idle"
    /\ root[t] = NoTree
    /\ pc' = [pc EXCEPT ![t] = "claim"]
    /\ want' = [want EXCEPT ![t] = h]
    /\ UNCHANGED <<disk, work, refs, mounts, gc, start, crashes>>

\* A mount a failed remount left writable is removed and the call refused.
UnmountWritable(t) ==
    /\ boot = "ready"
    /\ pc[t] = "idle"
    /\ root[t] # NoTree
    /\ t \notin readOnly
    /\ root' = [root EXCEPT ![t] = NoTree]
    /\ UNCHANGED <<disk, work, refs, readOnly, calls, gc, start, crashes>>

\* Fault model: a claim that finds no tree asks for it again until it does.
FirstOrSecondClaim(t) == pc[t] \in {"claim", "reclaim"}

\* The claim before Ensure, not the one after it.
FirstClaim(t) == pc[t] = "claim"

\* Claim's check, under claimMu: a published tree keeps the lock for the
\* record, a missing one goes to Ensure the first time and gives up the second.
ClaimCheck(t) ==
    /\ pc[t] \in {"claim", "reclaim"}
    /\ ClaimMuFree
    /\ \/ /\ IsPublished(want[t])
          /\ pc' = [pc EXCEPT ![t] = "write"]
          /\ UNCHANGED want
       \/ /\ ~IsPublished(want[t])
          /\ FirstClaim(t)
          /\ pc' = [pc EXCEPT ![t] = "ensure"]
          /\ UNCHANGED want
       \/ /\ ~IsPublished(want[t])
          /\ ~FirstClaim(t)
          /\ Return(t)
    /\ UNCHANGED <<disk, work, refs, mounts, gc, start, crashes>>

WriteRef(t) ==
    /\ pc[t] = "write"
    /\ refs' = [refs EXCEPT ![t] = want[t]]
    /\ pc' = [pc EXCEPT ![t] = "bind"]
    /\ UNCHANGED <<disk, work, mounts, want, gc, start, crashes>>

\* An error of the record fails the call; the record is there all the same
\* when only the sync of its directory failed.
WriteRefFails(t) ==
    /\ pc[t] = "write"
    /\ refs' \in {refs, [refs EXCEPT ![t] = want[t]]}
    /\ Return(t)
    /\ UNCHANGED <<disk, work, mounts, gc, start, crashes>>

\* A digest published meanwhile is claimed again; otherwise the call answers
\* a retryable code, having started an attempt, joined one or met a backoff.
Ensure(t) ==
    /\ pc[t] = "ensure"
    /\ \/ /\ IsPublished(want[t])
          /\ pc' = [pc EXCEPT ![t] = "reclaim"]
          /\ UNCHANGED <<work, want>>
       \/ /\ ~IsPublished(want[t])
          /\ Return(t)
          /\ \/ UNCHANGED work
             \/ /\ attempt[want[t]] = "idle"
                /\ attempt' = [attempt EXCEPT ![want[t]] = "fetch"]
                /\ synced' = synced \ {want[t]}
    /\ UNCHANGED <<disk, refs, mounts, gc, start, crashes>>

\* BindReadOnly is two calls: a bind, which is writable, and its remount.
Bind(t) ==
    /\ pc[t] = "bind"
    /\ IsPublished(want[t])
    /\ root' = [root EXCEPT ![t] = want[t]]
    /\ pc' = [pc EXCEPT ![t] = "remount"]
    /\ UNCHANGED <<disk, work, refs, readOnly, want, gc, start, crashes>>

BindFails(t) ==
    /\ pc[t] = "bind"
    /\ pc' = [pc EXCEPT ![t] = "drop"]
    /\ UNCHANGED <<disk, work, refs, mounts, want, gc, start, crashes>>

Remount(t) ==
    /\ pc[t] = "remount"
    /\ readOnly' = readOnly \cup {t}
    /\ Return(t)
    /\ UNCHANGED <<disk, work, refs, root, gc, start, crashes>>

\* A failed remount is undone; when that fails too the writable bind stays.
RemountFails(t) ==
    /\ pc[t] = "remount"
    /\ root' \in {root, [root EXCEPT ![t] = NoTree]}
    /\ pc' = [pc EXCEPT ![t] = "drop"]
    /\ UNCHANGED <<disk, work, refs, readOnly, want, gc, start, crashes>>

\* dropRef only logs an error of its own.
DropRef(t) ==
    /\ pc[t] = "drop"
    /\ refs' \in {refs, [refs EXCEPT ![t] = NoTree]}
    /\ Return(t)
    /\ UNCHANGED <<disk, work, mounts, gc, start, crashes>>

-----------------------------------------------------------------------------
(* NodeUnpublishVolume, which is served from the start on: it does not wait *)
(* for the rebuild.                                                         *)

\* Fault model: the reference goes first, and stays gone when the unmount fails.
UnpublishVolumeRefFirst(t) ==
    /\ pc[t] = "idle"
    /\ refs' = [refs EXCEPT ![t] = NoTree]
    /\ \/ UNCHANGED mounts
       \/ /\ root' = [root EXCEPT ![t] = NoTree]
          /\ readOnly' = readOnly \ {t}
    /\ UNCHANGED <<disk, work, calls, gc, start, crashes>>

UnpublishVolume(t) ==
    /\ pc[t] = "idle"
    /\ root' = [root EXCEPT ![t] = NoTree]
    /\ readOnly' = readOnly \ {t}
    /\ pc' \in {pc, [pc EXCEPT ![t] = "unref"]}  \* removing the target may fail
    /\ UNCHANGED <<disk, work, refs, want, gc, start, crashes>>

\* An error of the removal is logged and the call succeeds.
RemoveRef(t) ==
    /\ pc[t] = "unref"
    /\ refs' \in {refs, [refs EXCEPT ![t] = NoTree]}
    /\ Return(t)
    /\ UNCHANGED <<disk, work, mounts, gc, start, crashes>>

Serve(t) ==
    \/ \E h \in Hex : PublishVolume(t, h)
    \/ UnmountWritable(t) \/ ClaimCheck(t) \/ WriteRef(t) \/ WriteRefFails(t)
    \/ Ensure(t) \/ Bind(t) \/ BindFails(t) \/ Remount(t) \/ RemountFails(t)
    \/ DropRef(t) \/ UnpublishVolume(t) \/ RemoveRef(t)

-----------------------------------------------------------------------------
(* The collector's removal of one tree.                                    *)

EndRemoval ==
    /\ gcPc' = "idle"
    /\ gcHex' = NoTree

\* A candidate: published, and neither referenced nor being materialized when
\* the candidates were listed.
ListCandidate(h) ==
    /\ boot = "ready"
    /\ gcPc = "idle"
    /\ IsPublished(h)
    /\ ~Referenced(h)
    /\ attempt[h] = "idle"
    /\ gcPc' = "listed"
    /\ gcHex' = h
    /\ UNCHANGED <<disk, work, refs, mounts, calls, start, crashes>>

\* Fault model: the removal trusts the references its candidates were listed with.
StillPublished(h) == IsPublished(h)

\* What the removal finds under claimMu: the references are read again.
StillIdle(h) == ~Referenced(h) /\ IsPublished(h)

\* trashUnreferenced takes claimMu, and keeps it to rename the tree.
LockUnreferenced ==
    /\ gcPc = "listed"
    /\ ClaimMuFree
    /\ \/ /\ ~StillIdle(gcHex)
          /\ EndRemoval
       \/ /\ StillIdle(gcHex)
          /\ gcPc' = "locked"
          /\ UNCHANGED gcHex
    /\ UNCHANGED <<disk, work, refs, mounts, calls, start, crashes>>

\* The rename into trash/: a mount of the tree keeps it, under another path.
TrashPublished ==
    /\ gcPc = "locked"
    /\ published' = [published EXCEPT ![gcHex] = "none"]
    /\ lingering' = IF durable[gcHex] = "none" THEN lingering ELSE lingering \cup {gcHex}
    /\ trash' = trash \cup {gcHex}
    /\ root' = [t \in Target |-> IF root[t] = gcHex THEN Trashed ELSE root[t]]
    /\ gcPc' = "renamed"
    /\ UNCHANGED <<durable, work, refs, readOnly, calls, gcHex, start, crashes>>

SyncTrashed ==
    /\ gcPc = "renamed"
    /\ SyncPublished
    /\ gcPc' = "delete"
    /\ UNCHANGED <<published, trash, work, refs, mounts, calls, gcHex, start, crashes>>

SyncTrashedFails ==
    /\ gcPc = "renamed"
    /\ EndRemoval
    /\ UNCHANGED <<disk, work, refs, mounts, calls, start, crashes>>

\* The files go once claimMu is released; an error leaves some in trash/.
DeleteTrash ==
    /\ gcPc = "delete"
    /\ trash' \in {trash, trash \ {gcHex}}
    /\ durable' = [durable EXCEPT ![gcHex] = IF gcHex \in lingering THEN "torn" ELSE @]
    /\ EndRemoval
    /\ UNCHANGED <<published, lingering, work, refs, mounts, calls, start, crashes>>

Collect ==
    \/ \E h \in Hex : ListCandidate(h)
    \/ LockUnreferenced \/ TrashPublished \/ SyncTrashed \/ SyncTrashedFails
    \/ DeleteTrash

-----------------------------------------------------------------------------
(* The start: trash/ is emptied, and the ledger rewritten to match the      *)
(* mounts.  An error ends the process, as a crash does.                     *)

\* Trees in trash/ whose rename out of published/ was never synced.
UnsyncedTrash == trash \cap lingering

\* Every file goes, with no sync of published/ before: where the disk still has
\* the tree there, it is left without files, with its marker or without.
EmptyTrash ==
    /\ boot = "trash"
    /\ trash' = {}
    /\ \E marked \in SUBSET {h \in UnsyncedTrash : durable[h] # "bare"} :
          durable' = [h \in Hex |-> IF h \in marked THEN "cut"
                                    ELSE IF h \in UnsyncedTrash THEN "bare"
                                    ELSE durable[h]]
    /\ boot' = "mounts"
    /\ UNCHANGED <<published, lingering, work, refs, mounts, calls, gc,
                   seen, ledger, todo, crashes>>

\* A mount is traced to its digest by its root, a path under published/.
CacheMount(t) == IF root[t] \in Hex THEN root[t] ELSE NoTree

ReadMounts ==
    /\ boot = "mounts"
    /\ seen' = [t \in Target |-> CacheMount(t)]
    /\ boot' = "ledger"
    /\ UNCHANGED <<disk, work, refs, mounts, calls, gc, ledger, todo, crashes>>

\* Fault model: a mount without a reference is not adopted.
InLedger(t) == refs[t] # NoTree

\* A target to reconcile has a reference or a mount.
Known(t) == refs[t] # NoTree \/ seen[t] # NoTree

ReadLedger ==
    /\ boot = "ledger"
    /\ ledger' = refs
    /\ todo' = {t \in Target : Known(t)}
    /\ boot' = "fix"
    /\ UNCHANGED <<disk, work, refs, mounts, calls, gc, seen, crashes>>

\* A reference to what is not mounted is dropped, one to another digest
\* corrected; then a mount without a reference is adopted.
Reconcile(t) ==
    /\ boot = "fix"
    /\ t \in todo
    /\ ledger[t] = NoTree => \A u \in todo : ledger[u] = NoTree
    /\ refs' = IF ledger[t] = seen[t] THEN refs ELSE [refs EXCEPT ![t] = seen[t]]
    /\ todo' = todo \ {t}
    /\ UNCHANGED <<disk, work, mounts, calls, gc, boot, seen, ledger, crashes>>

ServeMounts ==
    /\ boot = "fix"
    /\ todo = {}
    /\ boot' = "ready"
    /\ seen' = Nothing
    /\ ledger' = Nothing
    /\ UNCHANGED <<disk, work, refs, mounts, calls, gc, todo, crashes>>

Rebuild ==
    \/ EmptyTrash \/ ReadMounts \/ ReadLedger \/ ServeMounts
    \/ \E t \in Target : Reconcile(t)

-----------------------------------------------------------------------------
(* Failures.                                                               *)

\* The process ends, whatever it was doing, and starts again.
Restart ==
    /\ crashes < MaxCrashes
    /\ crashes' = crashes + 1
    /\ attempt' = [h \in Hex |-> "idle"]
    /\ pc' = [t \in Target |-> "idle"]
    /\ want' = Nothing
    /\ EndRemoval
    /\ boot' = "trash"
    /\ seen' = Nothing
    /\ ledger' = Nothing
    /\ todo' = {}

Crash ==
    /\ Restart
    /\ UNCHANGED <<disk, synced, refs, mounts>>

Survives(c) == IF c = "dirty" THEN "torn" ELSE c

\* No mount survives; of each entry of published/ either what the system saw
\* or what was last synced does, without the bytes that were never synced.
PowerLoss ==
    /\ Restart
    /\ \E reverted \in SUBSET Hex :
          published' = [h \in Hex |->
              Survives(IF h \in reverted THEN durable[h] ELSE published[h])]
    /\ durable' = published'
    /\ lingering' = {}
    /\ trash' = {h \in trash : h \in lingering => published'[h] = "none"}
    /\ root' = Nothing
    /\ readOnly' = {}
    /\ UNCHANGED <<synced, refs>>

-----------------------------------------------------------------------------
Next ==
    \/ \E h \in Hex : Materialize(h)
    \/ \E t \in Target : Serve(t)
    \/ Collect
    \/ Rebuild
    \/ Crash
    \/ PowerLoss

Spec == Init /\ [][Next]_vars

\* A call that began goes on to its answer.  Every mutex is a sync.Mutex, which
\* hands itself to a waiter in the end, so a lock asked for is obtained.
Answer(t) ==
    \/ WriteRef(t) \/ WriteRefFails(t) \/ Ensure(t) \/ Bind(t) \/ BindFails(t)
    \/ Remount(t) \/ RemountFails(t) \/ DropRef(t) \/ RemoveRef(t)

Remove == TrashPublished \/ SyncTrashed \/ SyncTrashedFails \/ DeleteTrash

Fairness ==
    /\ \A t \in Target : WF_vars(Answer(t)) /\ SF_vars(ClaimCheck(t))
    /\ WF_vars(Remove) /\ SF_vars(LockUnreferenced)
    /\ WF_vars(Rebuild)

FairSpec == Spec /\ Fairness

-----------------------------------------------------------------------------
(* Properties.                                                             *)

\* What a mount may be of: a whole tree or, against what the code means to do,
\* one a start has cut (OnlyTrashLeft).
Mountable == {"whole", "cut"}

\* A target answered as mounted, which is a read-only mount, keeps its tree:
\* it is still the digest's published tree, not one in trash/, not one that lost
\* bytes in its publication, whatever the collector, the other calls, a crash
\* and the rebuild did since (RemoveUnreferenced: "a mount that claimed the tree
\* an instant earlier keeps it").
MountedTreeStays ==
    \A t \in readOnly : root[t] \in Hex /\ published[root[t]] \in Mountable

\* A loss of power at any point of a publication, or of a removal that the plugin
\* carries through, leaves no tree with bytes missing under published/ (Publish:
\* files synced before the marker, the marker before the rename; trashPublished:
\* the rename synced before a file is deleted).  The one exception are trees
\* that a start deleted although their rename had not been synced.
PublishedWhole ==
    \A h \in Hex : published[h] \in {"none", "whole", "cut", "bare"}

\* RemovePublished: the tree "disappears in one step and a crash midway leaves
\* only trash, which the next start removes", so published/ never comes to hold
\* a tree without its files.
OnlyTrashLeft ==
    \A h \in Hex : published[h] \in {"none", "whole"}

\* The collector sees every tree a Pod reads: a read-only mount is in the
\* ledger under its own digest, also between a start and its rebuild.
MountsReferenced ==
    \A t \in readOnly : refs[t] = root[t]

\* Mounts are served only once recovery is complete: trash/ is empty, and every
\* tree still mounted, a writable bind of an interrupted mount too, has its
\* reference again (rebuild, "adopted").
RecoveredBeforeServing ==
    [][boot # "ready" /\ boot' = "ready" =>
          /\ trash' = {}
          /\ \A t \in Target : root'[t] \in Hex => refs'[t] = root'[t]]_vars

\* Claim: a mount that fails does not leave "a mounted tree the collector
\* cannot see".
NoUnseenMount ==
    \A t \in Target : boot = "ready" /\ pc[t] = "idle" /\ root[t] # NoTree => refs[t] = root[t]

(* The inductive invariant behind the safety properties.                    *)

\* While the plugin starts it only unmounts.
StartInv ==
    /\ boot # "ready" =>
          /\ gcPc = "idle"
          /\ \A h \in Hex : attempt[h] = "idle"
          /\ \A t \in Target : /\ pc[t] \in {"idle", "unref"}
                               /\ pc[t] = "unref" => root[t] = NoTree
    /\ boot \in {"mounts", "ledger", "fix"} => trash = {}

\* claimMu: a removal and a claim's record exclude each other, and the removal
\* that holds it has found no reference.
LockInv ==
    /\ gcPc \in {"locked", "renamed"} => \A t \in Target : pc[t] # "write"
    /\ gcPc = "locked" => ~Referenced(gcHex)
    /\ gcPc # "idle" => gcHex \in Hex

\* A call holds its digest's tree from its claim to its mount.
CallInv ==
    \A t \in Target :
        /\ pc[t] # "idle" => t \notin readOnly
        /\ pc[t] \notin {"idle", "unref"} => want[t] \in Hex
        /\ pc[t] \in {"write", "bind", "remount"} => published[want[t]] \in Mountable
        /\ pc[t] \in {"bind", "remount"} => refs[t] = want[t]
        /\ pc[t] = "remount" => root[t] = want[t]

\* Only synced files are renamed into published/, and a removal deletes no file
\* that the disk still holds there; only a start does.
DiskInv ==
    /\ \A h \in Hex : /\ published[h] \in {"none", "whole", "cut", "bare"}
                      /\ durable[h] \in {"none", "whole", "cut", "bare"}
                      /\ attempt[h] \in {"sealed", "marked"} => h \in synced
    /\ gcPc = "delete" => gcHex \notin lingering

\* What the rebuild read of a target still mounted is still so.
RebuildInv ==
    \A t \in Target :
        root[t] \in Hex =>
            /\ boot \in {"ledger", "fix"} => seen[t] = root[t]
            /\ boot = "fix" => IF t \in todo THEN ledger[t] = refs[t]
                                             ELSE refs[t] = root[t]

\* The invariant of the store: each part is kept with the help of the others.
IndInv ==
    /\ TypeOK /\ StartInv /\ LockInv /\ CallInv /\ DiskInv /\ RebuildInv
    /\ MountedTreeStays /\ MountsReferenced

-----------------------------------------------------------------------------
(* Liveness, and what a Pod sees.                                           *)

\* No call holds its target forever: claimMu, the retry after Ensure and the
\* failure paths all come to an answer, so an unmount of the same target is
\* never locked out, and the plugin comes to serve mounts again after a start.
CallsAnswered ==
    /\ \A t \in Target : pc[t] # "idle" ~> pc[t] = "idle"
    /\ boot # "ready" ~> boot = "ready"

\* To a Pod the store is the cache of NodeCache: a digest is present when it
\* is published, and a volume mounted once it is read-only.
Cache == INSTANCE NodeCache WITH
    present <- {h \in Hex : IsPublished(h)},
    mounted <- [t \in Target |-> IF t \in readOnly THEN root[t] ELSE NoTree]

\* Every step of the store, its collector, its calls and its recovery is a step
\* of that cache, or one no Pod can tell.
ImplementsNodeCache == Cache!Spec
=============================================================================
