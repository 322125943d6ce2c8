--------------------------- MODULE ModelStoreProofs ---------------------------
(***************************************************************************)
(* Proofs about ModelStore for any digests, any targets and any number of   *)
(* crashes: IndInv is inductive, so its parts are invariants; recovery is   *)
(* complete when mounts are served; and the store implements NodeCache.     *)
(***************************************************************************)
EXTENDS ModelStore, TLAPS

\* The empty cache root of a first start satisfies the invariant: nothing is
\* published, referenced, mounted or under way.
LEMMA InitInv == Init => IndInv
<1> SUFFICES ASSUME Init PROVE IndInv
  OBVIOUS
<1>1. TypeOK
  BY StoreAssumption DEF Init, TypeOK, Content, Phases, Steps, Nothing
<1>2. StartInv /\ LockInv /\ CallInv /\ DiskInv
  BY DEF Init, StartInv, LockInv, CallInv, DiskInv
<1>3. RebuildInv /\ MountedTreeStays /\ MountsReferenced
  BY StoreAssumption DEF Init, RebuildInv, MountedTreeStays, MountsReferenced, Nothing
<1> QED
  BY <1>1, <1>2, <1>3 DEF IndInv

\* The steps of an attempt (Attempt.Publish, fetchTree) keep the invariant: the
\* files are synced before the marker is written, so what is renamed is whole.
LEMMA MaterializeInv ==
    ASSUME IndInv, NEW h \in Hex, Materialize(h)
    PROVE  IndInv'
<1> USE DEF IndInv, disk, mounts, calls, gc, start
<1>1. attempt[h] # "idle" /\ boot = "ready"
  BY DEF Materialize, Fetched, SealFiles, WriteMarker, RenameIn, SyncRename, AttemptFails,
         StartInv, TypeOK
<1>2. UNCHANGED <<trash, refs, root, readOnly, pc, want, gcPc, gcHex, boot, seen, ledger,
                  todo, crashes>>
  BY DEF Materialize, Fetched, SealFiles, WriteMarker, RenameIn, SyncRename, AttemptFails,
         SyncPublished
<1>3. CASE Fetched(h) \/ SealFiles(h) \/ WriteMarker(h) \/ AttemptFails(h)
  <2>1. UNCHANGED <<published, durable, lingering>>
    BY <1>3 DEF Fetched, SealFiles, WriteMarker, AttemptFails
  <2>2. TypeOK'
    BY <1>2, <1>3, <2>1 DEF Fetched, SealFiles, SealAndSync, WriteMarker, AttemptFails, TypeOK,
       Phases
  <2>3. DiskInv'
    BY <1>2, <1>3, <2>1 DEF Fetched, SealFiles, SealAndSync, WriteMarker, AttemptFails, TypeOK,
       DiskInv
  <2> QED
    BY <1>1, <1>2, <2>1, <2>2, <2>3 DEF StartInv, LockInv, Referenced, CallInv, RebuildInv,
       MountedTreeStays, MountsReferenced
<1>4. CASE RenameIn(h)
  <2>1. /\ published' = [published EXCEPT ![h] = "whole"]
        /\ attempt' = [attempt EXCEPT ![h] = "renamed"]
        /\ synced' = synced \ {h}
        /\ UNCHANGED <<durable, lingering>>
    BY <1>4 DEF RenameIn, DiskInv
  <2>2. TypeOK'
    BY <1>2, <2>1 DEF TypeOK, Content, Phases
  <2>3. DiskInv'
    BY <1>2, <2>1 DEF TypeOK, DiskInv
  <2>4. CallInv' /\ MountedTreeStays'
    BY <1>2, <2>1 DEF TypeOK, CallInv, MountedTreeStays, Mountable
  <2> QED
    BY <1>1, <1>2, <2>2, <2>3, <2>4 DEF StartInv, LockInv, Referenced, RebuildInv, MountsReferenced
<1>5. CASE SyncRename(h)
  <2>1. /\ durable' = published
        /\ lingering' = {}
        /\ attempt' = [attempt EXCEPT ![h] = "idle"]
        /\ UNCHANGED <<published, synced>>
    BY <1>5 DEF SyncRename, SyncPublished
  <2>2. TypeOK' /\ DiskInv'
    BY <1>2, <2>1 DEF TypeOK, DiskInv, Phases
  <2> QED
    BY <1>1, <1>2, <2>1, <2>2 DEF StartInv, LockInv, Referenced, CallInv, RebuildInv,
       MountedTreeStays, MountsReferenced
<1> QED
  BY <1>3, <1>4, <1>5 DEF Materialize

\* The calls of kubelet (NodePublishVolume, NodeUnpublishVolume) keep the
\* invariant: a claim finds its tree published, and holds it by its reference
\* until the mount is read-only; a target is unmounted before it is unreferenced.
LEMMA ServeInv ==
    ASSUME IndInv, NEW t \in Target, Serve(t)
    PROVE  IndInv'
<1> USE DEF IndInv, disk, work, mounts, calls, gc, start, Return
<1>1. CASE \E h \in Hex : PublishVolume(t, h)
  <2> PICK h \in Hex : PublishVolume(t, h)
    BY <1>1
  <2>1. t \notin readOnly
    BY StoreAssumption DEF PublishVolume, MountedTreeStays
  <2>2. TypeOK'
    BY DEF PublishVolume, TypeOK, Steps
  <2>3. CallInv'
    BY <2>1 DEF PublishVolume, TypeOK, CallInv
  <2> QED
    BY <2>2, <2>3 DEF PublishVolume, TypeOK, StartInv, LockInv, Referenced, DiskInv,
       RebuildInv, MountedTreeStays, MountsReferenced
<1>2. CASE UnmountWritable(t)
  <2>1. TypeOK' /\ CallInv'
    BY <1>2 DEF UnmountWritable, TypeOK, CallInv
  <2> QED
    BY <1>2, <2>1 DEF UnmountWritable, TypeOK, StartInv, LockInv, Referenced, DiskInv,
       RebuildInv, MountedTreeStays, MountsReferenced
<1>3. CASE ClaimCheck(t)
  <2>1. boot = "ready"
    BY <1>3 DEF ClaimCheck, StartInv
  <2>2. TypeOK'
    BY <1>3 DEF ClaimCheck, TypeOK, Steps
  <2>3. LockInv'
    BY <1>3 DEF ClaimCheck, ClaimMuFree, TypeOK, LockInv, Referenced
  <2>4. CallInv'
    BY <1>3 DEF ClaimCheck, IsPublished, Mountable, TypeOK, CallInv, DiskInv
  <2> QED
    BY <1>3, <2>1, <2>2, <2>3, <2>4 DEF ClaimCheck, StartInv, DiskInv, RebuildInv,
       MountedTreeStays, MountsReferenced
<1>4. CASE WriteRef(t) \/ WriteRefFails(t)
  <2>1. boot = "ready" /\ gcPc \notin {"locked", "renamed"} /\ t \notin readOnly
    BY <1>4 DEF WriteRef, WriteRefFails, StartInv, LockInv, CallInv
  <2>2. TypeOK'
    BY <1>4 DEF WriteRef, WriteRefFails, TypeOK, Steps
  <2>3. LockInv'
    BY <1>4, <2>1 DEF WriteRef, WriteRefFails, LockInv
  <2>4. CallInv'
    BY <1>4 DEF WriteRef, WriteRefFails, TypeOK, CallInv
  <2>5. MountsReferenced' /\ MountedTreeStays'
    BY <1>4, <2>1 DEF WriteRef, WriteRefFails, TypeOK, MountsReferenced, MountedTreeStays
  <2> QED
    BY <1>4, <2>1, <2>2, <2>3, <2>4, <2>5 DEF WriteRef, WriteRefFails, StartInv, DiskInv,
       RebuildInv
<1>5. CASE Ensure(t)
  <2>1. boot = "ready"
    BY <1>5 DEF Ensure, StartInv
  <2>2. TypeOK'
    BY <1>5 DEF Ensure, TypeOK, Steps, Phases
  <2>3. CallInv' /\ LockInv'
    BY <1>5 DEF Ensure, TypeOK, CallInv, LockInv, Referenced
  <2>4. DiskInv'
    BY <1>5 DEF Ensure, TypeOK, DiskInv
  <2> QED
    BY <1>5, <2>1, <2>2, <2>3, <2>4 DEF Ensure, StartInv, RebuildInv, MountedTreeStays,
       MountsReferenced
<1>6. CASE Bind(t) \/ BindFails(t) \/ RemountFails(t)
  <2>1. boot = "ready" /\ t \notin readOnly
    BY <1>6 DEF Bind, BindFails, RemountFails, StartInv, CallInv
  <2>2. TypeOK'
    BY <1>6 DEF Bind, BindFails, RemountFails, TypeOK, Steps, CallInv
  <2>3. CallInv' /\ LockInv'
    BY <1>6 DEF Bind, BindFails, RemountFails, TypeOK, CallInv, LockInv, Referenced
  <2>4. MountedTreeStays' /\ MountsReferenced'
    BY <1>6, <2>1 DEF Bind, BindFails, RemountFails, TypeOK, MountedTreeStays, MountsReferenced
  <2> QED
    BY <1>6, <2>1, <2>2, <2>3, <2>4 DEF Bind, BindFails, RemountFails, StartInv, DiskInv,
       RebuildInv
<1>7. CASE Remount(t)
  <2>1. /\ boot = "ready"
        /\ root[t] = want[t] /\ refs[t] = want[t] /\ want[t] \in Hex
        /\ published[want[t]] \in Mountable
    BY <1>7 DEF Remount, StartInv, CallInv
  <2>2. TypeOK' /\ CallInv' /\ LockInv'
    BY <1>7 DEF Remount, TypeOK, Steps, CallInv, LockInv, Referenced
  <2>3. MountedTreeStays' /\ MountsReferenced'
    BY <1>7, <2>1 DEF Remount, MountedTreeStays, MountsReferenced
  <2> QED
    BY <1>7, <2>1, <2>2, <2>3 DEF Remount, StartInv, DiskInv, RebuildInv
<1>8. CASE DropRef(t) \/ RemoveRef(t)
  <2>1. t \notin readOnly /\ (boot # "ready" => root[t] = NoTree)
    BY <1>8 DEF DropRef, RemoveRef, StartInv, CallInv
  <2>2. TypeOK'
    BY <1>8 DEF DropRef, RemoveRef, TypeOK, Steps
  <2>3. CallInv' /\ LockInv'
    BY <1>8, StoreAssumption DEF DropRef, RemoveRef, TypeOK, CallInv, LockInv, Referenced
  <2>4. StartInv' /\ RebuildInv'
    BY <1>8, <2>1, StoreAssumption DEF DropRef, RemoveRef, TypeOK, StartInv, RebuildInv
  <2> QED
    BY <1>8, <2>1, <2>2, <2>3, <2>4 DEF DropRef, RemoveRef, TypeOK, DiskInv, MountedTreeStays,
       MountsReferenced
<1>9. CASE UnpublishVolume(t)
  <2>1. TypeOK'
    BY <1>9 DEF UnpublishVolume, TypeOK, Steps
  <2>2. CallInv' /\ LockInv'
    BY <1>9 DEF UnpublishVolume, TypeOK, CallInv, LockInv, Referenced
  <2>3. StartInv' /\ RebuildInv'
    BY <1>9, StoreAssumption DEF UnpublishVolume, TypeOK, StartInv, RebuildInv
  <2> QED
    BY <1>9, <2>1, <2>2, <2>3 DEF UnpublishVolume, TypeOK, DiskInv, MountedTreeStays,
       MountsReferenced
<1> QED
  BY <1>1, <1>2, <1>3, <1>4, <1>5, <1>6, <1>7, <1>8, <1>9 DEF Serve

\* The collector (collect, RemoveUnreferenced) keeps the invariant: when it
\* renames a tree away it holds claimMu and no reference names the tree, so no
\* mount and no call holds it.
LEMMA CollectInv ==
    ASSUME IndInv, Collect
    PROVE  IndInv'
<1> USE DEF IndInv, disk, work, mounts, calls, gc, start, EndRemoval
<1>1. CASE \/ \E h \in Hex : ListCandidate(h)
           \/ LockUnreferenced
           \/ SyncTrashedFails
  <2>1. boot = "ready"
    BY <1>1 DEF ListCandidate, LockUnreferenced, SyncTrashedFails, StartInv
  <2>2. TypeOK' /\ LockInv'
    BY <1>1 DEF ListCandidate, LockUnreferenced, StillIdle, SyncTrashedFails, ClaimMuFree, TypeOK,
       LockInv,
       Referenced
  <2> QED
    BY <1>1, <2>1, <2>2 DEF ListCandidate, LockUnreferenced, SyncTrashedFails, StartInv, CallInv,
       DiskInv, RebuildInv, MountedTreeStays, MountsReferenced
<1>2. CASE TrashPublished
  <2>1. /\ boot = "ready" /\ gcHex \in Hex
        /\ \A t \in Target : refs[t] # gcHex /\ pc[t] # "write"
    BY <1>2 DEF TrashPublished, StartInv, LockInv, Referenced
  <2>2. TypeOK'
    BY <1>2, <2>1 DEF TrashPublished, TypeOK, Content
  <2>3. LockInv' /\ DiskInv'
    BY <1>2, <2>1 DEF TrashPublished, TypeOK, LockInv, DiskInv, Content
  <2>4. CallInv'
    <3> SUFFICES ASSUME NEW t \in Target,
                        pc[t] \in {"bind", "remount"}
                 PROVE  published'[want[t]] \in Mountable /\ (pc[t] = "remount" => root'[t] = want[t])
      BY <1>2, <2>1 DEF TrashPublished, TypeOK, CallInv
    <3> QED
      BY <1>2, <2>1 DEF TrashPublished, TypeOK, CallInv
  <2>5. MountedTreeStays' /\ MountsReferenced'
    BY <1>2, <2>1 DEF TrashPublished, TypeOK, MountedTreeStays, MountsReferenced
  <2> QED
    BY <1>2, <2>1, <2>2, <2>3, <2>4, <2>5 DEF TrashPublished, StartInv, RebuildInv
<1>3. CASE SyncTrashed \/ DeleteTrash
  <2>1. boot = "ready" /\ gcHex \in Hex
    BY <1>3 DEF SyncTrashed, DeleteTrash, StartInv, LockInv
  <2>2. TypeOK'
    BY <1>3, <2>1 DEF SyncTrashed, DeleteTrash, SyncPublished, TypeOK, Content
  <2>3. DiskInv'
    BY <1>3, <2>1 DEF SyncTrashed, DeleteTrash, SyncPublished, TypeOK, DiskInv
  <2> QED
    BY <1>3, <2>1, <2>2, <2>3 DEF SyncTrashed, DeleteTrash, StartInv, LockInv, CallInv, RebuildInv,
       MountedTreeStays, MountsReferenced
<1> QED
  BY <1>1, <1>2, <1>3 DEF Collect

\* The rebuild (Store.Rebuild) keeps the invariant: a tree mounted when its
\* target is reconciled was mounted when the mounts were read, so its reference
\* is kept, or written again.
LEMMA RebuildStepInv ==
    ASSUME IndInv, Rebuild
    PROVE  IndInv'
<1> USE DEF IndInv, disk, work, mounts, calls, gc, start
<1>0. CASE EmptyTrash
  <2>1. \A h \in Hex : durable'[h] \in {durable[h], "cut", "bare"}
    BY <1>0 DEF EmptyTrash
  <2>2. durable' \in [Hex -> Content]
    BY <1>0, <2>1 DEF EmptyTrash, TypeOK, Content
  <2>3. TypeOK'
    BY <1>0, <2>2 DEF EmptyTrash, TypeOK
  <2>4. DiskInv'
    BY <1>0, <2>1 DEF EmptyTrash, DiskInv
  <2> QED
    BY <1>0, <2>3, <2>4 DEF EmptyTrash, StartInv, LockInv, Referenced, CallInv, RebuildInv,
       MountedTreeStays, MountsReferenced
<1>1. CASE ReadMounts \/ ReadLedger \/ ServeMounts
  <2>1. TypeOK'
    BY <1>1, StoreAssumption DEF ReadMounts, CacheMount, ReadLedger, Known,
       ServeMounts, Nothing, TypeOK
  <2>2. StartInv' /\ LockInv'
    BY <1>1 DEF ReadMounts, ReadLedger, ServeMounts, StartInv, LockInv, Referenced
  <2>3. RebuildInv'
    BY <1>1, StoreAssumption DEF ReadMounts, CacheMount, ReadLedger, Known,
       ServeMounts, TypeOK, RebuildInv
  <2> QED
    BY <1>1, <2>1, <2>2, <2>3 DEF ReadMounts, ReadLedger, ServeMounts, CallInv, DiskInv,
       MountedTreeStays, MountsReferenced
<1>2. ASSUME NEW t \in Target, Reconcile(t)
      PROVE  IndInv'
  <2>1. root[t] \in Hex => refs'[t] = root[t]
    BY <1>2 DEF Reconcile, TypeOK, RebuildInv
  <2>2. \A u \in Target : u # t => refs'[u] = refs[u]
    BY <1>2 DEF Reconcile, TypeOK
  <2>3. TypeOK'
    BY <1>2 DEF Reconcile, TypeOK
  <2>4. RebuildInv'
    BY <1>2, <2>1, <2>2 DEF Reconcile, RebuildInv
  <2>5. CallInv' /\ LockInv' /\ StartInv'
    BY <1>2, <2>2 DEF Reconcile, CallInv, LockInv, StartInv
  <2>6. MountedTreeStays' /\ MountsReferenced'
    BY <1>2, <2>1, <2>2 DEF Reconcile, TypeOK, MountedTreeStays, MountsReferenced
  <2> QED
    BY <1>2, <2>3, <2>4, <2>5, <2>6 DEF Reconcile, DiskInv
<1> QED
  BY <1>0, <1>1, <1>2 DEF Rebuild

\* A crash of the plugin and a loss of power keep the invariant: mounts outlive
\* the one with their references, and the other ends them.
LEMMA FailureInv ==
    ASSUME IndInv, Crash \/ PowerLoss
    PROVE  IndInv'
<1> USE DEF IndInv, disk, mounts
<1>1. CASE Crash
  <2>1. TypeOK'
    BY <1>1, StoreAssumption DEF Crash, Restart, EndRemoval, Nothing, TypeOK, Phases, Steps
  <2>2. StartInv' /\ LockInv' /\ CallInv' /\ DiskInv' /\ RebuildInv'
    BY <1>1 DEF Crash, Restart, EndRemoval, StartInv, LockInv, CallInv, DiskInv, RebuildInv
  <2> QED
    BY <1>1, <2>1, <2>2 DEF Crash, MountedTreeStays, MountsReferenced
<1>2. CASE PowerLoss
  <2>1. \A h \in Hex : /\ published'[h] \in {"none", "whole", "cut", "bare"}
                        /\ durable'[h] = published'[h]
    BY <1>2 DEF PowerLoss, Survives, DiskInv
  <2>2. TypeOK'
    <3>1. published' \in [Hex -> Content] /\ durable' \in [Hex -> Content]
      BY <1>2, <2>1 DEF PowerLoss, Content
    <3> QED
      BY <1>2, <3>1, StoreAssumption DEF PowerLoss, Restart, EndRemoval, Nothing, TypeOK, Phases,
         Steps
  <2>3. StartInv' /\ LockInv' /\ CallInv'
    BY <1>2 DEF PowerLoss, Restart, EndRemoval, StartInv, LockInv, CallInv
  <2>4. DiskInv'
    BY <1>2, <2>1 DEF PowerLoss, Restart, EndRemoval, DiskInv
  <2>5. RebuildInv' /\ MountedTreeStays' /\ MountsReferenced'
    BY <1>2, StoreAssumption DEF PowerLoss, Restart, Nothing, RebuildInv, MountedTreeStays,
       MountsReferenced
  <2> QED
    BY <2>2, <2>3, <2>4, <2>5
<1> QED
  BY <1>1, <1>2

\* Every step of the store keeps the invariant.
LEMMA NextInv == IndInv /\ [Next]_vars => IndInv'
<1> SUFFICES ASSUME IndInv, [Next]_vars PROVE IndInv'
  OBVIOUS
<1>1. CASE Next
  BY <1>1, MaterializeInv, ServeInv, CollectInv, RebuildStepInv, FailureInv DEF Next
<1>2. CASE UNCHANGED vars
  BY <1>2 DEF vars, disk, work, mounts, calls, gc, start, IndInv, TypeOK, StartInv, LockInv,
     Referenced, CallInv, DiskInv, RebuildInv, MountedTreeStays, MountsReferenced
<1> QED
  BY <1>1, <1>2

\* The inductive invariant holds of every behaviour.
THEOREM Invariance == Spec => []IndInv
BY InitInv, NextInv, PTL DEF Spec

\* The store's variables keep their types: in particular a reference and a
\* mount the rebuild reads always name a digest.
THEOREM TypeCorrect == Spec => []TypeOK
<1>1. IndInv => TypeOK
  BY DEF IndInv
<1> QED
  BY <1>1, Invariance, PTL

\* A target answered as mounted keeps its published tree until it is unmounted or
\* the node reboots (Claim against RemoveUnreferenced): it is never a tree with
\* files lost in a publication, only one a start may have cut (OnlyTrashLeft).
THEOREM TreeStays == Spec => []MountedTreeStays
<1>1. IndInv => MountedTreeStays
  BY DEF IndInv
<1> QED
  BY <1>1, Invariance, PTL

\* No crash or loss of power during a publication, or a removal the plugin carries
\* through, leaves a tree in published/ with bytes missing (Attempt.Publish,
\* trashPublished); only a start can, by emptying trash/ (emptyTrash).
THEOREM NothingTorn == Spec => []PublishedWhole
<1>1. IndInv => PublishedWhole
  BY DEF IndInv, DiskInv, PublishedWhole
<1> QED
  BY <1>1, Invariance, PTL

\* Every read-only mount is in the ledger the collector reads.
THEOREM MountsSeen == Spec => []MountsReferenced
<1>1. IndInv => MountsReferenced
  BY DEF IndInv
<1> QED
  BY <1>1, Invariance, PTL

\* When mounts are first served after a start, trash/ is empty and every tree
\* still mounted is referenced (Manager.rebuild).
THEOREM Recovered == Spec => RecoveredBeforeServing
<1> DEFINE Served == boot # "ready" /\ boot' = "ready" =>
                        /\ trash' = {}
                        /\ \A t \in Target : root'[t] \in Hex => refs'[t] = root'[t]
<1>1. IndInv /\ [Next]_vars => [Served]_vars
  <2> SUFFICES ASSUME IndInv, Next, boot # "ready", boot' = "ready"
               PROVE  /\ trash' = {}
                      /\ \A t \in Target : root'[t] \in Hex => refs'[t] = root'[t]
    OBVIOUS
  <2>1. ServeMounts
    <3>1. ~\E h \in Hex : Materialize(h)
      BY DEF Materialize, Fetched, SealFiles, WriteMarker, RenameIn, SyncRename, AttemptFails, start
    <3>2. ~\E t \in Target : Serve(t)
      BY DEF Serve, PublishVolume, UnmountWritable, ClaimCheck, WriteRef, WriteRefFails, Ensure,
         Bind, BindFails, Remount, RemountFails, DropRef, UnpublishVolume, RemoveRef, start
    <3>3. ~Collect
      BY DEF Collect, ListCandidate, LockUnreferenced, TrashPublished, SyncTrashed,
         SyncTrashedFails, DeleteTrash, start
    <3>4. ~Crash /\ ~PowerLoss
      BY DEF Crash, PowerLoss, Restart
    <3> QED
      BY <3>1, <3>2, <3>3, <3>4 DEF Next, Rebuild, EmptyTrash, ReadMounts, ReadLedger, Reconcile
  <2> QED
    BY <2>1 DEF ServeMounts, IndInv, StartInv, RebuildInv, disk, mounts
<1> QED
  BY <1>1, Invariance, PTL DEF Spec, RecoveredBeforeServing

-----------------------------------------------------------------------------
(* The store implements NodeCache.                                          *)

Present == {h \in Hex : IsPublished(h)}
Mounted == [t \in Target |-> IF t \in readOnly THEN root[t] ELSE NoTree]

\* A step that publishes nothing, evicts nothing and neither mounts nor unmounts
\* a volume read-only is invisible to a Pod.
LEMMA Invisible ==
    ASSUME UNCHANGED <<published, root, readOnly>>
    PROVE  UNCHANGED <<Present, Mounted>>
BY DEF Present, Mounted, IsPublished

\* A bind that is not read-only yet, or never will be, is not a mount to a Pod.
LEMMA WritableInvisible ==
    ASSUME NEW t \in Target, t \notin readOnly, UNCHANGED <<published, readOnly>>,
           root \in [Target -> Hex \cup {NoTree, Trashed}],
           NEW r, root' = [root EXCEPT ![t] = r]
    PROVE  UNCHANGED <<Present, Mounted>>
<1>1. UNCHANGED Present
  BY DEF Present, IsPublished
<1>2. \A u \in Target : u \in readOnly => root'[u] = root[u]
  OBVIOUS
<1>3. UNCHANGED Mounted
  BY <1>2 DEF Mounted
<1> QED
  BY <1>1, <1>3

\* Every step of the store is one step of the cache, or none.
LEMMA StepRefines == IndInv /\ [Next]_vars => [Cache!Next]_<<Present, Mounted>>
<1> SUFFICES ASSUME IndInv, [Next]_vars
             PROVE  Cache!Next \/ UNCHANGED <<Present, Mounted>>
  OBVIOUS
<1> USE DEF disk, work, mounts, calls, gc, start
<1>1. ASSUME NEW h \in Hex, Materialize(h)
      PROVE  Cache!Next \/ UNCHANGED <<Present, Mounted>>
  <2>1. CASE RenameIn(h)
    <3>1. Present' = Present \cup {h} /\ UNCHANGED Mounted
      BY <2>1 DEF RenameIn, Present, Mounted, IsPublished, IndInv, TypeOK
    <3> QED
      BY <3>1 DEF Cache!Next, Cache!Add, Present, Mounted
  <2>2. CASE ~RenameIn(h)
    BY <1>1, <2>2, Invisible DEF Materialize, Fetched, SealFiles, WriteMarker, SyncRename,
       AttemptFails
  <2> QED
    BY <2>1, <2>2
<1>2. ASSUME NEW t \in Target, Serve(t)
      PROVE  Cache!Next \/ UNCHANGED <<Present, Mounted>>
  <2>1. CASE UnmountWritable(t) \/ Bind(t) \/ RemountFails(t)
    <3>1. t \notin readOnly /\ UNCHANGED <<published, readOnly>>
      BY <2>1 DEF UnmountWritable, Bind, RemountFails, IndInv, CallInv
    <3>2. root' = [root EXCEPT ![t] = NoTree] \/ root' = [root EXCEPT ![t] = want[t]] \/ root' = root
      BY <2>1 DEF UnmountWritable, Bind, RemountFails
    <3>3. root \in [Target -> Hex \cup {NoTree, Trashed}]
      BY DEF IndInv, TypeOK
    <3>4. CASE root' = root
      BY <3>1, <3>4, Invisible
    <3>5. CASE root' = [root EXCEPT ![t] = NoTree]
      BY <3>1, <3>3, <3>5, WritableInvisible
    <3>6. CASE root' = [root EXCEPT ![t] = want[t]]
      BY <3>1, <3>3, <3>6, WritableInvisible
    <3> QED
      BY <3>2, <3>4, <3>5, <3>6
  <2>2. CASE Remount(t)
    <3>1. /\ t \notin readOnly /\ readOnly' = readOnly \cup {t} /\ root[t] = want[t]
          /\ want[t] \in Hex /\ published[want[t]] \in Mountable /\ UNCHANGED <<published, root>>
      BY <2>2 DEF Remount, IndInv, CallInv
    <3>2. want[t] \in Present /\ UNCHANGED Present
      BY <3>1 DEF Present, IsPublished, Mountable
    <3>3. Mounted[t] = NoTree /\ Mounted' = [Mounted EXCEPT ![t] = want[t]]
      BY <3>1 DEF Mounted
    <3>4. \E h \in Hex : Cache!Mount(t, h)
      BY <3>1, <3>2, <3>3 DEF Cache!Mount, Present, Mounted
    <3> QED
      BY <3>4 DEF Cache!Next
  <2>3. CASE UnpublishVolume(t)
    <3>1. Mounted' = [Mounted EXCEPT ![t] = NoTree] /\ UNCHANGED Present
      BY <2>3 DEF UnpublishVolume, Mounted, Present, IsPublished, IndInv, TypeOK
    <3>2. Cache!Unmount(t)
      BY <3>1 DEF Cache!Unmount, Present, Mounted
    <3> QED
      BY <3>2 DEF Cache!Next
  <2>4. CASE \/ \E h \in Hex : PublishVolume(t, h)
             \/ ClaimCheck(t) \/ WriteRef(t) \/ WriteRefFails(t) \/ Ensure(t)
             \/ BindFails(t) \/ DropRef(t) \/ RemoveRef(t)
    BY <2>4, Invisible DEF PublishVolume, ClaimCheck, WriteRef, WriteRefFails, Ensure, BindFails,
       DropRef, RemoveRef
  <2> QED
    BY <1>2, <2>1, <2>2, <2>3, <2>4 DEF Serve
<1>3. CASE Collect
  <2>1. CASE TrashPublished
    <3>1. gcHex \in Hex /\ \A t \in readOnly : root[t] # gcHex /\ t \in Target
      BY <2>1 DEF TrashPublished, IndInv, TypeOK, LockInv, Referenced, MountsReferenced
    <3>2. Present' = Present \ {gcHex}
      BY <2>1, <3>1 DEF TrashPublished, Present, IsPublished, IndInv, TypeOK
    <3>3. UNCHANGED Mounted /\ \A t \in Target : Mounted[t] # gcHex
      BY <2>1, <3>1, StoreAssumption DEF TrashPublished, Mounted
    <3>4. Cache!Evict(gcHex)
      BY <3>2, <3>3 DEF Cache!Evict, Present, Mounted
    <3> QED
      BY <3>1, <3>4 DEF Cache!Next
  <2>2. CASE ~TrashPublished
    BY <1>3, <2>2, Invisible DEF Collect, ListCandidate, LockUnreferenced, SyncTrashed,
       SyncTrashedFails, DeleteTrash
  <2> QED
    BY <2>1, <2>2
<1>4. CASE Rebuild \/ Crash
  BY <1>4, Invisible DEF Rebuild, EmptyTrash, ReadMounts, ReadLedger, Reconcile, ServeMounts, Crash
<1>5. CASE PowerLoss
  <2>1. Mounted' = [t \in Target |-> NoTree]
    BY <1>5 DEF PowerLoss, Mounted
  <2>2. Present' \in SUBSET Hex
    BY DEF Present
  <2>3. Cache!Reboot
    BY <2>1, <2>2 DEF Cache!Reboot, Present, Mounted
  <2> QED
    BY <2>3 DEF Cache!Next
<1>6. CASE UNCHANGED vars
  BY <1>6, Invisible DEF vars
<1> QED
  BY <1>1, <1>2, <1>3, <1>4, <1>5, <1>6 DEF Next

\* A Pod cannot tell the store, with its collector, its crashes and its
\* recovery, from a cache that never evicts what is mounted.
THEOREM Refinement == Spec => ImplementsNodeCache
<1>1. Init => Cache!Init
  BY DEF Init, Cache!Init, IsPublished, Nothing
<1> QED
  BY <1>1, StepRefines, Invariance, PTL DEF Spec, ImplementsNodeCache, Cache!Spec, Present, Mounted
=============================================================================
