# A verification project for gpustack-operator

TLA+ specifications of the parts of gpustack-operator that keep state on a node,
TLC configurations that check them on small instances, and proofs that TLAPS
checks. Everything is translated from the Go and C source; `PROJECT.json` maps each
definition to the lines it stands for.

1. [The system](#1-the-system)
2. [Plan](#2-plan)
3. [The modules and the code](#3-the-modules-and-the-code)
4. [The runs](#4-the-runs)
5. [The proofs](#5-the-proofs)
6. [Where the code and its documentation disagree](#6-where-the-code-and-its-documentation-disagree)
7. [What is not modelled](#7-what-is-not-modelled)

## 1. The system

The operator runs GPU workloads on Kubernetes: a control plane of controllers and
webhooks, and plugins on every node for devices and for models.

### Components

**Model-manager** (`pkg/modelmanager`), one process per node, which downloads
models and mounts them into Pods.

| Part | State | Operations |
|---|---|---|
| store and ledger (`store/`) | the directories `published/`, `partial/`, `trash/`; one file per reference; one record per digest | `NewAttempt`, `Publish`, `RemoveUnreferenced`, `RemovePartial`, `Claim`, `PutRef`, `RemoveRef`, `UpdateDigest`, `RemoveDigest`, `Rebuild` |
| CSI driver (`driver/`) | a lock per target path; the kernel's mount table | `NodePublishVolume`, `NodeUnpublishVolume` |
| materializer (`materialize/`) | the running attempts, by digest; the waiters of each | `Ensure` starts or joins an attempt, `run` carries it through, `watchWaiters` cancels it |
| download (`download/`) and peer client (`peer/client.go`) | the partial file, its checkpoint, the hash state, the segments in flight | `Fetch`, `fetchRanges`, `fetchParallel`, `Pull` |
| collector (`gc/`) | the reservations of the running attempts | `Reserve`, `release`, `Collect` |
| reporter (`report/`) | the last status written; the watermarks and pins applied | reads its `NodeModelCache` spec, writes its status |
| peer server (`peer/server.go`) | none of its own | serves published trees to other nodes |
| process (`manager.go`) | whether mounts are served | start: empty `trash/`, rebuild, then ready |

**Device-manager and device plugin** (`pkg/devicemanager`, `pkg/deviceplugin`), one
process per node: detects cards, advertises them whole, sliced or partitioned, and
answers kubelet's `Allocate`.

| Part | State | Operations |
|---|---|---|
| allocator loop (`allocator/allocator.go`, `gox/lifecycle.go`) | the allocator of each detected manufacturer; whether it runs, and whether it was stopped | creates, starts, stops and replaces allocators |
| serving (`serving.go`) | the socket, the gRPC server on it, the registration with kubelet | `Start` serves generation after generation, `Stop` ends them |
| allocation (`server.go`, `sliced_room.go`) | the reservations | `Allocate`: identify the container, decide, reserve, record, answer or give back |
| reconciler (`controller.go`, `terminated.go`) | the Devices ledger, rebuilt from the Pods' annotations; give-backs still to be made | `Reconcile`: verify, fold, publish, prune, retry |
| partitions (`nvidia/mig*.go` and others) | instances carved on the hardware | create, reclaim |
| RDMA (`rdma_*.go`) | the interfaces selected and handed out | the same protocol for network interfaces |

**Worker control plane** (`pkg/worker`): level-triggered controllers over the
Kubernetes API for instances, instance types, model artifacts and deployments, KV
cache backends and pools, node queues and device admission, with their webhooks.

**Slicing shims** (`csrc/`), C libraries preloaded into the processes of a workload
that was given a slice of a card. The ROCm one enforces the slice's memory: the
processes of a container share a mapped file with the total and each process's
charge, under a spin lock among threads and a record lock among processes, and each
has a private map of the pointers it was charged for. Its operations are the
allocating and freeing entries of the HIP runtime; `fork` copies the private part,
and a kill leaves the shared one as it is.

**Worker-gateway** (`pkg/workergateway`), an HTTP proxy to instances; **model-transfer**,
an image with transfer tools; and, outside the repository, Kueue, Node Feature
Discovery, kubelet and the hubs.

### How they interact

kubelet calls the CSI driver; the driver claims a tree in the store and, when there
is none, asks the materializer and answers a retryable code. The materializer
reserves room with the collector, downloads from other nodes' peer servers and then
from the hub, and publishes through the store. The collector runs on a timer and
from within a reservation, and asks the store and the materializer what it may
remove. The reporter feeds watermarks and pins to the collector and reports what the
store and the materializer hold. All of them are goroutines of one process; what
they share is the directory tree, the ledger, and five mutexes (the store's
`claimMu` and `digestMu`, the materializer's `mu`, the collector's `mu` and
`collectMu`), none of which is held across a download.

The device plugin is a set of gRPC servers, one for each manufacturer and mode, that
share one reconciler. kubelet calls them; they read Pods and the ledger from an
informer and kubelet's own view over its pod-resources API, decide under one mutex
of the node, and write the Pod's annotation outside it. The reconciler turns
annotations into the ledger, which the next decisions and the control plane's
admission read.

### What is hard about it

- **Interleaving**: a mount claims a tree while a removal is about to rename it; an
  attempt starts while the collector removes the directory it will carry over; two
  reservations measure the same free space.
- **Crashes**: publication, removal, mounting and checkpointing take several file
  operations each; the plugin may stop, or the node lose power, between any two.
- **Order**: segments arrive in any order but are hashed in byte order; an outcome
  must be recorded before the attempt leaves the running set.
- **Retries**: a file resumed after a failed candidate, a canceled attempt, a hub
  that ignores ranges, or a crash.
- **Many copies of one fact**: what a container holds is in kubelet's checkpoint, in a
  reservation, in an annotation, in the informer's copy of it and in the ledger, each
  behind another, and a restart loses one of them.
- **Late goroutines**: a start that runs after its stop, a stop that resumes after the
  next generation took the socket, a registration accepted for one already gone.
- **Processes that are not there any more**: killed with a lock or half an update, or
  the parent of a fork whose locks and records the child has copies of.
- **Waiting**: calls wait for a target's lock and for `claimMu`; a download waits for
  slots; an attempt that nobody waits for must end.

What makes each part correct:

| Part | Properties |
|---|---|
| store and driver | a mounted tree stays; publications and removals tear nothing; every mount is in the ledger; recovery comes before service; every call is answered |
| download | what verifies is the manifest's content; checkpoints are true; the count is exact; the window holds; a try ends |
| materializer | a backoff is honored; numbers rise; a running attempt keeps its directory and its files; an abandoned attempt ends; a cancellation costs nothing |
| collector | everything admitted fits; a refusal means nothing is left to remove |
| reporter | the status follows the store within its interval; a stale spec is not applied over a newer one |
| serving | a registration names what serves; a stopped server leaves nothing behind and takes nobody's socket; service comes back after kubelet restarts; every stop returns |
| device ledger | no card runs in two modes; slices fit into their card; the durable record says what runs, and keeps what it says; what was refused is given back; the ledger follows; no reservation outlives its Pod |
| shim ledger | what a container's programs have not freed stays within its figure; each process is charged that; a refusal is due; no lock stays taken |
| controllers | convergence to the declared state after any sequence of changes |

## 2. Plan

In order of importance to the user's data and workloads:

1. `ModelStore` with `NodeCache`: mounts, references, publication, removal and the
   rebuild, the abstract cache they implement, the inductive invariant, its proof
   and the refinement's. *Done.*
2. `FileFetch`: one file from its sources to a verified file. *Done, and its
   invariants proved.*
3. `Materializer`: attempts, backoff, records and pruning. *Done, and its safety
   properties proved.*
4. `Reservation`: the watermarks, with the counts, peers and checkpoints they are judged
   by. *Done, and `RoomForAll` proved where it holds.*
5. `DeviceLedger`: `Allocate` from decision to give-back, the reconciler's fold,
   pruning and retries, with restarts, lost answers and lagging informers. *Done for
   whole, shared and sliced cards, and its safety properties proved; partitions and
   visibility are left.*
6. `Serving` and `AllocatorLoop`: the servers `Allocate` arrives at. *Done, and their
   safety properties proved.*
7. `ShimLedger`: the memory of a slice (`csrc/amd/rocm-slicing-shim`), shared by
   processes that fork and crash while they hold it. *Done for one card, and its
   safety properties proved.*
8. `Watermark`: `KubeletCap` and `Effective` as operators, checked against a
   reference definition over bounded thresholds.
9. `Reporter` with the peer server; device admission on top of `DeviceLedger`; the
   rollout of KV cache backends and the draining of deployments.

`ModelStore` leaves open when a digest is downloaded and when a collection runs;
`Materializer` leaves open a file's bytes and a published tree's life; `FileFetch`
and `Reservation` fill in the bytes and the room. They meet at those points by
abstraction rather than in one composed state space: each lets the other's step
happen whenever it might. `AllocatorLoop` extends `Serving`: it is the composition of
the servers with those who start and stop them. `DeviceLedger` assumes a server that
is reached, and leaves to `AllocatorLoop` when it is. `ShimLedger` begins where the
slice has been handed out.

## 3. The modules and the code

### ModelStore: `store/`, `driver/`, `gc.go` removal, `manager.go` start

Per digest `published` and `durable` say what the running system and the disk hold
under `published/`; per target `refs` is the ledger, `root` and `readOnly` the mount
table, and `pc`, `want` the CSI call in progress, which `lockTarget` keeps to one.
`claimMu` is no variable: it is held exactly while a call is at `"write"` or the
collector at `"locked"` or `"renamed"`.

| Actions | Code |
|---|---|
| `Fetched` ... `SyncRename`, `AttemptFails` | `Publish`: seal, marker, rename, sync of the parent |
| `PublishVolume` ... `DropRef` | `NodePublishVolume`, with `Claim`, `Ensure`, `BindReadOnly`, `dropRef` |
| `UnpublishVolume`, `RemoveRef` | `NodeUnpublishVolume` |
| `ListCandidate` ... `DeleteTrash` | `candidates` and `RemoveUnreferenced` |
| `EmptyTrash` ... `ServeMounts` | `rebuild` in `manager.go` and `Store.Rebuild` |
| `Crash`, `PowerLoss` | the process or the node stops between any two steps |

A crash loses memory: calls, attempts, locks, the rebuild's readings. A power loss
also unmounts everything, tears files that were not synced, and for each entry of
`published/` keeps either what the system saw or what was last synced. Files are
durable once synced; a ledger file is renamed into place and synced by the code, so
it is taken as durable when the write returns.

A removal that was interrupted, or whose sync failed, may leave a tree in `trash/`
that the disk still has under `published/` (`lingering`). `RemoveUnreferenced` deletes
nothing then; the start does (`EmptyTrash`), and what a loss of power brings back is
`"cut"`, a tree without files that still has its marker, or `"bare"`, one without the
marker too, which is not published to anybody but is in the way of the next rename.
`OnlyTrashLeft` denies both and TLC refutes it (section 6), so the properties of `store`
make an exception for them. The order in which the disk keeps changes to
different directories is left open unless the code syncs. A filesystem that commits
its metadata in order would never show this, but the code syncs `published/` before it
deletes (`store.go:221`), so it does not mean to rely on that.

**NodeCache** is what a Pod may rely on: digests are present or not, a volume mounted
from one keeps it until it is unmounted or the node reboots. `ModelStore` implements
it with `present` the published digests and `mounted` the read-only mounts.

### FileFetch: `download/`, `peer/client.go`, `materialize.go` `pullFromPeers`

The file is a sequence of blocks, each a hole, the manifest's or another; a block is
the unit of a request, a write and the hash. The SHA-256 state is modelled by what
it decides: how many blocks were hashed, and whether all were the manifest's.
`cp` is the checkpoint file and `oldCp` what its last, unsynced rename replaced.
`flying` are the segments requested; a slot is `next - hashed`, since it is returned
when its segment is hashed. `received` is the attempt's count, which the reservation
and the status rely on. `env`, chosen at the start, is what a behaviour may meet: how
many peers, whether the hub honors ranges, how often power and plugin fail.

A power loss may take any block that was not synced, shorten the file behind its
last block, and take the last rename of the checkpoint. The filesystem is taken to
be a journaling one, as the code's comments do: the sync before a checkpoint commits
the rename before it, and truncations and removals keep their order.

### Materializer: `materialize.go`, `NewAttempt`, and what `gc.go` prunes

One digest: attempts at different digests share no state but the collector, which
visits them in turn. `phase` is the running attempt (`"none"` when `jobs` has none),
`joined` the artifacts whose mounts asked for it, `rec` the digest's ledger record,
`dir` and `files` the partial directory, `owed` a history variable: a failed attempt
whose backoff has not passed. A directory is a set of file names. The collector's
readings are separate steps, because no lock spans them. Time is abstract: the
backoff, the waiter window, a record's and a partial's age each pass by a step.
When a failure cannot be recorded (`RecordFails`) the code only logs, and `owed` is
cleared: no backoff is promised. `env` says which artifacts ask, whether anything
grows old enough for the collector, and how often the plugin crashes or a record
cannot be written.

### Reservation: `gc.go`, and what `materialize.go`, `download/` and `peer/` count

Units of bytes; an attempt is one file. `held` is what the file occupies, `saved` its
checkpoint, `counted` what `written()` reports. They differ between a write and its
count, and whenever a file is cut, which are the windows the property is about. `mu`
and `pass` are `c.mu` and `collectMu`.

| Actions | Code |
|---|---|
| `List` | `fetchTree`: what an earlier attempt left is counted |
| `ReadCounts` ... `LockCollect` | `Reserve`, `tryReserve` |
| `Resume`, `Write`, `Count`, `Checkpoint` | a candidate's or the hub's download, from the last checkpoint (`verifier.resume`) |
| `PeerFails`, `Withdraw` | `FetchFile` goes on to the next candidate; `pullFromPeers` when none is left |
| `StartOver`, `Uncount` | `Downloader.fetchRanges` with a hub that does not honor a resume |
| `End` with `Publish`, `Discard`, `Leave` | the attempt's end, and its `release` |
| `BeginCollect` ... `CollectFails` | `Collect`, `collect` |

`debit` is what is to be taken off the count: what the candidates delivered
(`fromPeers`), or what the file held when it started over. `from` is where the source
being asked began, for only a resume can be answered with the whole file. `env` says
which attempts run, how many candidates a file has (`peers`), and whether a hub may not
honor a resume (`whole`). A digest of several files has several such windows at once,
none of another kind. The filesystem holds nothing but the cache: what other programs
write can break any bound, and the code promises nothing then.

### Serving and AllocatorLoop: `serving.go`, `gox/lifecycle.go`, `allocator.go`

`Serving` is one socket name and the calls of `Start` and `Stop` on the objects that
own it. A generation is a Start and a number: `srv` is its gRPC server and listener,
`path` the generation the socket path names, `known` the one kubelet registered.
`running`, `server` and `registered` are the fields of `serving`. Each critical section
of `s.mu`, each system call and each case of the `select` is a step, so `retire` is
two: the fields are dropped under the lock, the server stops outside it.

| Actions | Code |
|---|---|
| `Begin`, `Again`, `End` | `Start` with `begin` and `end` |
| `Clear` ... `Publish`, `GoServe` | `serve` up to its loop; the goroutine that serves |
| `LoopTop` ... `Stat`, `RetireDrop`, `RetireStop` | the loop of `serve`, `register`, `retire` |
| `StopRead` ... `StopWait` | `Stop` |
| `LifeStart`, `LifeEnd`, `LifeStop` | `Lifecycle` |
| `Create`, `StopAllocator`, `Stopped`, `GiveUp`, `Drained` | `Allocator.Start` |
| `KubeletRestarts`, `ServeEnds` | kubelet wipes the directory; a server ends by itself |

kubelet takes a registration only if what the path names answers, since it dials back
before it accepts. A generation ends by a fault or with its Start, so the bound on
faults bounds the generations. A lifecycle runs one task here; the code's run their
servers side by side and share nothing but the context, and the pool's group is taken
to wait for all of them.

`ReturnedLeavesNothing` excludes a generation that a Stop still running has taken and
not stopped yet: `Start` then returns before that server is down. Only the Stop itself,
which waits for both, is promised more, and only it is relied on.

### DeviceLedger: `server.go`, `controller.go`, `sliced_room.go`, `kubelet_*.go`

Five records of what a container holds: kubelet's `held`, the reservations `resv`, the
annotation `anno`, the informer's `cache` of it and, folded to the mode of each card,
`ledger` with its copy `ledgerSeen`. `pend` are the give-backs to retry, `call` the
`Allocate` in progress, `rec` the reconcile in progress with what it read. kubelet asks
for one container at a time and names a card and a family, never the container; the
container it means is `call.for`, the one the code arrives at `call.who`.

| Actions | Code |
|---|---|
| `Ask`, `AskRefused` | `verifiedKubeletPending` |
| `Decide`, `DecideRefused` | `decideAllocation`, under the node's mutex |
| `Build`, `Land`, `Unreserve` | `patchAllocatingPod`, `persistAllocation`, `renderPrePatchResponse` |
| `Respond`, `RefuseLate`, `UndoLands`, `UndoFails` | the answer; `releaseAllocation`, `unpatchAllocatingPod`, `recordPendingRelease` |
| `Read`, `Publish`, `NotPublished` with `Prune` | `Reconcile`: `BuildDesiredStatus`, `publishAcceleratorLedger`, `pruneReservations` |
| `Retry` ... `EndPass` | `retryPendingReleases` |
| `Deliver`, `DeliverLedger`, `Admit` ... `Delete`, `Restart` | informer, kubelet, API server; the device manager restarts |

A card has `Whole` units. `"pending"` stands for every phase that is not terminal:
Pods leave the candidates when kubelet says they wait for nothing, so a running Pod is
never taken for a pending one. A container asks for one card. The verification, the
publication and the pruning of a pass are one step, after the reading: they judge by
what was read, and an `Allocate` that falls between them finds nothing that it does
not find before them or after them.
A refusal reaches kubelet in the step in which its give-back lands or fails
(`UndoLands`, `UndoFails`): kubelet is blocked on the call, and that it dies in between
and asks again is not modelled. It is taken to report a Pod it has refused, or whose
containers have stopped, no more (`Reported`): that such a Pod is still on its list when
the next call is identified is not modelled either.
The ledger's resource version is stood for by its value. Pods are bound to the node
from the start and reach the informer when they like.

### ShimLedger: `csrc/amd/rocm-slicing-shim`

The region is `used` and `charge`, with the record lock `flock`. Private to a process
are `owner` (`owner_pid`), `latch` (`region_state`), `spin` (`device_lock`) and `keys`;
to a thread `depth` (`held_depth`) and `call`. `mem` is what the runtime gave out and
the program has not freed: a free is one when the program issues it, as it is to the
ledger, so that the card may hold more while a `hipFreeAsync` is queued. `stuck` is a
history variable: charges no call will ever refund, those of a zombie among them.

| Actions | Code |
|---|---|
| `HipMalloc`, `HipFree` with `Enter`, `ForkReset` | the interposed entries; `fork_reset`, whose test and wiping are two steps |
| `RegionOpen`, `RegionCreate` | `region_open`, `region_create` |
| `SlotReserve`, `SlotTake`, `SlotFree` | the key map, each under `keys_lock` |
| `SpinLock`, `RecordLock`, `RecordLockFails`, `RecordUnlock`, `SpinUnlock` | `ledger_lock`, `ledger_unlock` |
| `Decide`, `Alloc`, `Count`, `Commit` | `vrocm_ledger_admit`: sweep and decide, allocate, charge the total, charge the process and record the key |
| `Refund`, `Uncharge` | `vrocm_ledger_release` |
| `Start`, `Fork`, `Kill`, `Reap` | processes |

A process may be killed between any two of these. What only the holder of the lock
sees and only a kill could interrupt, the sweep and the decision, is one step: a sweep
cut short leaves the total too high, as a kill between `Count` and `Commit` does. One
card is modelled, for cards share nothing but the key map. A child is forked by a
thread outside the library or inside the runtime's allocation, as the repository's test
does it. The queries (`vrocm_ledger_used`, `vrocm_ledger_quota`) change nothing but what
`fork_reset` and `region_open` do; `lock_holder_pid`, `memory_quota_bytes` and the
counters decide nothing.

## 4. The runs

Definitions commented "Fault model" are faulty variants of the definition next to
them, one for each property; none of them is part of a specification. They show that
a property can fail.

| Run | Checks | Shows |
|---|---|---|
| `store` | `MountedTreeStays`, `PublishedWhole`, `MountsReferenced`, `RecoveredBeforeServing`, `IndInv`, `ImplementsNodeCache` | mounts, unmounts, publications, a removal and the rebuild interleave with crashes and power losses; the invariant the proofs use, `TypeOK` among its parts, holds, and the store implements the abstract cache |
| `store_live` | `CallsAnswered` | every call is answered, and the plugin comes to serve |
| `fetch` | `TypeOK`, `VerifiedIsGood`, `CheckpointsTrue`, `CountExact`, `WindowHeld`, `TryEnds` | one file from peers and hub, in four environments |
| `attempts` | `TypeOK`, `CompleteUnpruned`, `AttemptKeepsDir`, `BackoffHonored`, `NumbersRise`, `AbandonedEnds` | the artifacts of one digest, in behaviours shorter than the collector's `PartialTTL` and in behaviours that outlast it |
| `room` | `TypeOK`, `RoomForAll` | two downloads and the collector, or one with two peers and a hub that may make it start over |
| `serving` | `TypeOK`, `RegisteredIsCurrent`, `ReturnedLeavesNothing`, `PathKept`, `ServedAgain`, `StopReturns` | two allocators in turn on one socket, or direct and overlapping calls, with kubelet's restarts |
| `ledger` | `TypeOK`, `OneMode`, `SlicedFits`, `DurableClaim`, `ClaimStays`, `RefusedGivenBack`, `LedgerFollows`, `ReservationsEnd` | `Allocate`, kubelet, informer and reconciler, in four environments |
| `shim` | `TypeOK`, `HeldWithinFigure`, `ChargesExact`, `RefusedOnlyFull`, `WaitsEnd` | threads and processes against one figure, in four environments: forks, kills with pids that come back, kills with two sizes, locks and opens that fail |

Four runs are expected to find a violation, and three configurations beside them,
`ModelStoreTrash.cfg`, `ReservationPeers.cfg` and `ReservationOver.cfg`, find one too; section 6 says what each shows.

### Bounds, and why they are enough

- `store`: two digests and two targets are the least at which a target is mounted
  from one digest while the other is collected, and at which two calls contend for
  `claimMu`. Two crashes are the least at which a recovery is itself interrupted.
  Digests and targets are symmetric there, not in the liveness run, which has one
  digest.
- `fetch`: four blocks and a window of two let segments arrive out of order and a
  checkpoint fall in the middle of the file. The environments of `MCFileFetch` are a
  hub with up to two crashes or power losses, a hub that ignores ranges, one
  candidate before a hub whose checkpoints are further apart than its window, and two
  candidates. Two faults allow a resume of a resume. Power losses with peers, and
  crashes with a hub that ignores ranges, are left to section 6.
- `attempts`: two files are the least for a partial tree; two attempt numbers for a
  carried directory; two failures reach the end of the doubling. `MaxNumber` stops new
  attempts, never a running one. `CompleteUnpruned`, `BackoffHonored` and `NumbersRise`
  speak of the behaviours in which nothing is old enough to be pruned; section 6 says
  what happens in the others.
- `room`: trees of three units, the least at which a file has a checkpoint, something
  beyond it and something to come, and a watermark (eight, six) under which two downloads
  fit only when the two trees published before are collected. Two candidates are the
  least at which one resumes after another. Downloads side by side with peers, or that
  start over, are left to section 6.
- `serving`: two allocators with a server each on one socket, so that one replaces the
  other, and two faults, so that a generation is lost and its successor too; or two
  Starts and a Stop of one server with a fault, so that a Start collides with a Start
  and a Stop with the next generation.
- `ledger`: a Pod of two containers on two cards, both whole or one a slice, with
  answers kubelet loses, is where patches of one annotation meet; a whole card and a
  slice that want the one card is where modes meet; two slices of two of a card's three
  units, across a restart, is where memory alone would overcommit. In these
  environments a Pod reaches the informer before a reconcile lists the Pods or after it
  ended; the others are section 6's.

- `shim`: two threads of one process and a thread of another are the least at which
  both locks are contended; three births let a pid come back while the other process
  lives; a figure of one has everybody ask for the same byte, and of two with requests
  of one and two has refunds of different sizes. Two tracking slots are exhausted by
  two threads and a live allocation.

### Fairness, and why the code justifies it

- `ModelStore.FairSpec`: a call, a removal and the rebuild that have begun take their
  next step (goroutines that run). Obtaining `claimMu` is strongly fair, for
  `sync.Mutex` hands itself to a waiter that has waited for a millisecond. Nothing is
  assumed of mounts, publications, the collector's start or failures.
- `FileFetch.FairSpec`: a try that is running takes some step. Its requests end: the
  stall timer aborts one for which nothing arrives.
- `Materializer.FairSpec`: an attempt's local steps, its publication and its watcher
  run. No fairness is assumed of a download, so `AbandonedEnds` rests on the watcher
  alone.
- `AllocatorLoop.Spec`: goroutines run. A registration that is asked for again and
  again is accepted at last (strong fairness), and so is the case of a `select` that is
  ready again and again, for Go chooses among the ready ones at random. Nothing is
  assumed of detection, callers and kubelet's restarts.
- `DeviceLedger.Spec`: the device manager runs; a pass follows a pass, for every
  outcome of `Reconcile` requeues it; the informer catches up, for Pods and for the
  ledger; a publication and a retry that are possible again and again succeed at last.
  Nothing is assumed of kubelet and of whoever deletes Pods.
- `ShimLedger.Spec`: a thread inside a call runs, and the runtime's calls return. The
  record lock is strongly fair, for the kernel queues those who wait for it. The spin
  lock is not fair at all: `WaitsEnd` says that it comes free, not who gets it. Nothing
  is assumed of callers, forks and kills.

## 5. The proofs

Each component's theorems are in a module of their own that extends it. Every one rests on an
inductive invariant `IndInv`, a conjunction of named parts defined in the
component's module beside its properties (for `DeviceLedger`, in the module of its
proofs). The chain is the same everywhere: a lemma
that `Init` implies `IndInv`, a lemma per action or group of actions that it is
preserved, and for each property that it follows from `IndInv` or, for an action
property, from `IndInv` and one step. Nothing is assumed of the constants but the
named `ASSUME` of the component, which every run evaluates.

| Module | Theorems | Hypothesis beside `Spec` |
|---|---|---|
| `ModelStoreProofs` | `TypeOK`, `MountedTreeStays`, `PublishedWhole`, `MountsReferenced`, `RecoveredBeforeServing`, the refinement `ImplementsNodeCache` | none |
| `FileFetchProofs` | `TypeOK`; `VerifiedIsGood`, `CheckpointsTrue`, `CountExact`, `WindowHeld` | none; `Trusted` |
| `MaterializerProofs` | `TypeOK`, `AttemptKeepsDir`, `CompleteUnpruned`, `BackoffHonored`, `NumbersRise` | none |
| `ReservationProofs` | `TypeOK`; `RoomForAll` | none; `Alone` |
| `AllocatorLoopProofs` | `TypeOK`, `RegisteredIsCurrent`, `ReturnedLeavesNothing`; `PathKept` | none; `OneServer` |
| `DeviceLedgerProofs` | `TypeOK`; `ClaimStays`; `DurableClaim`, `SlicedFits`; `OneMode` | none; no `late`; no `late` and `OneSlice`; no `late` and no restart |
| `ShimLedgerProofs` | `TypeOK`, `HeldWithinFigure`, `ChargesExact`, `RefusedOnlyFull` | `Tame` |
| `SumTheorems` | sums and maxima of finite sets, which the others use | |

The hypotheses are about `env`, the circumstances a behaviour meets, which no step
changes. The runs take them into account by the environments they enumerate:

- `Trusted`: a loss of power meets no download from peers, and no fault one that starts
  over. Otherwise the code does what `fetch_power` and the first entry of the list in
  section 6 show.
- `Alone`: peers, and a hub that makes a download start over, meet a single download.
  Section 6 says what happens to the others.
- `OneServer`: one server owns the socket's path at a time, because only the loop makes
  them or all calls are on one serving. The program puts two servings on one path only
  through the loop, in turn.
- `Tame`: a pointer is handed out again only after its refund found its slot, and a
  forked child's first call is made by one thread. Section 6 has both races.
- No `late`: a Pod reaches the informer before a reconcile lists the Pods or after it
  ended. `ledger_prune` shows what happens otherwise.
- `OneSlice`: one container of a Pod at most asks for a slice, Rule 6 of the webhook
  (`validatePodAcceleratorRequest`, `pod.go:603`). Slices are not verified against
  kubelet, so for two of them in a Pod the webhook did not see, TLC finds both
  `DurableClaim` and `SlicedFits` broken: an answer kubelet lost is asked for again,
  `getAllocatingPod` prefers the sibling that has no claim yet, and the annotation says
  of one container what kubelet records for the other. The same happens without a
  lost answer if the card has room for the smaller one only.
- No restart, for `OneMode` alone: the reservations are what keeps a card from another
  mode until the ledger has it, and a restart loses them (section 6). All four
  environments of `ledger` are without `late` and satisfy `OneSlice`.

### ModelStore

`ModelStoreProofs` proves, for every set of digests and targets and every number of
crashes:

| Theorem | Statement |
|---|---|
| `Invariance` | `Spec => []IndInv` |
| `TypeCorrect` | `Spec => []TypeOK` |
| `TreeStays` | `Spec => []MountedTreeStays` |
| `NothingTorn` | `Spec => []PublishedWhole` |
| `MountsSeen` | `Spec => []MountsReferenced` |
| `Recovered` | `Spec => RecoveredBeforeServing` |
| `Refinement` | `Spec => ImplementsNodeCache` |

The only assumption is `StoreAssumption`: the two values that are no digest are
different from every digest and from each other, and the bound on crashes is a
natural number. Neither set need be finite.

**The inductive invariant.** That a mounted tree stays is not inductive: a state with
a mounted, unreferenced tree and a removal at `"locked"` satisfies it and the next
step breaks it. `IndInv` adds what rules such states out:

- `MountsReferenced`: the mounted tree is in the ledger, so `LockUnreferenced` sees it;
- `LockInv`: while the removal holds `claimMu` its digest stays unreferenced, as no
  claim is at its record;
- `CallInv`: from its claim to its mount a call has its reference, and its tree is
  there, with its marker;
- `DiskInv`: only trees with every file synced are renamed in, on disk and in the
  running system, and a removal deletes a file only when the disk no longer has the
  tree under `published/`. This is what a power loss needs. A start does not keep to it
  (`EmptyTrash`), so `MountedTreeStays` and `PublishedWhole` except the trees it deleted;
- `RebuildInv`: what the rebuild read of a target that is still mounted is still so.
  Unmounts go on during the rebuild, so nothing can be said of the others;
- `StartInv`: before the rebuild is over only unmounts run.

The proof has one lemma per group of actions (`MaterializeInv`, `ServeInv`,
`CollectInv`, `RebuildStepInv`, `FailureInv`), each with a step per action and below
it one per part the action can disturb.

**The refinement** uses the invariant at three places: a removal maps to `Evict` only
if nothing read-only is mounted from the digest; a remount to `Mount` only if the tree
is published; and the undone or adopted writable binds to stuttering, because a bind
is not `mounted` until it is read-only.

### FileFetch

That a verified file is good says nothing of how far the verifier is. `IndInv` adds
`ShapeInv` (what was hashed lies within what was written, and that within what was
asked for), `SegmentInv` (a segment asked for is in flight or written until its slot
is given back, and no slot is given out twice), `VerifierInv` (the hash is that of the
blocks on disk), `CheckpointInv` (so is that of the current checkpoint and, for a loss
of power, of the one its rename replaced) and `CountInv` (what is counted at the start
is what the download then finds). The size, the window and the intervals are any
positive numbers.

### Materializer

`CollectorInv` is the heart of `AttemptKeepsDir`: the collector means a partial no
later than the one that is there, and an attempt that started after it looked runs in
a later one. It needs `NumberInv`, that a running attempt's number is past that of
every partial it found, and `OpenInv`, that a file is open only while it is fetched.
`KeptInv` has what an attempt downloaded in its directory and the record's count at the
number handed out last, `BackoffInv` a failure's backoff in the record by the time a
mount can look for it, and `YoungInv` nothing pruned while nothing is old enough.

### Reservation

`RoomForAll` alone is broken by an admission that was computed before and takes effect
now. `LockInv` says that what the holder of `c.mu` has computed still covers its
download and those admitted, as counts only grow meanwhile; `CountedInv` that a
reservation begins with what its file will be cut to and that, without peers and with
hubs that honor a resume (`Steady`), all that is counted is on disk; `StageInv` who has
a reservation. Where files may be cut (`~Steady`) counts say nothing, and the proof is
of one download: it was admitted with its rest by the checkpoint, and cutting its file
gives back what it adds to the rest. `ReservationAssumption` says that
the two strings standing for nobody and for the timer are no attempts.

### Serving and AllocatorLoop

`MutexInv` and `ServerInv` tie a serving to the one `Start` that holds it and to the
generation it published; `StoppedInv` says that what is stopped was published and is
not any more, `AliveInv` that a generation that is alive is the last of its `Start`,
which will retire it, `RegisteredInv` that a registration, recorded or about to be, is
kubelet's last unless the socket is gone. `LoopInv` describes the loop's allocators: the
last one made may run, the others were stopped, a lifecycle calls its `Start` once.
`ServingAssumption` has `Nil` differ from every `Start` and generation;
`AllocatorAssumption` has finitely many allocators, each with a `Start` of its own, as
the loop calls `Start` of an allocator it has just created.

### DeviceLedger

The annotation is the one record that outlives the process, and no single party can
see that it is right: kubelet has not recorded the answer while the patch is under way,
the informer is behind, the reservation is memory. `IndInv` ties them together, each
part under what it needs of `env`:

- `Base`, always: `PodInv`, a Pod's phase as each party has it; `ServedInv`, that
  kubelet admits one Pod at a time; `CallInv`, that the container a call arrives at is
  one of that Pod, of the mode kubelet asked for and not yet held; `BackInv`, that
  give-backs are of Pods that are over.
- `ClaimInv`, without `late`: `CoverInv`, that the reservation or, without one, the
  cache says what the annotation does, except for the container whose patch is under
  way; `CacheInv`, that a claim in the cache stays true; `PatchInv`, that a patch
  carries what the annotation says of the siblings; and `PassInv`, that a pass has every
  Pod the informer had when it began, which is why it prunes no reservation that is
  still needed. `ClaimStays` follows from it.
- `HoldInv`, with `OneSlice`: the annotation has what kubelet holds, of a slice at
  once. Of a whole card it does so only by the time the next container of the Pod is
  asked for, because `verifyKubeletAllocations` refuses that call otherwise: an answer
  for one sibling may be recorded for the other until then, and the Pod does not run.
- `SliceInv`: what is held of a card fits, together with what a call has decided to
  give. `Decide` counts claims where the invariant counts what kubelet holds; `HoldInv`
  and `CoverInv` make the second a part of the first.
- `ModeInv`, without a restart: reservations of a card share a mode, and every held
  card is reserved by a container of the same Pod and mode, except while the Pod's own
  call gives its reservation back.

Every part has a lemma per action or per kind of step (`Quiet`, `Kept`). The types need
the reconciler's fold: that `Desired` yields a ledger for whatever order of the Pods is
proved as for sums, from a least set of places of the order for which it would fail.
`LedgerAssumption` has finitely many containers and cards, ranks that tell containers
apart, and `Nil` and `None` different from what they stand beside.

### ShimLedger

The figure is kept because the total is never too low, and the total is never too low
because what is charged is exact under the lock. Neither is inductive without the
other, nor without:

- `CallInv`, `LatchInv`: what a call is about at each of its steps, and that nothing is
  admitted before the region is usable;
- `OwnerInv`: a process that runs no code of its own has nothing. A forked child has
  its parent's key map and lock until `fork_reset`, and a single thread that could act
  on them;
- `LockInv`: the two locks exclude what each is meant to, so one call in the container
  is between its decision and its unlock;
- `SlotInv`, `FreeInv`, `KeyInv`: every slot that is live has the size of what is held
  under its key or of what a call just freed, no slot is reserved by two calls, and
  whatever is held has its slot or a call about to fill it. This is what makes a refund
  the size of the charge;
- `TableInv`: what was decided still fits until it is allocated, and the charge of a
  process that ended is stuck;
- `UsedInv`: the sum over the processes of what they hold or have yet to refund, less
  what is about to be counted, is at most the total. A kill between `Count` and
  `Commit`, or between `Refund` and `Uncharge`, leaves it so, and so does a sweep
  (`Sweeps`): the charges of processes that exist are exact at that point.

The proof follows the code's split of the books. `Moves` relates a process's figures
before and after one of its threads moved on, by the weight of that thread's call;
`QuietStep`, `BookStep`, `SlotStep` and `ProcessStep` each reduce the invariant to what
one kind of action disturbs; and each action has a lemma. `ShimAssumption` has `born`, the
number of processes an environment creates, be a number up to its bound.

### SumTheorems

`Reservation`, `DeviceLedger` and `ShimLedger` add up over sets with the community modules' fold. The
induction theorems of the library cannot be used here, as they take an operator for a
parameter. The facts about sums are proved from a least counterexample instead:
among the finite sets for which a fact fails one contains no other, and removing an
element from it yields a set for which it holds. `SumTake`, that any element
may be taken out of a sum first, is the one that needs this most; the others follow it.

### Only model-checked

- Liveness (`CallsAnswered`, `TryEnds`, `AbandonedEnds`, `ServedAgain`, `StopReturns`,
  `RefusedGivenBack`, `LedgerFollows`, `ReservationsEnd`, `WaitsEnd`): TLAPS has no
  proofs about fairness and `ENABLED`.
- `OneMode` in the environment of `ledger` that has a restart.
- That `RefusedGivenBack` gives a refused container's annotation back: in the environments
  without lost answers and restarts; with either, the code does not.
- Every behaviour outside `Trusted`, `Alone`, `OneServer`, `Tame` and `OneSlice`.

## 6. Where the code and its documentation disagree

Each of these runs checks what a comment promises, and TLC finds a behaviour of the
code that does otherwise. `PROJECT.json` quotes the comments.

| Run | Behaviour |
|---|---|
| `store_unseen` | a bind's remount fails and so does its undo: the bind stays, its reference is dropped |
| `fetch_power` | a peer download checkpoints blocks it never synced; after a power loss a resume verifies a file with holes |
| `attempts_unlinked` | a removal opens a stale partial just before an attempt carries it over, and unlinks the running attempt's files |
| `ledger_prune` | a Pod reaches the informer after a reconcile listed the Pods, and is allocated a card; that reconcile then prunes its reservation, the ledger does not have it yet, and the card is handed out in another mode |

`attempts_unlinked` needs a partial that has been idle for `PartialTTL` to be asked
for again in the instant of its pruning; `ledger_prune` needs an Allocate between the first and the last step
of one pass, and a second one before the next pass publishes. They are narrow, and the
model says nothing of how likely they are. A restart of the device manager between the
two Allocates has the outcome of `ledger_prune` too: the reservation is gone, and the
ledger may not have the first claim yet.

Three more are shown by configurations that are kept here without being runs of
`PROJECT.json`; each checks one invariant, which TLC finds violated:

- `ModelStoreTrash.cfg` (module `MCModelStore`, `OnlyTrashLeft`). `EmptyTrash`
  (`store.go:262`) deletes the files of every entry of `trash/` at start and does not sync
  `published/` first. After a removal that crashed, or whose sync failed, between its
  rename and `syncDir` (`store.go:221`), the disk may still have the tree's old name; a
  loss of power brings it back without its files, though `store.go:198` has "a crash
  midway" leave "only trash, which the next start removes". A tree that kept its marker
  is listed, mounted and served; one that did not is a directory nothing lists or
  removes, and on which every later publication's rename (`store.go:497`) fails.
- `ReservationPeers.cfg` (`MCReservation`, `RoomForAll`). What a candidate delivers is
  counted as it arrives (`materialize.go:567`). When it fails beyond the checkpoint, the
  next one's `Resume` cuts the file (`peer/client.go:159`, `verify.go:138`) and counts the
  same bytes again; they are withdrawn only when every candidate fails, and stay counted
  to the end of the attempt when one succeeds. The attempt's rest is then too small, and
  another download is admitted into room it needs, against `gc.go:111`: "reservations
  that each fit and together do not are never all admitted".
- `ReservationOver.cfg` (`MCReservation`, `RoomForAll`). A file that starts over is
  truncated (`download.go:195`) and uncounted afterwards (`:201`). Another reservation that
  reads the counts before and the usage after the truncation is admitted into room still
  needed, against the same sentence.

Fifteen more disagreements were met while modelling. The models do what the code does;
no run is spent on them:

- A file that starts over (`download.go:195`), because the hub stopped honoring ranges,
  keeps its old checkpoint; a crash before the next one resumes the old hash state over
  bytes it never hashed, against `verify.go:91`. `fetch` has such a hub without crashes.
- `hipFree` (`hip_mem.c:532`) frees and then looks the pointer up. A thread that is given
  the same pointer in between records it a second time; the refund takes whichever
  slot comes first, perhaps with the wrong size, and the total falls below what is held,
  though `vrocm_ledger.h` has a release refund what the key held. With `reuse` TRUE in
  an environment of `MCShimLedger` TLC finds the container above its figure.
- The table of 32 processes (`vrocm_ledger.c:566`) is swept only when a request exceeds
  the figure. Processes that ended without freeing fill it, and a request that fits is
  refused, though `vrocm_ledger.h:63` has such a slot reclaimed.
- Only the thread that resets a forked child clears its own hold count, and the test of
  `owner_pid` and the wiping are not one step: two threads that make a child's first
  calls at once, or another thread than the one that forked inside an allocation,
  account without the lock (`vrocm_ledger.c:124`). With `race` TRUE TLC shows it.
- A release whose record lock is refused (`vrocm_ledger.c:637`) loses its refund, not
  only the report of it as the comment has it, until the process ends.
- `pullFromPeers` (`materialize.go:574`) withdraws what failed candidates delivered
  from the count, and the hub's download then resumes from it, so the count is short.
  The comment at `:559` has the hub start the file over. `CountExact` is therefore
  about downloads without peers; with them the count may be short in this way or, as
  `ReservationPeers.cfg` shows, too high.
- `pruneRecords` (`gc.go:321`) removes a record with its `LastAttempt`; with no
  partial on disk the next attempt is number 1 again, though `ledger.go:141` says a
  number is never reused. `NumbersRise` is checked where no record is old enough.
- The same function judges a record by what it read before and removes it without
  `digestMu`: an attempt that failed in between loses its backoff, against
  `materialize.go:311`. `BackoffHonored` is checked under the same condition.
- A cancellation while the hub's files are listed reaches `record` as the transport's
  error and is recorded as a failure (`materialize.go:445`), against the comment at
  `:586`. See `ListCanceled`.
- The first `tryReserve` of a download does not wait for `collectMu`, so it may take
  the room another one's collection has just made, and that one is refused although
  candidates are left, while the refusal says that none is (`gc.go:141`).
- An unmount served between the rebuild's reading of the mounts (`manager.go:212`) and
  of the ledger (`rebuild.go:105`) makes the rebuild write a reference for a target
  that is no longer mounted, though `rebuild.go:76` has the adopted ones mounted. Its
  tree is not collected until the next start.
- `hipFreeAsync` (`hip_pool.c:105`) refunds when the free is issued. Until the stream
  reaches it the card holds memory nobody is charged for, and a request may be admitted
  that takes it above the figure. The comment knows ("errs towards admitting"), and has
  "the next admission's own check" still bound the card; that check reads the same
  total. `HeldWithinFigure` is about what the program has not freed.
- `applyAllocatedStatus` (`controller.go:1579`) writes into the ledger it was given
  before it meets a conflict, so a Pod whose second entry conflicts leaves its first
  one merged, though the comment at `:389` has the ledger "exactly as it was".
  `Merge` does what the code does.
- The reservation of a Pod that has finished lives until the Pod's object is gone
  (`pruneReservations`), and keeps its card from the other mode all that time
  (`reservedModeForResource`), though `terminated.go` has released it in the ledger.
- `unpatchAllocatingPod` (`controller.go:1566`) records a retried give-back again when
  it fails, though `:1065` says that it "needs no re-recording"; a claim that
  superseded it meanwhile would be taken back. kubelet asks no more for a Pod it
  refused, so `DurableClaim` holds all the same.

## 7. What is not modelled

- **Device-manager**: detection and metrics are hardware I/O.
- **Hardware partitions, RDMA**: the same protocol with a step on the hardware between
  the decision and the patch; an extension of `DeviceLedger` in the plan.
- **Reporter, peer server, watermark functions**: in the plan.
- **Controllers and webhooks**: reconcilers over the Kubernetes API. Each pass reads
  everything again; the rollout of KV cache backends, the draining of deployments and
  device admission are in the plan. The scaler computes with floating point.
- **Worker-gateway, the other shims, model-transfer**: I/O, C libraries and images.
- **Generated clients and API types**: data.

Within the modelled parts: the JSON of ledger records and markers, credentials and
redirects, bandwidth limits and stream counts, metrics and logging, and the CSI
identity calls. The `manifest.json` beside a tree, which only the peer server reads,
is a hazard listed in `PROJECT.json` and not yet a part of `ModelStore`.

In `DeviceLedger`: visibility requests, `ListAndWatch` and the preferred-allocation
hint, the number of slices of a card (`LogicalSliced.Count`) and where on it a slice
lies, manufacturers whose slices outlive their container (MetaX, Cambricon), Pods
deleted by force, annotations that cannot be parsed, a patch that is reported failed
but has landed, and the switches that turn the kubelet lookup and the slice check off.

In `ShimLedger`: what the card holds of an asynchronous free that its stream has not
reached; the parsing of the figures and processes without a usable one, which
are refused before anything changes; a runtime that calls back into the library from
within an allocation; pid namespaces that differ; the file's layout and version checks,
of which only the outcome counts; and a fork that is given the pid its copy of
`owner_pid` names.
