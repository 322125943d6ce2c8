----------------------------- MODULE FileFetch -----------------------------
(***************************************************************************)
(* How one file of a digest comes to the node and is verified: from the     *)
(* other nodes' plugins (pkg/modelmanager/peer), then from the hub          *)
(* (pkg/modelmanager/download), hashed in byte order while it arrives,      *)
(* with checkpoints of the hash state from which a later try resumes.       *)
(*                                                                          *)
(* The file is Size blocks; a block is the unit of a request, a write and   *)
(* the hash.  A hash state is the number of blocks hashed and whether each  *)
(* was the manifest's: its check succeeds exactly on a full, good prefix.   *)
(* A source may deliver a wrong block.  The plugin may crash, which loses   *)
(* memory only, or the node may lose power, which also loses any blocks     *)
(* that were not synced and the last checkpoint's rename: the sync before   *)
(* each checkpoint commits the rename before it, and the filesystem's       *)
(* journal keeps truncations and removals in order with what follows them.  *)
(***************************************************************************)
EXTENDS Integers, FiniteSets

CONSTANTS
    Size,            \* blocks in the file
    Window,          \* segments in flight or unhashed at once
    PeerInterval,    \* blocks between two checkpoints of a peer download
    Environments     \* what a behaviour may meet:
                     \*   peers     candidates Discover returns
                     \*   interval  blocks between two checkpoints of a hub download
                     \*   whole     the hub may answer a range with the whole file
                     \*   power     a fault may be a loss of power
                     \*   faults    bound on crashes, power and disk failures

ASSUME FetchAssumption ==
    /\ Size \in Nat \ {0}
    /\ Window \in Nat \ {0}
    /\ PeerInterval \in Nat \ {0}
    /\ Environments \subseteq [peers : Nat, interval : Nat \ {0}, whole : BOOLEAN,
                              power : BOOLEAN, faults : Nat]

VARIABLES
    data, len,   \* the file's blocks, and its length
    synced,      \* the blocks a sync has made durable
    cp, oldCp,   \* the checkpoint file, and what its last rename replaced
    phase,       \* what the fetch is doing
    hashed, ok,  \* the verifier: blocks hashed, and whether all were good
    next,        \* the next block to write, or the next segment to start
    flying,      \* segments requested and not yet written
    lastCp,      \* where a parallel download last checkpointed
    peer,        \* the candidate being pulled from
    received,    \* the attempt's count of what it holds of the file
    fromPeers,   \* how much of that the peers of this try delivered
    faults,
    env          \* the environment, fixed from the start

file   == <<data, len, synced>>
checks == <<cp, oldCp>>
hash   == <<hashed, ok>>
run    == <<next, flying, lastCp, peer>>
count  == <<received, fromPeers>>
vars   == <<file, checks, phase, hash, run, count, faults, env>>

Blocks == 0..(Size - 1)
NoCp   == [off |-> -1, ok |-> FALSE]
Cps    == [off : -1..Size, ok : BOOLEAN]
Phases == {"idle", "open", "peer", "first", "whole", "parallel", "failed", "finish",
           "done"}

TypeOK ==
    /\ data \in [Blocks -> {"hole", "good", "bad"}]
    /\ len \in 0..Size
    /\ synced \subseteq Blocks
    /\ cp \in Cps /\ oldCp \in Cps
    /\ phase \in Phases
    /\ hashed \in 0..Size /\ ok \in BOOLEAN
    /\ next \in 0..Size
    /\ flying \subseteq Blocks
    /\ lastCp \in 0..Size
    /\ peer \in 0..env.peers
    /\ received \in Int /\ fromPeers \in Nat
    /\ env \in Environments
    /\ faults \in 0..env.faults

Init ==
    /\ data = [b \in Blocks |-> "hole"] /\ len = 0 /\ synced = {}
    /\ cp = NoCp /\ oldCp = NoCp
    /\ phase = "idle"
    /\ hashed = 0 /\ ok = TRUE
    /\ next = 0 /\ flying = {} /\ lastCp = 0 /\ peer = 0
    /\ received = 0 /\ fromPeers = 0
    /\ faults = 0
    /\ env \in Environments

-----------------------------------------------------------------------------
(* The file, its checkpoint and the verifier.                               *)

Truncate(n) ==
    /\ data' = [b \in Blocks |-> IF b < n THEN data[b] ELSE "hole"]
    /\ len' = IF n < len THEN n ELSE len
    /\ synced' = {b \in synced : b < n}

\* WriteAt: a write past the end leaves a hole before it.
Write(b, content) ==
    /\ data' = [data EXCEPT ![b] = content]
    /\ len' = IF b + 1 > len THEN b + 1 ELSE len
    /\ synced' = synced \ {b}

Sync == synced' = {b \in Blocks : b < len}

\* saveCheckpoint replaces the file by a rename it does not sync.
Save(state) ==
    /\ cp' = state
    /\ oldCp' = cp

\* Fault model: the checkpoint is not preceded by a sync.
CheckpointUnsynced ==
    /\ UNCHANGED synced
    /\ Save([off |-> hashed', ok |-> ok'])

\* checkpoint: the file is synced before its hashed position is recorded.
Checkpoint ==
    /\ Sync
    /\ Save([off |-> hashed', ok |-> ok'])

Remove ==
    /\ data' = [b \in Blocks |-> "hole"] /\ len' = 0 /\ synced' = {}
    /\ cp' = NoCp /\ oldCp' = NoCp

\* ResumableOffset: a checkpoint counts while the file is at least as long.
Resumable == IF cp.off \in 0..len THEN cp.off ELSE 0

\* resume: the file is cut to the checkpoint, whose hash state is taken over.
Resume ==
    /\ Truncate(Resumable)
    /\ hashed' = Resumable
    /\ ok' = IF Resumable > 0 THEN cp.ok ELSE TRUE

\* Hashing [from, to) of the file as it stands.
GoodBetween(from, to) == \A b \in from..(to - 1) : data[b] = "good"

-----------------------------------------------------------------------------
(* The attempt: fetchTree and the fallback from the peers to the hub.       *)

\* What an earlier try left is counted once, before the download starts.
Start ==
    /\ phase = "idle"
    /\ phase' = "open"
    /\ received' = Resumable
    /\ fromPeers' = 0
    /\ peer' = 0
    /\ UNCHANGED <<file, checks, hash, next, flying, lastCp, faults, env>>

\* fetchFrom: one candidate, from where the file can be resumed.
OpenPeer ==
    /\ phase = "open"
    /\ peer < env.peers
    /\ Resume
    /\ next' = hashed'
    /\ phase' = "peer"
    /\ UNCHANGED <<checks, flying, lastCp, peer, count, faults, env>>

\* Hash: the next block is hashed, and checkpointed on a boundary.
Hash(content) ==
    /\ hashed' = hashed + 1
    /\ ok' = (ok /\ content = "good")
    /\ IF (hashed + 1) % PeerInterval = 0
       THEN Save([off |-> hashed + 1, ok |-> ok'])
       ELSE UNCHANGED checks

\* A block is written, hashed and counted.
PeerBlock(content) ==
    /\ phase = "peer"
    /\ next < Size
    /\ Write(next, content)
    /\ Hash(content)
    /\ next' = next + 1
    /\ received' = received + 1
    /\ fromPeers' = fromPeers + 1
    /\ UNCHANGED <<phase, flying, lastCp, peer, faults, env>>

\* Verify: the whole file hashed as the manifest says.
PeerVerified ==
    /\ phase = "peer"
    /\ next = Size
    /\ ok
    /\ Save([off |-> Size, ok |-> ok])
    /\ phase' = "done"
    /\ UNCHANGED <<file, hash, run, count, faults, env>>

\* The candidate fails, or its file does not verify: the next one takes over.
PeerFails ==
    /\ phase = "peer"
    /\ next = Size => ~ok
    /\ phase' = "open"
    /\ peer' = peer + 1
    /\ UNCHANGED <<file, checks, hash, next, flying, lastCp, count, faults, env>>

\* A candidate serving its cooldown, or whose listing is refused, is passed over.
SkipPeer ==
    /\ phase = "open"
    /\ peer < env.peers
    /\ peer' = peer + 1
    /\ UNCHANGED <<file, checks, phase, hash, next, flying, lastCp, count, faults, env>>

\* Canceled while pulling: the candidates left are not asked.
PeerCanceled ==
    /\ phase = "peer"
    /\ phase' = "open"
    /\ peer' = env.peers
    /\ UNCHANGED <<file, checks, hash, next, flying, lastCp, count, faults, env>>

\* pullFromPeers: what the failed candidates delivered leaves the count.
Withdraw ==
    /\ received' = received - fromPeers
    /\ fromPeers' = 0

\* No candidate is left, and an artifact anchored to its digest has no hub.
NoSource ==
    /\ phase = "open"
    /\ peer = env.peers
    /\ Withdraw
    /\ phase' = "idle"
    /\ UNCHANGED <<file, checks, hash, run, faults, env>>

\* No candidate is left: Fetch resumes the file for the hub.
OpenHub ==
    /\ phase = "open"
    /\ peer = env.peers
    /\ Withdraw
    /\ Resume
    /\ next' = hashed'
    /\ phase' = IF hashed' = Size THEN "finish" ELSE "first"
    /\ UNCHANGED <<checks, flying, lastCp, peer, faults, env>>

-----------------------------------------------------------------------------
(* The hub: fetchRanges, fetchParallel and the end of Fetch.                *)

\* The first segment goes alone and is hashed; more of them follow in parallel.
FirstSegment(content) ==
    /\ phase = "first"
    /\ Write(next, content)
    /\ hashed' = next + 1
    /\ ok' = (ok /\ content = "good")
    /\ received' = received + 1
    /\ next' = next + 1
    /\ lastCp' = next + 1
    /\ phase' = IF next + 1 = Size THEN "finish" ELSE "parallel"
    /\ UNCHANGED <<checks, flying, peer, fromPeers, faults, env>>

\* The hub answers the whole file: from the start that is taken as it is ...
WholeFile ==
    /\ phase = "first"
    /\ env.whole
    /\ next = 0
    /\ phase' = "whole"
    /\ UNCHANGED <<file, checks, hash, run, count, faults, env>>

\* Fault model: the hash state of the bytes thrown away is kept.
HashKept == UNCHANGED hash

\* A new verifier has hashed nothing.
NewVerifier == hashed' = 0 /\ ok' = TRUE

\* Fault model: the bytes thrown away stay in the count.
UncountNothing(n) == UNCHANGED received

\* Received is told of bytes lost as a negative number.
Uncount(n) == received' = received - n

\* ... and in place of a resume it makes the file start over.
StartOver ==
    /\ phase = "first"
    /\ env.whole
    /\ next > 0
    /\ Truncate(0)
    /\ Uncount(next)
    /\ NewVerifier
    /\ next' = 0
    /\ UNCHANGED <<checks, phase, flying, lastCp, peer, fromPeers, faults, env>>

WholeBlock(content) ==
    /\ phase = "whole"
    /\ next < Size
    /\ Write(next, content)
    /\ next' = next + 1
    /\ received' = received + 1
    /\ UNCHANGED <<checks, phase, hash, flying, lastCp, peer, fromPeers, faults, env>>

HashWhole ==
    /\ phase = "whole"
    /\ next = Size
    /\ hashed' = Size
    /\ ok' = (ok /\ GoodBetween(hashed, Size))
    /\ phase' = "finish"
    /\ UNCHANGED <<file, checks, run, count, faults, env>>

\* Fault model: a slot is given back when the segment arrives, ...
SlotOnArrival == Cardinality(flying) < Window

\* Fault model: ... or only with a checkpoint.
SlotOnCheckpoint == next - lastCp < Window

\* A slot is taken per segment and given back when the segment is hashed.
SlotFree == next - hashed < Window

\* Fault model: one segment too many.
SegmentPastEnd == next <= Size

\* starts: a segment that is still to be asked for.
SegmentLeft == next < Size

RequestSegment ==
    /\ phase = "parallel"
    /\ SegmentLeft
    /\ SlotFree
    /\ flying' = flying \cup {next}
    /\ next' = next + 1
    /\ UNCHANGED <<file, checks, phase, hash, lastCp, peer, count, faults, env>>

\* Segments arrive in any order, also after the download was given up.
SegmentArrives(b, content) ==
    /\ phase \in {"parallel", "failed"}
    /\ b \in flying
    /\ Write(b, content)
    /\ flying' = flying \ {b}
    /\ received' = received + 1
    /\ UNCHANGED <<checks, phase, hash, next, lastCp, peer, fromPeers, faults, env>>

\* The next segment in byte order is hashed once it is there.
HashSegment ==
    /\ phase = "parallel"
    /\ hashed < next
    /\ hashed \notin flying
    /\ hashed' = hashed + 1
    /\ ok' = (ok /\ GoodBetween(hashed, hashed + 1))
    /\ IF hashed + 1 - lastCp >= env.interval /\ hashed + 1 < Size
       THEN Checkpoint /\ lastCp' = hashed + 1
       ELSE UNCHANGED <<synced, checks, lastCp>>
    /\ phase' = IF hashed + 1 = Size THEN "finish" ELSE "parallel"
    /\ UNCHANGED <<data, len, next, flying, peer, count, faults, env>>

\* A range failed again and again, the credential was refused, the attempt was
\* canceled: the segments in flight are awaited, then what was hashed is recorded.
HubFails ==
    /\ phase \in {"first", "whole", "parallel"}
    /\ phase' = "failed"
    /\ UNCHANGED <<file, checks, hash, run, count, faults, env>>

SegmentStops(b) ==
    /\ phase = "failed"
    /\ b \in flying
    /\ flying' = flying \ {b}
    /\ UNCHANGED <<file, checks, phase, hash, next, lastCp, peer, count, faults, env>>

Stopped ==
    /\ phase = "failed"
    /\ flying = {}
    /\ UNCHANGED hash
    /\ Checkpoint
    /\ phase' = "idle"
    /\ UNCHANGED <<data, len, run, count, faults, env>>

\* The sync or the checkpoint fails, which stopped ignores.
StoppedUnsaved ==
    /\ phase = "failed"
    /\ flying = {}
    /\ faults < env.faults
    /\ faults' = faults + 1
    /\ phase' = "idle"
    /\ UNCHANGED <<file, checks, hash, run, count, env>>

\* The hub serves another size than the manifest's: nothing is kept.
SizeMismatch ==
    /\ phase \in {"first", "failed"}
    /\ flying = {}
    /\ Remove
    /\ phase' = "idle"
    /\ UNCHANGED <<hash, run, count, faults, env>>

\* The end of Fetch: synced, checked, and checkpointed as complete, or removed.
Finish ==
    /\ phase = "finish"
    /\ \/ /\ ok
          /\ Sync
          /\ Save([off |-> hashed, ok |-> ok])
          /\ phase' = "done"
          /\ UNCHANGED <<data, len>>
       \/ /\ ~ok
          /\ Remove
          /\ phase' = "idle"
    /\ UNCHANGED <<hash, run, count, faults, env>>

\* Another file of the tree fails the attempt: the next one checks this file again.
AttemptEnds ==
    /\ phase = "done"
    /\ phase' = "idle"
    /\ UNCHANGED <<file, checks, hash, run, count, faults, env>>

-----------------------------------------------------------------------------
(* Faults, before or after the file is verified.                            *)

Restart ==
    /\ faults < env.faults
    /\ faults' = faults + 1
    /\ phase' = "idle"
    /\ hashed' = 0 /\ ok' = TRUE
    /\ next' = 0 /\ flying' = {} /\ lastCp' = 0 /\ peer' = 0
    /\ received' = 0 /\ fromPeers' = 0
    /\ UNCHANGED env

Crash ==
    /\ Restart
    /\ UNCHANGED <<file, checks>>

\* Any of the blocks that were not synced read as holes; the file's length is
\* anywhere between its last block left and what it was.
PowerLoss ==
    /\ env.power
    /\ Restart
    /\ \E lost \in SUBSET (Blocks \ synced) :
          /\ data' = [b \in Blocks |-> IF b \in lost THEN "hole" ELSE data[b]]
          /\ len' \in {n \in 0..len : \A b \in Blocks : data'[b] # "hole" => b < n}
    /\ synced' = {b \in Blocks : b < len'}
    /\ cp' \in {cp, oldCp, NoCp}
    /\ oldCp' = cp'

\* What a try does by itself, until it is verified or has failed.
Work ==
    \/ OpenPeer \/ SkipPeer \/ PeerVerified \/ PeerFails \/ NoSource \/ OpenHub
    \/ \E c \in {"good", "bad"} :
          \/ PeerBlock(c) \/ FirstSegment(c) \/ WholeBlock(c)
          \/ \E b \in Blocks : SegmentArrives(b, c)
    \/ WholeFile \/ StartOver \/ HashWhole \/ RequestSegment \/ HashSegment
    \/ \E b \in Blocks : SegmentStops(b)
    \/ Stopped \/ SizeMismatch \/ Finish

\* What others do to it.
Disturb == PeerCanceled \/ HubFails \/ StoppedUnsaved \/ Crash \/ PowerLoss

Next == Start \/ Work \/ AttemptEnds \/ Disturb

Spec == Init /\ [][Next]_vars

\* The stall timer ends a request nothing arrives for, so a try that is running
\* takes its next step; nobody has to retry, cancel or fail it.
FairSpec == Spec /\ WF_vars(Work)

-----------------------------------------------------------------------------
(* Properties.                                                              *)

\* Fetch and Verify: a file taken as verified holds every block of the
\* manifest's content, whatever was resumed, lost or delivered wrong before.
VerifiedIsGood == phase = "done" => len = Size /\ GoodBetween(0, Size)

\* saveCheckpoint: the hash state on disk speaks of the blocks on disk.  A
\* checkpoint that would resume with a sound hash has sound blocks below it,
\* in the file as it is and as a power loss would leave it.  (A file that
\* started over for a hub without ranges is the exception: StartOver.)
CheckpointsTrue ==
    \A c \in IF env.whole THEN {} ELSE {cp, oldCp} :
        c.ok /\ c.off \in 1..len =>
            /\ GoodBetween(0, c.off)
            /\ env.power => \A b \in 0..(c.off - 1) : b \in synced

\* fetchTree: without peers, whose blocks Withdraw discounts and a resume keeps,
\* the count is what the file holds from the hub's first request on.
CountExact ==
    env.peers = 0 /\ phase \in {"first", "whole", "parallel", "failed", "finish", "done"} =>
        received = Cardinality({b \in Blocks : data[b] # "hole"})

\* fetchParallel: a segment is hashed only where it has arrived, and the
\* blocks past the hashed ones never exceed the window.
WindowHeld ==
    phase = "parallel" \/ (phase = "failed" /\ flying # {}) =>
        /\ \A b \in Blocks : b < hashed => data[b] # "hole"
        /\ \A b \in Blocks : data[b] # "hole" => b < hashed + Window

\* A try does not hang: its slots, its order and its waits let it end.
TryEnds == (phase # "idle") ~> (phase \in {"idle", "done"})

-----------------------------------------------------------------------------
(* The inductive invariant behind the safety properties.                    *)

Fetching == {"peer", "first", "whole", "parallel", "failed", "finish", "done"}
Held     == {b \in Blocks : data[b] # "hole"}

\* The environments in which what a try leaves can be trusted: a loss of power
\* meets no peers' download, which does not sync before its checkpoints, and no
\* fault meets a file that started over, whose checkpoint is still the old one.
Trusted == (env.power => env.peers = 0) /\ (env.whole => env.faults = 0)

\* The file as the fetch knows it: every block lies within the length, hashed
\* blocks within what was written, and the rest within what was asked for.
ShapeInv ==
    /\ Held \subseteq 0..(len - 1)
    /\ phase \in Fetching => hashed <= len /\ len <= next
    /\ phase \in {"peer", "first"} => hashed = next
    /\ phase = "first" => next < Size
    /\ phase = "whole" => hashed = 0 /\ len = next /\ 0..(next - 1) \subseteq Held
    /\ phase \in {"finish", "done"} => hashed = Size
    /\ phase = "peer" => peer < env.peers

\* A segment asked for is in flight or written until its slot is given back,
\* and no slot is given out twice.
SegmentInv ==
    /\ phase \notin {"parallel", "failed"} => flying = {}
    /\ flying \subseteq hashed..(next - 1)
    /\ flying \cap Held = {}
    /\ phase = "parallel" => (hashed..(next - 1)) \ flying \subseteq Held
    /\ phase = "parallel" \/ flying # {} => next - hashed <= Window

\* The verifier has seen what is on disk.
VerifierInv ==
    phase \in Fetching =>
        /\ 0..(hashed - 1) \subseteq Held
        /\ ok => GoodBetween(0, hashed)
        /\ phase = "done" => ok

\* A checkpoint speaks of blocks that are there, and stay there.
Vouched(c) ==
    /\ c.off <= len
    /\ 0..(c.off - 1) \subseteq Held
    /\ c.ok => GoodBetween(0, c.off)
    /\ env.power => 0..(c.off - 1) \subseteq synced

\* Both checkpoints do, unless the file started over: then a try that is not
\* interrupted replaces the old one before anybody resumes.
CheckpointInv ==
    /\ ~env.whole \/ phase \in {"idle", "open", "peer", "done"} =>
          /\ Vouched(cp)
          /\ phase \in Fetching => cp.off <= hashed
    /\ ~env.whole => Vouched(oldCp) /\ oldCp.off <= cp.off

\* What is counted at the start is what the hub's download then finds.
CountInv ==
    env.peers = 0 =>
        /\ fromPeers = 0
        /\ phase = "open" => received = Resumable
        /\ phase \in Fetching => received = Cardinality(Held)

IndInv ==
    /\ TypeOK /\ ShapeInv /\ SegmentInv
    /\ Trusted => VerifierInv /\ CheckpointInv /\ CountInv
=============================================================================
