--------------------------- MODULE FileFetchProofs ---------------------------
(***************************************************************************)
(* Proofs about FileFetch for files of any size, any window, any number of  *)
(* peers and any number of faults: IndInv is inductive, so what is taken as *)
(* verified is the manifest's content, checkpoints speak of what is on      *)
(* disk, the window holds and the count is exact.                           *)
(***************************************************************************)
EXTENDS FileFetch, FiniteSetTheorems, TLAPS

\* What the assumption on the constants says of a behaviour's environment.
LEMMA Bounds ==
    ASSUME TypeOK
    PROVE  /\ Size \in Nat \ {0} /\ Window \in Nat \ {0} /\ PeerInterval \in Nat \ {0}
           /\ env.peers \in Nat /\ env.interval \in Nat \ {0} /\ env.faults \in Nat
           /\ env.whole \in BOOLEAN /\ env.power \in BOOLEAN
BY FetchAssumption DEF TypeOK

\* The blocks of a file are finitely many, so what it holds can be counted: a
\* block that is added counts once, and a prefix counts its length.
LEMMA Counting ==
    ASSUME TypeOK
    PROVE  /\ IsFiniteSet(Held) /\ Cardinality(Held) \in Nat
           /\ \A b : b \notin Held => Cardinality(Held \cup {b}) = Cardinality(Held) + 1
           /\ \A n \in 0..Size : Cardinality(0..(n - 1)) = n
<1>1. IsFiniteSet(Blocks)
  BY FS_Interval, Bounds DEF Blocks
<1>2. IsFiniteSet(Held)
  BY <1>1, FS_Subset DEF Held
<1>3. \A n \in 0..Size : Cardinality(0..(n - 1)) = n
  <2> TAKE n \in 0..Size
  <2>1. 0 \in Int /\ n - 1 \in Int
    BY Bounds
  <2>2. Cardinality(0..(n - 1)) = IF 0 > n - 1 THEN 0 ELSE (n - 1) - 0 + 1
    BY <2>1, FS_Interval
  <2> QED
    BY <2>2, Bounds
<1> QED
  BY <1>2, <1>3, FS_AddElement, FS_CardinalityType

\* WriteAt adds one block to what the file holds and changes no other.
LEMMA WriteAdds ==
    ASSUME TypeOK, NEW b \in Blocks, NEW content \in {"good", "bad"}, Write(b, content)
    PROVE  /\ data' \in [Blocks -> {"hole", "good", "bad"}]
           /\ len' \in 0..Size /\ len' >= len /\ len' >= b + 1 /\ (len' = len \/ len' = b + 1)
           /\ synced' \subseteq Blocks /\ synced' = synced \ {b}
           /\ Held' = Held \cup {b}
           /\ data'[b] = content
           /\ \A a \in Blocks : a # b => data'[a] = data[a]
<1>1. data' \in [Blocks -> {"hole", "good", "bad"}] /\ data'[b] = content
  BY DEF TypeOK, Write
<1>2. \A a \in Blocks : a # b => data'[a] = data[a]
  BY DEF TypeOK, Write
<1>3. Held' = Held \cup {b}
  BY <1>1, <1>2 DEF Held
<1>4. /\ len' \in 0..Size /\ len' >= len /\ len' >= b + 1 /\ (len' = len \/ len' = b + 1)
  <2>1. len \in 0..Size /\ Size \in Nat /\ b \in 0..(Size - 1)
    BY Bounds DEF TypeOK, Blocks
  <2>2. len' = IF b + 1 > len THEN b + 1 ELSE len
    BY DEF Write
  <2> QED
    BY <2>1, <2>2
<1> QED
  BY <1>1, <1>2, <1>3, <1>4 DEF TypeOK, Write

\* resume leaves exactly the prefix that the checkpoint spoke of.
LEMMA ResumeCuts ==
    ASSUME TypeOK, Resume
    PROVE  /\ Resumable \in 0..len /\ (cp.off <= len => cp.off <= Resumable)
           /\ hashed' = Resumable /\ len' = Resumable
           /\ data' \in [Blocks -> {"hole", "good", "bad"}] /\ ok' \in BOOLEAN
           /\ synced' \subseteq Blocks
           /\ \A b \in Blocks : b < Resumable => data'[b] = data[b] /\ (b \in synced => b \in synced')
           /\ Held' = {b \in Held : b < Resumable}
<1>1. /\ Resumable \in 0..len /\ (cp.off <= len => cp.off <= Resumable)
  BY Bounds DEF TypeOK, Resumable, Cps
<1>2. hashed' = Resumable /\ len' = Resumable
  BY <1>1, Bounds DEF Resume, Truncate, TypeOK
<1>6. ok' \in BOOLEAN
  <2>1. cp.ok \in BOOLEAN
    BY DEF TypeOK, Cps
  <2> QED
    BY <2>1, Zenon DEF Resume
<1>3. data' = [b \in Blocks |-> IF b < Resumable THEN data[b] ELSE "hole"]
  BY DEF Resume, Truncate
<1>4. data' \in [Blocks -> {"hole", "good", "bad"}]
  BY <1>3 DEF TypeOK
<1>5. Held' = {b \in Held : b < Resumable}
  BY <1>3 DEF Held
<1> QED
  BY <1>1, <1>2, <1>3, <1>4, <1>5, <1>6 DEF Resume, Truncate, TypeOK

\* A file that is resumed from a checkpoint that speaks of it holds every block
\* the verifier takes over, and its checkpoints still speak of it.
LEMMA ResumeKeeps ==
    ASSUME TypeOK, Resume, Vouched(cp), UNCHANGED <<checks, env>>
    PROVE  /\ Held' = 0..(hashed' - 1)
           /\ ok' => GoodBetween(0, hashed)'
           /\ Vouched(cp)' /\ cp'.off <= hashed'
           /\ Vouched(oldCp) /\ oldCp.off <= cp.off => Vouched(oldCp)'
<1>0. /\ Resumable \in 0..len /\ hashed' = Resumable /\ len' = Resumable
      /\ \A b \in Blocks : b < Resumable =>
            data'[b] = data[b] /\ (b \in synced => b \in synced')
      /\ Held' = {b \in Held : b < Resumable}
  BY ResumeCuts
<1>1. /\ hashed' \in 0..Size /\ len' = hashed' /\ cp.off \in Int /\ len \in 0..Size
      /\ cp.off <= hashed' /\ (cp.off = hashed' \/ hashed' = 0)
  BY <1>0, Bounds DEF TypeOK, Resumable, Vouched, Cps
<1>2. \A b \in Blocks : b < hashed' =>
         data'[b] = data[b] /\ (b \in synced => b \in synced') /\ b \in 0..(cp.off - 1)
  BY <1>0, <1>1, Bounds DEF Blocks
<1>3. 0..(hashed' - 1) \subseteq Held
  <2>1. 0..(cp.off - 1) \subseteq Held
    BY DEF Vouched
  <2>2. CASE hashed' = 0
    BY <2>2
  <2>3. CASE hashed' = cp.off
    BY <2>1, <2>3
  <2> QED
    BY <1>1, <2>2, <2>3
<1>4. Held' = 0..(hashed' - 1)
  BY <1>0, <1>1, <1>3, Bounds DEF Held, Blocks
<1>5. ok' => GoodBetween(0, hashed)'
  <2>1. CASE hashed' = 0
    BY <2>1 DEF GoodBetween
  <2>2. CASE hashed' # 0
    <3>1. Resumable > 0
      BY <1>0, <1>1, <2>2
    <3>2. ok' = cp.ok
      BY <3>1, Zenon DEF Resume
    <3>3. cp.ok => \A b \in 0..(hashed' - 1) : data[b] = "good"
      BY <1>1, <2>2 DEF Vouched, GoodBetween
    <3>4. \A b \in 0..(hashed' - 1) : data'[b] = data[b]
      BY <1>1, <1>2, Bounds DEF Blocks
    <3> QED
      BY <3>2, <3>3, <3>4 DEF GoodBetween
  <2> QED
    BY <2>1, <2>2
<1>6. ASSUME NEW c \in Cps, Vouched(c), c.off <= cp.off
      PROVE  /\ c.off <= len' /\ 0..(c.off - 1) \subseteq Held'
             /\ c.ok => (\A b \in 0..(c.off - 1) : data'[b] = "good")
             /\ env.power => 0..(c.off - 1) \subseteq synced'
  <2>1. c.off \in Int /\ cp.off \in Int /\ c.off <= hashed'
    BY <1>1, <1>6, Bounds DEF Cps, TypeOK
  <2>2. 0..(c.off - 1) \subseteq Held' /\ c.off <= len'
    BY <1>1, <1>4, <2>1, Bounds
  <2>3. \A b \in 0..(c.off - 1) : b \in Blocks /\ b < hashed'
    BY <1>1, <2>1, Bounds DEF Blocks
  <2>4. c.ok => \A b \in 0..(c.off - 1) : data'[b] = "good"
    BY <1>2, <2>3, <1>6 DEF Vouched, GoodBetween
  <2>5. env.power => 0..(c.off - 1) \subseteq synced'
    BY <1>2, <2>3, <1>6 DEF Vouched
  <2> QED
    BY <2>2, <2>4, <2>5
<1>7. Vouched(cp)'
  BY <1>6, Bounds DEF TypeOK, Cps, Vouched, GoodBetween, checks
<1>8. Vouched(oldCp) /\ oldCp.off <= cp.off => Vouched(oldCp)'
  BY <1>6 DEF TypeOK, Vouched, GoodBetween, checks
<1> QED
  BY <1>1, <1>4, <1>5, <1>7, <1>8 DEF checks

\* A block written at b leaves every prefix up to b as it was: held, good and
\* synced if it was so.
LEMMA WriteKeeps ==
    ASSUME TypeOK, NEW b \in Blocks, NEW content \in {"good", "bad"}, Write(b, content),
           NEW n \in -1..b
    PROVE  /\ 0..(n - 1) \subseteq Held => 0..(n - 1) \subseteq Held'
           /\ GoodBetween(0, n) => \A a \in 0..(n - 1) : data'[a] = "good"
           /\ 0..(n - 1) \subseteq synced => 0..(n - 1) \subseteq synced'
<1>1. \A a \in 0..(n - 1) : a \in Blocks /\ a # b
  BY Bounds DEF Blocks
<1> QED
  BY <1>1, WriteAdds DEF GoodBetween

\* What a step that leaves the file and its checkpoints alone cannot change.
LEMMA Untouched ==
    ASSUME UNCHANGED <<file, checks, env>>
    PROVE  /\ Held' = Held /\ Trusted' = Trusted /\ Resumable' = Resumable
           /\ Vouched(cp)' = Vouched(cp) /\ Vouched(oldCp)' = Vouched(oldCp)
           /\ \A n : (\A b \in 0..(n - 1) : data'[b] = "good") = GoodBetween(0, n)
BY DEF file, checks, Held, Trusted, Resumable, Vouched, GoodBetween

\* Choosing a source and giving one up: the steps of fetchTree and of
\* pullFromPeers between two downloads, and the end of one that saves nothing.
LEMMA BetweenInv ==
    ASSUME IndInv,
           \/ Start \/ SkipPeer \/ PeerFails \/ PeerCanceled \/ NoSource
           \/ StoppedUnsaved \/ AttemptEnds
    PROVE  IndInv'
<1> USE DEF IndInv
<1>1. /\ UNCHANGED <<data, len, synced, cp, oldCp, hashed, ok, next, flying, lastCp, env>>
      /\ phase' \in {"idle", "open"} /\ phase \in Phases
      /\ flying = {}
  BY DEF Start, SkipPeer, PeerFails, PeerCanceled, NoSource, StoppedUnsaved, AttemptEnds, file,
     checks, hash, run, count, TypeOK, SegmentInv
<1>2. TypeOK'
  <2>1. peer' \in 0..env.peers /\ faults' \in 0..env.faults
    BY Bounds DEF Start, SkipPeer, PeerFails, PeerCanceled, NoSource, StoppedUnsaved,
       AttemptEnds, TypeOK, ShapeInv, run
  <2>2. received' \in Int /\ fromPeers' \in Nat
    BY Bounds DEF Start, SkipPeer, PeerFails, PeerCanceled, NoSource, Withdraw, StoppedUnsaved,
       AttemptEnds, TypeOK, Resumable, count
  <2> QED
    BY <1>1, <2>1, <2>2 DEF TypeOK, Phases
<1>3. ShapeInv' /\ SegmentInv'
  BY <1>1 DEF ShapeInv, SegmentInv, Fetching, Held
<1>4. ASSUME Trusted'
      PROVE  VerifierInv' /\ CheckpointInv' /\ CountInv'
  <2>1. Trusted /\ Held' = Held /\ Resumable' = Resumable
        /\ Vouched(cp)' = Vouched(cp) /\ Vouched(oldCp)' = Vouched(oldCp)
    BY <1>1, <1>4, Untouched DEF file, checks
  <2>2. VerifierInv'
    BY <1>1 DEF VerifierInv, Fetching
  <2>3. ~env.whole \/ phase \in {"idle", "open", "peer", "done"}
    BY <2>1, Bounds DEF Start, SkipPeer, PeerFails, PeerCanceled, NoSource, StoppedUnsaved,
       AttemptEnds, Trusted, TypeOK
  <2>4. CheckpointInv'
    BY <1>1, <2>1, <2>3 DEF CheckpointInv, Fetching
  <2>5. CountInv'
    BY <1>1, <2>1, Bounds DEF Start, SkipPeer, PeerFails, PeerCanceled, NoSource, Withdraw,
       StoppedUnsaved, AttemptEnds, CountInv, Fetching, ShapeInv, TypeOK, count
  <2> QED
    BY <2>2, <2>4, <2>5
<1> QED
  BY <1>2, <1>3, <1>4

\* Giving a download up, taking the whole file, asking for a segment and giving
\* one up: the file and the verifier stay, and so does what they were vouched for.
LEMMA WithinInv ==
    ASSUME IndInv,
           WholeFile \/ HubFails \/ RequestSegment \/ \E b \in Blocks : SegmentStops(b)
    PROVE  IndInv'
<1> USE DEF IndInv
<1>1. /\ UNCHANGED <<data, len, synced, cp, oldCp, hashed, ok, lastCp, peer, received,
                     fromPeers, faults, env>>
      /\ phase \in {"first", "whole", "parallel", "failed"}
      /\ phase' \in {"whole", "parallel", "failed"}
  BY DEF WholeFile, HubFails, RequestSegment, SegmentStops, file, checks, hash, run, count
<1>2. TypeOK' /\ ShapeInv' /\ SegmentInv'
  <2>1. CASE WholeFile
    <3>1. phase = "first" /\ phase' = "whole" /\ next = 0 /\ UNCHANGED <<next, flying>>
      BY <2>1 DEF WholeFile, run
    <3> QED
      BY <1>1, <3>1, Bounds DEF TypeOK, Phases, ShapeInv, SegmentInv, Fetching, Held
  <2>2. CASE HubFails
    <3>1. phase' = "failed" /\ UNCHANGED <<next, flying>>
      BY <2>2 DEF HubFails, run
    <3> QED
      BY <1>1, <3>1, Bounds DEF TypeOK, Phases, ShapeInv, SegmentInv, Fetching, Held
  <2>3. CASE RequestSegment
    <3>1. /\ phase = "parallel" /\ phase' = "parallel" /\ next < Size /\ next - hashed < Window
          /\ flying' = flying \cup {next} /\ next' = next + 1
      BY <2>3 DEF RequestSegment, SegmentLeft, SlotFree
    <3>2. /\ next \in 0..Size /\ len \in 0..Size /\ hashed \in 0..Size /\ Size \in Nat
          /\ hashed <= len /\ len <= next /\ Held \subseteq 0..(len - 1)
      BY <3>1, Bounds DEF TypeOK, ShapeInv, Fetching
    <3>3. next \in Blocks /\ next' \in 0..Size /\ hashed <= next
      BY <3>1, <3>2 DEF Blocks
    <3>4. next \notin Held
      BY <3>2
    <3>5. TypeOK'
      BY <1>1, <3>1, <3>3 DEF TypeOK, Phases
    <3>6. ShapeInv'
      BY <1>1, <3>1, <3>3, Bounds DEF TypeOK, ShapeInv, Fetching, Held
    <3>7. SegmentInv'
      BY <1>1, <3>1, <3>3, <3>4, Bounds DEF TypeOK, SegmentInv, Held
    <3> QED
      BY <3>5, <3>6, <3>7
  <2>4. CASE \E b \in Blocks : SegmentStops(b)
    <3>1. phase = "failed" /\ phase' = "failed" /\ flying' \subseteq flying /\ next' = next
      BY <2>4 DEF SegmentStops
    <3> QED
      BY <1>1, <3>1, Bounds DEF TypeOK, Phases, ShapeInv, SegmentInv, Fetching, Held
  <2> QED
    BY <2>1, <2>2, <2>3, <2>4
<1>3. ASSUME Trusted'
      PROVE  VerifierInv' /\ CheckpointInv' /\ CountInv'
  <2>1. /\ Trusted /\ Held' = Held
        /\ Vouched(cp)' = Vouched(cp) /\ Vouched(oldCp)' = Vouched(oldCp)
    BY <1>1, <1>3, Untouched DEF file, checks
  <2>2. VerifierInv'
    BY <1>1, <2>1 DEF VerifierInv, Fetching, GoodBetween
  <2>3. CheckpointInv'
    BY <1>1, <2>1 DEF CheckpointInv, Fetching
  <2>4. CountInv'
    BY <1>1, <2>1 DEF CountInv, Fetching
  <2> QED
    BY <2>2, <2>3, <2>4
<1> QED
  BY <1>2, <1>3

\* fetchFrom and Fetch resume the file, for a candidate or for the hub: the cut
\* leaves what the checkpoint speaks of, which is what was counted at the start.
LEMMA OpenInv ==
    ASSUME IndInv, OpenPeer \/ OpenHub
    PROVE  IndInv'
<1> USE DEF IndInv
<1>1. /\ phase = "open" /\ Resume /\ next' = hashed'
      /\ UNCHANGED <<checks, cp, oldCp, flying, lastCp, peer, faults, env>>
      /\ phase' \in {"peer", "first", "finish"}
      /\ phase' = "peer" => peer < env.peers
      /\ phase' = "first" => hashed' # Size
      /\ phase' = "finish" => hashed' = Size
      /\ phase' # "peer" => peer = env.peers /\ Withdraw
      /\ phase' = "peer" => UNCHANGED <<received, fromPeers>>
  BY DEF OpenPeer, OpenHub, checks, count
<1>2. /\ Resumable \in 0..len /\ hashed' = Resumable /\ len' = Resumable
      /\ data' \in [Blocks -> {"hole", "good", "bad"}] /\ ok' \in BOOLEAN
      /\ synced' \subseteq Blocks
      /\ Held' = {b \in Held : b < Resumable}
  BY <1>1, ResumeCuts
<1>3. hashed' \in 0..Size /\ len' \in 0..Size /\ next' = hashed' /\ len' = hashed'
  BY <1>1, <1>2, Bounds DEF TypeOK
<1>4. TypeOK'
  <2>1. received' \in Int /\ fromPeers' \in Nat
    BY <1>1, Bounds DEF Withdraw, TypeOK
  <2> QED
    BY <1>1, <1>2, <1>3, <2>1 DEF TypeOK, Phases
<1>5. ShapeInv'
  <2>1. Held' \subseteq 0..(len' - 1)
    BY <1>2, <1>3, Bounds DEF Held, Blocks
  <2>2. phase' = "first" => next' < Size
    BY <1>1, <1>3, Bounds
  <2>3. hashed' <= len' /\ len' <= next'
    BY <1>3, Bounds
  <2> QED
    BY <1>1, <2>1, <2>2, <2>3 DEF ShapeInv
<1>6. SegmentInv'
  BY <1>1 DEF SegmentInv
<1>7. ASSUME Trusted'
      PROVE  VerifierInv' /\ CheckpointInv' /\ CountInv'
  <2>1. Trusted /\ Vouched(cp) /\ (~env.whole => Vouched(oldCp) /\ oldCp.off <= cp.off)
    BY <1>1, <1>7 DEF Trusted, CheckpointInv
  <2>2. /\ Held' = 0..(hashed' - 1)
        /\ ok' => GoodBetween(0, hashed)'
        /\ Vouched(cp)' /\ cp'.off <= hashed'
        /\ Vouched(oldCp) /\ oldCp.off <= cp.off => Vouched(oldCp)'
    BY <1>1, <2>1, ResumeKeeps
  <2>3. VerifierInv'
    BY <1>1, <2>2 DEF VerifierInv
  <2>4. CheckpointInv'
    BY <1>1, <2>1, <2>2 DEF CheckpointInv
  <2>5. CountInv'
    <3>1. ASSUME env.peers = 0
          PROVE  phase' # "peer" /\ fromPeers' = 0 /\ received' = hashed'
      BY <1>1, <1>2, <2>1, <3>1, Bounds DEF CountInv, Withdraw, TypeOK
    <3>2. Cardinality(0..(hashed' - 1)) = hashed'
      BY <1>3, Counting
    <3> QED
      BY <1>1, <2>2, <3>1, <3>2 DEF CountInv
  <2> QED
    BY <2>3, <2>4, <2>5
<1> QED
  BY <1>4, <1>5, <1>6, <1>7

\* A block that arrives is written at or past the hashed ones: the first segment
\* and a candidate's block extend the hash, the others wait for it.
LEMMA BlockInv ==
    ASSUME IndInv, NEW c \in {"good", "bad"},
           \/ PeerBlock(c) \/ FirstSegment(c) \/ WholeBlock(c)
           \/ \E b \in Blocks : SegmentArrives(b, c)
    PROVE  IndInv'
<1> USE DEF IndInv
<1>1. PICK b \in Blocks :
         /\ Write(b, c) /\ b \notin Held /\ b >= hashed
         /\ \/ PeerBlock(c) /\ b = next
            \/ FirstSegment(c) /\ b = next
            \/ WholeBlock(c) /\ b = next
            \/ SegmentArrives(b, c)
  <2>1. CASE PeerBlock(c) \/ FirstSegment(c) \/ WholeBlock(c)
    <3>1. next \in Blocks /\ next \notin Held /\ next >= hashed
      BY <2>1, Bounds, SMTT(30) DEF PeerBlock, FirstSegment, WholeBlock, TypeOK, ShapeInv, Blocks, Fetching
    <3> QED
      BY <2>1, <3>1 DEF PeerBlock, FirstSegment, WholeBlock
  <2>2. CASE \E b \in Blocks : SegmentArrives(b, c)
    <3> PICK b \in Blocks : SegmentArrives(b, c)
      BY <2>2
    <3>1. Write(b, c) /\ b \notin Held /\ b >= hashed
      BY Bounds DEF SegmentArrives, SegmentInv, TypeOK
    <3> QED
      BY <3>1
  <2> QED
    BY <2>1, <2>2
<1>2. /\ data' \in [Blocks -> {"hole", "good", "bad"}]
      /\ len' \in 0..Size /\ len' >= len /\ len' >= b + 1 /\ (len' = len \/ len' = b + 1)
      /\ synced' \subseteq Blocks /\ synced' = synced \ {b}
      /\ Held' = Held \cup {b}
      /\ data'[b] = c
  BY <1>1, WriteAdds
<1>3. /\ phase \in {"peer", "first", "whole", "parallel", "failed"}
      /\ phase' \in {"peer", "first", "whole", "parallel", "failed", "finish"}
      /\ UNCHANGED <<peer, faults, env>>
      /\ received' = received + 1
      /\ \/ hashed' = hashed /\ ok' = ok
         \/ b = hashed /\ hashed' = b + 1 /\ ok' = (ok /\ c = "good")
  <2>1. CASE PeerBlock(c) /\ b = next
    BY <2>1 DEF PeerBlock, Hash, ShapeInv
  <2>2. CASE FirstSegment(c) /\ b = next
    BY <2>2 DEF FirstSegment, ShapeInv
  <2>3. CASE WholeBlock(c)
    BY <2>3 DEF WholeBlock, hash
  <2>4. CASE SegmentArrives(b, c)
    BY <2>4 DEF SegmentArrives, hash
  <2> QED
    BY <1>1, <2>1, <2>2, <2>3, <2>4
<1>4. hashed' \in 0..Size /\ ok' \in BOOLEAN /\ hashed' <= len'
  <2>1. hashed' \in 0..Size
    BY <1>1, <1>3, Bounds, SMTT(30) DEF TypeOK, Blocks
  <2>2. ok' \in BOOLEAN
    BY <1>3, Zenon DEF TypeOK
  <2>3. hashed' <= len'
    BY <1>1, <1>2, <1>3, Bounds DEF TypeOK, ShapeInv, Fetching, Blocks
  <2> QED
    BY <2>1, <2>2, <2>3
<1>5. \/ UNCHANGED <<cp, oldCp>>
      \/ PeerBlock(c) /\ cp' = [off |-> hashed', ok |-> ok'] /\ oldCp' = cp
  <2>1. CASE PeerBlock(c)
    BY <2>1, Zenon DEF PeerBlock, Hash, Save, checks
  <2>2. CASE ~PeerBlock(c)
    BY <1>1, <2>2 DEF FirstSegment, WholeBlock, SegmentArrives, checks
  <2> QED
    BY <2>1, <2>2
<1>6. /\ next' \in 0..Size /\ len' <= next' /\ next' >= next
      /\ lastCp' \in 0..Size /\ fromPeers' \in Nat /\ flying' = flying \ {b}
      /\ b < next'
  <2>1. CASE PeerBlock(c) /\ b = next
    BY <1>1, <1>2, <2>1, Bounds DEF PeerBlock, TypeOK, ShapeInv, SegmentInv, Blocks, Fetching
  <2>2. CASE FirstSegment(c) /\ b = next
    BY <1>1, <1>2, <2>2, Bounds DEF FirstSegment, TypeOK, ShapeInv, SegmentInv, Blocks, Fetching
  <2>3. CASE WholeBlock(c) /\ b = next
    BY <1>1, <1>2, <2>3, Bounds DEF WholeBlock, TypeOK, ShapeInv, SegmentInv, Blocks, Fetching
  <2>4. CASE SegmentArrives(b, c)
    BY <1>1, <1>2, <2>4, Bounds DEF SegmentArrives, TypeOK, ShapeInv, SegmentInv, Blocks, Fetching
  <2> QED
    BY <1>1, <2>1, <2>2, <2>3, <2>4
<1>7. TypeOK'
  <2>1. cp' \in Cps /\ oldCp' \in Cps
    <3>1. [off |-> hashed', ok |-> ok'] \in Cps
      BY <1>4, Bounds DEF Cps
    <3> QED
      BY <1>5, <3>1 DEF TypeOK
  <2> QED
    BY <1>2, <1>3, <1>4, <1>6, <2>1, Bounds DEF TypeOK, Phases
<1>8. ShapeInv'
  <2>1. Held' \subseteq 0..(len' - 1)
    <3> SUFFICES ASSUME NEW x \in Held' PROVE x \in 0..(len' - 1)
      OBVIOUS
    <3>1. x \in 0..(len - 1) \/ x = b
      BY <1>2 DEF ShapeInv
    <3>2. b \in Nat /\ len \in Nat /\ len' \in Nat /\ len' >= len /\ len' >= b + 1
      BY <1>2, Bounds DEF Blocks, TypeOK
    <3> QED
      BY <3>1, <3>2
  <2>2. CASE PeerBlock(c) /\ b = next
    BY <1>2, <1>3, <1>4, <1>6, <2>1, <2>2, Bounds DEF PeerBlock, Hash, ShapeInv, TypeOK, Fetching
  <2>3. CASE FirstSegment(c) /\ b = next
    BY <1>2, <1>3, <1>4, <1>6, <2>1, <2>3, Bounds DEF FirstSegment, ShapeInv, TypeOK, Fetching
  <2>4. CASE WholeBlock(c) /\ b = next
    <3>1. phase = "whole" /\ phase' = "whole" /\ hashed' = hashed /\ next' = next + 1
      BY <2>4 DEF WholeBlock, hash
    <3>2. hashed' = 0 /\ len' = next'
      BY <1>1, <1>2, <1>6, <2>4, <3>1, Bounds DEF ShapeInv, TypeOK
    <3>3. 0..(next' - 1) \subseteq Held'
      BY <1>2, <2>4, <3>1, Bounds DEF ShapeInv, TypeOK
    <3> QED
      BY <1>4, <1>6, <2>1, <3>1, <3>2, <3>3 DEF ShapeInv
  <2>5. CASE SegmentArrives(b, c)
    BY <1>2, <1>3, <1>4, <1>6, <2>1, <2>5, Bounds DEF SegmentArrives, hash, ShapeInv, TypeOK,
       Fetching
  <2> QED
    BY <1>1, <2>2, <2>3, <2>4, <2>5
<1>9. SegmentInv'
  <2>1. CASE (PeerBlock(c) \/ WholeBlock(c)) /\ b = next
    BY <1>6, <2>1 DEF PeerBlock, WholeBlock, SegmentInv
  <2>2. CASE FirstSegment(c) /\ b = next
    <3>1. flying' = {} /\ hashed' = next + 1 /\ next' = next + 1
      BY <2>2 DEF FirstSegment, SegmentInv
    <3>2. next \in Nat /\ Window \in Nat
      BY Bounds DEF TypeOK
    <3>3. next' - hashed' <= Window /\ \A x : x \notin hashed'..(next' - 1)
      BY <3>1, <3>2
    <3> QED
      BY <3>1, <3>3 DEF SegmentInv
  <2>3. CASE SegmentArrives(b, c)
    <3>1. UNCHANGED <<hashed, next, phase>>
      BY <2>3 DEF SegmentArrives, hash
    <3> QED
      BY <1>2, <1>6, <3>1 DEF SegmentInv
  <2> QED
    BY <1>1, <2>1, <2>2, <2>3
<1>10. ASSUME Trusted'
       PROVE  VerifierInv' /\ CheckpointInv' /\ CountInv'
  <2>1. Trusted /\ VerifierInv /\ CheckpointInv /\ CountInv
    BY <1>3, <1>10 DEF Trusted
  <2>2. 0..(hashed' - 1) \subseteq Held'
    <3>1. 0..(hashed - 1) \subseteq Held'
      BY <1>2, <1>3, <2>1 DEF VerifierInv, Fetching
    <3>2. CASE hashed' = hashed
      BY <3>1, <3>2
    <3>3. CASE b = hashed /\ hashed' = b + 1
      BY <1>2, <3>1, <3>3, Bounds DEF TypeOK
    <3> QED
      BY <1>3, <3>2, <3>3
  <2>3. ok' => GoodBetween(0, hashed)'
    <3> SUFFICES ASSUME ok', NEW a \in 0..(hashed' - 1)
                 PROVE  data'[a] = "good"
      BY DEF GoodBetween
    <3>1. ok /\ GoodBetween(0, hashed)
      BY <1>3, <2>1 DEF VerifierInv, Fetching
    <3>2. hashed \in -1..b
      BY <1>1, Bounds DEF TypeOK, Blocks
    <3>3. \A x \in 0..(hashed - 1) : data'[x] = "good"
      BY <1>1, <3>1, <3>2, WriteKeeps
    <3>4. CASE hashed' = hashed
      BY <3>3, <3>4
    <3>5. CASE b = hashed /\ hashed' = b + 1 /\ ok' = (ok /\ c = "good")
      <4>1. data'[b] = "good"
        BY <1>2, <3>5
      <4> QED
        BY <3>3, <3>5, <4>1, Bounds DEF TypeOK
    <3> QED
      BY <1>3, <3>4, <3>5
  <2>4. VerifierInv'
    BY <1>3, <2>2, <2>3 DEF VerifierInv
  <2>5. ASSUME NEW k \in Cps, Vouched(k), k.off <= hashed
        PROVE  /\ k.off <= len' /\ 0..(k.off - 1) \subseteq Held'
               /\ k.ok => \A x \in 0..(k.off - 1) : data'[x] = "good"
               /\ env.power => 0..(k.off - 1) \subseteq synced'
    <3>1. k.off \in -1..b
      BY <1>1, <2>5, Bounds DEF TypeOK, Cps, Blocks
    <3>2. k.off <= len'
      BY <1>2, <2>5, <3>1, Bounds, SMTT(30) DEF Vouched, TypeOK, Blocks
    <3> QED
      BY <1>1, <2>5, <3>1, <3>2, WriteKeeps DEF Vouched
  <2>6. CheckpointInv'
    <3>1. CASE UNCHANGED <<cp, oldCp>>
      <4>1. ~env.whole \/ phase' = "peer" => ~env.whole \/ phase = "peer"
        BY <1>1 DEF PeerBlock, FirstSegment, WholeBlock, SegmentArrives
      <4>2. hashed' >= hashed
        BY <1>3, Bounds DEF TypeOK, Blocks
      <4>3. ~env.whole \/ phase' = "peer" => Vouched(cp)' /\ cp.off <= hashed
        BY <1>3, <2>1, <2>5, <3>1, <4>1 DEF CheckpointInv, Fetching, TypeOK, Vouched, GoodBetween
      <4>4. ~env.whole => Vouched(oldCp) /\ oldCp.off <= cp.off /\ oldCp.off <= hashed
        BY <1>3, <2>1, Bounds DEF CheckpointInv, Fetching, TypeOK, Cps
      <4>5. ~env.whole => Vouched(oldCp)'
        BY <1>3, <2>5, <3>1, <4>4 DEF TypeOK, Vouched, GoodBetween
      <4>6. cp.off \in Int /\ hashed' \in Int /\ hashed \in Int
        BY <1>4, Bounds DEF TypeOK, Cps
      <4> QED
        BY <1>3, <3>1, <4>2, <4>3, <4>4, <4>5, <4>6 DEF CheckpointInv, Fetching
    <3>2. CASE PeerBlock(c) /\ cp' = [off |-> hashed', ok |-> ok'] /\ oldCp' = cp
      <4>1. ~env.power /\ phase = "peer" /\ phase' = "peer"
        BY <2>1, <3>2, Bounds DEF PeerBlock, ShapeInv, Trusted, TypeOK
      <4>2. cp'.off = hashed' /\ cp'.ok = ok'
        BY <3>2
      <4>3. Vouched(cp)'
        BY <1>3, <1>4, <2>2, <2>3, <4>1, <4>2 DEF Vouched
      <4>4. Vouched(cp) /\ cp.off <= hashed /\ cp \in Cps
        BY <2>1, <4>1 DEF CheckpointInv, Fetching, TypeOK
      <4>5. Vouched(oldCp)'
        BY <1>3, <2>5, <3>2, <4>4 DEF Vouched, GoodBetween
      <4>6. oldCp'.off <= cp'.off
        BY <1>3, <1>1, <3>2, <4>2, <4>4, Bounds, SMTT(30) DEF Cps, TypeOK, Blocks
      <4> QED
        BY <1>4, <4>2, <4>3, <4>5, <4>6 DEF CheckpointInv
    <3> QED
      BY <1>5, <3>1, <3>2
  <2>7. CountInv'
    <3>1. Cardinality(Held') = Cardinality(Held) + 1
      BY <1>1, <1>2, Counting
    <3>2. ~PeerBlock(c) => UNCHANGED fromPeers
      BY <1>1 DEF FirstSegment, WholeBlock, SegmentArrives
    <3>3. PeerBlock(c) => env.peers # 0
      BY Bounds DEF PeerBlock, ShapeInv, TypeOK
    <3> QED
      BY <1>3, <2>1, <3>1, <3>2, <3>3 DEF CountInv, Fetching
  <2> QED
    BY <2>4, <2>6, <2>7
<1> QED
  BY <1>7, <1>8, <1>9, <1>10

\* The verifier catches up with what was written: HashWhole after the whole file,
\* HashSegment one segment at a time, recording what it hashed once it is synced.
LEMMA HashInv ==
    ASSUME IndInv, HashWhole \/ HashSegment
    PROVE  IndInv'
<1> USE DEF IndInv
<1>1. /\ UNCHANGED <<data, len, next, flying, peer, received, fromPeers, faults, env>>
      /\ Held' = Held
  BY DEF HashWhole, HashSegment, file, run, count, Held
<1>2. CASE HashWhole
  <2>1. /\ phase = "whole" /\ phase' = "finish" /\ hashed = 0 /\ hashed' = Size
        /\ next = Size /\ len = Size
        /\ UNCHANGED <<synced, cp, oldCp, lastCp>>
    BY <1>2 DEF HashWhole, ShapeInv, file, checks, run
  <2>2. ok' \in BOOLEAN /\ (ok' => GoodBetween(0, Size))
    BY <1>2, <2>1, Zenon DEF HashWhole
  <2>3. TypeOK'
    BY <1>1, <2>1, <2>2, Bounds DEF TypeOK, Phases
  <2>4. ShapeInv' /\ SegmentInv'
    BY <1>1, <2>1, Bounds DEF ShapeInv, SegmentInv, TypeOK
  <2>5. ASSUME Trusted'
        PROVE  VerifierInv' /\ CheckpointInv' /\ CountInv'
    <3>1. Trusted
      BY <1>1, <2>5 DEF Trusted
    <3>2. VerifierInv'
      BY <1>1, <2>1, <2>2 DEF VerifierInv, ShapeInv, GoodBetween
    <3>3. CheckpointInv'
      <4>1. Vouched(cp)' = Vouched(cp) /\ Vouched(oldCp)' = Vouched(oldCp)
        BY <1>1, <2>1, Untouched DEF file, checks
      <4> QED
        BY <1>1, <2>1, <3>1, <4>1, Bounds DEF CheckpointInv, TypeOK, Cps, Fetching
    <3>4. CountInv'
      BY <1>1, <2>1, <3>1 DEF CountInv, Fetching
    <3> QED
      BY <3>2, <3>3, <3>4
  <2> QED
    BY <2>3, <2>4, <2>5
<1>3. CASE HashSegment
  <2>1. /\ phase = "parallel" /\ phase' \in {"finish", "parallel"}
        /\ hashed < next /\ hashed \notin flying
        /\ hashed' = hashed + 1
        /\ ok' = (ok /\ GoodBetween(hashed, hashed + 1))
        /\ phase' = "finish" => hashed + 1 = Size
    BY <1>3, Zenon DEF HashSegment
  <2>2. \/ UNCHANGED <<synced, cp, oldCp, lastCp>>
        \/ /\ synced' = {b \in Blocks : b < len} /\ lastCp' = hashed + 1
           /\ cp' = [off |-> hashed', ok |-> ok'] /\ oldCp' = cp
    BY <1>3 DEF HashSegment, Checkpoint, Sync, Save, checks
  <2>3. /\ hashed' \in 0..Size /\ ok' \in BOOLEAN
        /\ hashed \in Held /\ hashed' <= len /\ hashed' <= next
    <3>1. hashed \in hashed..(next - 1) /\ hashed' \in 0..Size /\ hashed' <= next
      BY <2>1, Bounds DEF TypeOK
    <3>2. hashed \in Held
      BY <2>1, <3>1 DEF SegmentInv
    <3>3. hashed' <= len
      BY <2>1, <3>2, Bounds DEF ShapeInv, TypeOK
    <3>4. ok' \in BOOLEAN
      BY <2>1, Zenon
    <3> QED
      BY <3>1, <3>2, <3>3, <3>4
  <2>4. TypeOK'
    <3>1. [off |-> hashed', ok |-> ok'] \in Cps
      BY <2>3, Bounds DEF Cps
    <3>2. cp' \in Cps /\ oldCp' \in Cps
      BY <2>2, <3>1 DEF TypeOK
    <3>3. synced' \subseteq Blocks /\ lastCp' \in 0..Size
      BY <2>1, <2>2, <2>3 DEF TypeOK
    <3> QED
      BY <1>1, <2>1, <2>3, <3>2, <3>3 DEF TypeOK, Phases
  <2>5. ShapeInv'
    BY <1>1, <2>1, <2>3, Bounds DEF ShapeInv, TypeOK, Fetching
  <2>6. SegmentInv'
    <3>1. flying' = {} \/ phase' = "parallel"
      <4>1. CASE hashed + 1 = Size
        <5>1. \A b \in hashed..(next - 1) : b = hashed
          BY <4>1, Bounds DEF TypeOK
        <5> QED
          BY <1>1, <2>1, <5>1 DEF SegmentInv
      <4> QED
        BY <2>1, <4>1
    <3> QED
      BY <1>1, <2>1, <2>3, <3>1, Bounds DEF SegmentInv, TypeOK
  <2>7. ASSUME Trusted'
        PROVE  VerifierInv' /\ CheckpointInv' /\ CountInv'
    <3>1. Trusted /\ VerifierInv /\ CheckpointInv /\ CountInv
      BY <1>1, <2>7 DEF Trusted
    <3>2. 0..(hashed' - 1) \subseteq Held'
      BY <1>1, <2>1, <2>3, <3>1, Bounds DEF VerifierInv, Fetching, TypeOK
    <3>3. ok' => GoodBetween(0, hashed)'
      <4> SUFFICES ASSUME ok', NEW a \in 0..(hashed' - 1)
                   PROVE  data'[a] = "good"
        BY DEF GoodBetween
      <4>1. ok /\ GoodBetween(hashed, hashed + 1)
        BY <2>1
      <4>2. GoodBetween(0, hashed)
        BY <2>1, <3>1, <4>1 DEF VerifierInv, Fetching
      <4>3. a \in 0..(hashed - 1) \/ a \in hashed..((hashed + 1) - 1)
        BY <2>1, Bounds DEF TypeOK
      <4> QED
        BY <1>1, <4>1, <4>2, <4>3 DEF GoodBetween
    <3>4. VerifierInv'
      BY <2>1, <3>2, <3>3 DEF VerifierInv
    <3>5. CheckpointInv'
      <4>1. CASE UNCHANGED <<synced, cp, oldCp, lastCp>>
        <5>1. Vouched(cp)' = Vouched(cp) /\ Vouched(oldCp)' = Vouched(oldCp)
          BY <1>1, <4>1, Untouched DEF file, checks
        <5> QED
          BY <1>1, <2>1, <3>1, <4>1, <5>1, Bounds DEF CheckpointInv, TypeOK, Cps, Fetching
      <4>2. CASE /\ synced' = {b \in Blocks : b < len}
                 /\ cp' = [off |-> hashed', ok |-> ok'] /\ oldCp' = cp
        <5>1. cp'.off = hashed' /\ cp'.ok = ok'
          BY <4>2
        <5>2. 0..(hashed' - 1) \subseteq synced' /\ 0..(len - 1) \subseteq synced'
          <6>1. \A b \in 0..(len - 1) : b \in Blocks /\ b < len
            BY Bounds DEF TypeOK, Blocks
          <6>2. 0..(hashed' - 1) \subseteq 0..(len - 1)
            <7>1. hashed \in Nat /\ len \in Nat /\ hashed + 1 <= len /\ hashed' = hashed + 1
              BY <2>1, <2>3, Bounds DEF TypeOK
            <7> QED
              BY <7>1
          <6> QED
            BY <4>2, <6>1, <6>2
        <5>3. Vouched(cp)'
          BY <1>1, <2>3, <3>2, <3>3, <5>1, <5>2 DEF Vouched
        <5>4. ASSUME ~env.whole
              PROVE  Vouched(oldCp)' /\ oldCp'.off <= cp'.off
          <6>1. Vouched(cp) /\ cp.off <= hashed /\ cp.off \in Int /\ cp.off <= len
            BY <2>1, <3>1, <5>4, Bounds DEF CheckpointInv, Fetching, TypeOK, Cps, Vouched
          <6>2. 0..(cp.off - 1) \subseteq synced'
            BY <5>2, <6>1, Bounds DEF TypeOK
          <6>3. cp.off <= hashed'
            BY <2>1, <6>1, Bounds DEF TypeOK
          <6> QED
            BY <1>1, <4>2, <5>1, <6>1, <6>2, <6>3 DEF Vouched, GoodBetween
        <5> QED
          BY <1>1, <2>3, <5>1, <5>3, <5>4 DEF CheckpointInv
      <4> QED
        BY <2>2, <4>1, <4>2
    <3>6. CountInv'
      BY <1>1, <2>1, <3>1 DEF CountInv, Fetching
    <3> QED
      BY <3>4, <3>5, <3>6
  <2> QED
    BY <2>4, <2>5, <2>6, <2>7
<1> QED
  BY <1>2, <1>3

\* A hub that answers a resume with the whole file: the file and the count start
\* over, and so does the verifier.
LEMMA StartOverInv ==
    ASSUME IndInv, StartOver
    PROVE  IndInv'
<1> USE DEF IndInv
<1>1. /\ phase = "first" /\ phase' = "first" /\ env.whole /\ next > 0
      /\ hashed' = 0 /\ ok' = TRUE /\ next' = 0
      /\ received' = received - next
      /\ UNCHANGED <<cp, oldCp, flying, lastCp, peer, fromPeers, faults, env>>
  BY DEF StartOver, NewVerifier, Uncount, checks
<1>2. data' = [b \in Blocks |-> "hole"] /\ len' = 0 /\ synced' = {}
  <2>1. Truncate(0) /\ len \in Nat /\ synced \subseteq Blocks
    BY Bounds DEF StartOver, TypeOK
  <2>2. \A b \in Blocks : ~(b < 0)
    BY Bounds DEF TypeOK, Blocks
  <2>3. data' = [b \in Blocks |-> "hole"]
    BY <2>1, <2>2 DEF Truncate
  <2>4. synced' = {} /\ len' = 0
    BY <2>1, <2>2 DEF Truncate
  <2> QED
    BY <2>3, <2>4
<1>3. Held' = {}
  BY <1>2 DEF Held
<1>4. TypeOK'
  BY <1>1, <1>2, Bounds DEF TypeOK
<1>5. ShapeInv' /\ SegmentInv'
  BY <1>1, <1>2, <1>3, Bounds DEF ShapeInv, SegmentInv
<1>6. ASSUME Trusted'
      PROVE  VerifierInv' /\ CheckpointInv' /\ CountInv'
  <2>1. Trusted /\ VerifierInv /\ CountInv
    BY <1>1, <1>6 DEF Trusted
  <2>2. VerifierInv'
    BY <1>1 DEF VerifierInv, GoodBetween
  <2>3. CheckpointInv'
    BY <1>1 DEF CheckpointInv
  <2>4. CountInv'
    <3>1. Held = 0..(next - 1)
      <4>1. len <= next /\ Held \subseteq 0..(len - 1) /\ 0..(next - 1) \subseteq Held
        BY <1>1, <2>1 DEF ShapeInv, VerifierInv, Fetching
      <4>2. len \in Nat /\ next \in Nat
        BY Bounds DEF TypeOK
      <4>3. 0..(len - 1) \subseteq 0..(next - 1)
        BY <4>1, <4>2
      <4> QED
        BY <4>1, <4>3
    <3>2. Cardinality(Held) = next
      BY <3>1, Counting DEF TypeOK
    <3>3. env.peers = 0 => received' = 0
      BY <1>1, <2>1, <3>2 DEF CountInv, Fetching, TypeOK
    <3>4. Cardinality({}) = 0
      BY FS_EmptySet
    <3> QED
      BY <1>1, <1>3, <2>1, <3>3, <3>4 DEF CountInv
  <2> QED
    BY <2>2, <2>3, <2>4
<1> QED
  BY <1>4, <1>5, <1>6

\* Everything of the file and its checkpoints is removed.
LEMMA RemoveInv ==
    ASSUME IndInv, Remove, phase' = "idle", flying = {},
           UNCHANGED <<hash, run, count, faults, env>>
    PROVE  IndInv'
<1> USE DEF IndInv, hash, run, count, Remove
<1>1. Held' = {}
  BY DEF Held
<1>2. NoCp \in Cps /\ NoCp.off = -1 /\ NoCp.ok = FALSE
  BY FetchAssumption DEF NoCp, Cps
<1>3. TypeOK'
  BY <1>2, Bounds DEF TypeOK, Phases, Blocks
<1>4. ShapeInv' /\ SegmentInv'
  BY <1>1 DEF ShapeInv, SegmentInv, Fetching
<1>5. Vouched(cp)' /\ Vouched(oldCp)' /\ oldCp'.off <= cp'.off
  BY <1>2 DEF Vouched, GoodBetween
<1>6. Trusted' => VerifierInv' /\ CheckpointInv' /\ CountInv'
  BY <1>5 DEF Trusted, VerifierInv, CheckpointInv, CountInv, Fetching
<1> QED
  BY <1>3, <1>4, <1>6

\* The verifier's position is recorded, after a sync or with nothing to fear
\* from a loss of power: the checkpoint speaks of the file, and what it replaced
\* still does.
LEMMA SaveInv ==
    ASSUME IndInv, phase \in {"peer", "failed", "finish"}, phase' \in {"idle", "done"},
           flying = {}, phase' = "done" => hashed = Size /\ ok,
           Save([off |-> hashed, ok |-> ok]), UNCHANGED <<data, len, hash, run, count, faults, env>>,
           (UNCHANGED synced /\ phase = "peer") \/ Sync
    PROVE  IndInv'
<1> USE DEF IndInv, hash, run, count
<1>1. /\ Held' = Held /\ oldCp' = cp /\ cp'.off = hashed /\ cp'.ok = ok
      /\ UNCHANGED <<hashed, ok, next, flying, env, data, len>>
  BY DEF Save, Held
<1>2. cp' \in Cps
  BY Bounds DEF Save, TypeOK, Cps
<1>3. synced' \subseteq Blocks
  BY DEF Sync, TypeOK
<1>4. TypeOK'
  BY <1>1, <1>2, <1>3 DEF TypeOK, Phases
<1>5. ShapeInv' /\ SegmentInv'
  BY <1>1 DEF ShapeInv, SegmentInv, Fetching
<1>6. ASSUME Trusted'
      PROVE  VerifierInv' /\ CheckpointInv' /\ CountInv'
  <2>1. Trusted /\ VerifierInv /\ CheckpointInv /\ CountInv
    BY <1>1, <1>6 DEF Trusted
  <2>2. VerifierInv'
    BY <1>1, <2>1 DEF VerifierInv, Fetching, GoodBetween
  <2>3. env.power => 0..(len - 1) \subseteq synced'
    <3>1. env.power => phase # "peer"
      BY <2>1, Bounds DEF Trusted, ShapeInv, TypeOK
    <3>2. \A b \in 0..(len - 1) : b \in Blocks /\ b < len
      BY Bounds DEF TypeOK, Blocks
    <3> QED
      BY <3>1, <3>2 DEF Sync
  <2>4. hashed \in Nat /\ len \in Nat /\ hashed <= len
    BY Bounds DEF TypeOK, ShapeInv, Fetching
  <2>5. Vouched(cp)'
    <3>1. 0..(hashed - 1) \subseteq 0..(len - 1)
      BY <2>4
    <3> QED
      BY <1>1, <2>1, <2>3, <2>4, <3>1 DEF Vouched, VerifierInv, Fetching, GoodBetween
  <2>6. ASSUME ~env.whole
        PROVE  Vouched(oldCp)' /\ oldCp'.off <= cp'.off
    <3>1. Vouched(cp) /\ cp.off <= hashed /\ cp.off \in Int
      BY <2>1, <2>6, Bounds DEF CheckpointInv, Fetching, TypeOK, Cps
    <3>2. 0..(cp.off - 1) \subseteq 0..(len - 1)
      BY <2>4, <3>1
    <3> QED
      BY <1>1, <2>3, <3>1, <3>2 DEF Vouched, GoodBetween
  <2>7. CheckpointInv'
    BY <1>1, <2>4, <2>5, <2>6 DEF CheckpointInv
  <2>8. CountInv'
    BY <1>1, <2>1 DEF CountInv, Fetching
  <2> QED
    BY <2>2, <2>7, <2>8
<1> QED
  BY <1>4, <1>5, <1>6

\* A download ends: verified, recorded where it stopped, or removed because the
\* hub serves another size or its content did not verify.
LEMMA EndInv ==
    ASSUME IndInv, PeerVerified \/ Stopped \/ SizeMismatch \/ Finish
    PROVE  IndInv'
<1>1. phase \notin {"parallel", "failed"} => flying = {}
  BY DEF IndInv, SegmentInv
<1>2. CASE PeerVerified
  <2>1. hashed = Size
    BY <1>2 DEF PeerVerified, IndInv, ShapeInv
  <2>2. Save([off |-> hashed, ok |-> ok])
    BY <1>2, <2>1 DEF PeerVerified
  <2> QED
    BY <1>1, <1>2, <2>1, <2>2, SaveInv DEF PeerVerified, file
<1>3. CASE Stopped
  <2>1. Save([off |-> hashed, ok |-> ok]) /\ Sync
    BY <1>3 DEF Stopped, Checkpoint, hash, Save
  <2> QED
    BY <1>3, <2>1, SaveInv DEF Stopped
<1>4. CASE SizeMismatch
  BY <1>4, RemoveInv DEF SizeMismatch
<1>5. CASE Finish
  <2>1. hashed = Size /\ flying = {}
    BY <1>1, <1>5 DEF Finish, IndInv, ShapeInv
  <2>2. CASE ok /\ phase' = "done"
    BY <1>5, <2>1, <2>2, SaveInv DEF Finish
  <2>3. CASE phase' = "idle"
    BY <1>5, <2>1, <2>3, RemoveInv DEF Finish
  <2> QED
    BY <1>5, <2>2, <2>3 DEF Finish
<1> QED
  BY <1>2, <1>3, <1>4, <1>5

\* A crash loses the try, and not what the disk holds.
LEMMA CrashInv ==
    ASSUME IndInv, Crash
    PROVE  IndInv'
<1> USE DEF IndInv, Restart
<1>1. /\ UNCHANGED <<data, len, synced, cp, oldCp, env>> /\ phase' = "idle" /\ flying' = {}
      /\ faults < env.faults
  BY DEF Crash, file, checks
<1>2. TypeOK'
  BY <1>1, Bounds DEF Crash, TypeOK, Phases
<1>3. ShapeInv' /\ SegmentInv'
  BY <1>1, Bounds DEF Crash, ShapeInv, SegmentInv, Fetching, Held
<1>4. ASSUME Trusted'
      PROVE  VerifierInv' /\ CheckpointInv' /\ CountInv'
  <2>1. Trusted /\ ~env.whole
    BY <1>1, <1>4, Bounds DEF Trusted, TypeOK
  <2>2. Vouched(cp)' = Vouched(cp) /\ Vouched(oldCp)' = Vouched(oldCp)
    BY <1>1, Untouched DEF file, checks
  <2> QED
    BY <1>1, <2>1, <2>2 DEF Crash, VerifierInv, CheckpointInv, CountInv, Fetching
<1> QED
  BY <1>2, <1>3, <1>4

\* A loss of power takes the blocks that were not synced and may take the last
\* rename: what a checkpoint speaks of was synced before it was recorded.
LEMMA PowerLossInv ==
    ASSUME IndInv, PowerLoss
    PROVE  IndInv'
<1> USE DEF IndInv, Restart
<1>1. PICK lost \in SUBSET (Blocks \ synced) :
         /\ data' = [b \in Blocks |-> IF b \in lost THEN "hole" ELSE data[b]]
         /\ len' \in {n \in 0..len : \A b \in Blocks : data'[b] # "hole" => b < n}
  BY DEF PowerLoss
<1>2. /\ env.power /\ faults < env.faults /\ phase' = "idle" /\ flying' = {} /\ env' = env
      /\ synced' = {b \in Blocks : b < len'}
      /\ cp' \in {cp, oldCp, NoCp} /\ oldCp' = cp'
  BY DEF PowerLoss
<1>3. /\ len' \in 0..Size /\ Held' \subseteq 0..(len' - 1)
      /\ \A b \in Held' : b \in Blocks /\ b < len'
  <2>1. len' \in 0..len /\ \A b \in Held' : b \in Blocks /\ b < len'
    BY <1>1 DEF Held
  <2> QED
    BY <2>1, Bounds, SMTT(30) DEF TypeOK, Blocks
<1>4. NoCp \in Cps /\ NoCp.off = -1 /\ NoCp.ok = FALSE
  BY FetchAssumption DEF NoCp, Cps
<1>5. TypeOK'
  <2>1. data' \in [Blocks -> {"hole", "good", "bad"}] /\ synced' \subseteq Blocks
    BY <1>1, <1>2 DEF TypeOK
  <2>2. cp' \in Cps /\ oldCp' \in Cps
    BY <1>2, <1>4 DEF TypeOK
  <2> QED
    BY <1>2, <1>3, <2>1, <2>2, Bounds DEF PowerLoss, TypeOK, Phases
<1>6. ShapeInv' /\ SegmentInv'
  BY <1>2, <1>3 DEF ShapeInv, SegmentInv, Fetching
<1>7. ASSUME Trusted'
      PROVE  VerifierInv' /\ CheckpointInv' /\ CountInv'
  <2>1. Trusted /\ ~env.whole
    BY <1>2, <1>7, Bounds DEF Trusted, TypeOK
  <2>2. ASSUME NEW k \in Cps, Vouched(k)
        PROVE  /\ k.off <= len' /\ 0..(k.off - 1) \subseteq Held'
               /\ k.ok => \A x \in 0..(k.off - 1) : data'[x] = "good"
               /\ 0..(k.off - 1) \subseteq synced'
    <3>1. \A x \in 0..(k.off - 1) : x \in Held /\ x \in synced /\ x \in Blocks
      BY <1>2, <2>2 DEF Vouched, Held
    <3>2. \A x \in 0..(k.off - 1) : data'[x] = data[x]
      BY <1>1, <3>1
    <3>3. 0..(k.off - 1) \subseteq Held'
      BY <3>1, <3>2 DEF Held
    <3>4. \A x \in 0..(k.off - 1) : x < len' /\ x \in synced'
      BY <1>2, <1>3, <3>1, <3>3
    <3>5. k.off <= len'
      <4>1. k.off \in Int /\ len' \in Nat
        BY <1>3, Bounds DEF Cps
      <4>2. CASE k.off > 0
        <5>1. k.off - 1 \in 0..(k.off - 1)
          BY <4>1, <4>2
        <5> QED
          BY <3>4, <4>1, <5>1
      <4> QED
        BY <4>1, <4>2
    <3> QED
      BY <2>2, <3>2, <3>3, <3>4, <3>5 DEF Vouched, GoodBetween
  <2>3. Vouched(NoCp) /\ Vouched(cp) /\ Vouched(oldCp)
    BY <1>4, <2>1, Bounds DEF CheckpointInv, Vouched, GoodBetween, TypeOK
  <2>4. Vouched(cp)' /\ Vouched(oldCp)' /\ oldCp'.off <= cp'.off
    <3>1. cp' \in Cps /\ Vouched(cp')
      BY <1>2, <1>4, <2>3 DEF TypeOK
    <3>2. cp'.off \in Int
      BY <3>1, Bounds DEF Cps
    <3> QED
      BY <1>2, <2>2, <3>1, <3>2 DEF Vouched, GoodBetween
  <2> QED
    BY <1>2, <2>1, <2>4 DEF PowerLoss, VerifierInv, CheckpointInv, CountInv, Fetching
<1> QED
  BY <1>5, <1>6, <1>7

-----------------------------------------------------------------------------
(* The theorems.                                                            *)

\* The first try finds no file: the invariant holds before anything was fetched.
LEMMA InitInv == Init => IndInv
<1> SUFFICES ASSUME Init PROVE IndInv
  OBVIOUS
<1>1. Held = {}
  BY DEF Init, Held
<1>2. NoCp \in Cps /\ NoCp.off = -1 /\ NoCp.ok = FALSE
  BY FetchAssumption DEF NoCp, Cps
<1>3. TypeOK
  BY <1>2, FetchAssumption DEF Init, TypeOK, Phases, Blocks
<1>4. ShapeInv /\ SegmentInv
  BY <1>1 DEF Init, ShapeInv, SegmentInv, Fetching
<1>5. VerifierInv /\ CheckpointInv /\ CountInv
  BY <1>2 DEF Init, VerifierInv, CheckpointInv, Vouched, GoodBetween, CountInv, Fetching
<1> QED
  BY <1>3, <1>4, <1>5 DEF IndInv

\* Every step of a try, of its sources, and every fault keeps the invariant.
LEMMA NextInv == IndInv /\ [Next]_vars => IndInv'
<1> SUFFICES ASSUME IndInv, [Next]_vars PROVE IndInv'
  OBVIOUS
<1>1. CASE Next
  BY <1>1, BetweenInv, WithinInv, OpenInv, BlockInv, HashInv, StartOverInv, EndInv, CrashInv,
     PowerLossInv DEF Next, Work, Disturb
<1>2. CASE UNCHANGED vars
  BY <1>2 DEF vars, file, checks, hash, run, count, IndInv, TypeOK, ShapeInv, SegmentInv,
     VerifierInv, CheckpointInv, CountInv, Held, Trusted, Vouched, GoodBetween, Resumable
<1> QED
  BY <1>1, <1>2

\* The invariant holds throughout, whatever the sources deliver, in whatever
\* order segments arrive, and wherever a try is interrupted.
THEOREM FetchInvariance == Spec => []IndInv
BY InitInv, NextInv, PTL DEF Spec

\* Every variable keeps its type: no offset leaves the file, no candidate is
\* asked beyond the last, no fault beyond the bound.
THEOREM FetchTypes == Spec => []TypeOK
<1>1. IndInv => TypeOK
  BY DEF IndInv
<1> QED
  BY <1>1, FetchInvariance, PTL

\* Fetch and Verify: whatever was resumed, lost or delivered wrong before, a
\* file taken as verified is whole and has the manifest's content, unless power
\* is lost under a candidate's download or a fault meets a file that started over.
THEOREM VerifiedContent == Spec => [](Trusted => VerifiedIsGood)
<1>1. IndInv => (Trusted => VerifiedIsGood)
  <2> SUFFICES ASSUME IndInv, Trusted, phase = "done"
               PROVE  len = Size /\ GoodBetween(0, Size)
    BY DEF VerifiedIsGood
  <2>1. hashed = Size /\ hashed <= len /\ GoodBetween(0, hashed)
    BY DEF IndInv, ShapeInv, VerifierInv, Fetching
  <2>2. len = Size
    BY <2>1, Bounds DEF IndInv, TypeOK
  <2> QED
    BY <2>1, <2>2
<1> QED
  BY <1>1, FetchInvariance, PTL

\* saveCheckpoint: in the same environments a checkpoint speaks of the blocks on
\* disk, and of durable ones where power can be lost.
THEOREM CheckpointTruth == Spec => [](Trusted => CheckpointsTrue)
<1>1. IndInv => (Trusted => CheckpointsTrue)
  BY DEF IndInv, CheckpointInv, CheckpointsTrue, Vouched
<1> QED
  BY <1>1, FetchInvariance, PTL

\* fetchTree: in the same environments and without peers the count of what an
\* attempt received is what the file holds.
THEOREM CountKept == Spec => [](Trusted => CountExact)
<1>1. IndInv => (Trusted => CountExact)
  BY DEF IndInv, CountInv, CountExact, Held, Fetching
<1> QED
  BY <1>1, FetchInvariance, PTL

\* fetchParallel: in the same environments a segment is hashed only where it has
\* arrived, and what is written past the hashed segments fits the window.
THEOREM WindowKept == Spec => [](Trusted => WindowHeld)
<1>1. IndInv => (Trusted => WindowHeld)
  <2> SUFFICES ASSUME IndInv, Trusted, phase = "parallel" \/ (phase = "failed" /\ flying # {}),
                      NEW b \in Blocks
               PROVE  (b < hashed => data[b] # "hole") /\ (data[b] # "hole" => b < hashed + Window)
    BY DEF WindowHeld
  <2>1. /\ 0..(hashed - 1) \subseteq Held /\ Held \subseteq 0..(len - 1)
        /\ len <= next /\ next - hashed <= Window
    BY DEF IndInv, VerifierInv, ShapeInv, SegmentInv, Fetching
  <2>2. hashed \in Nat /\ next \in Nat /\ len \in Nat /\ Window \in Nat /\ b \in Nat
    BY Bounds DEF IndInv, TypeOK, Blocks
  <2>3. b < hashed => b \in 0..(hashed - 1)
    BY <2>2
  <2>4. b \in Held => b < hashed + Window
    BY <2>1, <2>2
  <2> QED
    BY <2>1, <2>3, <2>4 DEF Held
<1> QED
  BY <1>1, FetchInvariance, PTL
=============================================================================
