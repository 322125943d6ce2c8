-------------------------- MODULE ReservationProofs -------------------------
(***************************************************************************)
(* Proofs about Reservation for any attempts, sizes, watermarks and trees:  *)
(* IndInv is inductive, so what is on disk, with what every admitted        *)
(* download has yet to write, stays under the high watermark.               *)
(***************************************************************************)
EXTENDS Reservation, SumTheorems

\* What the attempts of S have yet to write, by the figures c.
Left(c, S) == Sum([a \in Attempts |-> Rest(c[a])], S)

\* Room for the files h, n trees and the reservations S.
Room(h, n, S) == Sum(h, Attempts) + n * Size + Left(h, S) <= High

LEMMA Totals == \A f, S : Total(f, S) = Sum(f, S)
BY Zenon DEF Total, Sum, MapThenSumSet, MapThenFoldSet

\* Rest is a number, and for what a file may hold the difference.
LEMMA RestOf ==
    /\ \A c \in Int : Rest(c) \in Nat
    /\ \A c \in 0..Size : Rest(c) = Size - c
    /\ \A c, d \in Int : c <= d => Rest(d) <= Rest(c)
BY ReservationAssumption DEF Rest

\* RoomForAll and InFlight are what Room and Left say of a state.
LEMMA Figures ==
    /\ held \in [Attempts -> 0..Size] => (RoomForAll <=> Room(held, idle + kept, reserved))
    /\ held' \in [Attempts -> 0..Size] =>
          (RoomForAll' <=> Room(held', idle' + kept', reserved'))
    /\ InFlight = Left(counted, reserved)
    /\ InFlight' = Left(counted', reserved')
<1>1. ASSUME NEW h \in [Attempts -> 0..Size]
      PROVE  [a \in Attempts |-> Size - h[a]] = [a \in Attempts |-> Rest(h[a])]
  BY RestOf
<1>2. held \in [Attempts -> 0..Size] => (RoomForAll <=> Room(held, idle + kept, reserved))
  BY <1>1, Totals DEF RoomForAll, Used, Room, Left
<1>3. held' \in [Attempts -> 0..Size] =>
          (RoomForAll' <=> Room(held', idle' + kept', reserved'))
  BY <1>1, Totals DEF RoomForAll, Used, Room, Left
<1>4. InFlight = Left(counted, reserved) /\ InFlight' = Left(counted', reserved')
  BY Totals DEF InFlight, Left
<1> QED
  BY <1>2, <1>3, <1>4

\* What is left is a number, and so is what files hold.
LEMMA SumsAreNat ==
    /\ \A c \in [Attempts -> Int] : \A S \in SUBSET Attempts : Left(c, S) \in Nat
    /\ \A h \in [Attempts -> 0..Size] : Sum(h, Attempts) \in Nat
<1>1. ASSUME NEW c \in [Attempts -> Int], NEW S \in SUBSET Attempts
      PROVE  Left(c, S) \in Nat
  <2> DEFINE x == [b \in Attempts |-> Rest(c[b])]
  <2>1. IsFiniteSet(S) /\ \A b \in S : x[b] \in Nat
    BY ReservationAssumption, FS_Subset, RestOf
  <2> HIDE DEF x
  <2> QED
    BY <2>1, SumTake DEF Left, x
<1>2. ASSUME NEW h \in [Attempts -> 0..Size] PROVE Sum(h, Attempts) \in Nat
  <2>1. IsFiniteSet(Attempts) /\ \A b \in Attempts : h[b] \in Nat
    BY ReservationAssumption
  <2> QED
    BY <2>1, SumTake
<1> QED
  BY <1>1, <1>2

\* One attempt's figure changes.
LEMMA OneChanges ==
    ASSUME NEW c \in [Attempts -> Int], NEW d \in [Attempts -> Int],
           NEW a \in Attempts, \A b \in Attempts \ {a} : d[b] = c[b],
           NEW S \in SUBSET Attempts
    PROVE  /\ a \in S => Left(d, S) + Rest(c[a]) = Left(c, S) + Rest(d[a])
           /\ a \notin S => Left(d, S) = Left(c, S)
<1> DEFINE x == [b \in Attempts |-> Rest(c[b])]
           y == [b \in Attempts |-> Rest(d[b])]
<1>1. IsFiniteSet(S)
  BY ReservationAssumption, FS_Subset
<1>2. /\ \A b \in S : x[b] \in Nat
      /\ \A b \in S : y[b] \in Nat
      /\ \A b \in S \ {a} : y[b] = x[b]
      /\ x[a] = Rest(c[a]) /\ y[a] = Rest(d[a])
  BY RestOf
<1>3. Left(c, S) = Sum(x, S) /\ Left(d, S) = Sum(y, S)
  BY DEF Left
<1> HIDE DEF x, y
<1>4. ASSUME a \in S PROVE Sum(y, S) + x[a] = Sum(x, S) + y[a]
  BY <1>1, <1>2, <1>4, SumChange
<1>5. ASSUME a \notin S PROVE Sum(y, S) = Sum(x, S)
  <2>1. \A b \in S : y[b] = x[b]
    BY <1>2, <1>5
  <2> QED
    BY <1>1, <1>2, <2>1, SumSame
<1> QED
  BY <1>2, <1>3, <1>4, <1>5

\* One file changes.
LEMMA OneFile ==
    ASSUME NEW c \in [Attempts -> 0..Size], NEW d \in [Attempts -> 0..Size],
           NEW a \in Attempts, \A b \in Attempts \ {a} : d[b] = c[b],
           NEW S \in SUBSET Attempts
    PROVE  /\ Sum(d, Attempts) + c[a] = Sum(c, Attempts) + d[a]
           /\ a \in S => Left(d, S) + d[a] = Left(c, S) + c[a]
           /\ a \notin S => Left(d, S) = Left(c, S)
<1>1. IsFiniteSet(Attempts) /\ Size \in Nat
  BY ReservationAssumption
<1>2. (\A b \in Attempts : c[b] \in Nat) /\ (\A b \in Attempts : d[b] \in Nat)
  BY <1>1
<1>3. Sum(d, Attempts) + c[a] = Sum(c, Attempts) + d[a]
  BY <1>1, <1>2, SumChange
<1>4. c \in [Attempts -> Int] /\ d \in [Attempts -> Int]
  BY <1>1
<1>5. /\ a \in S => Left(d, S) + Rest(c[a]) = Left(c, S) + Rest(d[a])
      /\ a \notin S => Left(d, S) = Left(c, S)
  BY <1>4, OneChanges
<1>6. Rest(c[a]) = Size - c[a] /\ Rest(d[a]) = Size - d[a] /\ c[a] \in Nat /\ d[a] \in Nat
  BY <1>2, RestOf
<1>7. Left(c, S) \in Nat /\ Left(d, S) \in Nat
  BY <1>4, SumsAreNat
<1> QED
  BY <1>1, <1>3, <1>5, <1>6, <1>7

\* An attempt is admitted, or ends.
LEMMA OneMore ==
    ASSUME NEW c \in [Attempts -> 0..Size], NEW S \in SUBSET Attempts, NEW a \in Attempts
    PROVE  /\ a \notin S => Left(c, S \cup {a}) = Left(c, S) + (Size - c[a])
           /\ a \in S => Left(c, S) = Left(c, S \ {a}) + (Size - c[a])
<1> DEFINE x == [b \in Attempts |-> Rest(c[b])]
<1>1. IsFiniteSet(S) /\ Size \in Nat
  BY ReservationAssumption, FS_Subset
<1>2. \A b \in Attempts : x[b] \in Nat /\ x[b] = Size - c[b]
  BY <1>1, RestOf
<1>3. \A T : Left(c, T) = Sum(x, T)
  BY DEF Left
<1> HIDE DEF x
<1>4. a \notin S => Sum(x, S \cup {a}) = Sum(x, S) + x[a]
  BY <1>1, <1>2, SumAdd
<1>5. a \in S => Sum(x, S) = x[a] + Sum(x, S \ {a})
  BY <1>1, <1>2, SumTake
<1>6. Sum(x, S \ {a}) \in Nat
  BY <1>1, <1>2, FS_RemoveElement, SumTake
<1> QED
  BY <1>2, <1>3, <1>4, <1>5, <1>6

\* Figures that are higher leave less.
LEMMA HigherLeavesLess ==
    ASSUME NEW c \in [Attempts -> Int], NEW d \in [Attempts -> Int],
           NEW S \in SUBSET Attempts, \A a \in S : c[a] <= d[a]
    PROVE  Left(d, S) <= Left(c, S)
<1> DEFINE x == [b \in Attempts |-> Rest(c[b])]
           y == [b \in Attempts |-> Rest(d[b])]
<1>1. IsFiniteSet(S)
  BY ReservationAssumption, FS_Subset
<1>2. \A b \in S : x[b] \in Nat /\ y[b] \in Nat /\ y[b] <= x[b]
  BY RestOf
<1>3. Left(c, S) = Sum(x, S) /\ Left(d, S) = Sum(y, S)
  BY DEF Left
<1> HIDE DEF x, y
<1> QED
  BY <1>1, <1>2, <1>3, SumLeq

\* The first start finds trees that fit and no partials.
LEMMA InitInv == Init => IndInv
<1> SUFFICES ASSUME Init PROVE IndInv
  OBVIOUS
<1>1. TypeOK
  <2>1. /\ held \in [Attempts -> 0..Size] /\ saved \in [Attempts -> 0..Size]
        /\ from \in [Attempts -> 0..Size]
    BY ReservationAssumption DEF Init
  <2> QED
    BY <2>1, ReservationAssumption DEF Init, TypeOK, None, Timer
<1>2. StageInv /\ CountedInv /\ LockInv
  BY DEF Init, StageInv, CountedInv, LockInv, Tries, Running
<1>3. RoomForAll
  <2>1. Left(held, reserved) = 0
    BY SumEmpty DEF Left, Init
  <2>2. Sum(held, Attempts) = 0
    <3>1. IsFiniteSet(Attempts) /\ \A a \in Attempts : held[a] = 0
      BY ReservationAssumption DEF Init
    <3> QED
      BY <3>1, SumZero
  <2>3. Trees * Size <= High /\ Trees \in Nat /\ Size \in Nat
    BY ReservationAssumption
  <2>4. idle + kept = Trees
    BY <2>3 DEF Init
  <2> QED
    BY <1>1, <2>1, <2>2, <2>3, <2>4, Figures DEF Room, TypeOK
<1> QED
  BY <1>1, <1>2, <1>3 DEF IndInv

-----------------------------------------------------------------------------
(* The steps.                                                               *)

LEMMA Bounds ==
    ASSUME TypeOK
    PROVE  /\ Size \in Nat \ {0} /\ High \in Nat /\ env.who \subseteq Attempts
           /\ None \notin Attempts /\ Timer \notin Attempts /\ None # Timer
           /\ idle \in Nat /\ kept \in Nat /\ InFlight \in Nat
           /\ held \in [Attempts -> 0..Size] /\ held \in [Attempts -> Int]
           /\ saved \in [Attempts -> 0..Size] /\ counted \in [Attempts -> Int]
           /\ reserved \in SUBSET Attempts
           /\ \A a \in Attempts : Resumable(a) \in 0..Size /\ Resumable(a) <= held[a]
<1>1. InFlight \in Nat
  BY Figures, SumsAreNat DEF TypeOK
<1>2. held \in [Attempts -> Int]
  BY ReservationAssumption DEF TypeOK
<1>3. \A a \in Attempts : Resumable(a) \in 0..Size /\ Resumable(a) <= held[a]
  BY ReservationAssumption DEF TypeOK, Resumable
<1> QED
  BY <1>1, <1>2, <1>3, ReservationAssumption DEF TypeOK, None, Timer

\* A step of an attempt without a reservation, or of the collector for it.
LEMMA TryKept ==
    ASSUME IndInv, NEW a \in Attempts, NEW y,
           y \in {"idle", "lock", "collect"} \cup Tries,
           st[a] \in {"lock", "collect"} \cup Tries,
           st' = [st EXCEPT ![a] = y],
           mu' = None \/ (mu' = mu /\ incoming' = incoming /\ mu # a),
           UNCHANGED <<held, saved, counted, debit, tried, reserved, trees, env>>
    PROVE  StageInv' /\ CountedInv' /\ LockInv' /\ (Alone => RoomForAll)'
<1> USE DEF IndInv, trees
<1>1. st'[a] = y /\ \A b \in Attempts : b # a => st'[b] = st[b]
  BY DEF TypeOK
<1>2. StageInv'
  BY <1>1 DEF StageInv, Running, Tries
<1>3. CountedInv'
  BY <1>1 DEF CountedInv, Resumable, Steady, Tries
<1>4. (Alone => RoomForAll)'
  BY DEF Alone, Steady, RoomForAll, Used
<1>5. LockInv'
  BY <1>1 DEF LockInv, Alone, Steady, InFlight, TypeOK
<1> QED
  BY <1>2, <1>3, <1>4, <1>5

\* Reserve, from its first try to its refusal.
LEMMA TryInv ==
    ASSUME IndInv, NEW a \in Attempts,
           Miss(a) \/ ReserveFails(a) \/ LockCollect(a)
    PROVE  IndInv'
<1> USE DEF IndInv
<1>1. CASE Miss(a)
  <2>1. st[a] \in Tries /\ mu = a
    BY <1>1, Bounds DEF Miss, LockInv
  <2>2. AfterMiss(a) \in {"lock", "collect", "idle"}
    BY <2>1 DEF AfterMiss, Tries
  <2>3. TypeOK'
    BY <1>1, <2>2 DEF Miss, TypeOK, trees, file, count
  <2>4. StageInv' /\ CountedInv' /\ LockInv' /\ (Alone => RoomForAll)'
    BY <1>1, <2>1, <2>2, TryKept DEF Miss, file, count
  <2> QED
    BY <2>3, <2>4
<1>2. CASE ReserveFails(a)
  <2>1. TypeOK'
    BY <1>2 DEF ReserveFails, TypeOK, trees, file, count
  <2>2. StageInv' /\ CountedInv' /\ LockInv' /\ (Alone => RoomForAll)'
    BY <1>2, TryKept DEF ReserveFails, file, count
  <2> QED
    BY <2>1, <2>2
<1>3. CASE LockCollect(a)
  <2>1. TypeOK'
    BY <1>3 DEF LockCollect, TypeOK, trees, locks, file, count, Tries
  <2>2. mu # a
    BY <1>3, Bounds DEF LockCollect, LockInv, Tries
  <2>3. StageInv' /\ CountedInv' /\ LockInv' /\ (Alone => RoomForAll)'
    BY <1>3, <2>2, TryKept DEF LockCollect, Tries, locks, file, count
  <2> QED
    BY <2>1, <2>3
<1> QED
  BY <1>1, <1>2, <1>3

\* The listing counts what is on disk, and tryReserve reads all counts.
LEMMA CountsInv ==
    ASSUME IndInv, NEW a \in Attempts, List(a) \/ ReadCounts(a)
    PROVE  IndInv'
<1> USE DEF IndInv
<1>0. Size \in Nat /\ 0 \in 0..Size /\ Resumable(a) \in Int
  BY Bounds
<1>1. CASE List(a)
  <2>1. /\ st' = [st EXCEPT ![a] = "try"] /\ counted' = [counted EXCEPT ![a] = Resumable(a)]
        /\ st[a] = "idle" /\ a \in env.who /\ a \notin reserved
        /\ UNCHANGED <<held, saved, reserved, idle, kept, mu, incoming, pass, passIn, cands, env>>
    BY <1>1 DEF List, StageInv, Running, file, trees, locks, passing
  <2>2. /\ st'[a] = "try" /\ counted'[a] = Resumable(a) /\ debit'[a] = 0 /\ tried'[a] = 0
        /\ \A b \in Attempts : b # a => /\ st'[b] = st[b] /\ counted'[b] = counted[b]
                                        /\ debit'[b] = debit[b] /\ tried'[b] = tried[b]
    BY <1>1, <2>1 DEF List, TypeOK
  <2>3. TypeOK'
    <3>1. debit' \in [Attempts -> Nat] /\ tried' \in [Attempts -> Nat] /\ from' \in [Attempts -> 0..Size]
      BY <1>0, <1>1 DEF List, TypeOK
    <3>2. st' \in [Attempts -> {"idle", "lock", "collect"} \cup Running \cup Tries]
      BY <2>1 DEF TypeOK, Tries
    <3>3. counted' \in [Attempts -> Int]
      BY <1>0, <2>1 DEF TypeOK
    <3> QED
      BY <2>1, <3>1, <3>2, <3>3 DEF TypeOK
  <2>4. StageInv' /\ CountedInv'
    BY <2>1, <2>2 DEF StageInv, CountedInv, Resumable, Steady, Running, Tries
  <2>5. (Alone => RoomForAll)'
    BY <2>1 DEF Alone, Steady, RoomForAll, Used
  <2>6. LockInv'
    <3>1. InFlight' = InFlight
      <4>0. /\ counted' \in [Attempts -> Int] /\ counted \in [Attempts -> Int]
            /\ reserved \in SUBSET Attempts /\ a \notin reserved
            /\ \A b \in Attempts \ {a} : counted'[b] = counted[b]
        BY <2>1, <2>2, <2>3 DEF TypeOK
      <4>1. Left(counted', reserved) = Left(counted, reserved)
        BY ONLY <4>0, a \in Attempts, OneChanges
      <4> QED
        BY <2>1, <4>1, Figures
    <3>2. mu # a
      BY <2>1, Bounds DEF LockInv, Tries
    <3> QED
      BY <2>1, <2>2, <3>1, <3>2 DEF LockInv, Alone, Steady, TypeOK
  <2> QED
    BY <2>3, <2>4, <2>5, <2>6
<1>2. CASE ReadCounts(a)
  <2>1. /\ st[a] \in Tries /\ mu' = a /\ incoming' = Rest(counted[a]) + InFlight
        /\ UNCHANGED <<st, held, saved, counted, debit, tried, from, reserved, idle, kept, pass,
                       passIn, cands, env>>
    BY <1>2 DEF ReadCounts, file, count, trees, passing
  <2>2. incoming' \in Nat
    <3>1. Rest(counted[a]) \in Nat
      BY Bounds, RestOf
    <3> QED
      BY <2>1, <3>1, Bounds
  <2>3. TypeOK'
    BY <2>1, <2>2 DEF TypeOK
  <2>4. StageInv' /\ CountedInv' /\ (Alone => RoomForAll)'
    BY <2>1 DEF StageInv, CountedInv, Resumable, Alone, Steady, RoomForAll, Used
  <2>5. LockInv'
    <3>1. InFlight' = InFlight
      BY <2>1 DEF InFlight
    <3>2. (Rest(counted[mu]) + InFlight)' <= incoming'
      BY <2>1, <2>2, <3>1
    <3> QED
      BY <2>1, <3>2 DEF LockInv
  <2> QED
    BY <2>3, <2>4, <2>5
<1> QED
  BY <1>1, <1>2

\* tryReserve admits: what it computed before covers what is left to write now.
LEMMA AdmitInv ==
    ASSUME IndInv, NEW a \in Attempts, Admit(a)
    PROVE  IndInv'
<1> USE DEF IndInv
<1>1. /\ mu = a /\ st[a] \in Tries /\ a \notin reserved
      /\ st'[a] = "resume" /\ \A b \in Attempts : b # a => st'[b] = st[b]
      /\ reserved' = reserved \cup {a} /\ mu' = None
      /\ UNCHANGED <<held, saved, counted, debit, tried, from, idle, kept, passIn, cands, env>>
  BY Bounds DEF Admit, LockInv, StageInv, TypeOK, trees, file, count, Tries, Running
<1>2. TypeOK'
  BY <1>1 DEF Admit, TypeOK, Running
<1>3. StageInv' /\ CountedInv' /\ LockInv'
  BY <1>1 DEF StageInv, CountedInv, Resumable, Steady, LockInv, Tries, Running
<1>4. ASSUME Alone PROVE RoomForAll'
  <2>0. counted[a] = Resumable(a)
    BY <1>1 DEF CountedInv
  <2>1. Size - counted[a] + Left(counted, reserved) <= incoming
    <3>1. Rest(counted[a]) = Size - counted[a]
      BY <2>0, Bounds, RestOf
    <3> QED
      BY <1>1, <1>4, <3>1, Bounds, Figures DEF LockInv
  <2>2. \A b \in reserved : counted[b] <= held[b]
    <3> SUFFICES ASSUME NEW b \in reserved PROVE counted[b] <= held[b]
      OBVIOUS
    <3>1. b \in Attempts /\ st[b] \in Running /\ b # a
      BY <1>1 DEF TypeOK, StageInv
    <3>2. a \in env.who /\ b \in env.who
      BY <1>1, <3>1 DEF StageInv, Running, Tries
    <3>3. Steady
      BY <1>4, <3>1, <3>2 DEF Alone
    <3>4. st[b] \in {"resume", "write", "count"}
      BY <3>1, <3>3 DEF StageInv, Steady, Running
    <3> QED
      BY <3>1, <3>3, <3>4, Bounds DEF CountedInv
  <2>3. Left(held, reserved) <= Left(counted, reserved)
    BY <2>2, Bounds, HigherLeavesLess
  <2>4. Left(held, reserved') = Left(held, reserved) + (Size - held[a])
    BY <1>1, Bounds, OneMore
  <2>5. counted[a] <= held[a]
    BY <2>0, Bounds
  <2>6. Sum(held, Attempts) + (idle + kept) * Size + incoming <= High
    BY Totals DEF Admit, Fits, Used
  <2>7. /\ Sum(held, Attempts) \in Nat /\ Left(held, reserved) \in Nat
        /\ Left(counted, reserved) \in Nat /\ held[a] \in Nat /\ counted[a] \in Int
        /\ Size \in Nat /\ High \in Nat /\ incoming \in Nat /\ (idle + kept) * Size \in Nat
    BY Bounds, SumsAreNat DEF TypeOK
  <2>8. Sum(held, Attempts) + (idle + kept) * Size + Left(held, reserved') <= High
    BY <2>1, <2>3, <2>4, <2>5, <2>6, <2>7
  <2> QED
    BY <1>1, <2>8, Bounds, Figures DEF Room
<1> QED
  BY <1>1, <1>2, <1>3, <1>4 DEF Alone, Steady

\* One attempt with a reservation goes from h bytes on disk to v: what it has
\* yet to write moves the other way.
LEMMA DiskMoves ==
    ASSUME IndInv, NEW a \in Attempts, a \in reserved, held' \in [Attempts -> 0..Size],
           \A b \in Attempts \ {a} : held'[b] = held[b],
           UNCHANGED <<reserved, idle, kept, env>>
    PROVE  (Alone => RoomForAll)'
<1> USE DEF IndInv
<1>1. /\ Sum(held', Attempts) + held[a] = Sum(held, Attempts) + held'[a]
      /\ Left(held', reserved) + held'[a] = Left(held, reserved) + held[a]
  BY Bounds, OneFile
<1>2. /\ Sum(held, Attempts) \in Nat /\ Sum(held', Attempts) \in Nat
      /\ Left(held, reserved) \in Nat /\ Left(held', reserved) \in Nat
      /\ held[a] \in Nat /\ held'[a] \in Nat /\ High \in Nat
  <2>1. held' \in [Attempts -> Int]
    BY Bounds
  <2> QED
    BY <2>1, Bounds, SumsAreNat
<1>3. (idle + kept) * Size \in Nat
  BY Bounds
<1>4. ASSUME Alone PROVE RoomForAll'
  <2>1. Sum(held, Attempts) + (idle + kept) * Size + Left(held, reserved) <= High
    BY <1>4, Bounds, Figures DEF Room
  <2>2. Sum(held', Attempts) + (idle + kept) * Size + Left(held', reserved) <= High
    BY <1>1, <1>2, <1>3, <2>1
  <2> QED
    BY <2>2, Figures DEF Room
<1> QED
  BY <1>4 DEF Alone, Steady

\* Where files may be cut, nobody holds c.mu while a download runs.
LEMMA NobodyTries ==
    ASSUME IndInv, Alone, ~Steady, NEW a \in Attempts, st[a] \in Running
    PROVE  mu = None
<1> SUFFICES ASSUME mu # None PROVE FALSE
  OBVIOUS
<1>1. mu \in Attempts /\ st[mu] \in Tries
  BY DEF IndInv, TypeOK, LockInv
<1>2. a \in env.who /\ mu \in env.who
  BY <1>1 DEF IndInv, StageInv, Tries, Running
<1> QED
  BY <1>1, <1>2 DEF Alone, Tries, Running

\* A running download moves and its count does not shrink, or may: what the
\* holder of c.mu computed still covers it.
LEMMA LockKept ==
    ASSUME IndInv, NEW a \in Attempts, st[a] \in Running,
           counted' \in [Attempts -> Int],
           \A b \in Attempts \ {a} : counted'[b] = counted[b] /\ st'[b] = st[b],
           Steady => counted[a] <= counted'[a],
           UNCHANGED <<reserved, mu, incoming, env>>
    PROVE  LockInv'
<1> USE DEF IndInv
<1>1. ASSUME mu # None
      PROVE  mu \in Attempts /\ mu # a /\ st'[mu] = st[mu] /\ counted'[mu] = counted[mu]
  BY <1>1 DEF LockInv, TypeOK, Tries, Running
<1>2. ASSUME mu # None, Alone PROVE Rest(counted'[mu]) + InFlight' <= incoming'
  <2>1. Steady
    BY <1>2, NobodyTries
  <2>2. \A b \in reserved : counted[b] <= counted'[b]
    BY <2>1, Bounds
  <2>3. Left(counted', reserved) <= Left(counted, reserved)
    BY <2>2, Bounds, HigherLeavesLess
  <2>4. InFlight' <= InFlight
    BY <2>3, Figures
  <2>5. InFlight' \in Nat /\ InFlight \in Nat /\ incoming \in Nat
    BY Bounds, Figures, SumsAreNat DEF TypeOK
  <2>6. Rest(counted[mu]) + InFlight <= incoming /\ Rest(counted[mu]) \in Nat
    BY <1>1, <1>2, Bounds, RestOf DEF LockInv
  <2>7. Rest(counted'[mu]) = Rest(counted[mu])
    BY <1>1, <1>2
  <2> QED
    BY <2>4, <2>5, <2>6, <2>7
<1>3. mu # None => st'[mu] \in Tries
  BY <1>1 DEF LockInv
<1> QED
  BY <1>2, <1>3 DEF LockInv, Alone, Steady

\* A running download keeps its stage and its reservation.
LEMMA StageKept ==
    ASSUME IndInv, NEW a \in Attempts, st[a] \in Running, NEW y,
           y \in {"resume", "write", "count"} \/ (y = "uncount" /\ env.whole),
           st' = [st EXCEPT ![a] = y], UNCHANGED <<reserved, env>>
    PROVE  /\ StageInv'
           /\ st'[a] = y /\ \A b \in Attempts \ {a} : st'[b] = st[b]
           /\ st' \in [Attempts -> {"idle", "lock", "collect"} \cup Running \cup Tries]
<1> USE DEF IndInv
<1>1. y \in Running
  BY DEF Running
<1>2. st'[a] = y /\ \A b \in Attempts \ {a} : st'[b] = st[b]
  BY DEF TypeOK
<1>3. st' \in [Attempts -> {"idle", "lock", "collect"} \cup Running \cup Tries]
  BY <1>1 DEF TypeOK
<1>4. StageInv'
  BY <1>1, <1>2 DEF StageInv, Running
<1> QED
  BY <1>2, <1>3, <1>4

\* The steps of a download that move its file.
LEMMA FileInv ==
    ASSUME IndInv, NEW a \in Attempts,
           Resume(a) \/ Write(a) \/ Checkpoint(a) \/ StartOver(a)
    PROVE  IndInv'
<1> USE DEF IndInv
<1>0. held[a] \in 0..Size /\ Size \in Nat \ {0} /\ 0 \in 0..Size
      /\ Resumable(a) \in 0..Size /\ counted[a] \in Int
  BY Bounds
<1>1. /\ st[a] \in Running /\ a \in reserved
      /\ UNCHANGED <<counted, tried, reserved, idle, kept, mu, incoming, pass, passIn, cands, env>>
  BY DEF Resume, Write, Checkpoint, StartOver, StageInv, Running, count, trees, locks, passing
<1>2. PICK v \in 0..Size, w \in 0..Size, y \in Running :
        /\ held' = [held EXCEPT ![a] = v] /\ saved' = [saved EXCEPT ![a] = w]
        /\ st' = [st EXCEPT ![a] = y]
        /\ y \in {"resume", "write", "count"} \/ (y = "uncount" /\ env.whole)
        /\ \/ st[a] = "resume" /\ v = Resumable(a) /\ y = "write"
           \/ st[a] = "write" /\ v = held[a] + 1 /\ y = "count"
           \/ st[a] \in {"write", "count"} /\ v = held[a] /\ y = st[a]
           \/ y = "uncount" /\ env.whole
  <2>0. /\ saved = [saved EXCEPT ![a] = saved[a]] /\ saved[a] \in 0..Size
        /\ held = [held EXCEPT ![a] = held[a]] /\ st = [st EXCEPT ![a] = st[a]]
    BY DEF TypeOK
  <2>1. CASE Resume(a)
    BY <1>0, <2>0, <2>1 DEF Resume, Running
  <2>2. CASE Write(a)
    <3>1. held[a] + 1 \in 0..Size
      BY <1>0, <2>2 DEF Write
    <3> QED
      BY <1>0, <2>0, <2>2, <3>1 DEF Write, Running
  <2>3. CASE Checkpoint(a)
    BY <1>0, <2>0, <2>3 DEF Checkpoint, Running
  <2>4. CASE StartOver(a)
    BY <1>0, <2>0, <2>4 DEF StartOver, Running
  <2> QED
    BY <2>1, <2>2, <2>3, <2>4
<1>3. /\ held' \in [Attempts -> 0..Size] /\ saved' \in [Attempts -> 0..Size] /\ held'[a] = v
      /\ \A b \in Attempts \ {a} : held'[b] = held[b] /\ saved'[b] = saved[b]
  BY <1>2 DEF TypeOK
<1>4. /\ StageInv' /\ st'[a] = y /\ \A b \in Attempts \ {a} : st'[b] = st[b]
      /\ st' \in [Attempts -> {"idle", "lock", "collect"} \cup Running \cup Tries]
  BY <1>1, <1>2, StageKept
<1>5. TypeOK'
  <2>1. debit' \in [Attempts -> Nat] /\ from' \in [Attempts -> 0..Size]
    <3>1. held[a] \in Nat
      BY <1>0
    <3> QED
      BY <1>0, <3>1 DEF Resume, Write, Checkpoint, StartOver, count, TypeOK
  <2> QED
    BY <1>1, <1>3, <1>4, <2>1 DEF TypeOK
<1>6. CountedInv'
  <2>0. Steady => UNCHANGED <<debit, tried>>
    BY DEF Resume, Write, Checkpoint, StartOver, count, Steady
  <2>1. ASSUME NEW b \in Attempts, b # a
        PROVE  /\ st'[b] \in Tries \cup {"lock", "collect"} => counted'[b] = Resumable(b)'
               /\ Steady' => /\ debit'[b] = 0 /\ tried'[b] = 0
                             /\ st'[b] = "resume" => counted'[b] = Resumable(b)'
                             /\ st'[b] = "write" => counted'[b] <= held'[b]
                             /\ st'[b] = "count" => counted'[b] < held'[b]
    BY <1>1, <1>3, <1>4, <2>0, <2>1 DEF CountedInv, Resumable, Steady
  <2>2. st'[a] \in Running /\ (Steady => st'[a] # "resume" /\ st'[a] # "uncount")
    BY <1>2, <1>4 DEF Running, Steady
  <2>3. ASSUME Steady
        PROVE  /\ st'[a] = "write" => counted'[a] <= held'[a]
               /\ st'[a] = "count" => counted'[a] < held'[a]
               /\ debit'[a] = 0 /\ tried'[a] = 0
    BY <1>0, <1>1, <1>2, <1>3, <1>4, <2>0, <2>3 DEF CountedInv, Steady
  <2>4. st'[a] \notin Tries \cup {"lock", "collect"}
    BY <2>2 DEF Running, Tries
  <2>5. Steady' = Steady
    BY <1>1 DEF Steady
  <2> QED
    BY <2>1, <2>2, <2>3, <2>4, <2>5 DEF CountedInv
<1>7. LockInv'
  BY <1>0, <1>1, <1>4, Bounds, LockKept
<1>8. (Alone => RoomForAll)'
  BY <1>1, <1>3, DiskMoves
<1> QED
  BY <1>4, <1>5, <1>6, <1>7, <1>8

\* The steps of a download that move its count, or its source.
LEMMA CountInv ==
    ASSUME IndInv, NEW a \in Attempts,
           Count(a) \/ PeerFails(a) \/ Withdraw(a) \/ Uncount(a)
    PROVE  IndInv'
<1> USE DEF IndInv
<1>0. /\ held[a] \in 0..Size /\ Size \in Nat \ {0} /\ counted[a] \in Int
      /\ debit[a] \in Nat /\ tried[a] \in Nat /\ env.peers \in Nat
  BY Bounds, ReservationAssumption DEF TypeOK
<1>1. /\ st[a] \in Running /\ a \in reserved
      /\ UNCHANGED <<held, saved, from, reserved, idle, kept, mu, incoming, pass, passIn, cands, env>>
  BY DEF Count, PeerFails, Withdraw, Uncount, StageInv, Running, file, trees, locks, passing
<1>2. PICK c \in Int, y \in {"resume", "write"} :
        /\ counted' = [counted EXCEPT ![a] = c] /\ st' = [st EXCEPT ![a] = y]
        /\ Steady => /\ st[a] = "count" /\ y = "write" /\ c = counted[a] + 1
                     /\ debit' = debit /\ tried' = tried
  <2>0. counted = [counted EXCEPT ![a] = counted[a]] /\ st = [st EXCEPT ![a] = st[a]]
    BY DEF TypeOK
  <2>1. CASE Count(a)
    <3>1. counted[a] + 1 \in Int /\ debit = [debit EXCEPT ![a] = debit[a]]
      BY <1>0 DEF TypeOK
    <3>2. Steady => FromHub(a)
      BY DEF CountedInv, FromHub, Steady
    <3>3. /\ counted' = [counted EXCEPT ![a] = counted[a] + 1] /\ st' = [st EXCEPT ![a] = "write"]
          /\ st[a] = "count" /\ tried' = tried /\ (Steady => debit' = debit)
      BY <2>1, <3>1, <3>2 DEF Count
    <3> QED
      BY <3>1, <3>3
  <2>2. CASE PeerFails(a)
    <3>1. ~Steady
      BY <1>0, <2>2 DEF PeerFails, Steady
    <3> QED
      BY <1>0, <2>0, <2>2, <3>1 DEF PeerFails
  <2>3. CASE Withdraw(a)
    <3>1. ~Steady
      BY <2>3 DEF Withdraw, CountedInv
    <3>2. counted[a] - debit[a] \in Int
      BY <1>0
    <3>3. /\ counted' = [counted EXCEPT ![a] = counted[a] - debit[a]]
          /\ st' = [st EXCEPT ![a] = "resume"]
      BY <2>0, <2>3 DEF Withdraw
    <3> QED
      BY <3>1, <3>2, <3>3
  <2>4. CASE Uncount(a)
    <3>1. ~Steady
      BY <2>4 DEF Uncount, StageInv, Steady
    <3> QED
      <4>1. counted[a] - debit[a] \in Int
        BY <1>0
      <4>2. /\ counted' = [counted EXCEPT ![a] = counted[a] - debit[a]]
            /\ st' = [st EXCEPT ![a] = "write"]
        BY <2>4 DEF Uncount
      <4> QED
        BY <3>1, <4>1, <4>2
  <2> QED
    BY <2>1, <2>2, <2>3, <2>4
<1>3. /\ counted' \in [Attempts -> Int] /\ counted'[a] = c
      /\ \A b \in Attempts \ {a} : counted'[b] = counted[b]
  BY <1>2 DEF TypeOK
<1>4. /\ StageInv' /\ st'[a] = y /\ \A b \in Attempts \ {a} : st'[b] = st[b]
      /\ st' \in [Attempts -> {"idle", "lock", "collect"} \cup Running \cup Tries]
  BY <1>1, <1>2, StageKept
<1>5. TypeOK'
  <2>1. debit' \in [Attempts -> Nat] /\ tried' \in [Attempts -> Nat]
    BY <1>0 DEF Count, PeerFails, Withdraw, Uncount, TypeOK
  <2> QED
    BY <1>1, <1>3, <1>4, <2>1 DEF TypeOK
<1>6. CountedInv'
  <2>1. ASSUME NEW b \in Attempts, b # a
        PROVE  /\ st'[b] \in Tries \cup {"lock", "collect"} => counted'[b] = Resumable(b)'
               /\ Steady' => /\ debit'[b] = 0 /\ tried'[b] = 0
                             /\ st'[b] = "resume" => counted'[b] = Resumable(b)'
                             /\ st'[b] = "write" => counted'[b] <= held'[b]
                             /\ st'[b] = "count" => counted'[b] < held'[b]
    <3>1. Steady => debit' = debit /\ tried' = tried
      BY <1>2
    <3> QED
      BY <1>1, <1>3, <1>4, <2>1, <3>1 DEF CountedInv, Resumable, Steady
  <2>2. st'[a] \notin Tries \cup {"lock", "collect"}
    BY <1>2, <1>4 DEF Tries
  <2>3. ASSUME Steady
        PROVE  st'[a] = "write" /\ counted'[a] <= held'[a] /\ debit'[a] = 0 /\ tried'[a] = 0
    BY <1>0, <1>1, <1>2, <1>3, <1>4, <2>3 DEF CountedInv
  <2>4. Steady' = Steady
    BY <1>1 DEF Steady
  <2> QED
    BY <2>1, <2>2, <2>3, <2>4 DEF CountedInv
<1>7. LockInv'
  <2>1. Steady => counted[a] <= counted'[a]
    BY <1>0, <1>2, <1>3
  <2> QED
    BY <1>1, <1>3, <1>4, <2>1, LockKept
<1>8. (Alone => RoomForAll)'
  BY <1>1 DEF Alone, Steady, RoomForAll, Used
<1> QED
  BY <1>4, <1>5, <1>6, <1>7, <1>8

\* The attempt publishes or leaves its files, and lets its reservation go.
LEMMA EndInv ==
    ASSUME IndInv, NEW a \in Attempts, End(a)
    PROVE  IndInv'
<1> USE DEF IndInv
<1>0. held[a] \in 0..Size /\ Size \in Nat \ {0} /\ 0 \in 0..Size
  BY Bounds
<1>1. /\ st[a] \in Running /\ a \in reserved /\ mu = None /\ mu' = None
      /\ reserved' = reserved \ {a} /\ st' = [st EXCEPT ![a] = "idle"] /\ st'[a] = "idle"
      /\ \A b \in Attempts : b # a => st'[b] = st[b]
      /\ UNCHANGED <<counted, debit, tried, from, idle, incoming, pass, passIn, cands, env>>
  BY DEF End, StageInv, Running, TypeOK, count, locks, passing
<1>2. PICK v \in 0..Size, w \in 0..Size, n \in Nat :
        /\ held' = [held EXCEPT ![a] = v] /\ saved' = [saved EXCEPT ![a] = w] /\ kept' = n
        /\ (held[a] = Size /\ v = 0 /\ n = kept + 1) \/ (v <= held[a] /\ n = kept)
  <2>1. /\ kept \in Nat /\ kept + 1 \in Nat /\ saved[a] \in 0..Size
        /\ saved = [saved EXCEPT ![a] = saved[a]] /\ held = [held EXCEPT ![a] = held[a]]
    BY DEF TypeOK
  <2>2. CASE Publish(a)
    BY <1>0, <2>1, <2>2 DEF Publish
  <2>3. CASE Discard(a)
    <3>1. 0 <= held[a]
      BY <1>0
    <3> QED
      BY <1>0, <2>1, <2>3, <3>1 DEF Discard
  <2>4. CASE Leave(a)
    BY <1>0, <2>1, <2>4 DEF Leave
  <2> QED
    BY <2>2, <2>3, <2>4 DEF End
<1>3. TypeOK'
  <2>1. held' \in [Attempts -> 0..Size] /\ saved' \in [Attempts -> 0..Size]
    BY <1>2 DEF TypeOK
  <2> QED
    BY <1>1, <1>2, <2>1 DEF TypeOK
<1>4. StageInv'
  BY <1>1 DEF StageInv, Running
<1>5. CountedInv'
  BY <1>1, <1>2 DEF CountedInv, Resumable, Steady, Tries, TypeOK
<1>6. LockInv'
  BY <1>1 DEF LockInv
<1>7. ASSUME Alone PROVE RoomForAll'
  <2>1. held' \in [Attempts -> 0..Size] /\ reserved' \in SUBSET Attempts
    BY <1>3 DEF TypeOK
  <2>2. /\ Sum(held', Attempts) + held[a] = Sum(held, Attempts) + v
        /\ Left(held', reserved') = Left(held, reserved')
    <3>1. held'[a] = v /\ \A b \in Attempts \ {a} : held'[b] = held[b]
      BY <1>2 DEF TypeOK
    <3> QED
      BY <1>1, <2>1, <3>1, Bounds, OneFile
  <2>3. Left(held, reserved) = Left(held, reserved') + (Size - held[a])
    BY <1>1, Bounds, OneMore
  <2>4. /\ Sum(held, Attempts) \in Nat /\ Sum(held', Attempts) \in Nat
        /\ Left(held, reserved) \in Nat /\ Left(held, reserved') \in Nat
        /\ idle \in Nat /\ kept \in Nat /\ High \in Nat
    BY <2>1, Bounds, SumsAreNat
  <2>5. Sum(held, Attempts) + (idle + kept) * Size + Left(held, reserved) <= High
    BY <1>7, Bounds, Figures DEF Room
  <2>6. /\ (idle + (kept + 1)) * Size = (idle + kept) * Size + Size
        /\ (idle + kept) * Size \in Nat
    BY <1>0, <2>4
  <2>7. Sum(held', Attempts) + (idle + n) * Size + Left(held', reserved') <= High
    <3>1. CASE held[a] = Size /\ v = 0 /\ n = kept + 1
      BY <1>0, <2>2, <2>3, <2>4, <2>5, <2>6, <3>1
    <3>2. CASE v <= held[a] /\ n = kept
      BY <1>0, <2>2, <2>3, <2>4, <2>5, <2>6, <3>2
    <3> QED
      BY <1>2, <3>1, <3>2
  <2> QED
    BY <1>1, <1>2, <2>1, <2>7, Figures DEF Room
<1> QED
  BY <1>1, <1>3, <1>4, <1>5, <1>6, <1>7 DEF Alone, Steady

\* Fewer bytes on disk, and no reservation touched.
LEMMA RoomGrows ==
    ASSUME IndInv, held' \in [Attempts -> 0..Size], \A a \in Attempts : held'[a] <= held[a],
           \A a \in reserved : held'[a] = held[a],
           idle' \in Nat, kept' \in Nat, idle' + kept' <= idle + kept,
           UNCHANGED <<reserved, env>>
    PROVE  (Alone => RoomForAll)'
<1> USE DEF IndInv
<1>0. IsFiniteSet(Attempts)
  BY ReservationAssumption
<1>1. Sum(held', Attempts) <= Sum(held, Attempts)
  <2>1. /\ \A a \in Attempts : held'[a] \in Nat
        /\ \A a \in Attempts : held[a] \in Nat /\ held'[a] <= held[a]
    BY Bounds
  <2> QED
    BY <1>0, <2>1, SumLeq
<1>2. Left(held', reserved) <= Left(held, reserved)
  <2>1. \A a \in reserved : held[a] <= held'[a]
    BY Bounds
  <2>2. held' \in [Attempts -> Int]
    BY Bounds
  <2> QED
    BY <2>1, <2>2, Bounds, HigherLeavesLess
<1>3. /\ Sum(held, Attempts) \in Nat /\ Sum(held', Attempts) \in Nat
      /\ Left(held, reserved) \in Nat /\ Left(held', reserved) \in Nat /\ High \in Nat
  <2>1. held' \in [Attempts -> Int]
    BY Bounds
  <2> QED
    BY <2>1, Bounds, SumsAreNat
<1>4. /\ (idle' + kept') * Size <= (idle + kept) * Size
      /\ (idle' + kept') * Size \in Nat /\ (idle + kept) * Size \in Nat
  <2>1. ASSUME NEW m \in Nat, NEW n \in Nat, m <= n, NEW k \in Nat
        PROVE  m * k <= n * k /\ m * k \in Nat /\ n * k \in Nat
    BY <2>1
  <2>2. \A m, n \in Nat : m + n \in Nat
    OBVIOUS
  <2>3. idle' + kept' \in Nat
    BY <2>2, Zenon
  <2>4. idle + kept \in Nat /\ Size \in Nat
    BY Bounds
  <2> QED
    BY <2>1, <2>3, <2>4
<1>5. ASSUME Alone PROVE RoomForAll'
  <2>1. Sum(held, Attempts) + (idle + kept) * Size + Left(held, reserved) <= High
    BY <1>5, Bounds, Figures DEF Room
  <2>2. Sum(held', Attempts) + (idle' + kept') * Size + Left(held', reserved) <= High
    BY <1>1, <1>2, <1>3, <1>4, <2>1
  <2> QED
    BY <2>2, Figures DEF Room
<1> QED
  BY <1>5 DEF Alone, Steady

\* What a collection removes, and what mounts, grace and pins do to trees.
LEMMA TreesInv ==
    ASSUME IndInv, RemoveTree \/ Keep \/ Expire
    PROVE  IndInv'
<1> USE DEF IndInv
<1>1. /\ idle' \in Nat /\ kept' \in Nat /\ idle' + kept' <= idle + kept
      /\ cands' \in Nat \cup {-1}
      /\ UNCHANGED <<st, held, saved, counted, debit, tried, from, reserved, mu, incoming, pass,
                     passIn, env>>
  BY DEF RemoveTree, Keep, Expire, TypeOK, file, count, locks, passing
<1>2. TypeOK'
  BY <1>1 DEF TypeOK
<1>3. StageInv' /\ CountedInv' /\ LockInv'
  BY <1>1 DEF StageInv, CountedInv, Resumable, LockInv, InFlight, Alone, Steady
<1>4. (Alone => RoomForAll)'
  <2>1. /\ held' \in [Attempts -> 0..Size] /\ \A a \in Attempts : held'[a] <= held[a]
        /\ \A a \in reserved : held'[a] = held[a]
    BY <1>1, Bounds
  <2> QED
    BY <1>1, <2>1, RoomGrows
<1> QED
  BY <1>2, <1>3, <1>4

\* A stale partial goes, of an attempt that is not running.
LEMMA PartialInv ==
    ASSUME IndInv, NEW a \in Attempts, RemovePartial(a)
    PROVE  IndInv'
<1> USE DEF IndInv
<1>1. /\ st[a] = "idle" /\ a \notin reserved
      /\ UNCHANGED <<st, counted, debit, tried, from, reserved, idle, kept, mu, incoming, pass,
                     passIn, cands, env>>
  BY DEF RemovePartial, StageInv, Running, count, trees, locks, passing
<1>2. /\ held' \in [Attempts -> 0..Size] /\ saved' \in [Attempts -> 0..Size] /\ held'[a] = 0
      /\ \A b \in Attempts : b # a => held'[b] = held[b] /\ saved'[b] = saved[b]
  BY Bounds DEF RemovePartial, TypeOK
<1>3. TypeOK'
  BY <1>1, <1>2 DEF TypeOK
<1>4. StageInv' /\ CountedInv' /\ LockInv'
  BY <1>1, <1>2 DEF StageInv, CountedInv, Resumable, LockInv, InFlight, Alone, Steady, Tries
<1>5. (Alone => RoomForAll)'
  <2>1. \A b \in Attempts : held'[b] <= held[b]
    BY <1>2, Bounds
  <2>2. idle' \in Nat /\ kept' \in Nat /\ idle' + kept' <= idle + kept
    BY <1>1, Bounds
  <2>3. \A b \in reserved : held'[b] = held[b]
    BY <1>1, <1>2, Bounds
  <2> QED
    BY <1>1, <1>2, <2>1, <2>2, <2>3, RoomGrows
<1> QED
  BY <1>3, <1>4, <1>5

\* The collector's own steps.
LEMMA CollectInv ==
    ASSUME IndInv, BeginCollect \/ ListCandidates \/ SkipTree \/ EndCollect \/ CollectFails
    PROVE  IndInv'
<1> USE DEF IndInv
<1>1. CASE BeginCollect \/ ListCandidates \/ SkipTree
  <2>1. /\ pass' \in Attempts \cup {None, Timer} /\ passIn' \in Nat /\ cands' \in Nat \cup {-1}
        /\ UNCHANGED <<st, held, saved, counted, debit, tried, from, reserved, idle, kept, mu,
                       incoming, env>>
    BY <1>1, Bounds DEF BeginCollect, ListCandidates, SkipTree, TypeOK, file, count, trees, locks
  <2>2. TypeOK'
    BY <2>1 DEF TypeOK
  <2>3. StageInv' /\ CountedInv' /\ LockInv' /\ (Alone => RoomForAll)'
    BY <2>1 DEF StageInv, CountedInv, Resumable, LockInv, InFlight, Alone, Steady, RoomForAll,
       Used
  <2> QED
    BY <2>2, <2>3
<1>2. CASE EndCollect \/ CollectFails
  <2>1. /\ pass' \in Attempts \cup {None, Timer} /\ passIn' \in Nat /\ cands' \in Nat \cup {-1}
        /\ UNCHANGED <<held, saved, counted, debit, tried, from, reserved, idle, kept, mu, incoming,
                       env>>
    BY <1>2, Bounds DEF EndCollect, CollectFails, Return, TypeOK, file, count, trees, locks
  <2>2. CASE pass = Timer
    <3>1. st' = st
      BY <1>2, <2>2 DEF EndCollect, CollectFails, Return
    <3>2. TypeOK'
      BY <2>1, <3>1 DEF TypeOK
    <3>3. StageInv' /\ CountedInv' /\ LockInv' /\ (Alone => RoomForAll)'
      BY <2>1, <3>1 DEF StageInv, CountedInv, Resumable, LockInv, InFlight, Alone, Steady, RoomForAll,
       Used
    <3> QED
      BY <3>2, <3>3
  <2>3. CASE pass # Timer
    <3>1. /\ pass \in Attempts /\ st[pass] = "collect"
          /\ \E y \in {"last", "idle"} : st' = [st EXCEPT ![pass] = y]
      BY <1>2, <2>3 DEF EndCollect, CollectFails, Return, Collecting
    <3>2. PICK y \in {"last", "idle"} : st' = [st EXCEPT ![pass] = y]
      BY <3>1
    <3>3. mu # pass
      BY <3>1, Bounds DEF LockInv, Tries
    <3>4. TypeOK'
      BY <2>1, <3>1, <3>2 DEF TypeOK, Tries
    <3>5. StageInv' /\ CountedInv' /\ LockInv' /\ (Alone => RoomForAll)'
      BY <2>1, <3>1, <3>2, <3>3, TryKept DEF trees, Tries
    <3> QED
      BY <3>4, <3>5
  <2> QED
    BY <2>2, <2>3
<1> QED
  BY <1>1, <1>2

\* The plugin restarts: no reservation is left, and no lock.
LEMMA RestartInv ==
    ASSUME IndInv, Restart
    PROVE  IndInv'
<1> USE DEF IndInv
<1>1. TypeOK'
  BY DEF Restart, TypeOK, file, count, trees
<1>2. StageInv' /\ CountedInv' /\ LockInv'
  BY DEF Restart, StageInv, CountedInv, Steady, LockInv, Running, Tries, count
<1>3. ASSUME Alone PROVE RoomForAll'
  <2>1. /\ Left(held, {}) = 0 /\ Left(held, reserved) \in Nat /\ Sum(held, Attempts) \in Nat
        /\ High \in Nat
    BY Bounds, SumsAreNat, SumEmpty DEF Left
  <2>2. (idle + kept) * Size \in Nat
    BY Bounds
  <2>3. Sum(held, Attempts) + (idle + kept) * Size + Left(held, reserved) <= High
    BY <1>3, Bounds, Figures DEF Room
  <2>4. Sum(held, Attempts) + (idle + kept) * Size + Left(held, {}) <= High
    BY <2>1, <2>2, <2>3
  <2>5. reserved' = {} /\ UNCHANGED <<held, idle, kept>>
    BY DEF Restart, file, trees
  <2> QED
    BY <2>4, <2>5, Bounds, Figures DEF Room
<1> QED
  BY <1>1, <1>2, <1>3 DEF Restart, Alone, Steady

-----------------------------------------------------------------------------
(* The specification.                                                       *)

LEMMA NextInv == IndInv /\ [Next]_vars => IndInv'
<1> SUFFICES ASSUME IndInv, [Next]_vars PROVE IndInv'
  OBVIOUS
<1>1. CASE UNCHANGED vars
  <2>1. TypeOK'
    BY <1>1 DEF IndInv, TypeOK, vars, file, count, trees, locks, passing
  <2>2. StageInv' /\ CountedInv' /\ LockInv' /\ (Alone => RoomForAll)'
    BY <1>1 DEF IndInv, StageInv, CountedInv, Resumable, LockInv, InFlight, Alone, Steady,
       RoomForAll, Used, vars, file, count, trees, locks, passing
  <2> QED
    BY <2>1, <2>2 DEF IndInv
<1> QED
  BY <1>1, CountsInv, AdmitInv, TryInv, FileInv, CountInv, EndInv, PartialInv, CollectInv, TreesInv,
     RestartInv DEF Next

\* Attempts, collections and restarts keep IndInv: who has a reservation, that a
\* reservation begins with what its file is cut to, that where no file is cut
\* later all that is counted is on disk, and that what the holder of c.mu computed
\* is then never too little.
THEOREM ReservationInvariance == Spec => []IndInv
<1>1. IndInv /\ [Next]_vars => IndInv'
  BY NextInv
<1> QED
  BY InitInv, <1>1, PTL DEF Spec

\* Every variable of the reservations and the collector keeps its type.
THEOREM ReservationTypes == Spec => []TypeOK
<1>1. IndInv => TypeOK
  BY DEF IndInv
<1> QED
  BY ReservationInvariance, <1>1, PTL

\* Reserve: the disk, with all that admitted downloads have yet to write, stays
\* under the high watermark, for any number of downloads side by side from hubs
\* that honor a resume, and for one alone whatever its peers and its hub do.  With
\* peers, or a hub that makes one start over, several downloads may not fit.
THEOREM RoomKept == Spec => [](Alone => RoomForAll)
<1>1. IndInv => (Alone => RoomForAll)
  BY DEF IndInv
<1> QED
  BY ReservationInvariance, <1>1, PTL

=============================================================================
