------------------------- MODULE DeviceLedgerProofs -------------------------
(***************************************************************************)
(* Proofs about DeviceLedger for any Pods, containers, cards and modes:     *)
(* IndInv is inductive, so the annotation keeps what runs, slices fit and   *)
(* no card runs in two modes.                                               *)
(***************************************************************************)
EXTENDS DeviceLedger, SumTheorems

-----------------------------------------------------------------------------
(* The operators of the model.                                              *)

\* What a ledger says of each card.
Ledgers == [Cards -> Modes \cup {Nil}]

LEMMA ModeType ==
    TypeOK => Mode \in [Containers -> Modes]
BY LedgerAssumption DEF TypeOK, Mode

\* One Pod merged leaves a ledger.
LEMMA MergeType ==
    ASSUME TypeOK, NEW lg \in Ledgers, NEW p
    PROVE  Merge(lg, p) \in Ledgers
<1> DEFINE holding == {c \in Own(p) : cphase[p] = "pending" /\ cache[c] # Nil}
           agrees(c) == /\ lg[cache[c]] \in {Nil, Mode[c]}
                        /\ \A d \in holding : Rank[d] < Rank[c]
                              /\ cache[d] = cache[c] => Mode[d] = Mode[c]
           merged == {c \in holding : \A d \in holding : Rank[d] <= Rank[c] => agrees(d)}
           one(k) == CHOOSE c \in merged : cache[c] = k
<1>1. Merge(lg, p) = [k \in Cards |-> IF \E c \in merged : cache[c] = k
                                      THEN Mode[one(k)] ELSE lg[k]]
  BY Zenon DEF Merge
<1>2. merged \subseteq Containers
  BY DEF Own
<1> HIDE DEF merged
<1>3. ASSUME NEW k \in Cards, \E c \in merged : cache[c] = k
      PROVE  one(k) \in merged
  BY <1>3, Zenon
<1>4. ASSUME NEW k \in Cards, \E c \in merged : cache[c] = k
      PROVE  Mode[one(k)] \in Modes
  BY <1>2, <1>3, <1>4, ModeType
<1> HIDE DEF one
<1> QED
  BY <1>1, <1>4 DEF Ledgers

\* Places in an order.
Places(S) == S \subseteq Nat

LEMMA LastPlace ==
    ASSUME NEW S, IsFiniteSet(S), Places(S), NEW T \in SUBSET S
    PROVE  IsFiniteSet(T) /\ Places(T) /\ (T # {} => Max(T) \in T)
<1>1. T \subseteq Nat
  BY DEF Places
<1>2. IsFiniteSet(T)
  BY FS_Subset
<1> QED
  BY <1>1, <1>2, MaxBounds DEF Places

\* The fold over an order of Pods, as a recursion over the places of the order.
IsFold(g, order, S) ==
    g = [s \in SUBSET S |-> IF s = {} THEN Free
                            ELSE Merge(g[s \ {Max(s)}], order[Max(s)])]

LEMMA FoldUnfold ==
    ASSUME NEW order
    PROVE  FoldLeft(Merge, Free, order)
              = (CHOOSE g : IsFold(g, order, DOMAIN order))[DOMAIN order]
BY Zenon DEF FoldLeft, MapThenFoldSet, IsFold

\* Two such recursions agree where both are defined.
LEMMA SameFold ==
    ASSUME NEW order, NEW A, NEW g, IsFold(g, order, A), NEW B, NEW h, IsFold(h, order, B),
           IsFiniteSet(A), Places(A), NEW S \in SUBSET A, S \subseteq B
    PROVE  g[S] = h[S]
<1> DEFINE Bad == {T \in SUBSET S : g[T] # h[T]}
<1> SUFFICES ASSUME Bad # {} PROVE FALSE
  OBVIOUS
<1>1. IsFiniteSet(S)
  BY FS_Subset
<1>2. PICK T \in Bad : \A U \in Bad : ~(U \subseteq T /\ U # T)
  <2>1. Bad \subseteq SUBSET S
    OBVIOUS
  <2> HIDE DEF Bad
  <2> QED
    BY <1>1, <2>1, LeastSet
<1>3. T \subseteq A /\ T \subseteq B
  OBVIOUS
<1>4. g[T] = IF T = {} THEN Free ELSE Merge(g[T \ {Max(T)}], order[Max(T)])
  BY <1>3 DEF IsFold
<1>5. h[T] = IF T = {} THEN Free ELSE Merge(h[T \ {Max(T)}], order[Max(T)])
  BY <1>3 DEF IsFold
<1>6. T # {} => Max(T) \in T
  BY <1>3, LastPlace
<1>7. T # {} => g[T \ {Max(T)}] = h[T \ {Max(T)}]
  BY <1>2, <1>6
<1> QED
  BY <1>4, <1>5, <1>7

\* The recursion has a solution.
LEMMA FoldExists ==
    ASSUME NEW order, NEW S, IsFiniteSet(S), Places(S)
    PROVE  \E g : IsFold(g, order, S)
<1> DEFINE Bad == {T \in SUBSET S : ~\E g : IsFold(g, order, T)}
<1> SUFFICES ASSUME Bad # {} PROVE FALSE
  OBVIOUS
<1>1. PICK T \in Bad : \A U \in Bad : ~(U \subseteq T /\ U # T)
  <2>1. Bad \subseteq SUBSET S
    OBVIOUS
  <2> HIDE DEF Bad
  <2> QED
    BY <2>1, LeastSet
<1>2. IsFiniteSet(T) /\ Places(T)
  BY LastPlace
<1> DEFINE Of(U) == CHOOSE g : IsFold(g, order, U)
           v == [U \in SUBSET T |-> Of(U)[U]]
           g == [s \in SUBSET T |-> IF s = {} THEN Free
                                    ELSE Merge(v[s \ {Max(s)}], order[Max(s)])]
<1>3. ASSUME NEW U \in SUBSET T, U # T PROVE IsFold(Of(U), order, U)
  <2>1. \E h : IsFold(h, order, U)
    BY <1>1, <1>3
  <2> QED
    BY <2>1, Zenon
<1>4. ASSUME NEW U \in SUBSET T, U # {} PROVE Max(U) \in U
  BY <1>2, <1>4, LastPlace
<1>5. ASSUME NEW U \in SUBSET T, U # T PROVE v[U] = g[U]
  <2> DEFINE W == U \ {Max(U)}
  <2>1. Of(U)[U] = IF U = {} THEN Free ELSE Merge(Of(U)[W], order[Max(U)])
    <3>1. IsFold(Of(U), order, U)
      BY <1>3, <1>5
    <3> HIDE DEF Of
    <3> QED
      BY <3>1 DEF IsFold
  <2>2. ASSUME U # {} PROVE Of(U)[W] = Of(W)[W]
    <3>1. W \subseteq U /\ W # U /\ W \in SUBSET T /\ W # T
      BY <2>2, <1>4, <1>5
    <3>2. IsFiniteSet(U) /\ Places(U)
      BY <1>2, LastPlace
    <3>3. IsFold(Of(U), order, U) /\ IsFold(Of(W), order, W)
      BY <1>3, <1>5, <3>1
    <3> HIDE DEF Of, W
    <3> QED
      BY <3>1, <3>2, <3>3, SameFold
  <2>3. v[U] = Of(U)[U] /\ (U # {} => v[W] = Of(W)[W])
    OBVIOUS
  <2>4. g[U] = IF U = {} THEN Free ELSE Merge(v[W], order[Max(U)])
    <3> HIDE DEF v
    <3> QED
      OBVIOUS
  <2> HIDE DEF Of, W, v, g
  <2> QED
    BY <2>1, <2>2, <2>3, <2>4
<1>6. IsFold(g, order, T)
  <2>1. ASSUME NEW s \in SUBSET T
        PROVE  g[s] = IF s = {} THEN Free ELSE Merge(g[s \ {Max(s)}], order[Max(s)])
    <3>1. s # {} => v[s \ {Max(s)}] = g[s \ {Max(s)}]
      <4> HIDE DEF v, g
      <4> QED
        BY <1>4, <1>5
    <3>2. g[s] = IF s = {} THEN Free ELSE Merge(v[s \ {Max(s)}], order[Max(s)])
      <4> HIDE DEF v
      <4> QED
        OBVIOUS
    <3> HIDE DEF v, g
    <3> QED
      BY <3>1, <3>2
  <2>2. g = [s \in SUBSET T |-> g[s]]
    <3> HIDE DEF v
    <3> QED
      OBVIOUS
  <2>3. g = [s \in SUBSET T |-> IF s = {} THEN Free
                                ELSE Merge(g[s \ {Max(s)}], order[Max(s)])]
    <3> HIDE DEF g
    <3> QED
      BY <2>1, <2>2
  <2> HIDE DEF g
  <2> QED
    BY <2>3 DEF IsFold
<1> QED
  BY <1>1, <1>6

\* BuildDesiredStatus makes a ledger, whatever the order of the Pods.
LEMMA DesiredType ==
    TypeOK => Desired \subseteq Ledgers
<1> SUFFICES ASSUME TypeOK, NEW order \in Orders
             PROVE  FoldLeft(Merge, Free, order) \in Ledgers
  BY Zenon DEF Desired
<1> DEFINE C == {d \in Containers : cache[d] # Nil}
           P == {PodOf[c] : c \in C}
           D == 1..Cardinality(P)
<1>1. IsFiniteSet(P)
  <2>1. IsFiniteSet(C)
    BY LedgerAssumption, FS_Subset
  <2> DEFINE f == [c \in C |-> PodOf[c]]
  <2>2. f \in Surjection(C, P)
    BY DEF Surjection
  <2> HIDE DEF C, P, f
  <2> QED
    BY <2>1, <2>2, FS_Surjection
<1>2. IsFiniteSet(D) /\ Places(D)
  BY <1>1, FS_CardinalityType, FS_Interval DEF Places
<1>3. DOMAIN order = D
  <2>1. order \in [D -> P]
    BY Zenon DEF Orders, SetToSeqs
  <2> HIDE DEF D, P
  <2> QED
    BY <2>1
<1> HIDE DEF D, P
<1> DEFINE g == CHOOSE h : IsFold(h, order, D)
<1>4. IsFold(g, order, D)
  <2>1. \E h : IsFold(h, order, D)
    BY <1>2, FoldExists
  <2> QED
    BY <2>1, Zenon
<1>5. FoldLeft(Merge, Free, order) = g[D]
  BY <1>3, FoldUnfold
<1> HIDE DEF g
<1> DEFINE Bad == {T \in SUBSET D : g[T] \notin Ledgers}
<1>6. Bad = {}
  <2> SUFFICES ASSUME Bad # {} PROVE FALSE
    OBVIOUS
  <2>1. PICK T \in Bad : \A U \in Bad : ~(U \subseteq T /\ U # T)
    <3>1. Bad \subseteq SUBSET D
      OBVIOUS
    <3> HIDE DEF Bad
    <3> QED
      BY <1>2, <3>1, LeastSet
  <2>2. T # {} => Max(T) \in T
    BY <1>2, LastPlace
  <2>3. g[T] = IF T = {} THEN Free ELSE Merge(g[T \ {Max(T)}], order[Max(T)])
    BY <1>4 DEF IsFold
  <2>4. Free \in Ledgers
    BY DEF Free, Ledgers
  <2>5. T # {} => g[T \ {Max(T)}] \in Ledgers
    BY <2>1, <2>2
  <2>6. T # {} => Merge(g[T \ {Max(T)}], order[Max(T)]) \in Ledgers
    BY <2>5, MergeType
  <2> QED
    BY <2>1, <2>3, <2>4, <2>6
<1> QED
  BY <1>5, <1>6

\* Of some containers one comes first.
LEMMA LeastRank ==
    ASSUME NEW S \in SUBSET Containers, S # {}
    PROVE  \E d \in S : \A e \in S : Rank[d] <= Rank[e]
<1> DEFINE HasMin(T) == \E d \in T : \A e \in T : Rank[d] <= Rank[e]
           Bad == {T \in SUBSET S : T # {} /\ ~HasMin(T)}
<1>1. IsFiniteSet(S)
  BY LedgerAssumption, FS_Subset
<1>2. Bad = {}
  <2> SUFFICES ASSUME Bad # {} PROVE FALSE
    OBVIOUS
  <2>1. PICK T \in Bad : \A U \in Bad : ~(U \subseteq T /\ U # T)
    <3>1. Bad \subseteq SUBSET S
      OBVIOUS
    <3> HIDE DEF Bad
    <3> QED
      BY <1>1, <3>1, LeastSet
  <2>2. PICK x \in T : TRUE
    OBVIOUS
  <2>3. T \ {x} # {} => HasMin(T \ {x})
    <3> HIDE DEF HasMin
    <3> QED
      BY <2>1
  <2>4. \A y \in T : Rank[y] \in Nat
    BY LedgerAssumption
  <2>5. CASE T \ {x} = {}
    BY <2>4, <2>5
  <2>6. CASE T \ {x} # {}
    <3>1. PICK m \in T \ {x} : \A y \in T \ {x} : Rank[m] <= Rank[y]
      BY <2>3, <2>6
    <3>2. CASE Rank[m] <= Rank[x]
      <4>1. \A y \in T : Rank[m] <= Rank[y]
        BY <2>4, <3>1, <3>2
      <4> QED
        BY <4>1
    <3>3. CASE ~(Rank[m] <= Rank[x])
      <4>1. \A y \in T : Rank[x] <= Rank[y]
        BY <2>4, <3>1, <3>3
      <4> QED
        BY <4>1
    <3> QED
      BY <3>2, <3>3
  <2> QED
    BY <2>5, <2>6
<1> QED
  BY <1>2

\* getAllocatingPod arrives at a candidate.
LEMMA PickedIn ==
    TypeOK /\ Candidates # {} => Picked \in Candidates
<1> SUFFICES ASSUME TypeOK, Candidates # {} PROVE Picked \in Candidates
  OBVIOUS
<1>1. Tier \subseteq Candidates /\ Tier # {}
  BY DEF Tier
<1>2. Candidates \subseteq Containers
  BY DEF Candidates, TypeOK
<1>3. \E d \in Tier : \A e \in Tier : Rank[d] <= Rank[e]
  BY <1>1, <1>2, LeastRank
<1>4. Picked \in Tier
  BY <1>3, Zenon DEF Picked
<1> QED
  BY <1>1, <1>4

-----------------------------------------------------------------------------
(* The inductive invariant.                                                 *)

\* A call that has found out whom it is for, and the container whose records it
\* is about to change.
Active  == call.at \notin {"idle", "decide"}
Busy(c) == call.at \in {"build", "land", "undo"} /\ c = call.who

\* A Pod's phase as each party has it, and nothing of a Pod kubelet never took up.
PodInv ==
    /\ \A p \in Pods : api[p] # "none" => p \in env.pods
    /\ \A p \in Pods : cphase[p] # "none" => api[p] # "none"
    /\ \A p \in Pods : cphase[p] = "done" => api[p] \in {"done", "gone"}
    /\ \A p \in Pods : cphase[p] = "gone" => api[p] = "gone"
    /\ \A p \in Pods : rec.phase[p] = "gone" => api[p] = "gone"
    /\ \A p \in Pods : api[p] \in {"done", "gone"} => p \in over
    /\ \A p \in admitted : api[p] # "none"
    /\ \A c \in Containers : PodOf[c] \notin admitted =>
          anno[c] = Nil /\ cache[c] = Nil /\ held[c] = Nil /\ resv[c] = Nil

\* kubelet is admitting one Pod at most.
ServedInv ==
    /\ \A p, q \in Reported : ~Served(p) /\ ~Served(q) => p = q
    /\ \A c \in Containers : Holds(c) => cphase[PodOf[c]] = "pending"

\* The container a call arrives at is one of the Pod being admitted.
CallInv ==
    /\ call.at # "idle" => held[call.for] = Nil /\ call.card \in Cards
    /\ call.at = "decide" =>
          \A d \in call.waits : PodOf[d] = PodOf[call.for] /\ held[d] = Nil
    /\ Active => /\ PodOf[call.who] = PodOf[call.for] /\ Mode[call.who] = Mode[call.for]
                 /\ held[call.who] = Nil
                 /\ cphase[PodOf[call.who]] = "pending"
                 /\ call.prior \in {Nil, call.card}

\* Give-backs are of refused Pods, and reservations of Pods the informer has.
BackInv ==
    /\ \A c \in Containers : pend[c] # None => PodOf[c] \in over
    /\ rec.at = "give" => rec.who \in Containers /\ PodOf[rec.who] \in over
    /\ \A c \in Containers : resv[c] # Nil => cphase[PodOf[c]] # "none"

Base == TypeOK /\ PodInv /\ ServedInv /\ CallInv /\ BackInv

-----------------------------------------------------------------------------
(* Base is inductive.                                                       *)

\* The two records the model keeps of a call and of a pass.
CallSet == [at : {"idle", "decide", "build", "land", "respond", "undo"},
            for : Containers \cup {Nil}, card : Entry, waits : SUBSET Containers,
            who : Containers \cup {Nil}, base : [Containers -> Entry],
            prior : Entry, value : [Containers -> Entry]]

PassSet == [at : {"idle", "publish", "retry", "give"},
            phase : [Pods -> Phases], entries : [Containers -> Entry],
            seen : Ledgers, want : Ledgers, todo : SUBSET Containers,
            who : Containers \cup {Nil}, value : [Containers -> Entry]]

LEMMA EmptyTyped ==
    /\ NoCall \in CallSet /\ NoCall.at = "idle"
    /\ NoPass \in PassSet /\ NoPass.at = "idle"
    /\ Nothing \in [Containers -> Entry]
    /\ [c \in Containers |-> None] \in [Containers -> Entry \cup {None}]
BY DEF NoCall, NoPass, CallSet, PassSet, Nothing, Free, Ledgers, Entry, Phases

\* The Pods kubelet reports are not terminal.
LEMMA ReportedPending ==
    Base => \A p \in Reported : p \in Pods /\ api[p] = "pending"
BY DEF Base, TypeOK, PodInv, Reported, Phases

\* The container an active call is about.
LEMMA CallFacts ==
    ASSUME TypeOK, CallInv
    PROVE  /\ call.at # "idle" => /\ call.for \in Containers /\ PodOf[call.for] \in Reported
                                  /\ held[call.for] = Nil /\ call.card \in Cards
           /\ Active => /\ call.who \in Containers /\ PodOf[call.who] \in Reported
                        /\ PodOf[call.who] = PodOf[call.for]
BY LedgerAssumption DEF TypeOK, CallInv, Active, Reported

\* Whom kubelet is admitting depends on its own records only.
LEMMA ServedSame ==
    ASSUME Base, UNCHANGED <<admitted, held, cphase>>, over \subseteq over'
    PROVE  ServedInv'
<1>1. Reported' \subseteq Reported
  BY DEF Reported
<1>2. \A q : Served(q) <=> Served(q)'
  BY DEF Served
<1>3. \A c \in Containers : Holds(c)' => Holds(c)
  BY <1>1 DEF Holds
<1>4. \A p, q \in Reported' : ~Served(p)' /\ ~Served(q)' => p = q
  BY <1>1, <1>2 DEF Base, ServedInv
<1>5. \A c \in Containers : Holds(c)' => cphase'[PodOf[c]] = "pending"
  BY <1>3 DEF Base, ServedInv
<1> QED
  BY <1>4, <1>5 DEF ServedInv

\* A call that is refused changes little else.
RefuseFrame ==
    /\ anno' \in [Containers -> Entry]
    /\ \A c \in Containers : PodOf[c] \notin admitted => anno'[c] = anno[c]
    /\ resv' \in [Containers -> Entry]
    /\ \A c \in Containers : resv'[c] = resv[c] \/ resv'[c] = Nil
    /\ pend' \in [Containers -> Entry \cup {None}]
    /\ \A c \in Containers : pend'[c] = pend[c] \/ PodOf[c] = PodOf[call.for]
    /\ UNCHANGED <<env, api, ledger, cphase, cache, ledgerSeen, admitted, held, rec,
                   restarts>>

LEMMA RefuseBase ==
    ASSUME Base, call.at # "idle", Refuse, RefuseFrame
    PROVE  Base'
<1>1. call' = NoCall /\ over' = over \cup {PodOf[call.for]}
  BY DEF Refuse
<1>2. over \subseteq over' /\ over' \subseteq admitted
  BY <1>1 DEF Base, TypeOK
<1>3. TypeOK'
  BY <1>1, <1>2, EmptyTyped, Zenon DEF Base, TypeOK, CallSet, RefuseFrame
<1>4. PodInv'
  BY <1>2 DEF Base, PodInv, RefuseFrame
<1>5. ServedInv'
  BY <1>2, ServedSame DEF RefuseFrame
<1>6. CallInv'
  BY <1>1, EmptyTyped DEF CallInv, Active
<1>7. BackInv'
  BY <1>1, <1>2 DEF Base, BackInv, RefuseFrame
<1> QED
  BY <1>3, <1>4, <1>5, <1>6, <1>7 DEF Base

\* A pass that has give-backs to retry.
LEMMA RetryPass ==
    ASSUME NEW t, NEW e
    PROVE  [NoPass EXCEPT !.at = "retry", !.todo = t, !.entries = e]
             = [at |-> "retry", phase |-> [p \in Pods |-> "none"], entries |-> e,
                seen |-> Free, want |-> Free, todo |-> t, who |-> Nil, value |-> Nothing]
<1> SUFFICES ASSUME NEW r, r = [NoPass EXCEPT !.at = "retry", !.todo = t, !.entries = e]
             PROVE  r = [at |-> "retry", phase |-> [p \in Pods |-> "none"], entries |-> e,
                         seen |-> Free, want |-> Free, todo |-> t, who |-> Nil,
                         value |-> Nothing]
  BY Zenon
<1> QED
  BY DEF NoPass

\* What pruneReservations leaves.
LEMMA Pruned ==
    ASSUME Prune, TypeOK
    PROVE  /\ rec' \in PassSet /\ rec'.at \in {"idle", "retry"}
           /\ rec'.phase = [p \in Pods |-> "none"]
           /\ resv' \in [Containers -> Entry]
           /\ \A c \in Containers : resv'[c] = IF Live(PodOf[c]) THEN resv[c] ELSE Nil
           /\ pend' \in [Containers -> Entry \cup {None}]
           /\ \A c \in Containers : pend'[c] # None => pend'[c] = pend[c]
<1> DEFINE todo == {c \in Containers : pend'[c] # None}
           retry == [at |-> "retry", phase |-> [p \in Pods |-> "none"],
                     entries |-> rec.entries, seen |-> Free, want |-> Free,
                     todo |-> todo, who |-> Nil, value |-> Nothing]
<1>1. rec' = IF todo = {} THEN NoPass ELSE retry
  <2>1. rec' = IF todo = {} THEN NoPass
               ELSE [NoPass EXCEPT !.at = "retry", !.todo = todo, !.entries = rec.entries]
    BY Zenon DEF Prune
  <2> HIDE DEF todo
  <2>2. [NoPass EXCEPT !.at = "retry", !.todo = todo, !.entries = rec.entries] = retry
    BY RetryPass
  <2> QED
    BY <2>1, <2>2, Zenon
<1>2. todo \subseteq Containers
  OBVIOUS
<1> HIDE DEF todo
<1>3. Nothing \in [Containers -> Entry] /\ Free \in Ledgers
  BY EmptyTyped DEF Free, Ledgers
<1>4. retry \in PassSet /\ retry.at = "retry" /\ retry.phase = [p \in Pods |-> "none"]
  BY <1>2, <1>3 DEF TypeOK, PassSet, Phases
<1>5. NoPass.phase = [p \in Pods |-> "none"]
  BY DEF NoPass
<1> HIDE DEF retry
<1>6. /\ rec' \in PassSet /\ rec'.at \in {"idle", "retry"}
      /\ rec'.phase = [p \in Pods |-> "none"]
  BY <1>1, <1>4, <1>5, EmptyTyped
<1>7. /\ resv' \in [Containers -> Entry]
      /\ \A c \in Containers : resv'[c] = IF Live(PodOf[c]) THEN resv[c] ELSE Nil
  BY DEF Prune, TypeOK, Entry
<1>8. /\ pend' \in [Containers -> Entry \cup {None}]
      /\ \A c \in Containers : pend'[c] # None => pend'[c] = pend[c]
  BY DEF Prune, TypeOK
<1> QED
  BY <1>6, <1>7, <1>8

LEMMA PruneBase ==
    ASSUME Base, Prune, ledger' \in Ledgers,
           UNCHANGED <<env, api, anno, cphase, cache, ledgerSeen, admitted, over,
                       held, call, restarts>>
    PROVE  Base'
<1>1. /\ rec' \in PassSet /\ rec'.at \in {"idle", "retry"}
      /\ rec'.phase = [p \in Pods |-> "none"]
      /\ resv' \in [Containers -> Entry]
      /\ \A c \in Containers : resv'[c] # Nil => resv'[c] = resv[c]
      /\ pend' \in [Containers -> Entry \cup {None}]
      /\ \A c \in Containers : pend'[c] # None => pend'[c] = pend[c]
  BY Pruned DEF Base
<1>2. TypeOK'
  BY <1>1, Zenon DEF Base, TypeOK, PassSet, Ledgers
<1>3. PodInv'
  BY <1>1 DEF Base, PodInv
<1>4. ServedInv'
  BY ServedSame
<1>5. CallInv'
  BY DEF Base, CallInv, Active, Mode
<1>6. BackInv'
  BY <1>1 DEF Base, BackInv
<1> QED
  BY <1>2, <1>3, <1>4, <1>5, <1>6 DEF Base

\* decideAllocation reserves the card for the container it arrived at.
Decided(w) ==
    /\ call.at = "decide" /\ w \in call.waits
    /\ Mode[w] = Mode[call.for] /\ cphase[PodOf[w]] = "pending"
    /\ \E m \in ReservedModes(call.card) : Acceptable(w, m)
    /\ ClaimOf(w) \in {Nil, call.card}
    /\ resv' = [resv EXCEPT ![w] = call.card]
    /\ call' = [call EXCEPT !.at = "build", !.who = w, !.prior = ClaimOf(w), !.waits = {},
                  !.base = [d \in Containers |->
                              IF PodOf[d] = PodOf[w] THEN cache[d] ELSE Nil]]
    /\ UNCHANGED <<env, api, anno, ledger, cphase, cache, ledgerSeen, admitted, over,
                   held, pend, rec, restarts>>

LEMMA DecideFacts ==
    ASSUME TypeOK, Decide
    PROVE  \E w \in Containers : Decided(w)
<1>1. Picked \in Candidates
  BY PickedIn DEF Decide
<1>2. Picked \in call.waits /\ call.waits \subseteq Containers
  BY <1>1 DEF Candidates, TypeOK
<1>3. Mode[Picked] = Mode[call.for] /\ cphase[PodOf[Picked]] = "pending"
  BY <1>1 DEF Candidates
<1>4. Decided(Picked)
  BY <1>2, <1>3 DEF Decide, Decided, Acceptable, cluster, informer, kubelet
<1> QED
  BY <1>2, <1>4

LEMMA InitBase == Init => Base
<1> SUFFICES ASSUME Init PROVE Base
  OBVIOUS
<1>1. env \in [pods : SUBSET Pods, cards : SUBSET Cards, mode : [Containers -> Modes],
               restarts : 0..MaxRestarts, loses : BOOLEAN, late : BOOLEAN]
  BY LedgerAssumption DEF Init
<1>2. TypeOK
  BY LedgerAssumption DEF Init, TypeOK, Entry, Phases, Nothing, Free, NoCall, NoPass
<1>3. PodInv
  BY LedgerAssumption DEF Init, PodInv, Nothing, NoPass
<1>4. ServedInv
  BY LedgerAssumption DEF Init, ServedInv, Nothing, Reported, Holds
<1>5. CallInv
  BY DEF Init, CallInv, NoCall, Active
<1>6. BackInv
  BY DEF Init, BackInv, NoPass, Nothing
<1> QED
  BY <1>2, <1>3, <1>4, <1>5, <1>6 DEF Base

LEMMA DeliverBase ==
    ASSUME Base, NEW p \in Pods, Deliver(p)
    PROVE  Base'
<1> USE LedgerAssumption
<1>1. TypeOK'
  BY DEF Base, TypeOK, Deliver, cluster, kubelet
<1>2. PodInv'
  BY DEF Base, TypeOK, Deliver, cluster, kubelet, PodInv
<1>3. \A q \in Reported : cphase[q] = "pending" => cphase'[q] = "pending"
  BY ReportedPending DEF Base, TypeOK, Deliver, Reported
<1>4. ServedInv'
  <2>1. UNCHANGED <<admitted, over, held>>
    BY DEF Deliver, kubelet
  <2>2. \A q, r \in Reported' : ~Served(q)' /\ ~Served(r)' => q = r
    BY <2>1 DEF Base, ServedInv, Reported, Served
  <2>3. \A c \in Containers : Holds(c)' => Holds(c) /\ PodOf[c] \in Reported
    BY <2>1 DEF Holds, Reported
  <2>4. \A c \in Containers : Holds(c)' => cphase'[PodOf[c]] = "pending"
    BY <1>3, <2>3 DEF Base, ServedInv
  <2> QED
    BY <2>2, <2>4 DEF ServedInv
<1>5. CallInv'
  <2>1. UNCHANGED <<held, call, env>>
    BY DEF Deliver, kubelet
  <2>2. Active => call.who \in Containers /\ PodOf[call.who] \in Reported
    BY CallFacts DEF Base
  <2> QED
    BY <1>3, <2>1, <2>2 DEF Base, CallInv, Active, Mode
<1>6. BackInv'
  BY DEF Base, TypeOK, Deliver, cluster, kubelet, PodInv, BackInv
<1> QED
  BY <1>1, <1>2, <1>4, <1>5, <1>6 DEF Base

LEMMA AdmitBase ==
    ASSUME Base, NEW p \in Pods, Admit(p)
    PROVE  Base'
<1>1. /\ api[p] = "pending" /\ p \notin admitted /\ admitted' = admitted \cup {p}
      /\ \A q \in Reported : Served(q)
      /\ UNCHANGED <<env, api, anno, ledger, cphase, cache, ledgerSeen, over, held, resv,
                     pend, call, rec, restarts>>
  BY DEF Admit, cluster, informer
<1>2. TypeOK'
  BY <1>1 DEF Base, TypeOK
<1>3. PodInv'
  BY <1>1 DEF Base, PodInv
<1>4. ServedInv'
  <2>1. \A q : Served(q)' <=> Served(q)
    BY <1>1 DEF Served
  <2>2. \A q \in Reported' : q \in Reported \/ q = p
    BY <1>1 DEF Reported
  <2>3. \A c \in Containers : Holds(c)' => Holds(c)
    BY <1>1, <2>2 DEF Holds, Base, PodInv
  <2>4. \A q, r \in Reported' : ~Served(q)' /\ ~Served(r)' => q = r
    BY <1>1, <2>1, <2>2
  <2>5. \A c \in Containers : Holds(c)' => cphase'[PodOf[c]] = "pending"
    BY <1>1, <2>3 DEF Base, ServedInv
  <2> QED
    BY <2>4, <2>5 DEF ServedInv
<1>5. CallInv'
  BY <1>1 DEF Base, CallInv, Active, Mode
<1>6. BackInv'
  BY <1>1 DEF Base, BackInv
<1> QED
  BY <1>2, <1>3, <1>4, <1>5, <1>6 DEF Base

LEMMA FinishBase ==
    ASSUME Base, NEW p \in Pods, Finish(p)
    PROVE  Base'
<1>1. /\ p \in Reported /\ Served(p) /\ over' = over \cup {p}
      /\ UNCHANGED <<env, api, anno, ledger, cphase, cache, ledgerSeen, admitted, held, resv,
                     pend, call, rec, restarts>>
  BY DEF Finish, cluster, informer
<1>2. call.at # "idle" => PodOf[call.for] # p
  BY <1>1, CallFacts DEF Base, Served, Own
<1>3. TypeOK'
  BY <1>1, <1>2 DEF Base, TypeOK, Reported
<1>4. PodInv'
  BY <1>1 DEF Base, PodInv
<1>5. ServedInv'
  BY <1>1, ServedSame
<1>6. CallInv'
  BY <1>1 DEF Base, CallInv, Active, Mode
<1>7. BackInv'
  BY <1>1 DEF Base, BackInv
<1> QED
  BY <1>3, <1>4, <1>5, <1>6, <1>7 DEF Base

LEMMA WritePhaseBase ==
    ASSUME Base, NEW p \in Pods, WritePhase(p)
    PROVE  Base'
<1> USE LedgerAssumption
<1>1. TypeOK'
  BY DEF Base, TypeOK, WritePhase, informer, kubelet, Phases
<1>2. PodInv'
  BY DEF Base, TypeOK, WritePhase, informer, kubelet, PodInv
<1>3. ServedInv'
  BY ServedSame DEF WritePhase, informer, kubelet
<1>4. CallInv'
  BY DEF Base, TypeOK, WritePhase, informer, kubelet, CallInv, Active, Mode
<1>5. BackInv'
  BY DEF Base, TypeOK, WritePhase, informer, kubelet, BackInv
<1> QED
  BY <1>1, <1>2, <1>3, <1>4, <1>5 DEF Base

LEMMA DeleteBase ==
    ASSUME Base, NEW p \in Pods, Delete(p)
    PROVE  Base'
<1> USE LedgerAssumption
<1>1. TypeOK'
  BY DEF Base, TypeOK, Delete, informer, kubelet, Phases, Entry
<1>2. PodInv'
  BY DEF Base, TypeOK, Delete, informer, kubelet, PodInv
<1>3. ServedInv'
  BY ServedSame DEF Delete, informer, kubelet
<1>4. CallInv'
  BY DEF Base, TypeOK, Delete, informer, kubelet, CallInv, Active, Mode
<1>5. BackInv'
  BY DEF Base, TypeOK, Delete, informer, kubelet, BackInv
<1> QED
  BY <1>1, <1>2, <1>3, <1>4, <1>5 DEF Base

LEMMA DeliverLedgerBase ==
    ASSUME Base, DeliverLedger
    PROVE  Base'
<1>1. /\ ledgerSeen' = ledger
      /\ UNCHANGED <<env, api, anno, ledger, cphase, cache, admitted, over, held, resv, pend,
                     call, rec, restarts>>
  BY DEF DeliverLedger, cluster, kubelet
<1>2. TypeOK'
  BY <1>1 DEF Base, TypeOK
<1>3. PodInv'
  BY <1>1 DEF Base, PodInv
<1>4. ServedInv'
  BY <1>1, ServedSame
<1>5. CallInv'
  BY <1>1 DEF Base, CallInv, Active, Mode
<1>6. BackInv'
  BY <1>1 DEF Base, BackInv
<1> QED
  BY <1>2, <1>3, <1>4, <1>5, <1>6 DEF Base

LEMMA AskRefusedBase ==
    ASSUME Base, NEW c \in Containers, AskRefused(c)
    PROVE  Base'
<1>1. /\ call.at = "idle" /\ PodOf[c] \in Reported /\ over' = over \cup {PodOf[c]}
      /\ UNCHANGED <<env, api, anno, ledger, cphase, cache, ledgerSeen, admitted, held, resv,
                     pend, call, rec, restarts>>
  BY DEF AskRefused, cluster, informer
<1>2. TypeOK'
  BY <1>1 DEF Base, TypeOK, Reported
<1>3. PodInv'
  BY <1>1 DEF Base, PodInv
<1>4. ServedInv'
  BY <1>1, ServedSame
<1>5. CallInv'
  BY <1>1 DEF Base, CallInv, Active, Mode
<1>6. BackInv'
  BY <1>1 DEF Base, BackInv
<1> QED
  BY <1>2, <1>3, <1>4, <1>5, <1>6 DEF Base

LEMMA AskBase ==
    ASSUME Base, NEW c \in Containers, NEW k \in env.cards, Ask(c, k)
    PROVE  Base'
<1> USE LedgerAssumption
<1> DEFINE W == {d \in Containers : PodOf[d] \in Reported /\ held[d] = Nil}
<1>1. k \in Cards
  BY DEF Base, TypeOK
<1>2. call' = [at |-> "decide", for |-> c, card |-> k, waits |-> W, who |-> Nil,
               base |-> Nothing, prior |-> Nil, value |-> Nothing]
  BY DEF Ask, NoCall
<1> HIDE DEF W
<1>3. call' \in CallSet
  <2>1. W \subseteq Containers
    BY DEF W
  <2> QED
    BY <1>1, <1>2, <2>1, EmptyTyped DEF CallSet, Entry
<1>4. call'.at = "decide" /\ call'.for = c /\ call'.card = k /\ call'.waits = W
  BY <1>2
<1>5. /\ PodOf[c] \in Reported /\ held[c] = Nil
      /\ UNCHANGED <<env, api, anno, ledger, cphase, cache, ledgerSeen, admitted, over,
                     held, resv, pend, rec, restarts>>
  BY DEF Ask, cluster, informer, kubelet
<1>6. TypeOK'
  <2>1. call'.at # "idle" => call'.for # Nil /\ PodOf[call'.for] \in admitted' \ over'
    BY <1>5, <1>4 DEF Reported
  <2>2. call'.at \notin {"idle", "decide"} => call'.who # Nil
    BY <1>4
  <2> QED
    BY <1>3, <1>5, <2>1, <2>2, Zenon DEF Base, TypeOK, CallSet
<1>7. PodInv'
  BY <1>5 DEF Base, PodInv
<1>8. ServedInv'
  BY <1>5, ServedSame
<1>9. CallInv'
  <2>1. ASSUME NEW d \in W PROVE PodOf[d] = PodOf[c] /\ held[d] = Nil
    <3>1. d \in Own(PodOf[d]) /\ PodOf[d] \in Reported /\ held[d] = Nil
      BY DEF W, Own
    <3>2. c \in Own(PodOf[c])
      BY DEF Own
    <3> QED
      BY <1>5, <3>1, <3>2 DEF Base, ServedInv, Served
  <2> QED
    BY <1>1, <1>5, <1>4, <2>1 DEF CallInv, Active
<1>10. BackInv'
  BY <1>5 DEF Base, BackInv
<1> QED
  BY <1>6, <1>7, <1>8, <1>9, <1>10 DEF Base

LEMMA DecideBase ==
    ASSUME Base, Decide
    PROVE  Base'
<1> USE LedgerAssumption
<1>1. PICK w \in Containers : Decided(w)
  BY DecideFacts DEF Base
<1>2. call' \in CallSet
  <2>1. [d \in Containers |-> IF PodOf[d] = PodOf[w] THEN cache[d] ELSE Nil]
            \in [Containers -> Entry]
    BY DEF Base, TypeOK, Entry
  <2>2. ClaimOf(w) \in Entry
    BY <1>1 DEF Decided, Base, TypeOK, Entry
  <2> QED
    BY <1>1, <2>1, <2>2 DEF Decided, Base, TypeOK, CallSet
<1>3. /\ call'.at = "build" /\ call'.for = call.for /\ call'.card = call.card
      /\ call'.who = w /\ call'.prior \in {Nil, call.card}
  BY <1>1 DEF Decided, Base, TypeOK
<1>4. /\ call.for \in Containers /\ PodOf[call.for] \in admitted \ over
      /\ PodOf[w] = PodOf[call.for] /\ held[w] = Nil /\ call.card \in Cards
      /\ Mode[w] = Mode[call.for] /\ cphase[PodOf[w]] = "pending"
      /\ resv' \in [Containers -> Entry]
      /\ \A c \in Containers : resv'[c] = IF c = w THEN call.card ELSE resv[c]
  BY <1>1 DEF Decided, Base, TypeOK, CallInv, Entry
<1>5. UNCHANGED <<env, api, anno, ledger, cphase, cache, ledgerSeen, admitted, over,
                  held, pend, rec, restarts>>
  BY <1>1 DEF Decided
<1>6. TypeOK'
  <2>1. call'.at # "idle" => call'.for # Nil /\ PodOf[call'.for] \in admitted' \ over'
    BY <1>3, <1>4, <1>5 DEF Base, TypeOK
  <2>2. call'.at \notin {"idle", "decide"} => call'.who # Nil
    BY <1>3, <1>4
  <2> QED
    BY <1>2, <1>4, <1>5, <2>1, <2>2, Zenon DEF Base, TypeOK, CallSet
<1>7. PodInv'
  BY <1>4, <1>5 DEF Base, PodInv
<1>8. ServedInv'
  BY <1>5, ServedSame
<1>9. CallInv'
  <2>1. held' = held /\ cphase' = cphase /\ Mode' = Mode
    BY <1>5 DEF Mode
  <2>2. held'[call'.for] = Nil /\ call'.card \in Cards
    BY <1>1, <1>3, <1>4, <2>1 DEF Base, CallInv, Decided
  <2>3. /\ PodOf[call'.who] = PodOf[call'.for] /\ Mode'[call'.who] = Mode'[call'.for]
        /\ held'[call'.who] = Nil
        /\ cphase'[PodOf[call'.who]] = "pending"
        /\ call'.prior \in {Nil, call'.card}
    BY <1>3, <1>4, <2>1
  <2> QED
    BY <1>3, <2>2, <2>3 DEF CallInv, Active
<1>10. BackInv'
  BY <1>4, <1>5 DEF Base, BackInv
<1> QED
  BY <1>6, <1>7, <1>8, <1>9, <1>10 DEF Base

LEMMA DecideRefusedBase ==
    ASSUME Base, DecideRefused
    PROVE  Base'
<1>1. /\ call.at # "idle" /\ Refuse
      /\ UNCHANGED <<env, api, anno, ledger, cphase, cache, ledgerSeen, admitted,
                     held, resv, pend, rec, restarts>>
  BY DEF DecideRefused, cluster, informer
<1>2. RefuseFrame
  BY <1>1 DEF RefuseFrame, Base, TypeOK
<1> QED
  BY <1>1, <1>2, RefuseBase

LEMMA BuildBase ==
    ASSUME Base, Build
    PROVE  Base'
<1> DEFINE v == Patched(call.base, call.who, call.card)
<1>1. /\ call.at = "build" /\ call' = [call EXCEPT !.at = "land", !.value = v]
      /\ UNCHANGED <<env, api, anno, ledger, cphase, cache, ledgerSeen, admitted, over, held,
                     resv, pend, rec, restarts>>
  BY DEF Build, cluster, informer, kubelet
<1>2. v \in [Containers -> Entry]
  BY DEF Patched, Base, TypeOK, Entry
<1> HIDE DEF v
<1>3. /\ call' \in CallSet /\ call'.at = "land" /\ call'.for = call.for
      /\ call'.who = call.who /\ call'.card = call.card /\ call'.prior = call.prior
  BY <1>1, <1>2 DEF Base, TypeOK, CallSet
<1>4. TypeOK'
  <2>1. /\ call'.at # "idle" => call'.for # Nil /\ PodOf[call'.for] \in admitted' \ over'
        /\ call'.at \notin {"idle", "decide"} => call'.who # Nil
    BY <1>1, <1>3 DEF Base, TypeOK
  <2> QED
    BY <1>1, <1>3, <2>1, Zenon DEF Base, TypeOK, CallSet
<1>5. PodInv'
  BY <1>1 DEF Base, PodInv
<1>6. ServedInv'
  BY <1>1, ServedSame
<1>7. CallInv'
  BY <1>1, <1>3 DEF Base, CallInv, Active, Mode
<1>8. BackInv'
  BY <1>1 DEF Base, BackInv
<1> QED
  BY <1>4, <1>5, <1>6, <1>7, <1>8 DEF Base

LEMMA LandBase ==
    ASSUME Base, Land
    PROVE  Base'
<1> USE LedgerAssumption
<1>1. TypeOK'
  BY DEF Base, TypeOK, Land, informer, kubelet, Write, Nothing, Entry
<1>2. PodInv'
  <2>1. call.who \in Containers /\ PodOf[call.who] \in admitted
    BY CallFacts DEF Base, Land, Active, Reported
  <2>2. \A c \in Containers : PodOf[c] \notin admitted => anno'[c] = anno[c]
    BY <2>1 DEF Land, Write
  <2>3. UNCHANGED <<env, api, cphase, cache, admitted, over, held, resv, rec>>
    BY DEF Land, informer, kubelet
  <2> QED
    BY <2>2, <2>3 DEF Base, PodInv
<1>3. ServedInv'
  BY ServedSame DEF Land, informer, kubelet
<1>4. CallInv'
  BY DEF Base, TypeOK, Land, informer, kubelet, CallInv, Active, Mode
<1>5. BackInv'
  BY DEF Base, TypeOK, Land, informer, kubelet, BackInv
<1> QED
  BY <1>1, <1>2, <1>3, <1>4, <1>5 DEF Base

LEMMA UnreserveBase ==
    ASSUME Base, Unreserve
    PROVE  Base'
<1> DEFINE r == [resv EXCEPT ![call.who] = Nil]
<1>1. /\ r \in [Containers -> Entry]
      /\ \A c \in Containers : r[c] = resv[c] \/ r[c] = Nil
  BY DEF Base, TypeOK, Entry
<1>2. /\ call.at # "idle" /\ Refuse /\ resv' = r
      /\ UNCHANGED <<env, api, anno, ledger, cphase, cache, ledgerSeen, admitted,
                     held, pend, rec, restarts>>
  BY DEF Unreserve, cluster, informer
<1>3. RefuseFrame
  <2> HIDE DEF r
  <2> QED
    BY <1>1, <1>2 DEF RefuseFrame, Base, TypeOK
<1> QED
  BY <1>2, <1>3, RefuseBase

LEMMA RespondBase ==
    ASSUME Base, Respond
    PROVE  Base'
<1> USE LedgerAssumption
<1>1. /\ call' = NoCall
      /\ UNCHANGED <<env, api, anno, ledger, cphase, cache, ledgerSeen, admitted, over,
                     resv, pend, rec, restarts>>
      /\ call.for \in Containers /\ PodOf[call.for] \in admitted /\ call.card \in Cards
      /\ held' \in [Containers -> Entry]
      /\ \A c \in Containers : held'[c] = held[c] \/ c = call.for
      /\ cphase[PodOf[call.for]] = "pending"
  BY DEF Respond, cluster, informer, Base, TypeOK, CallInv, Active, Entry
<1>2. TypeOK'
  BY <1>1, EmptyTyped, Zenon DEF Base, TypeOK, CallSet
<1>3. PodInv'
  BY <1>1 DEF Base, PodInv
<1>4. ServedInv'
  <2>1. \A c \in Containers : held[c] # Nil => held'[c] # Nil
    BY <1>1 DEF Base, CallInv, Respond
  <2>2. \A q \in Reported : Served(q) => Served(q)'
    BY <2>1 DEF Served, Own
  <2> QED
    BY <1>1, <2>2 DEF Base, ServedInv, Reported, Holds
<1>5. CallInv'
  BY <1>1, EmptyTyped DEF CallInv, Active
<1>6. BackInv'
  BY <1>1 DEF Base, BackInv
<1> QED
  BY <1>2, <1>3, <1>4, <1>5, <1>6 DEF Base

LEMMA RefuseLateBase ==
    ASSUME Base, RefuseLate
    PROVE  Base'
<1> USE LedgerAssumption
<1>1. TypeOK'
  BY DEF Base, TypeOK, RefuseLate, cluster, informer, kubelet, Patched, Entry
<1>2. /\ call.who \in Containers /\ PodOf[call.who] \in admitted
      /\ cphase[PodOf[call.who]] = "pending"
      /\ \A c \in Containers : c # call.who => resv'[c] = resv[c]
      /\ UNCHANGED <<env, api, anno, cphase, cache, admitted, over, held, pend, rec>>
  BY CallFacts DEF Base, TypeOK, CallInv, Active, RefuseLate, cluster, informer, kubelet,
                   Reported
<1>3. PodInv'
  BY <1>2 DEF Base, PodInv
<1>4. ServedInv'
  BY <1>2, ServedSame
<1>5. CallInv'
  BY DEF Base, TypeOK, RefuseLate, cluster, informer, kubelet, CallInv, Active, Mode
<1>6. BackInv'
  BY <1>2 DEF Base, BackInv
<1> QED
  BY <1>1, <1>3, <1>4, <1>5, <1>6 DEF Base

LEMMA UndoLandsBase ==
    ASSUME Base, UndoLands
    PROVE  Base'
<1> USE LedgerAssumption
<1> DEFINE a == [d \in Containers |-> IF PodOf[d] = PodOf[call.who] THEN call.value[d]
                                      ELSE anno[d]]
<1>1. a \in [Containers -> Entry]
  BY DEF Base, TypeOK, Entry
<1>2. \A c \in Containers : PodOf[c] \notin admitted => a[c] = anno[c]
  BY CallFacts DEF Base, UndoLands, Active, Reported
<1>3. /\ call.at # "idle" /\ Refuse /\ anno' = a
      /\ UNCHANGED <<env, api, ledger, cphase, cache, ledgerSeen, admitted,
                     held, resv, pend, rec, restarts>>
  BY DEF UndoLands, Write, informer
<1>4. RefuseFrame
  <2> HIDE DEF a
  <2> QED
    BY <1>1, <1>2, <1>3 DEF RefuseFrame, Base, TypeOK
<1> QED
  BY <1>3, <1>4, RefuseBase

LEMMA UndoFailsBase ==
    ASSUME Base, UndoFails
    PROVE  Base'
<1> USE LedgerAssumption
<1> DEFINE b == [pend EXCEPT ![call.who] = call.prior]
<1>1. b \in [Containers -> Entry \cup {None}]
  BY DEF Base, TypeOK
<1>2. \A c \in Containers : b[c] = pend[c] \/ PodOf[c] = PodOf[call.for]
  BY CallFacts DEF Base, TypeOK, UndoFails, Active
<1>3. /\ call.at # "idle" /\ Refuse /\ pend' = b
      /\ UNCHANGED <<env, api, anno, ledger, cphase, cache, ledgerSeen, admitted,
                     held, resv, rec, restarts>>
  BY DEF UndoFails, cluster, informer
<1>4. RefuseFrame
  <2> HIDE DEF b
  <2> QED
    BY <1>1, <1>2, <1>3 DEF RefuseFrame, Base, TypeOK
<1> QED
  BY <1>3, <1>4, RefuseBase

LEMMA ReadBase ==
    ASSUME Base, Read
    PROVE  Base'
<1> USE LedgerAssumption
<1>1. PICK lg \in Desired :
          rec' = [NoPass EXCEPT !.at = "publish", !.phase = cphase, !.entries = cache,
                                !.seen = ledgerSeen, !.want = lg]
  BY DEF Read
<1>2. lg \in Ledgers
  BY DesiredType DEF Base
<1>3. /\ rec' = [at |-> "publish", phase |-> cphase, entries |-> cache, seen |-> ledgerSeen,
                 want |-> lg, todo |-> {}, who |-> Nil, value |-> Nothing]
      /\ UNCHANGED <<env, api, anno, ledger, cphase, cache, ledgerSeen, admitted, over,
                     held, resv, pend, call, restarts>>
  BY <1>1 DEF NoPass, Read, cluster, informer, kubelet
<1>4. rec' \in PassSet
  BY <1>2, <1>3, EmptyTyped DEF Base, TypeOK, PassSet, Ledgers
<1>5. rec'.at = "publish" /\ rec'.phase = cphase
  BY <1>3
<1>6. TypeOK'
  BY <1>3, <1>4, Zenon DEF Base, TypeOK, PassSet, Ledgers
<1>7. PodInv'
  BY <1>3, <1>5 DEF Base, PodInv
<1>8. ServedInv'
  BY <1>3, ServedSame
<1>9. CallInv'
  BY <1>3 DEF Base, CallInv, Active, Mode
<1>10. BackInv'
  BY <1>3, <1>5 DEF Base, BackInv
<1> QED
  BY <1>6, <1>7, <1>8, <1>9, <1>10 DEF Base

LEMMA PublishBase ==
    ASSUME Base, Publish
    PROVE  Base'
<1>1. ledger' \in Ledgers
  BY DEF Base, TypeOK, Publish, Ledgers
<1>2. /\ Prune
      /\ UNCHANGED <<env, api, anno, cphase, cache, ledgerSeen, admitted, over,
                     held, call, restarts>>
  BY DEF Publish, informer, kubelet
<1> QED
  BY <1>1, <1>2, PruneBase

LEMMA NotPublishedBase ==
    ASSUME Base, NotPublished
    PROVE  Base'
<1>1. ledger' \in Ledgers
  BY DEF Base, TypeOK, NotPublished, cluster, Ledgers
<1>2. /\ Prune
      /\ UNCHANGED <<env, api, anno, cphase, cache, ledgerSeen, admitted, over,
                     held, call, restarts>>
  BY DEF NotPublished, cluster, informer, kubelet
<1> QED
  BY <1>1, <1>2, PruneBase

LEMMA RetryBase ==
    ASSUME Base, NEW c \in Containers, Retry(c)
    PROVE  Base'
<1> DEFINE v == Patched(rec.entries, c, pend[c])
           t == rec.todo \ Own(PodOf[c])
<1>1. /\ pend[c] # None /\ rec' = [rec EXCEPT !.at = "give", !.todo = t, !.who = c, !.value = v]
      /\ UNCHANGED <<env, api, anno, ledger, cphase, cache, ledgerSeen, admitted, over, held,
                     resv, pend, call, restarts>>
  BY DEF Retry, cluster, informer, kubelet
<1>2. v \in [Containers -> Entry] /\ t \subseteq Containers
  BY <1>1 DEF Patched, Base, TypeOK, Entry
<1> HIDE DEF v, t
<1>3. rec' \in PassSet /\ rec'.at = "give" /\ rec'.who = c /\ rec'.phase = rec.phase
  BY <1>1, <1>2 DEF Base, TypeOK, PassSet, Ledgers
<1>4. TypeOK'
  BY <1>1, <1>3, Zenon DEF Base, TypeOK, PassSet, Ledgers
<1>5. PodInv'
  BY <1>1, <1>3 DEF Base, PodInv
<1>6. ServedInv'
  BY <1>1, ServedSame
<1>7. CallInv'
  BY <1>1 DEF Base, CallInv, Active, Mode
<1>8. BackInv'
  BY <1>1, <1>3 DEF Base, BackInv
<1> QED
  BY <1>4, <1>5, <1>6, <1>7, <1>8 DEF Base

LEMMA RetryLandsBase ==
    ASSUME Base, RetryLands
    PROVE  Base'
<1>1. /\ rec' \in PassSet /\ rec'.at = "retry" /\ rec'.phase = rec.phase
      /\ UNCHANGED <<env, api, ledger, cphase, cache, ledgerSeen, admitted, over, held, resv,
                     call, restarts>>
  BY EmptyTyped DEF Base, TypeOK, PassSet, RetryLands, informer, kubelet, Ledgers
<1>2. /\ pend' \in [Containers -> Entry \cup {None}]
      /\ \A c \in Containers : pend'[c] # None => pend[c] # None
  BY DEF Base, TypeOK, RetryLands
<1>3. anno' \in [Containers -> Entry]
  BY DEF Base, TypeOK, RetryLands, Write
<1>4. \A c \in Containers : PodOf[c] \notin admitted => anno'[c] = anno[c]
  <2>1. PodOf[rec.who] \in admitted
    BY DEF Base, TypeOK, BackInv, RetryLands
  <2> QED
    BY <2>1 DEF RetryLands, Write
<1>5. TypeOK'
  BY <1>1, <1>2, <1>3, Zenon DEF Base, TypeOK, PassSet, Ledgers
<1>6. PodInv'
  BY <1>1, <1>4 DEF Base, PodInv
<1>7. ServedInv'
  BY <1>1, ServedSame
<1>8. CallInv'
  BY <1>1 DEF Base, CallInv, Active, Mode
<1>9. BackInv'
  BY <1>1, <1>2 DEF Base, BackInv
<1> QED
  BY <1>5, <1>6, <1>7, <1>8, <1>9 DEF Base

LEMMA RetryFailsBase ==
    ASSUME Base, RetryFails
    PROVE  Base'
<1> USE LedgerAssumption
<1>1. /\ rec' \in PassSet /\ rec'.at = "retry" /\ rec'.phase = rec.phase
      /\ pend' \in [Containers -> Entry \cup {None}]
      /\ \A c \in Containers : c # rec.who => pend'[c] = pend[c]
      /\ UNCHANGED <<env, api, anno, ledger, cphase, cache, ledgerSeen, admitted, over,
                     held, resv, call, restarts>>
  BY EmptyTyped DEF Base, TypeOK, BackInv, PassSet, RetryFails, cluster, informer, kubelet,
                    Ledgers
<1>2. TypeOK'
  BY <1>1, Zenon DEF Base, TypeOK, PassSet, Ledgers
<1>3. PodInv'
  BY <1>1 DEF Base, PodInv
<1>4. ServedInv'
  BY <1>1, ServedSame
<1>5. CallInv'
  BY <1>1 DEF Base, CallInv, Active, Mode
<1>6. BackInv'
  BY <1>1 DEF Base, BackInv, RetryFails
<1> QED
  BY <1>2, <1>3, <1>4, <1>5, <1>6 DEF Base

LEMMA EndPassBase ==
    ASSUME Base, EndPass
    PROVE  Base'
<1>1. /\ rec' = NoPass
      /\ UNCHANGED <<env, api, anno, ledger, cphase, cache, ledgerSeen, admitted, over,
                     held, resv, pend, call, restarts>>
  BY DEF EndPass, cluster, informer, kubelet
<1>2. TypeOK'
  BY <1>1, EmptyTyped, Zenon DEF Base, TypeOK, PassSet, Ledgers
<1>3. PodInv'
  BY <1>1 DEF Base, PodInv, NoPass
<1>4. ServedInv'
  BY <1>1, ServedSame
<1>5. CallInv'
  BY <1>1 DEF Base, CallInv, Active, Mode
<1>6. BackInv'
  BY <1>1, EmptyTyped DEF Base, BackInv
<1> QED
  BY <1>2, <1>3, <1>4, <1>5, <1>6 DEF Base

LEMMA RestartBase ==
    ASSUME Base, Restart
    PROVE  Base'
<1> USE LedgerAssumption
<1>1. /\ cphase' = api /\ cache' = anno /\ ledgerSeen' = ledger
      /\ resv' = Nothing /\ pend' = [c \in Containers |-> None] /\ rec' = NoPass
      /\ UNCHANGED <<env, api, anno, ledger, admitted, held>>
      /\ restarts' \in 0..MaxRestarts
  BY DEF Restart, cluster, Base, TypeOK
<1>2. call' \in CallSet /\ call'.at = "idle"
  BY EmptyTyped DEF Restart, Refuse, Base, TypeOK, CallSet
<1>3. over \subseteq over' /\ over' \subseteq admitted
  BY DEF Restart, Refuse, Base, TypeOK
<1>4. TypeOK'
  BY <1>1, <1>2, <1>3, EmptyTyped, Zenon DEF Base, TypeOK, CallSet, PassSet, Ledgers
<1>5. PodInv'
  BY <1>1, <1>3 DEF Base, PodInv, NoPass, Nothing
<1>6. ServedInv'
  <2>1. \A q \in Reported : api[q] = "pending"
    BY ReportedPending
  <2>2. Reported' \subseteq Reported
    BY <1>1, <1>3 DEF Reported
  <2>3. \A q \in Pods : Served(q) <=> Served(q)'
    BY <1>1 DEF Served
  <2>4. \A c \in Containers : Holds(c)' => Holds(c)
    BY <1>1, <2>2 DEF Holds
  <2>5. Reported \subseteq Pods
    BY DEF Base, TypeOK, Reported
  <2>6. \A p, q \in Reported' : ~Served(p)' /\ ~Served(q)' => p = q
    BY <2>2, <2>3, <2>5 DEF Base, ServedInv
  <2>7. \A c \in Containers : Holds(c)' => cphase'[PodOf[c]] = "pending"
    BY <1>1, <2>1, <2>4 DEF Holds
  <2> QED
    BY <2>6, <2>7 DEF ServedInv
<1>7. CallInv'
  BY <1>2, EmptyTyped DEF CallInv, Active
<1>8. BackInv'
  BY <1>1, EmptyTyped DEF BackInv, Nothing
<1> QED
  BY <1>4, <1>5, <1>6, <1>7, <1>8 DEF Base

\* Every step keeps it.
LEMMA NextBase ==
    ASSUME Base, [Next]_vars
    PROVE  Base'
<1>1. ASSUME NEW p \in Pods, Deliver(p) PROVE Base'
  BY <1>1, DeliverBase
<1>2. ASSUME NEW p \in Pods, Admit(p) PROVE Base'
  BY <1>2, AdmitBase
<1>3. ASSUME NEW p \in Pods, Finish(p) PROVE Base'
  BY <1>3, FinishBase
<1>4. ASSUME NEW p \in Pods, WritePhase(p) PROVE Base'
  BY <1>4, WritePhaseBase
<1>5. ASSUME NEW p \in Pods, Delete(p) PROVE Base'
  BY <1>5, DeleteBase
<1>6. CASE DeliverLedger
  BY <1>6, DeliverLedgerBase
<1>7. ASSUME NEW c \in Containers, AskRefused(c) PROVE Base'
  BY <1>7, AskRefusedBase
<1>8. ASSUME NEW c \in Containers, NEW k \in env.cards, Ask(c, k) PROVE Base'
  BY <1>8, AskBase
<1>9. CASE Decide
  BY <1>9, DecideBase
<1>10. CASE DecideRefused
  BY <1>10, DecideRefusedBase
<1>11. CASE Build
  BY <1>11, BuildBase
<1>12. CASE Land
  BY <1>12, LandBase
<1>13. CASE Unreserve
  BY <1>13, UnreserveBase
<1>14. CASE Respond
  BY <1>14, RespondBase
<1>15. CASE RefuseLate
  BY <1>15, RefuseLateBase
<1>16. CASE UndoLands
  BY <1>16, UndoLandsBase
<1>17. CASE UndoFails
  BY <1>17, UndoFailsBase
<1>18. CASE Read
  BY <1>18, ReadBase
<1>19. CASE Publish
  BY <1>19, PublishBase
<1>20. CASE NotPublished
  BY <1>20, NotPublishedBase
<1>21. ASSUME NEW c \in Containers, Retry(c) PROVE Base'
  BY <1>21, RetryBase
<1>22. CASE RetryLands
  BY <1>22, RetryLandsBase
<1>23. CASE RetryFails
  BY <1>23, RetryFailsBase
<1>24. CASE EndPass
  BY <1>24, EndPassBase
<1>25. CASE Restart
  BY <1>25, RestartBase
<1>26. CASE UNCHANGED vars
  <2>1. UNCHANGED <<env, api, anno, ledger, cphase, cache, ledgerSeen, admitted, over, held,
                    resv, pend, call, rec, restarts>>
    BY <1>26 DEF vars, cluster, informer, kubelet
  <2>2. TypeOK'
    BY <2>1 DEF Base, TypeOK
  <2>3. PodInv'
    BY <2>1 DEF Base, PodInv
  <2>4. ServedInv'
    BY <2>1, ServedSame
  <2>5. CallInv'
    BY <2>1 DEF Base, CallInv, Active, Mode
  <2>6. BackInv'
    BY <2>1 DEF Base, BackInv
  <2> QED
    BY <2>2, <2>3, <2>4, <2>5, <2>6 DEF Base
<1> QED
  BY <1>1, <1>2, <1>3, <1>4, <1>5, <1>6, <1>7, <1>8, <1>9, <1>10, <1>11, <1>12,
     <1>13, <1>14, <1>15, <1>16, <1>17, <1>18, <1>19, <1>20, <1>21, <1>22,
     <1>23, <1>24, <1>25, <1>26
     DEF Next, CallStep, PassStep

-----------------------------------------------------------------------------
(* What the device plugin takes a container to hold is what its annotation  *)
(* says, if no Pod reaches the informer during a reconcile.                 *)

\* A reconcile has every Pod the informer had when it read them.
PassInv ==
    rec.at = "publish" => \A p \in Pods : cphase[p] # "none" => rec.phase[p] # "none"

\* The reservation says what the annotation does or, where there is none, the
\* cache is not behind: except for the container whose patch is under way.
CoverInv ==
    \A c \in Containers : PodOf[c] \in Reported /\ ~Busy(c) =>
        anno[c] = IF resv[c] # Nil THEN resv[c] ELSE cache[c]

\* What the cache has of a claim stays true.
CacheInv ==
    \A c \in Containers : PodOf[c] \in Reported /\ cache[c] # Nil => anno[c] = cache[c]

\* A patch carries what the annotation says of the Pod's other containers.
PatchInv ==
    /\ call.at \in {"build", "land", "respond"} => resv[call.who] = call.card
    /\ call.at \in {"build", "land"} => anno[call.who] \in {Nil, call.card}
    /\ call.at = "build" =>
          \A c \in Own(PodOf[call.who]) \ {call.who} : resv[c] = Nil => call.base[c] = anno[c]
    /\ call.at = "land" =>
          \A c \in Own(PodOf[call.who]) :
              call.value[c] = IF c = call.who THEN call.card ELSE anno[c]

ClaimInv == PassInv /\ CoverInv /\ CacheInv /\ PatchInv

\* A pass prunes no reservation of a Pod kubelet reports.
LEMMA PruneKeeps ==
    ASSUME Base, PassInv, rec.at = "publish", Prune,
           NEW c \in Containers, PodOf[c] \in Reported
    PROVE  resv'[c] = resv[c]
<1>1. resv'[c] = IF Live(PodOf[c]) THEN resv[c] ELSE Nil
  BY Pruned DEF Base
<1>2. PodOf[c] \in Pods /\ rec.phase[PodOf[c]] # "gone"
  BY ReportedPending DEF Base, PodInv
<1>3. rec.phase[PodOf[c]] \in Phases
  BY <1>2 DEF Base, TypeOK
<1>4. ~Live(PodOf[c]) => cphase[PodOf[c]] = "none"
  BY <1>2, <1>3 DEF Live, Phases, PassInv
<1>5. ~Live(PodOf[c]) => resv[c] = Nil
  BY <1>4 DEF Base, BackInv
<1> QED
  BY <1>1, <1>5

\* Steps that leave the records alone.
LEMMA ClaimSame ==
    ASSUME Base, CoverInv, CacheInv, PatchInv, UNCHANGED <<anno, cache, resv, call>>,
           Reported' \subseteq Reported
    PROVE  CoverInv' /\ CacheInv' /\ PatchInv'
<1>1. CoverInv'
  BY DEF CoverInv, Busy
<1>2. CacheInv'
  BY DEF CacheInv
<1>3. PatchInv'
  BY DEF PatchInv
<1> QED
  BY <1>1, <1>2, <1>3

\* A call that is refused takes its Pod out of those that are reported.
LEMMA RefuseClaim ==
    ASSUME Base, CoverInv, CacheInv, call.at # "idle", Refuse, admitted' = admitted,
           cache' = cache,
           \A c \in Containers : PodOf[c] # PodOf[call.for] =>
               anno'[c] = anno[c] /\ resv'[c] = resv[c]
    PROVE  CoverInv' /\ CacheInv' /\ PatchInv'
<1>1. call'.at = "idle" /\ over' = over \cup {PodOf[call.for]}
  BY EmptyTyped DEF Refuse
<1>2. \A c \in Containers : PodOf[c] \in Reported' =>
          PodOf[c] \in Reported /\ PodOf[c] # PodOf[call.for]
  BY <1>1 DEF Reported
<1>3. \A c \in Containers : PodOf[c] # PodOf[call.for] => ~Busy(c)
  BY CallFacts DEF Base, Busy, Active
<1>4. CoverInv'
  BY <1>2, <1>3 DEF CoverInv
<1>5. CacheInv'
  BY <1>2 DEF CacheInv
<1>6. PatchInv'
  BY <1>1 DEF PatchInv
<1> QED
  BY <1>4, <1>5, <1>6

LEMMA DeliverClaim ==
    ASSUME Base, CoverInv, CacheInv, PatchInv, NEW p \in Pods, Deliver(p)
    PROVE  CoverInv' /\ CacheInv' /\ PatchInv'
<1>1. /\ UNCHANGED <<anno, resv, call, admitted, over>>
      /\ \A c \in Containers : cache'[c] = IF PodOf[c] = p THEN anno[c] ELSE cache[c]
  BY DEF Deliver, cluster, kubelet
<1>2. CoverInv'
  <2> SUFFICES ASSUME NEW c \in Containers, PodOf[c] \in Reported, ~Busy(c)
               PROVE  anno[c] = IF resv[c] # Nil THEN resv[c] ELSE cache'[c]
    BY <1>1 DEF CoverInv, Busy, Reported
  <2>1. anno[c] = IF resv[c] # Nil THEN resv[c] ELSE cache[c]
    BY DEF CoverInv
  <2> QED
    BY <1>1, <2>1
<1>3. CacheInv'
  BY <1>1 DEF CacheInv, Reported
<1>4. PatchInv'
  BY <1>1 DEF PatchInv
<1> QED
  BY <1>2, <1>3, <1>4

LEMMA AdmitClaim ==
    ASSUME Base, CoverInv, CacheInv, PatchInv, NEW p \in Pods, Admit(p)
    PROVE  CoverInv' /\ CacheInv' /\ PatchInv'
<1>1. UNCHANGED <<anno, cache, resv, call>>
  BY DEF Admit, cluster, informer
<1>2. \A c \in Containers : PodOf[c] \in Reported' => PodOf[c] \in Reported \/ PodOf[c] \notin admitted
  BY DEF Admit, Reported
<1>3. CoverInv'
  BY <1>1, <1>2 DEF CoverInv, Busy, Base, PodInv
<1>4. CacheInv'
  BY <1>1, <1>2 DEF CacheInv, Base, PodInv
<1>5. PatchInv'
  BY <1>1 DEF PatchInv
<1> QED
  BY <1>3, <1>4, <1>5

LEMMA DeleteClaim ==
    ASSUME Base, CoverInv, CacheInv, PatchInv, NEW p \in Pods, Delete(p)
    PROVE  CoverInv' /\ CacheInv' /\ PatchInv'
<1>1. /\ UNCHANGED <<cache, resv, call, admitted, over>>
      /\ \A c \in Containers : PodOf[c] # p => anno'[c] = anno[c]
  BY DEF Delete, informer, kubelet
<1>2. p \notin Reported
  BY ReportedPending DEF Delete
<1>3. \A c \in Containers : PodOf[c] \in Reported => anno'[c] = anno[c]
  BY <1>1, <1>2
<1>4. CoverInv'
  BY <1>1, <1>3 DEF CoverInv, Busy, Reported
<1>5. CacheInv'
  BY <1>1, <1>3 DEF CacheInv, Reported
<1>6. PatchInv'
  <2>1. Active => call.who \in Containers /\ PodOf[call.who] \in Reported
    BY CallFacts DEF Base
  <2> QED
    BY <1>1, <1>3, <2>1 DEF PatchInv, Active, Own
<1> QED
  BY <1>4, <1>5, <1>6

LEMMA AskClaim ==
    ASSUME Base, CoverInv, CacheInv, NEW c \in Containers, NEW k \in env.cards, Ask(c, k)
    PROVE  CoverInv' /\ CacheInv' /\ PatchInv'
<1>1. /\ UNCHANGED <<anno, cache, resv, admitted, over>>
      /\ call.at = "idle" /\ call'.at = "decide"
  BY DEF Ask, NoCall, cluster, informer, kubelet
<1>2. CoverInv'
  BY <1>1 DEF CoverInv, Busy, Reported
<1>3. CacheInv'
  BY <1>1 DEF CacheInv, Reported
<1>4. PatchInv'
  BY <1>1 DEF PatchInv
<1> QED
  BY <1>2, <1>3, <1>4

LEMMA DecideClaim ==
    ASSUME Base, CoverInv, CacheInv, PatchInv, Decide
    PROVE  CoverInv' /\ CacheInv' /\ PatchInv'
<1>1. PICK w \in Containers : Decided(w)
  BY DecideFacts DEF Base
<1> DEFINE b == [d \in Containers |-> IF PodOf[d] = PodOf[w] THEN cache[d] ELSE Nil]
<1>2. /\ call'.at = "build" /\ call'.who = w /\ call'.card = call.card /\ call'.base = b
      /\ call.at = "decide" /\ ClaimOf(w) \in {Nil, call.card}
      /\ \A c \in Containers : resv'[c] = IF c = w THEN call.card ELSE resv[c]
      /\ UNCHANGED <<anno, cache, admitted, over>>
  BY <1>1 DEF Decided, Base, TypeOK
<1>3. PodOf[w] \in Reported
  BY <1>1, CallFacts DEF Decided, Base, CallInv
<1>4. \A c \in Containers : ~Busy(c)
  BY <1>2 DEF Busy
<1>5. CoverInv'
  BY <1>2, <1>4 DEF CoverInv, Busy, Reported
<1>6. CacheInv'
  BY <1>2 DEF CacheInv, Reported
<1>7. anno[w] \in {Nil, call.card}
  <2>1. pend[w] = None
    BY <1>3 DEF Base, BackInv, Reported
  <2>2. anno[w] = ClaimOf(w)
    BY <1>3, <1>4, <2>1 DEF CoverInv, ClaimOf
  <2> QED
    BY <1>2, <2>2
<1>8. ASSUME NEW c \in Own(PodOf[w]) \ {w}, resv[c] = Nil PROVE b[c] = anno[c]
  BY <1>3, <1>4, <1>8 DEF Own, CoverInv
<1> HIDE DEF b
<1>9. PatchInv'
  <2>1. \A c \in Own(PodOf[w]) \ {w} : resv'[c] = Nil => b[c] = anno[c]
    BY <1>2, <1>8 DEF Own
  <2> QED
    BY <1>2, <1>7, <2>1 DEF PatchInv
<1> QED
  BY <1>5, <1>6, <1>9

LEMMA BuildClaim ==
    ASSUME Base, CoverInv, CacheInv, PatchInv, Build
    PROVE  CoverInv' /\ CacheInv' /\ PatchInv'
<1> DEFINE v == Patched(call.base, call.who, call.card)
<1>1. /\ call.at = "build" /\ call'.at = "land" /\ call'.who = call.who
      /\ call'.card = call.card /\ call'.value = v
      /\ UNCHANGED <<anno, cache, resv, admitted, over>>
  BY DEF Build, cluster, informer, kubelet, Base, TypeOK
<1>2. call.who \in Containers /\ PodOf[call.who] \in Reported
  BY <1>1, CallFacts DEF Base, Active
<1>3. CoverInv'
  BY <1>1 DEF CoverInv, Busy, Reported
<1>4. CacheInv'
  BY <1>1 DEF CacheInv, Reported
<1>5. ASSUME NEW c \in Own(PodOf[call.who])
      PROVE  v[c] = IF c = call.who THEN call.card ELSE anno[c]
  <2>1. c \in Containers /\ PodOf[c] = PodOf[call.who]
    BY DEF Own
  <2>2. v[c] = IF c = call.who THEN call.card
               ELSE IF resv[c] # Nil THEN resv[c] ELSE call.base[c]
    BY <2>1 DEF Patched
  <2>3. c # call.who => anno[c] = IF resv[c] # Nil THEN resv[c] ELSE cache[c]
    BY <1>2, <2>1 DEF CoverInv, Busy
  <2>4. c # call.who /\ resv[c] = Nil => call.base[c] = anno[c]
    BY <1>1 DEF PatchInv
  <2> QED
    BY <2>2, <2>3, <2>4
<1> HIDE DEF v
<1>6. PatchInv'
  BY <1>1, <1>5 DEF PatchInv
<1> QED
  BY <1>3, <1>4, <1>6

\* patchAllocatingPod changes this container's entry only, from nothing.
LEMMA LandKeeps ==
    ASSUME Base, PatchInv, Land
    PROVE  /\ call.who \in Containers
           /\ \A c \in Containers : anno'[c] = IF c = call.who THEN call.card ELSE anno[c]
           /\ anno[call.who] \in {Nil, call.card}
<1>1. call.who \in Containers
  BY CallFacts DEF Base, Active, Land
<1>2. ASSUME NEW c \in Containers, PodOf[c] = PodOf[call.who]
      PROVE  anno'[c] = IF c = call.who THEN call.card ELSE anno[c]
  BY <1>2 DEF Land, Write, PatchInv, Own
<1>3. ASSUME NEW c \in Containers, PodOf[c] # PodOf[call.who] PROVE anno'[c] = anno[c]
  BY <1>3 DEF Land, Write
<1> QED
  BY <1>1, <1>2, <1>3 DEF PatchInv, Land

LEMMA LandClaim ==
    ASSUME Base, CoverInv, CacheInv, PatchInv, Land
    PROVE  CoverInv' /\ CacheInv' /\ PatchInv'
<1>1. /\ call.at = "land" /\ call'.at = "respond" /\ call'.who = call.who
      /\ call'.card = call.card
      /\ UNCHANGED <<cache, resv, admitted, over>>
  BY DEF Land, informer, kubelet, Base, TypeOK
<1>2. /\ call.who \in Containers
      /\ \A c \in Containers : anno'[c] = IF c = call.who THEN call.card ELSE anno[c]
      /\ anno[call.who] \in {Nil, call.card}
  BY LandKeeps
<1>3. resv[call.who] = call.card /\ call.card # Nil /\ PodOf[call.who] \in Reported
  BY <1>1, CallFacts, LedgerAssumption DEF PatchInv, Base, Active
<1>4. CoverInv'
  <2> SUFFICES ASSUME NEW c \in Containers, PodOf[c] \in Reported
               PROVE  anno'[c] = IF resv[c] # Nil THEN resv[c] ELSE cache[c]
    BY <1>1 DEF CoverInv, Reported
  <2>1. CASE c = call.who
    BY <1>2, <1>3, <2>1
  <2>2. CASE c # call.who
    BY <1>2, <2>2 DEF CoverInv, Busy
  <2> QED
    BY <2>1, <2>2
<1>5. CacheInv'
  <2> SUFFICES ASSUME NEW c \in Containers, PodOf[c] \in Reported, cache[c] # Nil
               PROVE  anno'[c] = cache[c]
    BY <1>1 DEF CacheInv, Reported
  <2>1. anno[c] = cache[c]
    BY DEF CacheInv
  <2> QED
    BY <1>2, <2>1
<1>6. PatchInv'
  BY <1>1, <1>3 DEF PatchInv
<1> QED
  BY <1>4, <1>5, <1>6

LEMMA RespondClaim ==
    ASSUME Base, CoverInv, CacheInv, Respond
    PROVE  CoverInv' /\ CacheInv' /\ PatchInv'
<1>1. /\ call.at = "respond" /\ call'.at = "idle"
      /\ UNCHANGED <<anno, cache, resv, admitted, over>>
  BY EmptyTyped DEF Respond, cluster, informer
<1>2. CoverInv'
  BY <1>1 DEF CoverInv, Busy, Reported
<1>3. CacheInv'
  BY <1>1 DEF CacheInv, Reported
<1>4. PatchInv'
  BY <1>1 DEF PatchInv
<1> QED
  BY <1>2, <1>3, <1>4

LEMMA RefuseLateClaim ==
    ASSUME Base, CoverInv, CacheInv, RefuseLate
    PROVE  CoverInv' /\ CacheInv' /\ PatchInv'
<1>1. /\ call.at = "respond" /\ call'.at = "undo" /\ call'.who = call.who
      /\ \A c \in Containers : c # call.who => resv'[c] = resv[c]
      /\ UNCHANGED <<anno, cache, admitted, over>>
  BY DEF RefuseLate, cluster, informer, kubelet, Base, TypeOK
<1>2. CoverInv'
  BY <1>1 DEF CoverInv, Busy, Reported
<1>3. CacheInv'
  BY <1>1 DEF CacheInv, Reported
<1>4. PatchInv'
  BY <1>1 DEF PatchInv
<1> QED
  BY <1>2, <1>3, <1>4

LEMMA PruneClaim ==
    ASSUME Base, PassInv, CoverInv, CacheInv, PatchInv, rec.at = "publish", Prune,
           UNCHANGED <<anno, cache, call, admitted, over>>
    PROVE  CoverInv' /\ CacheInv' /\ PatchInv'
<1>1. \A c \in Containers : PodOf[c] \in Reported => resv'[c] = resv[c]
  BY PruneKeeps
<1>2. CoverInv'
  BY <1>1 DEF CoverInv, Busy, Reported
<1>3. CacheInv'
  BY DEF CacheInv, Reported
<1>4. PatchInv'
  <2>1. Active => call.who \in Containers /\ PodOf[call.who] \in Reported
    BY CallFacts DEF Base
  <2> QED
    BY <1>1, <2>1 DEF PatchInv, Active, Own
<1> QED
  BY <1>2, <1>3, <1>4

LEMMA RetryLandsClaim ==
    ASSUME Base, CoverInv, CacheInv, PatchInv, RetryLands
    PROVE  CoverInv' /\ CacheInv' /\ PatchInv'
<1>1. /\ UNCHANGED <<cache, resv, call, admitted, over>>
      /\ \A c \in Containers : PodOf[c] # PodOf[rec.who] => anno'[c] = anno[c]
  BY DEF RetryLands, Write, informer, kubelet
<1>2. \A c \in Containers : PodOf[c] \in Reported => anno'[c] = anno[c]
  BY <1>1 DEF RetryLands, Base, BackInv, Reported
<1>3. CoverInv'
  BY <1>1, <1>2 DEF CoverInv, Busy, Reported
<1>4. CacheInv'
  BY <1>1, <1>2 DEF CacheInv, Reported
<1>5. PatchInv'
  <2>1. Active => call.who \in Containers /\ PodOf[call.who] \in Reported
    BY CallFacts DEF Base
  <2> QED
    BY <1>1, <1>2, <2>1 DEF PatchInv, Active, Own
<1> QED
  BY <1>3, <1>4, <1>5

LEMMA RestartClaim ==
    ASSUME Base, Restart
    PROVE  CoverInv' /\ CacheInv' /\ PatchInv'
<1>1. call'.at = "idle" /\ cache' = anno /\ anno' = anno /\ resv' = Nothing
  BY EmptyTyped DEF Restart, Refuse, cluster
<1>2. CoverInv'
  BY <1>1 DEF CoverInv, Nothing
<1>3. CacheInv'
  BY <1>1 DEF CacheInv
<1>4. PatchInv'
  BY <1>1 DEF PatchInv
<1> QED
  BY <1>2, <1>3, <1>4

\* What the environment may do is settled at the start.
LEMMA EnvSame == [Next]_vars => env' = env
BY DEF Next, CallStep, PassStep, vars, Deliver, Admit, Finish, WritePhase, Delete,
       DeliverLedger, AskRefused, Ask, Decide, DecideRefused, Build, Land, Unreserve, Respond,
       RefuseLate, UndoLands, UndoFails, Read, Publish, NotPublished, Retry, RetryLands,
       RetryFails, EndPass, Restart

\* A pass that has read its Pods keeps them, and the informer adds none.
LEMMA NextPass ==
    ASSUME Base, ~env.late, PassInv, [Next]_vars
    PROVE  PassInv'
<1>1. ASSUME NEW p \in Pods, Deliver(p) PROVE PassInv'
  <2>1. /\ rec' = rec /\ (cphase[p] = "none" => rec.at = "idle")
        /\ \A q \in Pods : q # p => cphase'[q] = cphase[q]
    BY <1>1 DEF Deliver, Base, TypeOK
  <2> QED
    BY <2>1 DEF PassInv
<1>2. CASE Read
  <2>1. rec'.phase = cphase /\ cphase' = cphase
    BY <1>2 DEF Read, NoPass, informer
  <2> QED
    BY <2>1 DEF PassInv
<1>3. CASE Publish \/ NotPublished
  BY <1>3, Pruned DEF Publish, NotPublished, Base, PassInv
<1>4. ASSUME NEW c \in Containers, Retry(c) PROVE PassInv'
  BY <1>4 DEF Retry, PassInv, Base, TypeOK
<1>5. CASE RetryLands \/ RetryFails \/ EndPass \/ Restart
  BY <1>5, EmptyTyped DEF RetryLands, RetryFails, EndPass, Restart, PassInv, Base, TypeOK
<1>6. CASE UNCHANGED <<cphase, rec>>
  BY <1>6 DEF PassInv
<1>7. CASE \E p \in Pods : Admit(p) \/ Finish(p) \/ WritePhase(p) \/ Delete(p)
  BY <1>6, <1>7 DEF Admit, Finish, WritePhase, Delete, informer
<1>8. CASE \E c \in Containers : AskRefused(c) \/ \E k \in env.cards : Ask(c, k)
  BY <1>6, <1>8 DEF AskRefused, Ask, informer
<1>9. CASE DeliverLedger \/ CallStep
  BY <1>6, <1>9
     DEF DeliverLedger, CallStep, Decide, DecideRefused, Build, Land, Unreserve, Respond,
         RefuseLate, UndoLands, UndoFails, informer
<1>10. CASE UNCHANGED vars
  BY <1>6, <1>10 DEF vars, informer
<1> QED
  BY <1>1, <1>2, <1>3, <1>4, <1>5, <1>7, <1>8, <1>9, <1>10 DEF Next, PassStep

LEMMA NextClaim ==
    ASSUME Base, ~env.late, ClaimInv, [Next]_vars
    PROVE  ClaimInv'
<1> USE DEF ClaimInv
<1>1. PassInv'
  BY NextPass
<1> DEFINE Goal == CoverInv' /\ CacheInv' /\ PatchInv'
<1> SUFFICES Goal
  BY <1>1
<1>2. ASSUME NEW p \in Pods, Deliver(p) PROVE Goal
  BY <1>2, DeliverClaim
<1>3. ASSUME NEW p \in Pods, Admit(p) PROVE Goal
  BY <1>3, AdmitClaim
<1>4. ASSUME NEW p \in Pods, Finish(p) PROVE Goal
  <2>1. UNCHANGED <<anno, cache, resv, call>> /\ Reported' \subseteq Reported
    BY <1>4 DEF Finish, cluster, informer, Reported
  <2> QED
    BY <2>1, ClaimSame
<1>5. ASSUME NEW p \in Pods, WritePhase(p) PROVE Goal
  <2>1. UNCHANGED <<anno, cache, resv, call>> /\ Reported' \subseteq Reported
    BY <1>5 DEF WritePhase, informer, kubelet, Reported
  <2> QED
    BY <2>1, ClaimSame
<1>6. ASSUME NEW p \in Pods, Delete(p) PROVE Goal
  BY <1>6, DeleteClaim
<1>7. CASE DeliverLedger
  <2>1. UNCHANGED <<anno, cache, resv, call>> /\ Reported' \subseteq Reported
    BY <1>7 DEF DeliverLedger, cluster, kubelet, Reported
  <2> QED
    BY <2>1, ClaimSame
<1>8. ASSUME NEW c \in Containers, AskRefused(c) PROVE Goal
  <2>1. UNCHANGED <<anno, cache, resv, call>> /\ Reported' \subseteq Reported
    BY <1>8 DEF AskRefused, cluster, informer, Reported
  <2> QED
    BY <2>1, ClaimSame
<1>9. ASSUME NEW c \in Containers, NEW k \in env.cards, Ask(c, k)
      PROVE  Goal
  BY <1>9, AskClaim
<1>10. CASE Decide
  BY <1>10, DecideClaim
<1>11. CASE DecideRefused
  <2>1. /\ call.at # "idle" /\ Refuse /\ admitted' = admitted /\ cache' = cache
        /\ \A c \in Containers : PodOf[c] # PodOf[call.for] =>
               anno'[c] = anno[c] /\ resv'[c] = resv[c]
    BY <1>11, CallFacts DEF DecideRefused, cluster, informer, Base, Active, TypeOK
  <2> QED
    BY <2>1, RefuseClaim
<1>12. CASE Build
  BY <1>12, BuildClaim
<1>13. CASE Land
  BY <1>13, LandClaim
<1>14. CASE Unreserve
  <2>1. /\ call.at # "idle" /\ Refuse /\ admitted' = admitted /\ cache' = cache
        /\ \A c \in Containers : PodOf[c] # PodOf[call.for] =>
               anno'[c] = anno[c] /\ resv'[c] = resv[c]
    BY <1>14, CallFacts DEF Unreserve, cluster, informer, Base, Active, TypeOK
  <2> QED
    BY <2>1, RefuseClaim
<1>15. CASE Respond
  BY <1>15, RespondClaim
<1>16. CASE RefuseLate
  BY <1>16, RefuseLateClaim
<1>17. CASE UndoLands
  <2>1. /\ call.at # "idle" /\ Refuse /\ admitted' = admitted /\ cache' = cache
        /\ \A c \in Containers : PodOf[c] # PodOf[call.for] =>
               anno'[c] = anno[c] /\ resv'[c] = resv[c]
    BY <1>17, CallFacts DEF UndoLands, informer, Write, Base, Active, TypeOK
  <2> QED
    BY <2>1, RefuseClaim
<1>18. CASE UndoFails
  <2>1. /\ call.at # "idle" /\ Refuse /\ admitted' = admitted /\ cache' = cache
        /\ \A c \in Containers : PodOf[c] # PodOf[call.for] =>
               anno'[c] = anno[c] /\ resv'[c] = resv[c]
    BY <1>18, CallFacts DEF UndoFails, cluster, informer, Base, Active, TypeOK
  <2> QED
    BY <2>1, RefuseClaim
<1>19. CASE Read
  <2>1. UNCHANGED <<anno, cache, resv, call>> /\ Reported' \subseteq Reported
    BY <1>19 DEF Read, cluster, informer, kubelet, Reported
  <2> QED
    BY <2>1, ClaimSame
<1>20. CASE Publish
  <2>1. rec.at = "publish" /\ Prune /\ UNCHANGED <<anno, cache, call, admitted, over>>
    BY <1>20 DEF Publish, cluster, informer, kubelet
  <2> QED
    BY <2>1, PruneClaim
<1>21. CASE NotPublished
  <2>1. rec.at = "publish" /\ Prune /\ UNCHANGED <<anno, cache, call, admitted, over>>
    BY <1>21 DEF NotPublished, cluster, informer, kubelet
  <2> QED
    BY <2>1, PruneClaim
<1>22. ASSUME NEW c \in Containers, Retry(c) PROVE Goal
  <2>1. UNCHANGED <<anno, cache, resv, call>> /\ Reported' \subseteq Reported
    BY <1>22 DEF Retry, cluster, informer, kubelet, Reported
  <2> QED
    BY <2>1, ClaimSame
<1>23. CASE RetryLands
  BY <1>23, RetryLandsClaim
<1>24. CASE RetryFails
  <2>1. UNCHANGED <<anno, cache, resv, call>> /\ Reported' \subseteq Reported
    BY <1>24 DEF RetryFails, cluster, informer, kubelet, Reported
  <2> QED
    BY <2>1, ClaimSame
<1>25. CASE EndPass
  <2>1. UNCHANGED <<anno, cache, resv, call>> /\ Reported' \subseteq Reported
    BY <1>25 DEF EndPass, cluster, informer, kubelet, Reported
  <2> QED
    BY <2>1, ClaimSame
<1>26. CASE Restart
  BY <1>26, RestartClaim
<1>27. CASE UNCHANGED vars
  <2>1. UNCHANGED <<anno, cache, resv, call>> /\ Reported' \subseteq Reported
    BY <1>27 DEF vars, cluster, informer, kubelet, Reported
  <2> QED
    BY <2>1, ClaimSame
<1> QED
  BY <1>2, <1>3, <1>4, <1>5, <1>6, <1>7, <1>8, <1>9, <1>10, <1>11, <1>12,
     <1>13, <1>14, <1>15, <1>16, <1>17, <1>18, <1>19, <1>20, <1>21, <1>22,
     <1>23, <1>24, <1>25, <1>26, <1>27
     DEF Next, CallStep, PassStep

LEMMA InitClaim == Init => ClaimInv
BY DEF Init, ClaimInv, PassInv, CoverInv, CacheInv, PatchInv, NoPass, NoCall, Nothing, Reported

\* A claim the annotation has of a Pod kubelet reports stays.
LEMMA ClaimKept ==
    ASSUME Base, ClaimInv, [Next]_vars, NEW c \in Containers,
           PodOf[c] \in Reported, PodOf[c] \in Reported', anno[c] # Nil
    PROVE  anno'[c] = anno[c]
<1>1. ASSUME NEW p \in Pods, Delete(p) PROVE anno'[c] = anno[c]
  <2>1. p \notin Reported
    BY <1>1, ReportedPending DEF Delete
  <2> QED
    BY <1>1, <2>1 DEF Delete
<1>2. CASE Land
  BY <1>2, LandKeeps DEF ClaimInv
<1>3. CASE UndoLands
  <2>1. PodOf[c] # PodOf[call.for]
    BY <1>3 DEF UndoLands, Refuse, Reported
  <2>2. PodOf[call.who] = PodOf[call.for]
    BY <1>3, CallFacts DEF UndoLands, Active, Base
  <2> QED
    BY <1>3, <2>1, <2>2 DEF UndoLands, Write
<1>4. CASE RetryLands
  <2>1. PodOf[c] # PodOf[rec.who]
    BY <1>4 DEF RetryLands, Base, BackInv, Reported
  <2> QED
    BY <1>4, <2>1 DEF RetryLands, Write
<1>5. CASE anno' = anno
  BY <1>5
<1>6. CASE \E p \in Pods : Deliver(p) \/ Admit(p) \/ Finish(p) \/ WritePhase(p)
  BY <1>5, <1>6 DEF Deliver, Admit, Finish, WritePhase, cluster
<1>7. CASE \E d \in Containers : AskRefused(d) \/ Retry(d) \/ \E k \in env.cards : Ask(d, k)
  BY <1>5, <1>7 DEF AskRefused, Retry, Ask, cluster
<1>8. CASE DeliverLedger \/ Decide \/ DecideRefused \/ Build \/ Unreserve \/ Respond
           \/ RefuseLate \/ UndoFails
  BY <1>5, <1>8
     DEF DeliverLedger, Decide, DecideRefused, Build, Unreserve, Respond, RefuseLate,
         UndoFails, cluster
<1>9. CASE Read \/ Publish \/ NotPublished \/ RetryFails \/ EndPass \/ Restart
  BY <1>5, <1>9 DEF Read, Publish, NotPublished, RetryFails, EndPass, Restart, cluster
<1>10. CASE UNCHANGED vars
  BY <1>5, <1>10 DEF vars, cluster
<1> QED
  BY <1>1, <1>2, <1>3, <1>4, <1>6, <1>7, <1>8, <1>9, <1>10 DEF Next, CallStep, PassStep

-----------------------------------------------------------------------------
(* What kubelet holds is what the annotation says, if the webhook lets one  *)
(* container of a Pod at most ask for a slice.                              *)

\* Steps at which kubelet comes to hold nothing, and at which no call comes nearer
\* to its answer than it was.
Quiet ==
    /\ env' = env /\ held' = held
    /\ \A c \in Containers : Holds(c)' => Holds(c)
    /\ call'.at # "idle" => call.at # "idle" /\ call'.for = call.for
    /\ Active' => Active /\ call'.who = call.who /\ call'.card = call.card

\* Steps that leave the call alone or end it.
LEMMA QuietSame ==
    ASSUME Base, env' = env, held' = held, call' = call \/ call'.at = "idle",
           \A p \in Reported' : p \in Reported \/ p \notin admitted
    PROVE  Quiet
<1>1. \A c \in Containers : Holds(c)' => Holds(c)
  BY DEF Holds, Base, PodInv
<1> QED
  BY <1>1 DEF Quiet, Active

\* A call that goes on.
LEMMA QuietCall ==
    ASSUME Base, Build \/ Land \/ RefuseLate
    PROVE  Quiet
<1>1. UNCHANGED <<env, held, admitted, over>> /\ Active
  BY DEF Build, Land, RefuseLate, cluster, kubelet, Active
<1>2. call'.for = call.for /\ call'.who = call.who /\ call'.card = call.card
  <2>1. CASE Build
    BY <2>1 DEF Build, Base, TypeOK
  <2>2. CASE Land
    BY <2>2 DEF Land, Base, TypeOK
  <2>3. CASE RefuseLate
    BY <2>3 DEF RefuseLate, Base, TypeOK
  <2> QED
    BY <2>1, <2>2, <2>3
<1>3. \A c \in Containers : Holds(c)' => Holds(c)
  BY <1>1 DEF Holds, Reported
<1> QED
  BY <1>1, <1>2, <1>3 DEF Quiet, Active

LEMMA Steps ==
    ASSUME Base, [Next]_vars
    PROVE  \/ Quiet \/ Decide \/ Respond
           \/ \E c \in Containers, k \in env.cards : Ask(c, k)
<1> DEFINE Alone == /\ env' = env /\ held' = held /\ (call' = call \/ call'.at = "idle")
                    /\ \A p \in Reported' : p \in Reported \/ p \notin admitted
<1>1. CASE Alone
  BY <1>1, QuietSame
<1>2. CASE Build \/ Land \/ RefuseLate
  BY <1>2, QuietCall
<1>3. CASE \E p \in Pods : Deliver(p) \/ Admit(p) \/ Finish(p) \/ WritePhase(p) \/ Delete(p)
  BY <1>1, <1>3 DEF Deliver, Admit, Finish, WritePhase, Delete, kubelet, Reported
<1>4. CASE \E d \in Containers : AskRefused(d) \/ Retry(d)
  BY <1>1, <1>4 DEF AskRefused, Retry, kubelet, Reported
<1>5. CASE DecideRefused \/ Unreserve \/ UndoLands \/ UndoFails
  BY <1>1, <1>5, EmptyTyped DEF DecideRefused, Unreserve, UndoLands, UndoFails, Refuse, Reported
<1>6. CASE DeliverLedger \/ Read \/ Publish \/ NotPublished \/ RetryLands \/ RetryFails \/ EndPass
  BY <1>1, <1>6
     DEF DeliverLedger, Read, Publish, NotPublished, RetryLands, RetryFails, EndPass,
         kubelet, Reported
<1>7. CASE Restart
  BY <1>1, <1>7, EmptyTyped DEF Restart, Refuse, Reported
<1>8. CASE UNCHANGED vars
  BY <1>1, <1>8 DEF vars, kubelet, Reported
<1> QED
  BY <1>2, <1>3, <1>4, <1>5, <1>6, <1>7, <1>8 DEF Next, CallStep, PassStep

\* Rule 6 of validatePodAcceleratorRequest: at most one container of a Pod asks for a
\* slice.
OneSlice ==
    \A c, d \in Containers :
        /\ PodOf[c] \in env.pods /\ PodOf[d] = PodOf[c]
        /\ Mode[c] = "sliced" /\ Mode[d] = "sliced"
        => c = d

\* The annotation has what kubelet holds: of a slice at once, of a whole card by
\* the time the next container of the Pod is asked for, or the Pod runs.
Recorded(c) ==
    \/ Mode[c] = "sliced" \/ Served(PodOf[c])
    \/ call.at # "idle" /\ PodOf[call.for] = PodOf[c]

HoldInv == \A c \in Containers : Holds(c) /\ Recorded(c) => anno[c] = held[c]

\* With one slice a Pod, a call for a slice arrives at the container it is for.
LEMMA SliceCall ==
    ASSUME Base, OneSlice, call.at # "idle", NEW w \in Containers,
           PodOf[w] = PodOf[call.for], Mode[w] = "sliced", Mode[call.for] = "sliced"
    PROVE  w = call.for
<1>1. call.for \in Containers /\ PodOf[call.for] \in Reported
  BY CallFacts DEF Base
<1>2. PodOf[call.for] \in env.pods
  BY <1>1, ReportedPending DEF Base, PodInv
<1> QED
  BY <1>1, <1>2 DEF OneSlice

LEMMA QuietHold ==
    ASSUME Base, ClaimInv, HoldInv, [Next]_vars, Quiet
    PROVE  HoldInv'
<1> SUFFICES ASSUME NEW c \in Containers, Holds(c)', Recorded(c)' PROVE anno'[c] = held'[c]
  BY DEF HoldInv
<1>1. Holds(c) /\ held' = held
  BY DEF Quiet
<1>2. Recorded(c)
  BY DEF Quiet, Recorded, Served, Mode
<1>3. anno[c] = held[c] /\ anno[c] # Nil
  BY <1>1, <1>2 DEF HoldInv, Holds
<1>4. PodOf[c] \in Reported /\ PodOf[c] \in Reported'
  BY <1>1 DEF Holds
<1>5. anno'[c] = anno[c]
  BY <1>3, <1>4, ClaimKept
<1> QED
  BY <1>1, <1>3, <1>5

\* verifyKubeletAllocations: the next container is asked for only when the cache,
\* and so the annotation, has what kubelet holds.
LEMMA AskHold ==
    ASSUME Base, ClaimInv, HoldInv, NEW b \in Containers, NEW k \in env.cards, Ask(b, k)
    PROVE  HoldInv'
<1>1. UNCHANGED <<env, anno, held, admitted, over>>
  BY DEF Ask, cluster, kubelet
<1> SUFFICES ASSUME NEW c \in Containers, Holds(c) PROVE anno[c] = held[c]
  BY <1>1 DEF HoldInv, Holds, Reported
<1>2. CASE Mode[c] = "sliced"
  BY <1>2 DEF HoldInv, Recorded
<1>3. CASE Mode[c] # "sliced"
  <2>1. cphase[PodOf[c]] = "pending"
    BY DEF Base, ServedInv
  <2>2. cache[c] = held[c]
    BY <1>3, <2>1 DEF Ask, Agrees
  <2> QED
    BY <2>2 DEF ClaimInv, CacheInv, Holds
<1> QED
  BY <1>2, <1>3

\* The answer of a call that has landed is in the annotation.
LEMMA Landed ==
    ASSUME Base, ClaimInv, call.at = "respond"
    PROVE  /\ call.who \in Containers /\ anno[call.who] = call.card
           /\ resv[call.who] = call.card /\ call.card # Nil
<1>1. call.who \in Containers /\ PodOf[call.who] \in Reported /\ call.card \in Cards
  BY CallFacts DEF Base, Active
<1>2. resv[call.who] = call.card
  BY DEF ClaimInv, PatchInv
<1>3. call.card # Nil
  BY <1>1, LedgerAssumption
<1>4. anno[call.who] = resv[call.who]
  BY <1>1, <1>2, <1>3 DEF ClaimInv, CoverInv, Busy
<1> QED
  BY <1>1, <1>2, <1>3, <1>4

LEMMA RespondHold ==
    ASSUME Base, ClaimInv, HoldInv, OneSlice, Respond
    PROVE  HoldInv'
<1>1. /\ call.at = "respond" /\ call'.at = "idle"
      /\ UNCHANGED <<env, anno, admitted, over>>
  BY EmptyTyped DEF Respond, cluster
<1>2. /\ call.for \in Containers /\ PodOf[call.for] \in Reported
      /\ call.who \in Containers /\ PodOf[call.who] = PodOf[call.for]
      /\ Mode[call.who] = Mode[call.for] /\ held[call.who] = Nil /\ held[call.for] = Nil
  BY <1>1, CallFacts DEF Base, Active, CallInv
<1>3. \/ \A c \in Containers : held'[c] = IF c = call.for THEN call.card ELSE held[c]
      \/ held' = held
  BY DEF Respond, Base, TypeOK
<1> SUFFICES ASSUME NEW c \in Containers, Holds(c)', Recorded(c)' PROVE anno[c] = held'[c]
  BY <1>1 DEF HoldInv
<1>4. PodOf[c] \in Reported /\ held'[c] # Nil
  BY <1>1 DEF Holds, Reported
<1>5. Mode[c] = "sliced" \/ \A d \in Own(PodOf[c]) : held'[d] # Nil
  BY <1>1 DEF Recorded, Served, Mode
<1>6. CASE c = call.for
  <2>1. held'[c] = call.card
    BY <1>2, <1>3, <1>4, <1>6
  <2>2. call.who = call.for
    <3>1. CASE Mode[c] = "sliced"
      BY <1>1, <1>2, <1>6, <3>1, SliceCall
    <3>2. CASE \A d \in Own(PodOf[c]) : held'[d] # Nil
      <4>1. held'[call.who] # Nil
        BY <1>2, <1>6, <3>2 DEF Own
      <4> QED
        BY <1>2, <1>3, <4>1
    <3> QED
      BY <1>5, <3>1, <3>2
  <2> QED
    BY <1>1, <1>6, <2>1, <2>2, Landed
<1>7. CASE c # call.for
  <2>1. held'[c] = held[c] /\ Holds(c)
    BY <1>3, <1>4, <1>7 DEF Holds
  <2>2. Recorded(c)
    <3>1. CASE PodOf[c] = PodOf[call.for] \/ Mode[c] = "sliced"
      BY <1>1, <3>1 DEF Recorded
    <3>2. CASE PodOf[c] # PodOf[call.for] /\ \A d \in Own(PodOf[c]) : held'[d] # Nil
      <4>1. \A d \in Own(PodOf[c]) : held[d] # Nil
        BY <1>3, <3>2 DEF Own
      <4> QED
        BY <4>1 DEF Recorded, Served
    <3> QED
      BY <1>5, <3>1, <3>2
  <2> QED
    BY <2>1, <2>2 DEF HoldInv
<1> QED
  BY <1>6, <1>7

\* decideAllocation alone gives nobody a card.
LEMMA DecideHold ==
    ASSUME Base, ClaimInv, HoldInv, Decide
    PROVE  HoldInv'
<1>1. /\ UNCHANGED <<env, anno, held, admitted, over>>
      /\ call.at # "idle" /\ call'.for = call.for
  BY DEF Decide, cluster, kubelet, Base, TypeOK
<1> QED
  BY <1>1 DEF HoldInv, Recorded, Holds, Served, Reported, Mode

LEMMA NextHold ==
    ASSUME Base, ClaimInv, HoldInv, OneSlice, [Next]_vars
    PROVE  HoldInv'
BY Steps, QuietHold, AskHold, RespondHold, DecideHold

-----------------------------------------------------------------------------
(* The slices on a card fit into it.                                        *)

SlicesOn(k) == {c \in Containers : Holds(c) /\ held[c] = k /\ Mode[c] = "sliced"}

\* What is held fits, and so will what a call has decided to give.
SliceInv ==
    \A k \in Cards :
        /\ Sum(Units, SlicesOn(k)) <= Whole
        /\ Active /\ Mode[call.for] = "sliced" /\ call.card = k =>
              /\ call.who = call.for
              /\ Sum(Units, SlicesOn(k)) + Units[call.for] <= Whole

LEMMA UnitsOfSlices ==
    ASSUME NEW S, S \subseteq Containers
    PROVE  /\ IsFiniteSet(S) /\ (\A c \in S : Units[c] \in Nat) /\ Sum(Units, S) \in Nat
           /\ \A T \in SUBSET S : Sum(Units, T) \in Nat /\ Sum(Units, T) <= Sum(Units, S)
<1>1. IsFiniteSet(S) /\ \A c \in Containers : Units[c] \in Nat
  BY LedgerAssumption, FS_Subset
<1>2. Sum(Units, S) \in Nat
  BY <1>1, SumTake
<1>3. ASSUME NEW T \in SUBSET S PROVE Sum(Units, T) \in Nat /\ Sum(Units, T) <= Sum(Units, S)
  <2>1. IsFiniteSet(T)
    BY <1>1, FS_Subset
  <2>2. Sum(Units, T) \in Nat
    BY <1>1, <2>1, SumTake
  <2>3. Sum(Units, T) <= Sum(Units, S)
    BY <1>1, SumSubset
  <2> QED
    BY <2>2, <2>3
<1> QED
  BY <1>1, <1>2, <1>3

LEMMA QuietSlices ==
    ASSUME Base, SliceInv, Quiet
    PROVE  SliceInv'
<1> SUFFICES ASSUME NEW k \in Cards
             PROVE  /\ Sum(Units, SlicesOn(k)') <= Whole
                    /\ Active' /\ Mode'[call'.for] = "sliced" /\ call'.card = k =>
                          /\ call'.who = call'.for
                          /\ Sum(Units, SlicesOn(k)') + Units[call'.for] <= Whole
  BY DEF SliceInv
<1>1. SlicesOn(k)' \subseteq SlicesOn(k) /\ SlicesOn(k) \subseteq Containers
  BY DEF SlicesOn, Quiet, Mode
<1>2. /\ Sum(Units, SlicesOn(k)') <= Sum(Units, SlicesOn(k))
      /\ Sum(Units, SlicesOn(k)') \in Nat /\ Sum(Units, SlicesOn(k)) \in Nat
  BY <1>1, UnitsOfSlices
<1>3. Whole \in Nat
  BY LedgerAssumption
<1>4. Sum(Units, SlicesOn(k)') <= Whole
  BY <1>2, <1>3 DEF SliceInv
<1>5. ASSUME Active', Mode'[call'.for] = "sliced", call'.card = k
      PROVE  /\ call'.who = call'.for
             /\ Sum(Units, SlicesOn(k)') + Units[call'.for] <= Whole
  <2>1. /\ Active /\ call'.for = call.for /\ call'.who = call.who /\ call'.card = call.card
        /\ Mode' = Mode
    BY <1>5 DEF Quiet, Active, Mode
  <2>2. /\ call.who = call.for
        /\ Sum(Units, SlicesOn(k)) + Units[call.for] <= Whole
    BY <1>5, <2>1 DEF SliceInv
  <2>3. Units[call.for] \in Nat
    BY <2>1, CallFacts, LedgerAssumption DEF Base, Active
  <2> QED
    BY <1>2, <1>3, <2>1, <2>2, <2>3
<1> QED
  BY <1>4, <1>5

\* rejectSlicedOvercommit counts all that is held of the card.
LEMMA DecideSlices ==
    ASSUME Base, ClaimInv, HoldInv, OneSlice, SliceInv, Decide
    PROVE  SliceInv'
<1>1. PICK w \in Containers : Decided(w)
  BY DecideFacts DEF Base
<1>2. /\ call.at = "decide" /\ call'.for = call.for /\ call'.who = w /\ call'.card = call.card
      /\ UNCHANGED <<env, held, admitted, over>> /\ Mode[w] = Mode[call.for]
  BY <1>1 DEF Decided, Base, TypeOK
<1>3. PodOf[w] = PodOf[call.for] /\ held[w] = Nil
  BY <1>1 DEF Decided, Base, CallInv
<1>4. \A k : SlicesOn(k)' = SlicesOn(k)
  BY <1>2 DEF SlicesOn, Holds, Reported, Mode
<1> SUFFICES ASSUME Mode[w] = "sliced"
             PROVE  /\ w = call.for
                    /\ Sum(Units, SlicesOn(call.card)) + Units[w] <= Whole
  <2>1. Mode' = Mode
    BY <1>2 DEF Mode
  <2> QED
    BY <1>2, <1>4, <2>1 DEF SliceInv
<1>5. w = call.for
  BY <1>2, <1>3, SliceCall
<1> DEFINE O == Others(w, call.card)
<1>6. Sum(Units, O) + Units[w] <= Whole
  <2>1. Room(w, call.card)
    BY <1>1 DEF Decided, Acceptable
  <2>2. MapThenSumSet(LAMBDA d : Units[d], O) = Sum(Units, O)
    BY Zenon DEF Sum, MapThenSumSet, MapThenFoldSet
  <2> QED
    BY <2>1, <2>2 DEF Room
<1>7. SlicesOn(call.card) \subseteq O
  <2> SUFFICES ASSUME NEW d \in Containers, Holds(d), held[d] = call.card, Mode[d] = "sliced"
               PROVE  d \in O
    BY DEF SlicesOn
  <2>1. d # w /\ cphase[PodOf[d]] = "pending"
    BY <1>3 DEF Holds, Base, ServedInv
  <2>2. PodOf[d] \in Reported /\ pend[d] = None /\ ~Busy(d)
    BY <1>2 DEF Holds, Base, BackInv, Reported, Busy
  <2>3. ClaimOf(d) = anno[d]
    BY <2>2 DEF ClaimOf, ClaimInv, CoverInv
  <2>4. anno[d] = held[d]
    BY DEF HoldInv, Recorded
  <2> QED
    BY <2>1, <2>3, <2>4 DEF Others
<1>8. O \subseteq Containers
  BY DEF Others
<1> HIDE DEF O
<1>9. /\ Sum(Units, SlicesOn(call.card)) <= Sum(Units, O)
      /\ Sum(Units, SlicesOn(call.card)) \in Nat /\ Sum(Units, O) \in Nat
  BY <1>7, <1>8, UnitsOfSlices
<1>10. Whole \in Nat /\ Units[w] \in Nat
  BY LedgerAssumption
<1> QED
  BY <1>5, <1>6, <1>9, <1>10

LEMMA RespondSlices ==
    ASSUME Base, SliceInv, Respond
    PROVE  SliceInv'
<1>1. /\ call.at = "respond" /\ call'.at = "idle"
      /\ UNCHANGED <<env, admitted, over>>
      /\ \A c \in Containers : c # call.for => held'[c] = held[c]
      /\ held'[call.for] \in {held[call.for], call.card}
  BY EmptyTyped DEF Respond, Base, TypeOK
<1>2. /\ call.for \in Containers /\ held[call.for] = Nil
      /\ call.card \in Cards /\ Active
  BY <1>1, CallFacts DEF Base, Active
<1> SUFFICES ASSUME NEW k \in Cards PROVE Sum(Units, SlicesOn(k)') <= Whole
  BY <1>1 DEF SliceInv, Active
<1>3. SlicesOn(k) \subseteq Containers /\ Whole \in Nat
  BY LedgerAssumption DEF SlicesOn
<1>4. Sum(Units, SlicesOn(k)) \in Nat /\ Sum(Units, SlicesOn(k)) <= Whole
  BY <1>3, UnitsOfSlices DEF SliceInv
<1>5. CASE SlicesOn(k)' \subseteq SlicesOn(k)
  <2>1. /\ Sum(Units, SlicesOn(k)') <= Sum(Units, SlicesOn(k))
        /\ Sum(Units, SlicesOn(k)') \in Nat
    BY <1>3, <1>5, UnitsOfSlices
  <2> QED
    BY <1>3, <1>4, <2>1
<1>6. CASE ~(SlicesOn(k)' \subseteq SlicesOn(k))
  <2>1. /\ call.card = k /\ Mode[call.for] = "sliced"
        /\ SlicesOn(k)' \subseteq SlicesOn(k) \cup {call.for}
    BY <1>1, <1>2, <1>6, LedgerAssumption DEF SlicesOn, Holds, Reported, Mode
  <2>2. Sum(Units, SlicesOn(k)) + Units[call.for] <= Whole
    BY <1>2, <2>1 DEF SliceInv
  <2>3. call.for \notin SlicesOn(k)
    BY <1>2, <2>1, LedgerAssumption DEF SlicesOn
  <2> DEFINE S == SlicesOn(k) \cup {call.for}
  <2>4. S \subseteq Containers
    BY <1>2, <1>3
  <2>5. IsFiniteSet(SlicesOn(k)) /\ \A c \in S : Units[c] \in Nat
    BY <1>3, <2>4, UnitsOfSlices
  <2>6. Sum(Units, S) = Sum(Units, SlicesOn(k)) + Units[call.for]
    BY <2>3, <2>5, SumAdd
  <2> HIDE DEF S
  <2>7. /\ Sum(Units, SlicesOn(k)') <= Sum(Units, S)
        /\ Sum(Units, SlicesOn(k)') \in Nat /\ Sum(Units, S) \in Nat
    BY <2>1, <2>4, UnitsOfSlices DEF S
  <2> QED
    BY <1>3, <2>2, <2>6, <2>7
<1> QED
  BY <1>5, <1>6

LEMMA AskSlices ==
    ASSUME Base, SliceInv, NEW b \in Containers, NEW c \in env.cards, Ask(b, c)
    PROVE  SliceInv'
<1>1. call'.at = "decide" /\ UNCHANGED <<env, held, admitted, over>>
  BY DEF Ask, NoCall, kubelet
<1>2. \A k : SlicesOn(k)' = SlicesOn(k)
  BY <1>1 DEF SlicesOn, Holds, Reported, Mode
<1> QED
  BY <1>1, <1>2 DEF SliceInv, Active

LEMMA NextSlices ==
    ASSUME Base, ClaimInv, HoldInv, OneSlice, SliceInv, [Next]_vars
    PROVE  SliceInv'
BY Steps, QuietSlices, DecideSlices, RespondSlices, AskSlices

-----------------------------------------------------------------------------
(* A card is reserved in one mode, as long as the reservations are not lost *)
(* with a restart.                                                          *)

\* The Pod whose call is giving its reservation back.
Undoing(p) == call.at = "undo" /\ p = PodOf[call.for]

\* Reservations of a card agree on its mode, and cover what kubelet holds.
ModeInv ==
    /\ \A c, d \in Containers : resv[c] # Nil /\ resv[c] = resv[d] => Mode[c] = Mode[d]
    /\ \A c \in Containers : Holds(c) /\ ~Undoing(PodOf[c]) =>
          \E d \in Own(PodOf[c]) : Mode[d] = Mode[c] /\ resv[d] = held[c]

\* Reservations are only dropped, and of no Pod that may run.
Kept ==
    /\ env' = env /\ held' = held
    /\ \A c \in Containers : resv'[c] \in {Nil, resv[c]}
    /\ \A c \in Containers : Holds(c)' => Holds(c)
    /\ \A c \in Containers : PodOf[c] \in Reported' /\ Undoing(PodOf[c]) => Undoing(PodOf[c])'
    /\ \A c \in Containers :
          PodOf[c] \in Reported /\ PodOf[c] \in Reported' /\ ~Undoing(PodOf[c])' =>
              resv'[c] = resv[c]

LEMMA KeptModes ==
    ASSUME Base, ModeInv, Kept
    PROVE  ModeInv'
<1>1. Mode' = Mode
  BY DEF Kept, Mode
<1>2. \A c, d \in Containers : resv'[c] # Nil /\ resv'[c] = resv'[d] => Mode[c] = Mode[d]
  BY DEF Kept, ModeInv
<1>3. ASSUME NEW c \in Containers, Holds(c)', ~Undoing(PodOf[c])'
      PROVE  \E d \in Own(PodOf[c]) : Mode[d] = Mode[c] /\ resv'[d] = held'[c]
  <2>1. Holds(c) /\ held'[c] = held[c] /\ PodOf[c] \in Reported /\ PodOf[c] \in Reported'
    BY <1>3 DEF Kept, Holds
  <2>2. ~Undoing(PodOf[c])
    BY <1>3, <2>1 DEF Kept
  <2>3. PICK d \in Own(PodOf[c]) : Mode[d] = Mode[c] /\ resv[d] = held[c]
    BY <2>1, <2>2 DEF ModeInv
  <2>4. resv'[d] = resv[d]
    BY <1>3, <2>1 DEF Own, Kept
  <2> QED
    BY <2>1, <2>3, <2>4
<1> QED
  BY <1>1, <1>2, <1>3 DEF ModeInv

\* Steps that leave the reservations and the call alone.
LEMMA KeptSame ==
    ASSUME Base, UNCHANGED <<env, held, resv, call>>,
           \A p \in Reported' : p \in Reported \/ p \notin admitted
    PROVE  Kept
<1>1. \A c \in Containers : Holds(c)' => Holds(c)
  BY DEF Holds, Base, PodInv
<1> QED
  BY <1>1 DEF Kept, Undoing

\* A call that is refused takes its Pod with it.
LEMMA KeptRefuse ==
    ASSUME Base, call.at # "idle", Refuse, UNCHANGED <<env, held, admitted>>,
           \A c \in Containers : \/ resv'[c] = resv[c]
                                 \/ resv'[c] = Nil /\ PodOf[c] = PodOf[call.for]
    PROVE  Kept
<1>1. call'.at = "idle" /\ over' = over \cup {PodOf[call.for]}
  BY EmptyTyped DEF Refuse
<1>2. \A p : p \in Reported' => p \in Reported /\ p # PodOf[call.for]
  BY <1>1 DEF Reported
<1>3. \A c \in Containers : Holds(c)' => Holds(c)
  BY <1>2 DEF Holds
<1> QED
  BY <1>2, <1>3 DEF Kept, Undoing

\* pruneReservations drops none of a Pod kubelet reports.
LEMMA KeptPrune ==
    ASSUME Base, PassInv, Publish \/ NotPublished
    PROVE  Kept
<1>1. rec.at = "publish" /\ Prune /\ UNCHANGED <<env, held, admitted, over, call>>
  BY DEF Publish, NotPublished, cluster, kubelet
<1>2. \A c \in Containers : PodOf[c] \in Reported => resv'[c] = resv[c]
  BY <1>1, PruneKeeps
<1>3. \A c \in Containers : resv'[c] \in {Nil, resv[c]}
  BY <1>1, Pruned DEF Base
<1>4. \A c \in Containers : Holds(c)' => Holds(c)
  BY <1>1 DEF Holds, Reported
<1> QED
  BY <1>1, <1>2, <1>3, <1>4 DEF Kept, Undoing

\* releaseAllocation settles the reservation while the Pod is not yet refused.
LEMMA KeptRefuseLate ==
    ASSUME Base, PatchInv, RefuseLate
    PROVE  Kept
<1>1. /\ call.at = "respond" /\ call'.at = "undo" /\ call'.for = call.for
      /\ UNCHANGED <<env, held, admitted, over>>
      /\ \A c \in Containers : resv'[c] = IF c = call.who THEN call.prior ELSE resv[c]
  BY DEF RefuseLate, cluster, kubelet, Base, TypeOK
<1>2. PodOf[call.who] = PodOf[call.for] /\ call.prior \in {Nil, call.card}
  BY <1>1 DEF Base, CallInv, Active
<1>3. resv[call.who] = call.card
  BY <1>1 DEF PatchInv
<1>4. \A c \in Containers : Holds(c)' => Holds(c)
  BY <1>1 DEF Holds, Reported
<1>5. \A c \in Containers : resv'[c] \in {Nil, resv[c]}
  BY <1>1, <1>2, <1>3
<1>6. \A c \in Containers : ~Undoing(PodOf[c])' => resv'[c] = resv[c]
  BY <1>1, <1>2 DEF Undoing
<1> QED
  BY <1>1, <1>4, <1>5, <1>6 DEF Kept, Undoing

\* rejectCrossModeCards: the card joins reservations of its own mode only.
LEMMA DecideModes ==
    ASSUME Base, ModeInv, Decide
    PROVE  ModeInv'
<1>1. PICK w \in Containers : Decided(w)
  BY DecideFacts DEF Base
<1>2. /\ call.at = "decide" /\ call'.at = "build" /\ ClaimOf(w) \in {Nil, call.card}
      /\ UNCHANGED <<env, held, admitted, over>>
      /\ \A c \in Containers : resv'[c] = IF c = w THEN call.card ELSE resv[c]
  BY <1>1 DEF Decided, Base, TypeOK
<1>3. Mode' = Mode /\ \A c \in Containers : Mode[c] \in Modes
  BY <1>2, ModeType DEF Mode, Base
<1>4. resv[w] \in {Nil, call.card}
  BY <1>2 DEF ClaimOf
<1>5. ASSUME NEW d \in Containers, resv[d] = call.card PROVE Mode[d] = Mode[w]
  <2>1. PICK m \in ReservedModes(call.card) : Acceptable(w, m)
    BY <1>1 DEF Decided
  <2>2. PICK e \in Containers : resv[e] = call.card /\ m = Mode[e]
    BY <1>5 DEF ReservedModes
  <2>3. m \in {Nil, Mode[w]}
    BY <2>1 DEF Acceptable, HeldInOtherMode
  <2>4. Mode[e] = Mode[w]
    BY <1>3, <2>2, <2>3, LedgerAssumption
  <2>5. call.card # Nil
    BY <1>2, CallFacts, LedgerAssumption DEF Base
  <2> QED
    BY <1>5, <2>2, <2>4, <2>5 DEF ModeInv
<1>6. \A c, d \in Containers : resv'[c] # Nil /\ resv'[c] = resv'[d] => Mode[c] = Mode[d]
  BY <1>2, <1>5 DEF ModeInv
<1>7. ASSUME NEW c \in Containers, Holds(c)'
      PROVE  \E d \in Own(PodOf[c]) : Mode[d] = Mode[c] /\ resv'[d] = held'[c]
  <2>1. Holds(c) /\ held'[c] = held[c] /\ held[c] # Nil
    BY <1>2, <1>7 DEF Holds, Reported
  <2>2. PICK d \in Own(PodOf[c]) : Mode[d] = Mode[c] /\ resv[d] = held[c]
    BY <1>2, <2>1 DEF ModeInv, Undoing
  <2>3. resv'[d] = resv[d]
    BY <1>2, <1>4, <2>1, <2>2 DEF Own
  <2> QED
    BY <2>1, <2>2, <2>3
<1> QED
  BY <1>3, <1>6, <1>7 DEF ModeInv

\* The answer is covered by the reservation that was made for it.
LEMMA RespondModes ==
    ASSUME Base, ClaimInv, ModeInv, Respond
    PROVE  ModeInv'
<1>1. /\ call.at = "respond" /\ UNCHANGED <<env, resv, admitted, over>>
      /\ \A c \in Containers : c # call.for => held'[c] = held[c]
      /\ held'[call.for] \in {held[call.for], call.card}
  BY DEF Respond, Base, TypeOK
<1>2. /\ call.for \in Containers /\ held[call.for] = Nil
      /\ PodOf[call.who] = PodOf[call.for] /\ Mode[call.who] = Mode[call.for]
  BY <1>1, CallFacts DEF Base, Active, CallInv
<1>3. Mode' = Mode
  BY <1>1 DEF Mode
<1>4. ASSUME NEW c \in Containers, Holds(c)'
      PROVE  \E d \in Own(PodOf[c]) : Mode[d] = Mode[c] /\ resv[d] = held'[c]
  <2>1. PodOf[c] \in Reported /\ held'[c] # Nil
    BY <1>1, <1>4 DEF Holds, Reported
  <2>2. CASE c = call.for
    <3>1. held'[c] = call.card
      BY <1>1, <1>2, <2>1, <2>2
    <3>2. call.who \in Containers /\ resv[call.who] = call.card
      BY <1>1, Landed
    <3>3. call.who \in Own(PodOf[c])
      BY <1>2, <2>2, <3>2 DEF Own
    <3> QED
      BY <1>2, <2>2, <3>1, <3>2, <3>3
  <2>3. CASE c # call.for
    BY <1>1, <2>1, <2>3 DEF ModeInv, Undoing, Holds
  <2> QED
    BY <2>2, <2>3
<1> QED
  BY <1>1, <1>3, <1>4 DEF ModeInv

\* A call that has not yet decided, or is on its way to the API.
LEMMA CallModes ==
    ASSUME Base, ModeInv,
           Build \/ Land \/ \E c \in Containers, k \in env.cards : Ask(c, k)
    PROVE  ModeInv'
<1>1. /\ UNCHANGED <<env, held, resv, admitted, over>> /\ call.at # "undo"
      /\ call'.at # "undo"
  BY DEF Build, Land, Ask, NoCall, kubelet, Base, TypeOK
<1> QED
  BY <1>1 DEF ModeInv, Mode, Holds, Reported, Undoing

LEMMA NextModes ==
    ASSUME Base, ClaimInv, ModeInv, env.restarts = 0, [Next]_vars
    PROVE  ModeInv'
<1> DEFINE Alone == /\ UNCHANGED <<env, held, resv, call>>
                    /\ \A p \in Reported' : p \in Reported \/ p \notin admitted
<1>1. CASE Alone
  BY <1>1, KeptSame, KeptModes
<1>2. CASE \E p \in Pods : Deliver(p) \/ Admit(p) \/ Finish(p) \/ WritePhase(p) \/ Delete(p)
  BY <1>1, <1>2 DEF Deliver, Admit, Finish, WritePhase, Delete, kubelet, Reported
<1>3. CASE \E c \in Containers : AskRefused(c) \/ Retry(c)
  BY <1>1, <1>3 DEF AskRefused, Retry, kubelet, Reported
<1>4. CASE DeliverLedger \/ Read \/ RetryLands \/ RetryFails \/ EndPass
  BY <1>1, <1>4 DEF DeliverLedger, Read, RetryLands, RetryFails, EndPass, kubelet, Reported
<1>5. CASE UNCHANGED vars
  BY <1>1, <1>5 DEF vars, kubelet, Reported
<1>6. CASE DecideRefused \/ Unreserve \/ UndoLands \/ UndoFails
  <2>1. /\ call.at # "idle" /\ Refuse /\ UNCHANGED <<env, held, admitted>>
        /\ \A c \in Containers : \/ resv'[c] = resv[c]
                                 \/ resv'[c] = Nil /\ PodOf[c] = PodOf[call.for]
    BY <1>6, CallFacts
       DEF DecideRefused, Unreserve, UndoLands, UndoFails, Base, TypeOK, Active
  <2> QED
    BY <2>1, KeptRefuse, KeptModes
<1>7. CASE Publish \/ NotPublished
  BY <1>7, KeptPrune, KeptModes DEF ClaimInv
<1>8. CASE RefuseLate
  BY <1>8, KeptRefuseLate, KeptModes DEF ClaimInv
<1>9. CASE Decide
  BY <1>9, DecideModes
<1>10. CASE Respond
  BY <1>10, RespondModes
<1>11. CASE Build \/ Land \/ \E c \in Containers, k \in env.cards : Ask(c, k)
  BY <1>11, CallModes
<1>12. ~Restart
  BY DEF Restart, Base, TypeOK
<1> QED
  BY <1>2, <1>3, <1>4, <1>5, <1>6, <1>7, <1>8, <1>9, <1>10, <1>11, <1>12
     DEF Next, CallStep, PassStep

-----------------------------------------------------------------------------
(* The theorems.                                                            *)

\* Each part under what it needs of the environment.
IndInv ==
    /\ Base
    /\ ~env.late => ClaimInv
    /\ ~env.late /\ OneSlice => HoldInv /\ SliceInv
    /\ ~env.late /\ env.restarts = 0 => ModeInv

LEMMA InitInv == Init => IndInv
<1> SUFFICES ASSUME Init PROVE IndInv
  OBVIOUS
<1>1. Base /\ ClaimInv
  BY InitBase, InitClaim
<1>2. \A c \in Containers : ~Holds(c) /\ resv[c] = Nil
  BY DEF Init, Holds, Reported, Nothing
<1>3. HoldInv /\ ModeInv
  BY <1>2 DEF HoldInv, ModeInv
<1>4. \A k \in Cards : Sum(Units, SlicesOn(k)) = 0
  <2> TAKE k \in Cards
  <2>1. SlicesOn(k) = {}
    BY <1>2 DEF SlicesOn
  <2> QED
    BY <2>1, SumEmpty
<1>5. SliceInv
  BY <1>4, LedgerAssumption DEF SliceInv, Init, NoCall, Active
<1> QED
  BY <1>1, <1>3, <1>5 DEF IndInv

LEMMA NextInv == IndInv /\ [Next]_vars => IndInv'
<1> SUFFICES ASSUME IndInv, [Next]_vars PROVE IndInv'
  OBVIOUS
<1>1. Base /\ Base'
  BY NextBase DEF IndInv
<1>2. env' = env
  BY EnvSame
<1>3. OneSlice' => OneSlice
  BY <1>2 DEF OneSlice, Mode
<1>4. ASSUME ~env.late PROVE ClaimInv'
  BY <1>1, <1>4, NextClaim DEF IndInv
<1>5. ASSUME ~env.late, OneSlice PROVE HoldInv' /\ SliceInv'
  BY <1>1, <1>5, NextHold, NextSlices DEF IndInv
<1>6. ASSUME ~env.late, env.restarts = 0 PROVE ModeInv'
  BY <1>1, <1>6, NextModes DEF IndInv
<1> QED
  BY <1>1, <1>2, <1>3, <1>4, <1>5, <1>6 DEF IndInv

\* IndInv holds throughout.
THEOREM LedgerInvariance == Spec => []IndInv
BY InitInv, NextInv, PTL DEF Spec

\* Every step of Allocate, Reconcile, kubelet and the informer keeps the types.
THEOREM LedgerTypes == Spec => []TypeOK
<1>1. IndInv => TypeOK
  BY DEF IndInv, Base
<1> QED
  BY <1>1, LedgerInvariance, PTL

\* patchAllocatingPod, releaseAllocation, retryPendingReleases: what the annotation
\* says a container of a reported Pod holds is never changed or taken back, with
\* any number of restarts, lost answers and failed writes.
THEOREM ClaimsKept == Spec => ClaimStays
<1> DEFINE Stays == ~env.late => \A c \in Containers :
                      PodOf[c] \in Reported /\ PodOf[c] \in Reported' /\ anno[c] # Nil =>
                          anno'[c] = anno[c]
<1>1. IndInv /\ [Next]_vars => [Stays]_vars
  BY ClaimKept DEF IndInv
<1> QED
  BY <1>1, LedgerInvariance, PTL DEF Spec, ClaimStays

\* A container that runs holds a card.
LEMMA RunsHold ==
    \A c \in Containers : Runs(c) => Holds(c) /\ Served(PodOf[c])
BY DEF Runs, Served, Own, Holds

\* patchAllocatingPod: the annotation has what every running container holds, with
\* any number of restarts, lost answers and failed writes, if no Pod reaches the
\* informer during a reconcile and the webhook keeps slices to one a Pod.
THEOREM DurableClaims == Spec => [](~env.late /\ OneSlice => DurableClaim)
<1>1. IndInv => (~env.late /\ OneSlice => DurableClaim)
  BY RunsHold DEF IndInv, HoldInv, Recorded, DurableClaim
<1> QED
  BY <1>1, LedgerInvariance, PTL

\* rejectSlicedOvercommit: the slices that run on a card fit into it, in the same
\* environments, although each call counts what it knows from a cache, its
\* reservations and the pending give-backs.
THEOREM SlicesFit == Spec => [](~env.late /\ OneSlice => SlicedFits)
<1>1. IndInv => (~env.late /\ OneSlice => SlicedFits)
  <2> SUFFICES ASSUME IndInv, ~env.late, OneSlice, NEW k \in Cards
               PROVE  MapThenSumSet(LAMBDA c : Units[c],
                          {c \in Containers : Runs(c) /\ held[c] = k /\ Mode[c] = "sliced"})
                        <= Whole
    BY DEF SlicedFits
  <2> DEFINE R == {c \in Containers : Runs(c) /\ held[c] = k /\ Mode[c] = "sliced"}
  <2>1. R \subseteq SlicesOn(k) /\ SlicesOn(k) \subseteq Containers
    BY RunsHold DEF SlicesOn
  <2> HIDE DEF R
  <2>2. MapThenSumSet(LAMBDA c : Units[c], R) = Sum(Units, R)
    BY Zenon DEF Sum, MapThenSumSet, MapThenFoldSet
  <2>3. /\ Sum(Units, R) <= Sum(Units, SlicesOn(k))
        /\ Sum(Units, R) \in Nat /\ Sum(Units, SlicesOn(k)) \in Nat
    BY <2>1, UnitsOfSlices
  <2>4. Sum(Units, SlicesOn(k)) <= Whole /\ Whole \in Nat
    BY LedgerAssumption DEF IndInv, SliceInv
  <2>5. Sum(Units, R) <= Whole
    BY <2>3, <2>4
  <2> QED
    BY <2>2, <2>5 DEF R
<1> QED
  BY <1>1, LedgerInvariance, PTL

\* rejectCrossModeCards: no card runs in two modes while the device manager stays
\* up, whatever is asked, lost, refused or given back, and however many containers
\* of a Pod ask for a slice.
THEOREM ModesOne == Spec => [](~env.late /\ env.restarts = 0 => OneMode)
<1>1. IndInv => (~env.late /\ env.restarts = 0 => OneMode)
  <2> SUFFICES ASSUME IndInv, ~env.late, env.restarts = 0,
                      NEW c \in Containers, NEW d \in Containers,
                      Runs(c), Runs(d), held[c] = held[d]
               PROVE  Mode[c] = Mode[d]
    BY DEF OneMode
  <2>1. ASSUME NEW b \in Containers, Runs(b) PROVE Holds(b) /\ ~Undoing(PodOf[b])
    <3>1. Holds(b) /\ Served(PodOf[b])
      BY <2>1, RunsHold
    <3>2. Undoing(PodOf[b]) => call.for \in Own(PodOf[b]) /\ held[call.for] = Nil
      BY CallFacts DEF Undoing, Own, IndInv, Base
    <3> QED
      BY <3>1, <3>2 DEF Served
  <2>2. PICK e \in Own(PodOf[c]) : Mode[e] = Mode[c] /\ resv[e] = held[c]
    BY <2>1 DEF IndInv, ModeInv
  <2>3. PICK g \in Own(PodOf[d]) : Mode[g] = Mode[d] /\ resv[g] = held[d]
    BY <2>1 DEF IndInv, ModeInv
  <2>4. e \in Containers /\ g \in Containers /\ resv[e] # Nil
    BY <2>1, <2>2, <2>3 DEF Own, Holds
  <2> QED
    BY <2>2, <2>3, <2>4 DEF IndInv, ModeInv
<1> QED
  BY <1>1, LedgerInvariance, PTL

=============================================================================
