-------------------------- MODULE ShimLedgerProofs --------------------------
(***************************************************************************)
(* Proofs about ShimLedger for any processes, threads, pointers, slots,     *)
(* figures and request sizes: IndInv is inductive, so the processes of a    *)
(* container stay within the figure, each is charged exactly what it holds, *)
(* and a request is refused only where there is no room for it.             *)
(***************************************************************************)
EXTENDS ShimLedger, SumTheorems

\* What the assumption on the constants says of a behaviour's environment.
LEMMA Bounds ==
    ASSUME TypeOK
    PROVE  /\ Pids \subseteq Nat \ {0} /\ IsFiniteSet(Pids) /\ IsFiniteSet(Thread)
           /\ \A th \in Thread : th[1] \in Pids
           /\ IsFiniteSet(Keys) /\ 0 \notin Keys
           /\ KeySlots \in Nat \ {0} /\ ProcessSlots \in Nat \ {0} /\ MaxBorn \in Nat
           /\ env.threads \subseteq Thread /\ env.born \in 0..MaxBorn /\ Figure \in Nat \ {0}
           /\ env.sizes \subseteq Nat /\ env.pads \subseteq Nat
BY ShimAssumption DEF TypeOK, Figure

\* The allowance is a number, and no allocation takes more beyond its size.
LEMMA SlackBounds ==
    ASSUME TypeOK
    PROVE  Slack(env) \in Nat /\ \A pad \in env.pads : pad <= Slack(env)
<1>1. IsFiniteSet(env.pads) /\ env.pads \subseteq Nat /\ env.pads # {}
  BY ShimAssumption DEF TypeOK
<1>2. Max(env.pads) \in env.pads /\ \A pad \in env.pads : pad <= Max(env.pads)
  BY <1>1, MaxBounds
<1> QED
  BY <1>1, <1>2 DEF Slack

-----------------------------------------------------------------------------
(* Sums over the threads of a process and over the pointers it holds.       *)

LEMMA Totals == \A f : Total(f) = Sum(f, DOMAIN f)
BY Zenon DEF Total, Sum, MapThenSumSet, MapThenFoldSet

\* What the calls cl of a process add up to, each with the weight w gives it.
Across(w, cl, p) == Sum([th \in ThreadsOf(p) |-> w[cl[th]]], ThreadsOf(p))

OfUncharged  == [c \in Calls |-> IF c.pc \in {"count", "commit"} THEN c.bytes ELSE 0]
OfUncounted  == [c \in Calls |-> IF c.pc = "count" THEN c.bytes ELSE 0]
OfDue        == [c \in Calls |-> IF c.op = "release" /\ c.pc \notin {"funlock", "sunlock"}
                                 THEN c.bytes ELSE 0]
OfUnrefunded == [c \in Calls |-> IF c.op = "release"
                                    /\ c.pc \notin {"uncharge", "funlock", "sunlock"}
                                 THEN c.bytes ELSE 0]
Weights == {OfUncharged, OfUncounted, OfDue, OfUnrefunded}

LEMMA WeightsAreNat == \A w \in Weights : w \in [Calls -> Nat]
<1>1. \A c \in Calls : c.bytes \in Nat
  BY DEF Calls
<1> QED
  BY <1>1 DEF Weights, OfUncharged, OfUncounted, OfDue, OfUnrefunded

LEMMA ThreadsFinite == \A p : IsFiniteSet(ThreadsOf(p)) /\ ThreadsOf(p) \subseteq Thread
<1>1. IsFiniteSet(Thread)
  BY ShimAssumption
<1>2. \A p : ThreadsOf(p) \subseteq Thread
  BY DEF ThreadsOf
<1> QED
  BY <1>1, <1>2, FS_Subset

LEMMA AcrossNat ==
    ASSUME NEW w \in Weights, NEW cl \in [Thread -> Calls], NEW p
    PROVE  Across(w, cl, p) \in Nat
<1> DEFINE f == [th \in ThreadsOf(p) |-> w[cl[th]]]
<1>1. \A th \in ThreadsOf(p) : f[th] \in Nat
  BY WeightsAreNat, ThreadsFinite
<1> HIDE DEF f
<1>2. Sum(f, ThreadsOf(p)) \in Nat
  BY <1>1, ThreadsFinite, SumTake
<1> QED
  BY <1>2 DEF Across, f

\* Where no call of a process changes its weight, neither does their sum.
LEMMA AcrossSame ==
    ASSUME NEW w \in Weights, NEW cl \in [Thread -> Calls], NEW cm \in [Thread -> Calls], NEW p,
           \A th \in ThreadsOf(p) : w[cm[th]] = w[cl[th]]
    PROVE  Across(w, cm, p) = Across(w, cl, p)
<1> DEFINE f == [th \in ThreadsOf(p) |-> w[cl[th]]]
           g == [th \in ThreadsOf(p) |-> w[cm[th]]]
<1>1. f = g
  OBVIOUS
<1> HIDE DEF f, g
<1>2. Sum(g, ThreadsOf(p)) = Sum(f, ThreadsOf(p))
  BY <1>1
<1> QED
  BY <1>2 DEF Across, f, g

\* One call moves on: the sum of its process changes by as much, no other does.
LEMMA AcrossMoves ==
    ASSUME NEW w \in Weights, NEW cl \in [Thread -> Calls], NEW cm \in [Thread -> Calls],
           NEW th \in Thread, \A u \in Thread \ {th} : cm[u] = cl[u]
    PROVE  /\ Across(w, cm, th[1]) + w[cl[th]] = Across(w, cl, th[1]) + w[cm[th]]
           /\ \A q : q # th[1] => Across(w, cm, q) = Across(w, cl, q)
<1> DEFINE S == ThreadsOf(th[1])
           f == [u \in S |-> w[cl[u]]]
           g == [u \in S |-> w[cm[u]]]
<1>1. th \in S /\ IsFiniteSet(S)
  BY ThreadsFinite DEF ThreadsOf
<1>2. /\ \A u \in S : f[u] \in Nat
      /\ \A u \in S : g[u] \in Nat
  BY WeightsAreNat, ThreadsFinite
<1>3. \A u \in S \ {th} : g[u] = f[u]
  BY ThreadsFinite
<1>4. f[th] = w[cl[th]] /\ g[th] = w[cm[th]]
  BY <1>1
<1>5. Sum(g, S) + f[th] = Sum(f, S) + g[th]
  <2> HIDE DEF f, g, S
  <2> QED
    BY <1>1, <1>2, <1>3, SumChange
<1>6. ASSUME NEW q, q # th[1] PROVE Across(w, cm, q) = Across(w, cl, q)
  <2>1. \A u \in ThreadsOf(q) : u \in Thread \ {th}
    BY <1>6 DEF ThreadsOf
  <2> QED
    BY <2>1, AcrossSame
<1> QED
  BY <1>4, <1>5, <1>6 DEF Across

\* The only call of a process that weighs anything.
LEMMA AcrossOne ==
    ASSUME NEW w \in Weights, NEW cl \in [Thread -> Calls], NEW th \in Thread,
           \A u \in ThreadsOf(th[1]) \ {th} : w[cl[u]] = 0
    PROVE  Across(w, cl, th[1]) = w[cl[th]]
<1> DEFINE S == ThreadsOf(th[1])
           f == [u \in S |-> w[cl[u]]]
<1>1. th \in S /\ IsFiniteSet(S) /\ IsFiniteSet(S \ {th})
  <2>1. th \in S /\ IsFiniteSet(S)
    BY ThreadsFinite DEF ThreadsOf
  <2> HIDE DEF S
  <2> QED
    BY <2>1, FS_Subset
<1>2. /\ \A u \in S : f[u] \in Nat
      /\ \A u \in S \ {th} : f[u] = 0
      /\ f[th] = w[cl[th]]
  BY <1>1, WeightsAreNat, ThreadsFinite
<1>3. Sum(f, S) = f[th]
  <2> HIDE DEF f, S
  <2>1. Sum(f, S) = f[th] + Sum(f, S \ {th})
    BY <1>1, <1>2, SumTake
  <2>2. Sum(f, S \ {th}) = 0
    BY <1>1, <1>2, SumZero
  <2> QED
    BY <1>1, <1>2, <2>1, <2>2
<1> QED
  BY <1>2, <1>3 DEF Across

LEMMA AcrossZero ==
    ASSUME NEW w \in Weights, NEW cl \in [Thread -> Calls], NEW p,
           \A u \in ThreadsOf(p) : w[cl[u]] = 0
    PROVE  Across(w, cl, p) = 0
<1> DEFINE f == [u \in ThreadsOf(p) |-> w[cl[u]]]
<1>1. \A u \in ThreadsOf(p) : f[u] = 0
  OBVIOUS
<1>2. Sum(f, ThreadsOf(p)) = 0
  <2> HIDE DEF f
  <2> QED
    BY <1>1, ThreadsFinite, SumZero
<1> QED
  BY <1>2 DEF Across

\* The bytes of some calls of a process are what they weigh.
LEMMA Filtered ==
    ASSUME NEW w \in Weights, NEW cl \in [Thread -> Calls], NEW p, NEW T \in SUBSET ThreadsOf(p),
           \A th \in T : w[cl[th]] = cl[th].bytes,
           \A th \in ThreadsOf(p) \ T : w[cl[th]] = 0
    PROVE  Total([th \in T |-> cl[th].bytes]) = Across(w, cl, p)
<1> DEFINE S == ThreadsOf(p)
           f == [th \in T |-> cl[th].bytes]
           g == [th \in S |-> w[cl[th]]]
<1>1. IsFiniteSet(S) /\ T \subseteq S /\ DOMAIN f = T
  BY ThreadsFinite
<1>2. /\ \A th \in T : f[th] \in Nat
      /\ \A th \in T : g[th] = f[th]
      /\ \A th \in S \ T : g[th] = 0
  BY ThreadsFinite DEF Calls
<1>3. Sum(f, T) = Sum(g, S)
  <2> HIDE DEF f, g, S
  <2> QED
    BY <1>1, <1>2, SumFilter
<1>4. Total(f) = Sum(f, T)
  <2> HIDE DEF f
  <2> QED
    BY <1>1, Totals
<1> QED
  BY <1>3, <1>4 DEF Across

\* So each figure of a process is the sum its weight gives, by calls of any state.
LEMMA Weighed ==
    ASSUME NEW cl \in [Thread -> Calls], NEW p
    PROVE  /\ Total([th \in {u \in ThreadsOf(p) : cl[u].pc \in {"count", "commit"}} |-> cl[th].bytes])
                = Across(OfUncharged, cl, p)
           /\ Total([th \in {u \in ThreadsOf(p) : cl[u].pc = "count"} |-> cl[th].bytes])
                = Across(OfUncounted, cl, p)
           /\ Total([th \in {u \in ThreadsOf(p) : cl[u].op = "release"
                                /\ cl[u].pc \notin {"funlock", "sunlock"}} |-> cl[th].bytes])
                = Across(OfDue, cl, p)
           /\ Total([th \in {u \in ThreadsOf(p) : cl[u].op = "release"
                                /\ cl[u].pc \notin {"uncharge", "funlock", "sunlock"}} |-> cl[th].bytes])
                = Across(OfUnrefunded, cl, p)
<1>1. \A th \in ThreadsOf(p) : cl[th] \in Calls
  BY ThreadsFinite
<1>2. {OfUncharged, OfUncounted, OfDue, OfUnrefunded} \subseteq Weights
  BY DEF Weights
<1>3. Total([th \in {u \in ThreadsOf(p) : cl[u].pc \in {"count", "commit"}} |-> cl[th].bytes])
        = Across(OfUncharged, cl, p)
  <2> DEFINE T == {u \in ThreadsOf(p) : cl[u].pc \in {"count", "commit"}}
  <2>1. /\ \A th \in T : OfUncharged[cl[th]] = cl[th].bytes
        /\ \A th \in ThreadsOf(p) \ T : OfUncharged[cl[th]] = 0
    BY <1>1 DEF OfUncharged
  <2>2. T \in SUBSET ThreadsOf(p)
    OBVIOUS
  <2> HIDE DEF T
  <2>3. Total([th \in T |-> cl[th].bytes]) = Across(OfUncharged, cl, p)
    BY <1>2, <2>1, <2>2, Filtered
  <2> QED
    BY <2>3 DEF T
<1>4. Total([th \in {u \in ThreadsOf(p) : cl[u].pc = "count"} |-> cl[th].bytes])
        = Across(OfUncounted, cl, p)
  <2> DEFINE T == {u \in ThreadsOf(p) : cl[u].pc = "count"}
  <2>1. /\ \A th \in T : OfUncounted[cl[th]] = cl[th].bytes
        /\ \A th \in ThreadsOf(p) \ T : OfUncounted[cl[th]] = 0
    BY <1>1 DEF OfUncounted
  <2>2. T \in SUBSET ThreadsOf(p)
    OBVIOUS
  <2> HIDE DEF T
  <2>3. Total([th \in T |-> cl[th].bytes]) = Across(OfUncounted, cl, p)
    BY <1>2, <2>1, <2>2, Filtered
  <2> QED
    BY <2>3 DEF T
<1>5. Total([th \in {u \in ThreadsOf(p) : cl[u].op = "release"
                       /\ cl[u].pc \notin {"funlock", "sunlock"}} |-> cl[th].bytes])
        = Across(OfDue, cl, p)
  <2> DEFINE T == {u \in ThreadsOf(p) : cl[u].op = "release"
                                          /\ cl[u].pc \notin {"funlock", "sunlock"}}
  <2>1. /\ \A th \in T : OfDue[cl[th]] = cl[th].bytes
        /\ \A th \in ThreadsOf(p) \ T : OfDue[cl[th]] = 0
    BY <1>1 DEF OfDue
  <2>2. T \in SUBSET ThreadsOf(p)
    OBVIOUS
  <2> HIDE DEF T
  <2>3. Total([th \in T |-> cl[th].bytes]) = Across(OfDue, cl, p)
    BY <1>2, <2>1, <2>2, Filtered
  <2> QED
    BY <2>3 DEF T
<1>6. Total([th \in {u \in ThreadsOf(p) : cl[u].op = "release"
                       /\ cl[u].pc \notin {"uncharge", "funlock", "sunlock"}} |-> cl[th].bytes])
        = Across(OfUnrefunded, cl, p)
  <2> DEFINE T == {u \in ThreadsOf(p) : cl[u].op = "release"
                                          /\ cl[u].pc \notin {"uncharge", "funlock", "sunlock"}}
  <2>1. /\ \A th \in T : OfUnrefunded[cl[th]] = cl[th].bytes
        /\ \A th \in ThreadsOf(p) \ T : OfUnrefunded[cl[th]] = 0
    BY <1>1 DEF OfUnrefunded
  <2>2. T \in SUBSET ThreadsOf(p)
    OBVIOUS
  <2> HIDE DEF T
  <2>3. Total([th \in T |-> cl[th].bytes]) = Across(OfUnrefunded, cl, p)
    BY <1>2, <2>1, <2>2, Filtered
  <2> QED
    BY <2>3 DEF T
<1> QED
  BY <1>3, <1>4, <1>5, <1>6

\* The figures of a state.
LEMMA Figures ==
    ASSUME TypeOK, NEW p
    PROVE  /\ Uncharged(p) = Across(OfUncharged, call, p)
           /\ Uncounted(p) = Across(OfUncounted, call, p)
           /\ Due(p) = Across(OfDue, call, p)
           /\ Unrefunded(p) = Across(OfUnrefunded, call, p)
<1>1. call \in [Thread -> Calls]
  BY DEF TypeOK
<1> QED
  BY <1>1, Weighed DEF Uncharged, Uncounted, Due, Unrefunded, SumOf

\* The figures of the next state.
LEMMA FiguresNext ==
    ASSUME TypeOK', NEW p
    PROVE  /\ Uncharged(p)' = Across(OfUncharged, call', p)
           /\ Uncounted(p)' = Across(OfUncounted, call', p)
           /\ Due(p)' = Across(OfDue, call', p)
           /\ Unrefunded(p)' = Across(OfUnrefunded, call', p)
<1>1. call' \in [Thread -> Calls]
  BY DEF TypeOK
<1> QED
  BY <1>1, Weighed DEF Uncharged, Uncounted, Due, Unrefunded, SumOf

\* A pointer is added to what is held, or taken away.
LEMMA PutTotal ==
    ASSUME NEW f, IsFiniteSet(DOMAIN f), \A x \in DOMAIN f : f[x] \in Nat,
           NEW k, k \notin DOMAIN f, NEW v \in Nat
    PROVE  /\ Total(Put(f, k, v)) = Total(f) + v
           /\ DOMAIN Put(f, k, v) = DOMAIN f \cup {k}
<1> DEFINE D == DOMAIN f
           g == Put(f, k, v)
<1>1. DOMAIN g = D \cup {k} /\ g[k] = v /\ \A x \in D : g[x] = f[x]
  BY DEF Put
<1> HIDE DEF g
<1>2. \A x \in D \cup {k} : g[x] \in Nat
  BY <1>1
<1>3. Sum(g, D \cup {k}) = Sum(g, D) + g[k]
  BY <1>2, SumAdd
<1>4. Sum(g, D) = Sum(f, D)
  BY <1>1, SumSame
<1>5. Total(g) = Sum(g, D \cup {k}) /\ Total(f) = Sum(f, D)
  BY <1>1, Totals
<1>6. Total(g) = Total(f) + v /\ DOMAIN g = DOMAIN f \cup {k}
  BY <1>1, <1>3, <1>4, <1>5
<1> QED
  BY <1>6 DEF g

LEMMA OnlyTotal ==
    ASSUME NEW f, IsFiniteSet(DOMAIN f), \A x \in DOMAIN f : f[x] \in Nat,
           DOMAIN f \subseteq Keys, NEW k
    PROVE  /\ Total(Only(f, Keys \ {k})) + Get(f, k) = Total(f)
           /\ Total(Only(f, Keys \ {k})) \in Nat /\ Get(f, k) \in Nat
           /\ DOMAIN Only(f, Keys \ {k}) = DOMAIN f \ {k}
<1> DEFINE D == DOMAIN f
           g == Only(f, Keys \ {k})
<1>1. DOMAIN g = D \ {k} /\ \A x \in D \ {k} : g[x] = f[x]
  BY DEF Only
<1> HIDE DEF g
<1>2. IsFiniteSet(D \ {k}) /\ \A x \in D \ {k} : f[x] \in Nat
  BY FS_RemoveElement
<1>3. Sum(g, D \ {k}) = Sum(f, D \ {k}) /\ Sum(f, D \ {k}) \in Nat
  BY <1>1, <1>2, SumSame, SumTake
<1>4. Total(g) = Sum(g, D \ {k}) /\ Total(f) = Sum(f, D)
  BY <1>1, Totals
<1>5. Sum(f, D) = Get(f, k) + Sum(f, D \ {k}) /\ Get(f, k) \in Nat
  <2>1. CASE k \in D
    BY <2>1, SumTake DEF Get
  <2>2. CASE k \notin D
    <3>1. D \ {k} = D /\ Get(f, k) = 0
      BY <2>2 DEF Get
    <3> QED
      BY <1>3, <3>1
  <2> QED
    BY <2>1, <2>2
<1>6. Total(g) + Get(f, k) = Total(f) /\ Total(g) \in Nat /\ DOMAIN g = DOMAIN f \ {k}
  BY <1>1, <1>3, <1>4, <1>5
<1> QED
  BY <1>5, <1>6 DEF g

-----------------------------------------------------------------------------
(* The books.                                                               *)

Numbers ==
    /\ used \in Nat
    /\ \A p \in Pids : /\ Uncharged(p) \in Nat /\ Uncounted(p) \in Nat /\ Due(p) \in Nat
                       /\ Unrefunded(p) \in Nat /\ Held(p) \in Nat /\ stuck[p] \in Nat
                       /\ Get(charge, p) \in Nat
                       /\ IsFiniteSet(DOMAIN mem[p])

LEMMA NumbersOK == TypeOK => Numbers
<1> SUFFICES ASSUME TypeOK PROVE Numbers
  OBVIOUS
<1>1. used \in Nat
  BY DEF TypeOK
<1>2. ASSUME NEW p \in Pids
      PROVE  /\ Uncharged(p) \in Nat /\ Uncounted(p) \in Nat /\ Due(p) \in Nat
             /\ Unrefunded(p) \in Nat
  <2>1. call \in [Thread -> Calls]
    BY DEF TypeOK
  <2>2. {OfUncharged, OfUncounted, OfDue, OfUnrefunded} \subseteq Weights
    BY DEF Weights
  <2> QED
    BY <2>1, <2>2, Figures, AcrossNat
<1>3. ASSUME NEW p \in Pids
      PROVE  /\ Held(p) \in Nat /\ stuck[p] \in Nat /\ Get(charge, p) \in Nat
             /\ IsFiniteSet(DOMAIN mem[p])
  <2>1. IsFiniteSet(DOMAIN mem[p]) /\ \A k \in DOMAIN mem[p] : mem[p][k] \in Nat
    BY Bounds, FS_Subset DEF TypeOK
  <2>2. Held(p) \in Nat
    BY <2>1, Totals, SumTake DEF Held
  <2> QED
    BY <2>1, <2>2 DEF TypeOK, Get
<1> QED
  BY <1>1, <1>2, <1>3 DEF Numbers

LEMMA NumbersNext == TypeOK' => Numbers'
BY NumbersOK, PTL

\* A thread moves on: what its call weighs changes its process's figures, and
\* nobody else's.
LEMMA Moves ==
    ASSUME TypeOK, TypeOK', NEW th \in Thread, \A u \in Thread \ {th} : call'[u] = call[u]
    PROVE  LET p == th[1] IN
           /\ Uncharged(p)' + OfUncharged[call[th]] = Uncharged(p) + OfUncharged[call'[th]]
           /\ Uncounted(p)' + OfUncounted[call[th]] = Uncounted(p) + OfUncounted[call'[th]]
           /\ Due(p)' + OfDue[call[th]] = Due(p) + OfDue[call'[th]]
           /\ Unrefunded(p)' + OfUnrefunded[call[th]] = Unrefunded(p) + OfUnrefunded[call'[th]]
           /\ \A q \in Pids \ {p} : /\ Uncharged(q)' = Uncharged(q) /\ Uncounted(q)' = Uncounted(q)
                                    /\ Due(q)' = Due(q) /\ Unrefunded(q)' = Unrefunded(q)
           /\ \A w \in Weights : w[call[th]] \in Nat /\ w[call'[th]] \in Nat
           /\ {OfUncharged, OfUncounted, OfDue, OfUnrefunded} \subseteq Weights
<1>1. call \in [Thread -> Calls] /\ call' \in [Thread -> Calls]
  BY DEF TypeOK
<1>2. {OfUncharged, OfUncounted, OfDue, OfUnrefunded} \subseteq Weights
  BY DEF Weights
<1>3. \A w \in Weights :
        /\ Across(w, call', th[1]) + w[call[th]] = Across(w, call, th[1]) + w[call'[th]]
        /\ \A q : q # th[1] => Across(w, call', q) = Across(w, call, q)
  BY <1>1, AcrossMoves
<1>4. \A w \in Weights : w[call[th]] \in Nat /\ w[call'[th]] \in Nat
  BY <1>1, WeightsAreNat
<1> QED
  BY <1>2, <1>3, <1>4, Figures, FiguresNext

\* Of the threads that account, there is one: the spin lock keeps out those of
\* its process, the record lock those of the others.
Alone ==
    \A th, u \in Thread :
        /\ call[th].pc \in Spinning /\ call[u].pc \in Spinning /\ th[1] = u[1] => th = u
        /\ call[th].pc \in Locking /\ call[u].pc \in Locking => th = u

LEMMA OneHolder == TypeOK /\ OwnerInv /\ LockInv => Alone
<1> SUFFICES ASSUME TypeOK, OwnerInv, LockInv, NEW th \in Thread, NEW u \in Thread
             PROVE  /\ call[th].pc \in Spinning /\ call[u].pc \in Spinning /\ th[1] = u[1] => th = u
                    /\ call[th].pc \in Locking /\ call[u].pc \in Locking => th = u
  BY DEF Alone
<1>1. th[1] \in Pids /\ u[1] \in Pids /\ th \in ThreadsOf(th[1]) /\ u \in ThreadsOf(u[1])
  BY Bounds DEF ThreadsOf
<1>2. /\ call[th].pc \in Spinning => owner[th[1]] = th[1]
      /\ call[u].pc \in Spinning => owner[u[1]] = u[1]
  BY <1>1 DEF OwnerInv, Spinning, Locking
<1>3. call[th].pc \in Spinning /\ call[u].pc \in Spinning /\ th[1] = u[1] => th = u
  BY <1>1, <1>2 DEF LockInv
<1>4. call[th].pc \in Locking /\ call[u].pc \in Locking => th[1] = u[1]
  BY <1>1, <1>2 DEF LockInv, Spinning
<1> QED
  BY <1>3, <1>4 DEF Spinning

\* What is not counted yet is held.
Lends == \A p \in Pids : Lent(p) \in Nat /\ Uncounted(p) <= Held(p)

LEMMA LentNat == TypeOK /\ OwnerInv /\ LockInv /\ KeyInv => Lends
<1> SUFFICES ASSUME TypeOK, OwnerInv, LockInv, KeyInv, NEW p \in Pids
             PROVE  Lent(p) \in Nat /\ Uncounted(p) <= Held(p)
  BY DEF Lends
<1>1. Uncounted(p) <= Held(p)
  <2>0. call \in [Thread -> Calls] /\ OfUncounted \in Weights
    BY DEF TypeOK, Weights
  <2>1. CASE \E th \in ThreadsOf(p) : call[th].pc = "count"
    <3>1. PICK th \in ThreadsOf(p) : call[th].pc = "count"
      BY <2>1
    <3>2. th \in Thread /\ th[1] = p /\ \A u \in ThreadsOf(p) : u \in Thread /\ u[1] = p
      BY DEF ThreadsOf
    <3>3. \A u \in ThreadsOf(p) \ {th} : call[u].pc # "count"
      BY <3>1, <3>2, OneHolder DEF Alone, Locking
    <3>4. \A u \in ThreadsOf(p) \ {th} : OfUncounted[call[u]] = 0
      BY <2>0, <3>2, <3>3 DEF OfUncounted
    <3>5. Uncounted(p) = call[th].bytes
      <4>1. OfUncounted[call[th]] = call[th].bytes
        BY <2>0, <3>1, <3>2 DEF OfUncounted
      <4> QED
        BY <2>0, <3>2, <3>4, <4>1, Figures, AcrossOne
    <3>6. owner[p] = p
      BY <3>1 DEF OwnerInv
    <3>7. call[th].key \in DOMAIN mem[p] /\ call[th].bytes = mem[p][call[th].key]
      BY <3>1, <3>6 DEF KeyInv, HeldInv, HeldOf, Charging
    <3>8. IsFiniteSet(DOMAIN mem[p]) /\ \A k \in DOMAIN mem[p] : mem[p][k] \in Nat
      BY NumbersOK DEF Numbers, TypeOK
    <3>9. mem[p][call[th].key] <= Sum(mem[p], DOMAIN mem[p])
      BY <3>7, <3>8, SumPart
    <3> QED
      BY <3>5, <3>7, <3>9, Totals DEF Held
  <2>2. CASE \A th \in ThreadsOf(p) : call[th].pc # "count"
    <3>1. \A u \in ThreadsOf(p) : OfUncounted[call[u]] = 0
      BY <2>0, <2>2, ThreadsFinite DEF OfUncounted
    <3>2. Uncounted(p) = 0
      BY <2>0, <3>1, Figures, AcrossZero
    <3> QED
      BY <3>2, NumbersOK DEF Numbers
  <2> QED
    BY <2>1, <2>2
<1> QED
  BY <1>1, NumbersOK DEF Numbers, Lent

LEMMA LentNext == TypeOK' /\ OwnerInv' /\ LockInv' /\ KeyInv' => Lends'
BY LentNat, PTL

\* The parts of the invariant the books need.
Structure == TypeOK /\ OwnerInv /\ LockInv /\ KeyInv

\* The total of all processes changes as one of them does.
LEMMA OneLends ==
    ASSUME Structure, Structure', NEW p \in Pids, \A q \in Pids \ {p} : Lent(q)' = Lent(q)
    PROVE  /\ Total([q \in Pids |-> Lent(q)'])+ Lent(p) = Total([q \in Pids |-> Lent(q)]) + Lent(p)'
           /\ Total([q \in Pids |-> Lent(q)']) \in Nat /\ Total([q \in Pids |-> Lent(q)]) \in Nat
<1> DEFINE f == [q \in Pids |-> Lent(q)]
           g == [q \in Pids |-> Lent(q)']
<1>1. /\ \A q \in Pids : f[q] \in Nat
      /\ \A q \in Pids : g[q] \in Nat
      /\ \A q \in Pids \ {p} : g[q] = f[q]
      /\ f[p] = Lent(p) /\ g[p] = Lent(p)' /\ DOMAIN f = Pids /\ DOMAIN g = Pids
  BY LentNat, LentNext DEF Lends, Structure
<1>2. IsFiniteSet(Pids)
  BY ShimAssumption
<1> HIDE DEF f, g
<1>3. Total(f) = Sum(f, Pids) /\ Total(g) = Sum(g, Pids)
  BY <1>1, Totals
<1>4. Sum(g, Pids) + f[p] = Sum(f, Pids) + g[p]
  BY <1>1, <1>2, SumChange
<1>5. Sum(f, Pids) \in Nat /\ Sum(g, Pids) \in Nat
  BY <1>1, <1>2, SumTake
<1>6. Total(g) + Lent(p) = Total(f) + Lent(p)' /\ Total(g) \in Nat /\ Total(f) \in Nat
  BY <1>1, <1>3, <1>4, <1>5
<1> QED
  BY <1>6 DEF f, g

LEMMA UsedMoves ==
    ASSUME Structure, Structure', UsedInv, NEW th \in Thread,
           \A u \in Thread \ {th} : call'[u] = call[u],
           \A q \in Pids \ {th[1]} : Held(q)' = Held(q),
           Held(th[1])' + OfUnrefunded[call'[th]] + OfUncounted[call[th]] + used
             <= Held(th[1]) + OfUnrefunded[call[th]] + OfUncounted[call'[th]] + used'
    PROVE  UsedInv'
<1> DEFINE p == th[1]
<1>1. p \in Pids
  BY Bounds DEF Structure
<1>2. Numbers /\ Numbers' /\ Lends /\ Lends' /\ TypeOK /\ TypeOK'
  BY NumbersOK, NumbersNext, LentNat, LentNext DEF Structure
<1>3. /\ Uncounted(p)' + OfUncounted[call[th]] = Uncounted(p) + OfUncounted[call'[th]]
      /\ Unrefunded(p)' + OfUnrefunded[call[th]] = Unrefunded(p) + OfUnrefunded[call'[th]]
      /\ \A q \in Pids \ {p} : Uncounted(q)' = Uncounted(q) /\ Unrefunded(q)' = Unrefunded(q)
      /\ {OfUncounted[call[th]], OfUncounted[call'[th]], OfUnrefunded[call[th]],
          OfUnrefunded[call'[th]]} \subseteq Nat
  BY <1>2, Moves
<1>4. \A q \in Pids \ {p} : Lent(q)' = Lent(q)
  BY <1>3 DEF Lent
<1>5. Lent(p)' + used <= Lent(p) + used'
  <2>1. /\ Held(p) \in Nat /\ Unrefunded(p) \in Nat /\ Uncounted(p) \in Nat /\ used \in Nat
        /\ Lent(p) = Held(p) + Unrefunded(p) - Uncounted(p)
    BY <1>1, <1>2 DEF Numbers, Lent
  <2>2. /\ Held(p)' \in Nat /\ Unrefunded(p)' \in Nat /\ Uncounted(p)' \in Nat /\ used' \in Nat
        /\ Lent(p)' = Held(p)' + Unrefunded(p)' - Uncounted(p)'
    BY <1>1, <1>2 DEF Numbers, Lent
  <2> QED
    BY <1>3, <2>1, <2>2
<1>6. /\ Total([q \in Pids |-> Lent(q)']) + Lent(p) = Total([q \in Pids |-> Lent(q)]) + Lent(p)'
      /\ Total([q \in Pids |-> Lent(q)']) \in Nat /\ Total([q \in Pids |-> Lent(q)]) \in Nat
  BY <1>1, <1>4, OneLends
<1>7. Total([q \in Pids |-> Lent(q)]) <= used
  BY DEF UsedInv
<1>8. Lent(p) \in Nat /\ Lent(p)' \in Nat /\ used \in Nat /\ used' \in Nat
  BY <1>1, <1>2 DEF Lends, Numbers
<1>9. Total([q \in Pids |-> Lent(q)']) <= used'
  BY <1>5, <1>6, <1>7, <1>8
<1> QED
  BY <1>9 DEF UsedInv

LEMMA ChargesMove ==
    ASSUME TypeOK, TypeOK', ChargesExact, NEW th \in Thread, \A q \in Pids : status'[q] = status[q],
           \A u \in Thread \ {th} : call'[u] = call[u],
           \A q \in Pids \ {th[1]} :
              /\ Held(q)' = Held(q) /\ stuck'[q] = stuck[q]
              /\ status[q] = "up" => Get(charge, q)' = Get(charge, q),
           Get(charge, th[1])' + OfUncharged[call'[th]] + Held(th[1]) + OfDue[call[th]] + stuck[th[1]]
             = Get(charge, th[1]) + OfUncharged[call[th]] + Held(th[1])' + OfDue[call'[th]]
                 + stuck'[th[1]]
    PROVE  ChargesExact'
<1> DEFINE p == th[1]
<1>1. p \in Pids /\ Numbers /\ Numbers'
  BY Bounds, NumbersOK, NumbersNext
<1>2. /\ Uncharged(p)' + OfUncharged[call[th]] = Uncharged(p) + OfUncharged[call'[th]]
      /\ Due(p)' + OfDue[call[th]] = Due(p) + OfDue[call'[th]]
      /\ \A q \in Pids \ {p} : Uncharged(q)' = Uncharged(q) /\ Due(q)' = Due(q)
      /\ OfUncharged[call[th]] \in Nat /\ OfUncharged[call'[th]] \in Nat
      /\ OfDue[call[th]] \in Nat /\ OfDue[call'[th]] \in Nat
  BY Moves
<1>3. /\ Held(p) \in Nat /\ Due(p) \in Nat /\ Uncharged(p) \in Nat /\ stuck[p] \in Nat
      /\ Get(charge, p) \in Nat
  BY <1>1 DEF Numbers
<1>4. /\ Held(p)' \in Nat /\ Due(p)' \in Nat /\ Uncharged(p)' \in Nat /\ stuck'[p] \in Nat
      /\ Get(charge, p)' \in Nat
  BY <1>1 DEF Numbers
<1>5. ASSUME status'[p] = "up"
      PROVE  Get(charge, p)' + Uncharged(p)' = Held(p)' + Due(p)' + stuck'[p]
  <2>1. Get(charge, p) + Uncharged(p) = Held(p) + Due(p) + stuck[p]
    BY <1>1, <1>5 DEF ChargesExact
  <2>2. PICK c, u, h, d, s, wu, wd \in Nat :
          /\ c = Get(charge, p) /\ u = Uncharged(p) /\ h = Held(p) /\ d = Due(p) /\ s = stuck[p]
          /\ wu = OfUncharged[call[th]] /\ wd = OfDue[call[th]]
    BY <1>2, <1>3
  <2>3. PICK cc, uu, hh, dd, ss, wuu, wdd \in Nat :
          /\ cc = Get(charge, p)' /\ uu = Uncharged(p)' /\ hh = Held(p)' /\ dd = Due(p)'
          /\ ss = stuck'[p] /\ wuu = OfUncharged[call'[th]] /\ wdd = OfDue[call'[th]]
    BY <1>2, <1>4
  <2>4. /\ uu + wu = u + wuu /\ dd + wd = d + wdd /\ c + u = h + d + s
        /\ cc + wuu + h + wd + s = c + wu + hh + wdd + ss
    BY <1>2, <2>1, <2>2, <2>3
  <2>5. cc + uu = hh + dd + ss
    BY <2>4
  <2> QED
    BY <2>3, <2>5
<1>6. ASSUME NEW q \in Pids \ {p}, status'[q] = "up"
      PROVE  Get(charge, q)' + Uncharged(q)' = Held(q)' + Due(q)' + stuck'[q]
  <2>1. Get(charge, q) + Uncharged(q) = Held(q) + Due(q) + stuck[q]
    BY <1>6 DEF ChargesExact
  <2> QED
    BY <1>2, <1>6, <2>1
<1> QED
  BY <1>5, <1>6 DEF ChargesExact

LEMMA HeldMoves ==
    ASSUME TypeOK, TypeOK', HeldWithinFigure, UNCHANGED env,
           \A q \in Pids : Held(q)' <= Held(q)
    PROVE  HeldWithinFigure'
<1> DEFINE f == [q \in Pids |-> Held(q)]
           g == [q \in Pids |-> Held(q)']
<1>1. Numbers /\ Numbers' /\ IsFiniteSet(Pids)
  BY NumbersOK, NumbersNext, ShimAssumption
<1>2. /\ \A q \in Pids : g[q] \in Nat
      /\ \A q \in Pids : f[q] \in Nat /\ g[q] <= f[q]
      /\ DOMAIN f = Pids /\ DOMAIN g = Pids
  BY <1>1 DEF Numbers
<1> HIDE DEF f, g
<1>3. Sum(g, Pids) <= Sum(f, Pids) /\ Sum(f, Pids) \in Nat /\ Sum(g, Pids) \in Nat
  BY <1>1, <1>2, SumLeq, SumTake
<1>4. Total(f) = Sum(f, Pids) /\ Total(g) = Sum(g, Pids)
  BY <1>2, Totals
<1>5. Total(f) <= Figure + Slack(env) /\ Figure \in Nat /\ Slack(env) \in Nat
  BY Bounds, SlackBounds DEF HeldWithinFigure, f
<1>6. Total(g) <= Figure + Slack(env)
  BY <1>3, <1>4, <1>5
<1>7. Figure' = Figure /\ Slack(env)' = Slack(env)
  BY DEF Figure, Slack
<1> QED
  BY <1>6, <1>7 DEF HeldWithinFigure, g

-----------------------------------------------------------------------------
(* What a step of one thread leaves alone.                                  *)

\* A step that neither weighs on the books nor writes them.
LEMMA QuietBooks ==
    ASSUME IndInv, Structure', NEW th \in Thread,
           \A u \in Thread \ {th} : call'[u] = call[u],
           UNCHANGED <<env, status, used, charge, mem, stuck>>,
           OfUncharged[call'[th]] = OfUncharged[call[th]],
           OfUncounted[call'[th]] = OfUncounted[call[th]],
           OfDue[call'[th]] = OfDue[call[th]],
           OfUnrefunded[call'[th]] = OfUnrefunded[call[th]]
    PROVE  ChargesExact' /\ UsedInv' /\ HeldWithinFigure'
<1>1. /\ TypeOK /\ TypeOK' /\ Structure /\ ChargesExact /\ UsedInv /\ HeldWithinFigure
  BY DEF IndInv, Structure
<1>2. /\ \A q \in Pids : Held(q)' = Held(q) /\ stuck'[q] = stuck[q]
      /\ \A q \in Pids : Get(charge, q)' = Get(charge, q) /\ status'[q] = status[q]
      /\ used' = used
  BY DEF Held, Get
<1>3. /\ th[1] \in Pids /\ used \in Nat /\ Held(th[1]) \in Nat /\ Get(charge, th[1]) \in Nat
      /\ stuck[th[1]] \in Nat
  BY <1>1, Bounds, NumbersOK DEF Numbers
<1>4. /\ OfUncharged[call[th]] \in Nat /\ OfUncounted[call[th]] \in Nat
      /\ OfDue[call[th]] \in Nat /\ OfUnrefunded[call[th]] \in Nat
  BY <1>1, Moves
<1>5. ChargesExact'
  BY <1>1, <1>2, <1>3, <1>4, ChargesMove
<1>6. UsedInv'
  <2>1. Held(th[1])' + OfUnrefunded[call'[th]] + OfUncounted[call[th]] + used
             <= Held(th[1]) + OfUnrefunded[call[th]] + OfUncounted[call'[th]] + used'
    BY <1>2, <1>3, <1>4
  <2> QED
    BY <1>1, <1>2, <2>1, UsedMoves
<1>7. HeldWithinFigure'
  <2>1. \A q \in Pids : Held(q)' <= Held(q)
    BY <1>1, <1>2, NumbersOK DEF Numbers
  <2> QED
    BY <1>1, <2>1, HeldMoves
<1> QED
  BY <1>5, <1>6, <1>7

\* A step inside a call of a process that has been reset.
LEMMA OwnerKept ==
    ASSUME IndInv, NEW th \in Thread, owner[th[1]] = th[1], call'[th].pc # "wipe",
           \A u \in Thread \ {th} : call'[u] = call[u] /\ depth'[u] = depth[u],
           UNCHANGED <<status, owner>>,
           \A q \in Pids \ {th[1]} : keys'[q] = keys[q] /\ spin'[q] = spin[q] /\ mem'[q] = mem[q]
    PROVE  OwnerInv'
<1>1. th[1] \in Pids /\ th[1] # 0
  BY Bounds DEF IndInv
<1>2. \A q \in Pids \ {th[1]} : \A u \in ThreadsOf(q) : u \in Thread \ {th}
  BY DEF ThreadsOf
<1>3. ASSUME NEW q \in Pids \ {th[1]}
      PROVE  /\ status'[q] # "up" => owner'[q] = 0
             /\ owner'[q] = 0 => /\ keys'[q] = NoKeys /\ ~spin'[q] /\ DOMAIN mem'[q] = {}
                                 /\ \A u \in ThreadsOf(q) : call'[u].pc = "idle" /\ depth'[u] = 0
             /\ owner'[q] \notin {0, q} =>
                   /\ DOMAIN mem'[q] = {}
                   /\ \A u \in ThreadsOf(q) :
                         /\ call'[u].pc \in {"idle", "wipe"}
                         /\ call'[u].op = "release" => call'[u].bytes = 0
                   /\ \A u, v \in ThreadsOf(q) :
                         (call'[u].pc # "idle" \/ depth'[u] # 0)
                         /\ (call'[v].pc # "idle" \/ depth'[v] # 0) => u = v
             /\ owner'[q] = q => \A u \in ThreadsOf(q) : call'[u].pc # "wipe"
  BY <1>2 DEF IndInv, OwnerInv
<1>4. /\ status'[th[1]] # "up" => owner'[th[1]] = 0
      /\ \A u \in ThreadsOf(th[1]) : call'[u].pc # "wipe"
  BY <1>1 DEF IndInv, OwnerInv, ThreadsOf
<1> QED
  BY <1>1, <1>3, <1>4 DEF OwnerInv

\* A step that takes and releases no lock.
LEMMA LockKept ==
    ASSUME IndInv, NEW th \in Thread, UNCHANGED <<owner, depth, flock, spin, latch>>,
           \A u \in Thread \ {th} : call'[u] = call[u],
           call'[th].pc \in Locking <=> call[th].pc \in Locking,
           call'[th].pc \in Spinning <=> call[th].pc \in Spinning,
           call'[th].pc # "create"
    PROVE  LockInv'
<1>1. \A u \in Thread : /\ call'[u].pc \in Locking <=> call[u].pc \in Locking
                        /\ call'[u].pc \in Spinning <=> call[u].pc \in Spinning
                        /\ call'[u].pc = "create" => call[u].pc = "create"
  OBVIOUS
<1> QED
  BY <1>1, ThreadsFinite DEF IndInv, LockInv

\* A step of a process whose region is usable, and stays so.
LEMMA LatchKept ==
    ASSUME IndInv, NEW th \in Thread, latch'[th[1]] = "usable",
           \A u \in Thread \ {th} : call'[u] = call[u],
           \A q \in Pids \ {th[1]} : /\ owner'[q] = owner[q] /\ latch'[q] = latch[q]
                                     /\ keys'[q] = keys[q] /\ mem'[q] = mem[q]
    PROVE  LatchInv'
<1>1. \A q \in Pids \ {th[1]} : \A u \in ThreadsOf(q) : call'[u] = call[u]
  BY DEF ThreadsOf
<1> QED
  BY <1>1 DEF IndInv, LatchInv

\* A step that leaves the key map and the memory as they are, and the slots and
\* pointers of its call.
LEMMA KeysKept ==
    ASSUME IndInv, NEW th \in Thread, UNCHANGED <<owner, keys, mem, inherited>>,
           \A u \in Thread \ {th} : call'[u] = call[u],
           Reserving(th)' => Reserving(th) /\ call'[th].slot = call[th].slot,
           Freeing(th)' <=> Freeing(th), Charging(th)' <=> Charging(th),
           Freeing(th) \/ Charging(th) =>
              call'[th].key = call[th].key /\ call'[th].bytes = call[th].bytes
    PROVE  SlotInv' /\ FreeInv' /\ KeyInv'
<1>1. \A u \in Thread : Reserving(u)' => Reserving(u) /\ call'[u].slot = call[u].slot
  BY DEF Reserving
<1>2. \A u \in Thread : Freeing(u)' <=> Freeing(u)
  BY DEF Freeing
<1>3. \A u \in Thread : Charging(u)' <=> Charging(u)
  BY DEF Charging
<1>4. \A u \in Thread : Freeing(u) \/ Charging(u) =>
          call'[u].key = call[u].key /\ call'[u].bytes = call[u].bytes
  OBVIOUS
<1>5. SlotInv'
  BY <1>1, ThreadsFinite DEF IndInv, SlotInv, SlotOf
<1>6. FreeInv'
  BY <1>2, <1>4, ThreadsFinite DEF IndInv, FreeInv, FreeOf
<1>7. \A p \in Pids : \A k : LiveSlots(p, k)' = LiveSlots(p, k)
  BY DEF LiveSlots
<1>8. LiveInv'
  BY <1>2, <1>4, <1>7, ThreadsFinite DEF IndInv, KeyInv, LiveInv, LiveOf
<1>9. HeldInv'
  BY <1>3, <1>4, <1>7, ThreadsFinite DEF IndInv, KeyInv, HeldInv, HeldOf
<1>10. FreedInv'
  BY <1>2, <1>4, <1>7, ThreadsFinite DEF IndInv, KeyInv, FreedInv, FreedOf
<1> QED
  BY <1>5, <1>6, <1>8, <1>9, <1>10 DEF KeyInv

-----------------------------------------------------------------------------
(* The steps of a call that take and release the locks.                     *)

\* A thread inside a call belongs to a process that runs and was reset, and once
\* past the opening its region is usable.
LEMMA Inside ==
    ASSUME IndInv, NEW th \in Thread, call[th].pc \notin {"idle", "wipe"}
    PROVE  /\ th[1] \in Pids /\ th \in ThreadsOf(th[1]) /\ th[1] # 0
           /\ owner[th[1]] = th[1] /\ status[th[1]] = "up"
           /\ call[th].pc \notin {"take", "open", "create"} => latch[th[1]] = "usable"
<1>1. th[1] \in Pids /\ th \in ThreadsOf(th[1]) /\ th[1] # 0
  BY Bounds DEF IndInv, ThreadsOf
<1>2. owner[th[1]] = th[1]
  BY <1>1 DEF IndInv, OwnerInv
<1>3. status[th[1]] = "up"
  BY <1>1, <1>2 DEF IndInv, OwnerInv
<1>4. call[th].pc \notin {"take", "open", "create"} => latch[th[1]] = "usable"
  BY <1>1, <1>2 DEF IndInv, LatchInv
<1> QED
  BY <1>1, <1>2, <1>3, <1>4

\* A call goes on to its next step, or returns.
LEMMA Goes ==
    ASSUME TypeOK, NEW th \in Thread, NEW pc \in PCs, Goto(th, pc)
    PROVE  /\ call' \in [Thread -> Calls]
           /\ \A u \in Thread \ {th} : call'[u] = call[u]
           /\ call'[th].pc = pc /\ call'[th].op = call[th].op /\ call'[th].bytes = call[th].bytes
           /\ call'[th].slot = call[th].slot /\ call'[th].key = call[th].key
<1>1. call \in [Thread -> Calls]
  BY DEF TypeOK
<1> QED
  BY <1>1 DEF Goto, Calls

LEMMA Returns ==
    ASSUME TypeOK, NEW th \in Thread, Return(th)
    PROVE  /\ call' \in [Thread -> Calls]
           /\ \A u \in Thread \ {th} : call'[u] = call[u]
           /\ call'[th] = NoCall
<1>1. call \in [Thread -> Calls]
  BY DEF TypeOK
<1>2. NoCall \in Calls
  BY ShimAssumption DEF NoCall, Calls, PCs
<1> QED
  BY <1>1, <1>2 DEF Return

\* A step that writes neither the books nor the key map nor the memory, and
\* leaves what its call weighs, reserves, frees and charges.
LEMMA QuietStep ==
    ASSUME IndInv, NEW th \in Thread, call[th].pc \notin {"idle", "wipe"},
           TypeOK', CallInv', LockInv', LatchInv',
           UNCHANGED <<env, status, owner, used, charge, keys, mem, inherited, stuck>>,
           \A u \in Thread \ {th} : call'[u] = call[u] /\ depth'[u] = depth[u],
           \A q \in Pids \ {th[1]} : spin'[q] = spin[q],
           call'[th].pc \notin {"wipe", "take", "alloc", "count", "commit"},
           call[th].pc \notin {"take", "count", "commit"},
           OfDue[call'[th]] = OfDue[call[th]],
           OfUnrefunded[call'[th]] = OfUnrefunded[call[th]],
           Reserving(th)' => Reserving(th) /\ call'[th].slot = call[th].slot
    PROVE  IndInv'
<1>1. owner[th[1]] = th[1]
  BY Inside
<1>2. Tame'
  BY DEF IndInv, Tame
<1>3. OwnerInv'
  BY <1>1, OwnerKept
<1>4. SlotInv' /\ FreeInv' /\ KeyInv'
  <2>1. ~Freeing(th) /\ ~Freeing(th)' /\ ~Charging(th) /\ ~Charging(th)'
    BY DEF Freeing, Charging
  <2> QED
    BY <2>1, KeysKept
<1>5. TableInv'
  BY DEF IndInv, TableInv, At, Figure, Get
<1>6. ChargesExact' /\ UsedInv' /\ HeldWithinFigure'
  <2>1. /\ OfUncharged[call'[th]] = OfUncharged[call[th]]
        /\ OfUncounted[call'[th]] = OfUncounted[call[th]]
    BY DEF OfUncharged, OfUncounted, IndInv, TypeOK
  <2>2. Structure'
    BY <1>3, <1>4 DEF Structure
  <2> QED
    BY <2>1, <2>2, QuietBooks
<1> QED
  BY <1>2, <1>3, <1>4, <1>5, <1>6 DEF IndInv

\* One thread is elected to open the region.
LEMMA RegionOpenStep ==
    ASSUME IndInv, NEW th \in Thread, RegionOpen(th)
    PROVE  IndInv'
<1> DEFINE p == th[1]
<1>1. TypeOK /\ call[th].pc = "open"
  BY DEF IndInv, RegionOpen, At
<1>2. p \in Pids /\ th \in ThreadsOf(p) /\ owner[p] = p
  BY <1>1, Inside
<1>3. /\ UNCHANGED <<env, status, born, used, charge, flock, owner, spin, keys, depth, mem,
                     inherited, stuck>>
      /\ latch' \in [Pids -> {"untried", "opening", "usable", "unusable"}]
      /\ \A q \in Pids \ {p} : latch'[q] = latch[q]
      /\ latch'[p] = IF latch[p] = "untried" THEN "opening" ELSE latch[p]
  BY <1>1, <1>2 DEF RegionOpen, region, runtime, TypeOK
<1>4. CASE latch[p] = "untried" /\ Goto(th, "create")
  <2>1. /\ call' \in [Thread -> Calls]
        /\ \A u \in Thread \ {th} : call'[u] = call[u]
        /\ call'[th].pc = "create" /\ call'[th].op = call[th].op /\ call'[th].bytes = call[th].bytes
        /\ call'[th].slot = call[th].slot /\ call'[th].key = call[th].key
    BY <1>1, <1>4, Goes DEF PCs
  <2>2. TypeOK'
    BY <1>1, <1>3, <2>1 DEF TypeOK
  <2>3. CallInv'
    BY <1>1, <2>1 DEF IndInv, CallInv
  <2>4. LockInv'
    <3>1. \A u \in Thread : /\ call'[u].pc \in Locking <=> call[u].pc \in Locking
                            /\ call'[u].pc \in Spinning <=> call[u].pc \in Spinning
                            /\ u # th => (call'[u].pc = "create" <=> call[u].pc = "create")
      BY <1>1, <2>1 DEF Locking, Spinning
    <3>2. \A u \in ThreadsOf(p) : u # th => call'[u].pc # "create"
      BY <1>2, <1>4, <3>1, ThreadsFinite DEF IndInv, LockInv
    <3> QED
      BY <1>2, <1>3, <1>4, <3>1, <3>2, ThreadsFinite DEF IndInv, LockInv, ThreadsOf
  <2>5. LatchInv'
    BY <1>2, <1>3, <1>4, <2>1, ThreadsFinite DEF IndInv, LatchInv, ThreadsOf
  <2>6. OfDue[call'[th]] = OfDue[call[th]] /\ OfUnrefunded[call'[th]] = OfUnrefunded[call[th]]
    BY <1>1, <2>1 DEF OfDue, OfUnrefunded, TypeOK
  <2>7. ~Reserving(th)'
    BY <2>1 DEF Reserving
  <2> QED
    BY <1>1, <1>3, <2>1, <2>2, <2>3, <2>4, <2>5, <2>6, <2>7, QuietStep
<1>5. CASE latch[p] = "usable" /\ Goto(th, AfterOpen(call[th].op))
  <2>1. /\ call' \in [Thread -> Calls]
        /\ \A u \in Thread \ {th} : call'[u] = call[u]
        /\ call'[th].pc = AfterOpen(call[th].op)
        /\ call'[th].op = call[th].op /\ call'[th].bytes = call[th].bytes
        /\ call'[th].slot = call[th].slot /\ call'[th].key = call[th].key
    BY <1>1, <1>5, Goes DEF PCs, AfterOpen
  <2>2. call'[th].pc \in {"reserve", "spin"}
    BY <2>1 DEF AfterOpen
  <2>3. latch' = latch
    BY <1>3, <1>5, <1>1 DEF TypeOK
  <2>4. TypeOK'
    BY <1>1, <1>3, <2>1 DEF TypeOK
  <2>5. CallInv'
    BY <1>1, <2>1 DEF IndInv, CallInv, AfterOpen
  <2>6. LockInv'
    BY <1>1, <1>3, <2>1, <2>2, <2>3, LockKept DEF Locking, Spinning
  <2>7. LatchInv'
    BY <1>3, <1>5, <2>1, LatchKept
  <2>8. OfDue[call'[th]] = OfDue[call[th]] /\ OfUnrefunded[call'[th]] = OfUnrefunded[call[th]]
    BY <1>1, <2>1, <2>2 DEF OfDue, OfUnrefunded, TypeOK
  <2>9. ~Reserving(th)'
    BY <1>1, <2>1 DEF Reserving, AfterOpen, IndInv, CallInv
  <2> QED
    BY <1>1, <1>3, <2>1, <2>2, <2>4, <2>5, <2>6, <2>7, <2>8, <2>9, QuietStep
<1>6. CASE latch[p] = "unusable" /\ Return(th)
  <2>1. /\ call' \in [Thread -> Calls]
        /\ \A u \in Thread \ {th} : call'[u] = call[u]
        /\ call'[th] = NoCall
    BY <1>1, <1>6, Returns
  <2>2. call'[th].pc = "idle" /\ call'[th].op = "none" /\ call'[th].bytes = 0
    BY <2>1 DEF NoCall
  <2>3. latch' = latch
    BY <1>3, <1>6, <1>1 DEF TypeOK
  <2>4. TypeOK'
    BY <1>1, <1>3, <2>1 DEF TypeOK
  <2>5. CallInv'
    BY <2>1, <2>2 DEF IndInv, CallInv
  <2>6. LockInv'
    BY <1>1, <1>3, <2>1, <2>2, <2>3, LockKept DEF Locking, Spinning
  <2>7. LatchInv'
    BY <1>2, <1>3, <2>1, <2>2, <2>3, ThreadsFinite DEF IndInv, LatchInv, ThreadsOf
  <2>8. OfDue[call'[th]] = OfDue[call[th]] /\ OfUnrefunded[call'[th]] = OfUnrefunded[call[th]]
    <3>1. call[th].op = "release" => call[th].bytes = 0
      BY <1>2, <1>6 DEF IndInv, LatchInv
    <3> QED
      BY <1>1, <2>1, <2>2, <3>1 DEF OfDue, OfUnrefunded, TypeOK
  <2>9. ~Reserving(th)'
    BY <2>2 DEF Reserving
  <2> QED
    BY <1>1, <1>3, <2>1, <2>2, <2>4, <2>5, <2>6, <2>7, <2>8, <2>9, QuietStep
<1> QED
  BY <1>4, <1>5, <1>6 DEF RegionOpen

\* The region is usable, or it is not: nothing was admitted before.
LEMMA RegionCreateStep ==
    ASSUME IndInv, NEW th \in Thread, RegionCreate(th)
    PROVE  IndInv'
<1> DEFINE p == th[1]
<1>1. TypeOK /\ call[th].pc = "create"
  BY DEF IndInv, RegionCreate, At
<1>2. p \in Pids /\ th \in ThreadsOf(p) /\ owner[p] = p
  BY <1>1, Inside
<1>3. latch[p] = "opening" /\ \A u \in ThreadsOf(p) : u # th => call[u].pc # "create"
  BY <1>1, <1>2 DEF IndInv, LockInv
<1>4. PICK ok \in BOOLEAN :
        /\ latch' = [latch EXCEPT ![p] = IF ok THEN "usable" ELSE "unusable"]
        /\ IF ok THEN Goto(th, AfterOpen(call[th].op)) ELSE Return(th)
  BY DEF RegionCreate
<1>5. /\ UNCHANGED <<env, status, born, used, charge, flock, owner, spin, keys, depth, mem,
                     inherited, stuck>>
      /\ latch' \in [Pids -> {"untried", "opening", "usable", "unusable"}]
      /\ \A q \in Pids \ {p} : latch'[q] = latch[q]
      /\ latch'[p] = IF ok THEN "usable" ELSE "unusable"
  BY <1>1, <1>2, <1>4 DEF RegionCreate, region, runtime, TypeOK
<1>6. ASSUME call'[th].pc \notin Spinning \cup {"create"},
             \A u \in Thread \ {th} : call'[u] = call[u]
      PROVE  LockInv'
  <2>1. \A u \in Thread : /\ call'[u].pc \in Locking <=> call[u].pc \in Locking
                          /\ call'[u].pc \in Spinning <=> call[u].pc \in Spinning
                          /\ call'[u].pc = "create" => u # th /\ call[u].pc = "create"
    BY <1>1, <1>6 DEF Locking, Spinning
  <2>2. \A u \in ThreadsOf(p) : call'[u].pc # "create"
    BY <1>3, <2>1, ThreadsFinite
  <2> QED
    BY <1>2, <1>5, <2>1, <2>2, ThreadsFinite DEF IndInv, LockInv, ThreadsOf
<1>7. CASE ok
  <2>1. /\ call' \in [Thread -> Calls]
        /\ \A u \in Thread \ {th} : call'[u] = call[u]
        /\ call'[th].pc = AfterOpen(call[th].op)
        /\ call'[th].op = call[th].op /\ call'[th].bytes = call[th].bytes
        /\ call'[th].slot = call[th].slot /\ call'[th].key = call[th].key
    BY <1>1, <1>4, <1>7, Goes DEF PCs, AfterOpen
  <2>2. call'[th].pc \in {"reserve", "spin"}
    BY <2>1 DEF AfterOpen
  <2>3. TypeOK'
    BY <1>1, <1>5, <2>1 DEF TypeOK
  <2>4. CallInv'
    BY <1>1, <2>1 DEF IndInv, CallInv, AfterOpen
  <2>5. LockInv'
    BY <1>6, <2>1, <2>2 DEF Spinning, Locking
  <2>6. LatchInv'
    BY <1>5, <1>7, <2>1, LatchKept
  <2>7. OfDue[call'[th]] = OfDue[call[th]] /\ OfUnrefunded[call'[th]] = OfUnrefunded[call[th]]
    BY <1>1, <2>1, <2>2 DEF OfDue, OfUnrefunded, TypeOK
  <2>8. ~Reserving(th)'
    BY <1>1, <2>1 DEF Reserving, AfterOpen, IndInv, CallInv
  <2> QED
    BY <1>1, <1>5, <2>1, <2>2, <2>3, <2>4, <2>5, <2>6, <2>7, <2>8, QuietStep
<1>8. CASE ~ok
  <2>1. /\ call' \in [Thread -> Calls]
        /\ \A u \in Thread \ {th} : call'[u] = call[u]
        /\ call'[th] = NoCall
    BY <1>1, <1>4, <1>8, Returns
  <2>2. call'[th].pc = "idle" /\ call'[th].op = "none" /\ call'[th].bytes = 0
    BY <2>1 DEF NoCall
  <2>3. TypeOK'
    BY <1>1, <1>5, <2>1 DEF TypeOK
  <2>4. CallInv'
    BY <2>1, <2>2 DEF IndInv, CallInv
  <2>5. LockInv'
    BY <1>6, <2>1, <2>2 DEF Spinning, Locking
  <2>6. LatchInv'
    BY <1>2, <1>3, <1>5, <2>1, <2>2, ThreadsFinite DEF IndInv, LatchInv, ThreadsOf
  <2>7. OfDue[call'[th]] = OfDue[call[th]] /\ OfUnrefunded[call'[th]] = OfUnrefunded[call[th]]
    <3>1. call[th].op = "release" => call[th].bytes = 0
      BY <1>2, <1>3 DEF IndInv, LatchInv
    <3> QED
      BY <1>1, <2>1, <2>2, <3>1 DEF OfDue, OfUnrefunded, TypeOK
  <2>8. ~Reserving(th)'
    BY <2>2 DEF Reserving
  <2> QED
    BY <1>1, <1>5, <2>1, <2>2, <2>3, <2>4, <2>5, <2>6, <2>7, <2>8, QuietStep
<1> QED
  BY <1>4, <1>7, <1>8

\* The spin lock keeps the process's other threads out.
LEMMA SpinLockStep ==
    ASSUME IndInv, NEW th \in Thread, SpinLock(th)
    PROVE  IndInv'
<1> DEFINE p == th[1]
<1>1. TypeOK /\ call[th].pc = "spin"
  BY DEF IndInv, SpinLock, At
<1>2. p \in Pids /\ th \in ThreadsOf(p) /\ owner[p] = p /\ latch[p] = "usable"
  BY <1>1, Inside
<1>3. depth[th] = 0
  BY <1>1, <1>2 DEF IndInv, LockInv, Locking
<1>4. /\ ~spin[p] /\ Goto(th, "flock")
      /\ UNCHANGED <<env, status, born, used, charge, flock, owner, latch, keys, depth, mem,
                     inherited, stuck>>
      /\ spin' \in [Pids -> BOOLEAN] /\ spin'[p] /\ \A q \in Pids \ {p} : spin'[q] = spin[q]
  <2>1. ~(depth[th] > 0)
    BY <1>3
  <2>2. /\ ~spin[p] /\ spin' = [spin EXCEPT ![p] = TRUE] /\ Goto(th, "flock") /\ UNCHANGED depth
        /\ UNCHANGED <<env, status, born, region, owner, latch, keys, runtime, stuck>>
    BY <2>1, Zenon DEF SpinLock
  <2>3. spin \in [Pids -> BOOLEAN]
    BY <1>1 DEF TypeOK
  <2> QED
    BY <1>2, <2>2, <2>3 DEF region, runtime
<1>5. /\ call' \in [Thread -> Calls]
      /\ \A u \in Thread \ {th} : call'[u] = call[u]
      /\ call'[th].pc = "flock" /\ call'[th].op = call[th].op /\ call'[th].bytes = call[th].bytes
      /\ call'[th].slot = call[th].slot /\ call'[th].key = call[th].key
  BY <1>1, <1>4, Goes DEF PCs
<1>6. TypeOK'
  BY <1>1, <1>4, <1>5 DEF TypeOK
<1>7. CallInv'
  BY <1>1, <1>5 DEF IndInv, CallInv
<1>8. LockInv'
  <2>1. \A u \in Thread \ {th} : call'[u].pc = call[u].pc
    BY <1>5
  <2>2. \A u \in ThreadsOf(p) : u # th => call'[u].pc \notin Spinning
    BY <1>2, <1>4, <2>1, ThreadsFinite DEF IndInv, LockInv
  <2>3. call'[th].pc \notin Locking /\ call'[th].pc # "create"
    BY <1>5 DEF Locking
  <2> QED
    BY <1>1, <1>2, <1>3, <1>4, <2>1, <2>2, <2>3, ThreadsFinite
    DEF IndInv, LockInv, ThreadsOf
<1>9. LatchInv'
  BY <1>2, <1>4, <1>5, LatchKept
<1>10. OfDue[call'[th]] = OfDue[call[th]] /\ OfUnrefunded[call'[th]] = OfUnrefunded[call[th]]
  BY <1>1, <1>5 DEF OfDue, OfUnrefunded, TypeOK
<1>11. Reserving(th)' => Reserving(th)
  BY <1>1, <1>5 DEF Reserving
<1> QED
  BY <1>1, <1>4, <1>5, <1>6, <1>7, <1>8, <1>9, <1>10, <1>11, QuietStep

\* The record lock keeps the other processes out.
LEMMA RecordLockStep ==
    ASSUME IndInv, NEW th \in Thread, RecordLock(th)
    PROVE  IndInv'
<1> DEFINE p == th[1]
<1>1. TypeOK /\ call[th].pc = "flock" /\ flock \in {0, p}
  BY DEF IndInv, RecordLock, At
<1>2. p \in Pids /\ th \in ThreadsOf(p) /\ owner[p] = p /\ latch[p] = "usable"
  BY <1>1, Inside
<1>3. /\ flock' = p /\ Goto(th, Locked(call[th].op))
      /\ UNCHANGED <<env, status, born, used, charge, owner, latch, spin, keys, mem,
                     inherited, stuck>>
      /\ depth' \in [Thread -> 0..2] /\ depth'[th] = 1
      /\ \A u \in Thread \ {th} : depth'[u] = depth[u]
  BY <1>1, <1>2 DEF RecordLock, runtime, TypeOK
<1>4. /\ call' \in [Thread -> Calls]
      /\ \A u \in Thread \ {th} : call'[u] = call[u]
      /\ call'[th].pc = Locked(call[th].op)
      /\ call'[th].op = call[th].op /\ call'[th].bytes = call[th].bytes
      /\ call'[th].slot = call[th].slot /\ call'[th].key = call[th].key
  BY <1>1, <1>3, Goes DEF PCs, Locked
<1>5. call'[th].pc \in {"decide", "refund"}
  BY <1>4 DEF Locked
<1>6. TypeOK'
  BY <1>1, <1>2, <1>3, <1>4 DEF TypeOK
<1>7. CallInv'
  <2>1. call[th].op \in {"admit", "release"}
    BY <1>1 DEF IndInv, CallInv, TypeOK, Calls
  <2> QED
    BY <1>4, <1>5, <2>1 DEF IndInv, CallInv, Locked
<1>8. LockInv'
  <2>1. \A u \in Thread \ {th} : call'[u].pc = call[u].pc /\ depth'[u] = depth[u]
    BY <1>3, <1>4
  <2>2. call[th].pc \in Spinning /\ call'[th].pc \in Spinning /\ call'[th].pc \in Locking
        /\ call'[th].pc # "create"
    BY <1>1, <1>5 DEF Spinning, Locking
  <2>3. \A u \in Thread : call[u].pc \in Locking => call[u].pc \in Spinning
    BY DEF Spinning
  <2>4. \A q \in Pids \ {p} : owner[q] = q => \A u \in ThreadsOf(q) : call[u].pc \notin Locking
    BY <1>1, Bounds DEF IndInv, LockInv
  <2>5. \A u \in ThreadsOf(p) : u # th => call[u].pc \notin Spinning
    BY <1>2, <2>2 DEF IndInv, LockInv
  <2> QED
    BY <1>2, <1>3, <2>1, <2>2, <2>3, <2>4, <2>5, ThreadsFinite DEF IndInv, LockInv, ThreadsOf
<1>9. LatchInv'
  BY <1>2, <1>3, <1>4, LatchKept
<1>10. OfDue[call'[th]] = OfDue[call[th]] /\ OfUnrefunded[call'[th]] = OfUnrefunded[call[th]]
  BY <1>1, <1>4, <1>5 DEF OfDue, OfUnrefunded, TypeOK
<1>11. Reserving(th)' => Reserving(th)
  BY <1>1, <1>4 DEF Reserving
<1> QED
  BY <1>1, <1>3, <1>4, <1>5, <1>6, <1>7, <1>8, <1>9, <1>10, <1>11, QuietStep

\* The record lock is released first.
LEMMA RecordUnlockStep ==
    ASSUME IndInv, NEW th \in Thread, RecordUnlock(th)
    PROVE  IndInv'
<1> DEFINE p == th[1]
<1>1. TypeOK /\ call[th].pc = "funlock"
  BY DEF IndInv, RecordUnlock, At
<1>2. p \in Pids /\ th \in ThreadsOf(p) /\ owner[p] = p /\ latch[p] = "usable"
  BY <1>1, Inside
<1>3. depth[th] = 1 /\ flock = p /\ spin[p]
  BY <1>1, <1>2 DEF IndInv, LockInv, Locking, Spinning
<1>4. /\ flock' = 0 /\ Goto(th, "sunlock")
      /\ UNCHANGED <<env, status, born, used, charge, owner, latch, spin, keys, mem,
                     inherited, stuck>>
      /\ depth' \in [Thread -> 0..2] /\ depth'[th] = 0
      /\ \A u \in Thread \ {th} : depth'[u] = depth[u]
  BY <1>1, <1>2, <1>3 DEF RecordUnlock, runtime, TypeOK
<1>5. /\ call' \in [Thread -> Calls]
      /\ \A u \in Thread \ {th} : call'[u] = call[u]
      /\ call'[th].pc = "sunlock" /\ call'[th].op = call[th].op
      /\ call'[th].bytes = call[th].bytes
      /\ call'[th].slot = call[th].slot /\ call'[th].key = call[th].key
  BY <1>1, <1>4, Goes DEF PCs
<1>6. TypeOK'
  BY <1>1, <1>2, <1>4, <1>5 DEF TypeOK
<1>7. CallInv'
  BY <1>1, <1>5 DEF IndInv, CallInv
<1>8. LockInv'
  <2>1. \A u \in Thread \ {th} : call'[u].pc = call[u].pc /\ depth'[u] = depth[u]
    BY <1>4, <1>5
  <2>2. call[th].pc \in Spinning /\ call[th].pc \in Locking /\ call'[th].pc \in Spinning
        /\ call'[th].pc \notin Locking /\ call'[th].pc # "create"
    BY <1>1, <1>5 DEF Spinning, Locking
  <2>3. \A u \in Thread : call[u].pc \in Locking => call[u].pc \in Spinning
    BY DEF Spinning
  <2>4. \A q \in Pids \ {p} : owner[q] = q => \A u \in ThreadsOf(q) : call[u].pc \notin Locking
    BY <1>3 DEF IndInv, LockInv
  <2>5. \A u \in ThreadsOf(p) : u # th => call[u].pc \notin Spinning
    BY <1>2, <2>2 DEF IndInv, LockInv
  <2> QED
    BY <1>2, <1>3, <1>4, <2>1, <2>2, <2>3, <2>4, <2>5, ThreadsFinite
    DEF IndInv, LockInv, ThreadsOf
<1>9. LatchInv'
  BY <1>2, <1>4, <1>5, LatchKept
<1>10. OfDue[call'[th]] = OfDue[call[th]] /\ OfUnrefunded[call'[th]] = OfUnrefunded[call[th]]
  BY <1>1, <1>5 DEF OfDue, OfUnrefunded, TypeOK
<1>11. Reserving(th)' => Reserving(th)
  BY <1>1, <1>5 DEF Reserving, IndInv, CallInv
<1> QED
  BY <1>1, <1>4, <1>5, <1>6, <1>7, <1>8, <1>9, <1>10, <1>11, QuietStep

\* A step that gives up the spin lock, with the record lock given up before.
LEMMA SpinFreed ==
    ASSUME IndInv, NEW th \in Thread, call[th].pc \in {"flock", "sunlock"},
           UNCHANGED <<owner, depth, flock, latch>>,
           \A q \in Pids \ {th[1]} : spin'[q] = spin[q],
           \A u \in Thread \ {th} : call'[u] = call[u],
           call'[th].pc \in {"idle", "giveback"}
    PROVE  LockInv'
<1>1. th[1] \in Pids /\ th \in ThreadsOf(th[1]) /\ owner[th[1]] = th[1]
  BY Inside
<1>2. \A u \in Thread \ {th} : call'[u].pc = call[u].pc
  OBVIOUS
<1>3. /\ call[th].pc \in Spinning /\ call[th].pc \notin Locking
      /\ call'[th].pc \notin Spinning /\ call'[th].pc \notin Locking /\ call'[th].pc # "create"
  BY DEF Spinning, Locking
<1>4. \A u \in ThreadsOf(th[1]) : u # th => call'[u].pc \notin Spinning
  BY <1>1, <1>2, <1>3, ThreadsFinite DEF IndInv, LockInv
<1> QED
  BY <1>1, <1>2, <1>3, <1>4, ThreadsFinite DEF IndInv, LockInv, ThreadsOf

LEMMA SpinUnlockStep ==
    ASSUME IndInv, NEW th \in Thread, SpinUnlock(th)
    PROVE  IndInv'
<1> DEFINE p == th[1]
<1>1. TypeOK /\ call[th].pc = "sunlock"
  BY DEF IndInv, SpinUnlock, At
<1>2. p \in Pids /\ th \in ThreadsOf(p) /\ owner[p] = p /\ latch[p] = "usable"
  BY <1>1, Inside
<1>3. /\ AfterUnlock(th)
      /\ UNCHANGED <<env, status, born, used, charge, flock, owner, latch, keys, depth, mem,
                     inherited, stuck>>
      /\ spin' \in [Pids -> BOOLEAN] /\ \A q \in Pids \ {p} : spin'[q] = spin[q]
  BY <1>1, <1>2 DEF SpinUnlock, region, runtime, TypeOK
<1>4. /\ call' \in [Thread -> Calls]
      /\ \A u \in Thread \ {th} : call'[u] = call[u]
      /\ \/ call'[th] = NoCall /\ call[th].op # "refused"
         \/ /\ call'[th].pc = "giveback" /\ call[th].op = "refused" /\ call'[th].op = "refused"
            /\ call'[th].slot = call[th].slot
  BY <1>1, <1>3, Goes, Returns DEF AfterUnlock, PCs
<1>5. NoCall.pc = "idle" /\ NoCall.op = "none" /\ NoCall.bytes = 0
  BY DEF NoCall
<1>6. call'[th].pc \in {"idle", "giveback"} /\ call'[th].op # "release"
  BY <1>4, <1>5
<1>7. TypeOK'
  BY <1>1, <1>3, <1>4 DEF TypeOK
<1>8. CallInv'
  BY <1>4, <1>5 DEF IndInv, CallInv
<1>9. LockInv'
  BY <1>1, <1>3, <1>4, <1>6, SpinFreed
<1>10. LatchInv'
  BY <1>2, <1>3, <1>4, LatchKept
<1>11. OfDue[call'[th]] = OfDue[call[th]] /\ OfUnrefunded[call'[th]] = OfUnrefunded[call[th]]
  BY <1>1, <1>4, <1>6 DEF OfDue, OfUnrefunded, TypeOK
<1>12. Reserving(th)' => Reserving(th) /\ call'[th].slot = call[th].slot
  BY <1>1, <1>4, <1>5 DEF Reserving
<1> QED
  BY <1>1, <1>3, <1>4, <1>6, <1>7, <1>8, <1>9, <1>10, <1>11, <1>12, QuietStep

\* A step that leaves the key map and the memory, and writes the books by what
\* its call's weight changes.
LEMMA BookStep ==
    ASSUME IndInv, NEW th \in Thread, call[th].pc \notin {"idle", "wipe"},
           TypeOK', CallInv', LockInv', LatchInv', TableInv',
           UNCHANGED <<env, status, owner, keys, mem, inherited>>,
           \A u \in Thread \ {th} : call'[u] = call[u] /\ depth'[u] = depth[u],
           \A q \in Pids \ {th[1]} : spin'[q] = spin[q],
           call'[th].pc # "wipe",
           Reserving(th)' => Reserving(th) /\ call'[th].slot = call[th].slot,
           ~Freeing(th), ~Freeing(th)', Charging(th)' <=> Charging(th),
           Charging(th) => call'[th].key = call[th].key /\ call'[th].bytes = call[th].bytes,
           \A q \in Pids \ {th[1]} : stuck'[q] = stuck[q],
           \A q \in Pids \ {th[1]} : status[q] = "up" => Get(charge, q)' = Get(charge, q),
           Get(charge, th[1])' + OfUncharged[call'[th]] + OfDue[call[th]] + stuck[th[1]]
             = Get(charge, th[1]) + OfUncharged[call[th]] + OfDue[call'[th]] + stuck'[th[1]],
           \/ UsedInv'
           \/ OfUnrefunded[call'[th]] + OfUncounted[call[th]] + used
                <= OfUnrefunded[call[th]] + OfUncounted[call'[th]] + used'
    PROVE  IndInv'
<1>1. /\ owner[th[1]] = th[1] /\ th[1] \in Pids
      /\ TypeOK /\ Structure /\ ChargesExact /\ UsedInv /\ HeldWithinFigure
  BY Inside DEF IndInv, Structure
<1>2. Tame'
  BY DEF IndInv, Tame
<1>3. OwnerInv'
  BY <1>1, OwnerKept
<1>4. SlotInv' /\ FreeInv' /\ KeyInv'
  BY KeysKept
<1>5. Structure'
  BY <1>3, <1>4 DEF Structure
<1>6. \A q \in Pids : Held(q)' = Held(q)
  BY DEF Held
<1>7. /\ Held(th[1]) \in Nat /\ used \in Nat /\ Get(charge, th[1]) \in Nat /\ stuck[th[1]] \in Nat
  BY <1>1, NumbersOK DEF Numbers
<1>8. /\ used' \in Nat /\ Get(charge, th[1])' \in Nat /\ stuck'[th[1]] \in Nat
  BY <1>1, NumbersNext DEF Numbers
<1>9. /\ OfUncharged[call[th]] \in Nat /\ OfUncounted[call[th]] \in Nat
      /\ OfDue[call[th]] \in Nat /\ OfUnrefunded[call[th]] \in Nat
      /\ OfUncharged[call'[th]] \in Nat /\ OfUncounted[call'[th]] \in Nat
      /\ OfDue[call'[th]] \in Nat /\ OfUnrefunded[call'[th]] \in Nat
  BY <1>1, Moves
<1>10. ChargesExact'
  <2>1. Get(charge, th[1])' + OfUncharged[call'[th]] + Held(th[1]) + OfDue[call[th]] + stuck[th[1]]
          = Get(charge, th[1]) + OfUncharged[call[th]] + Held(th[1])' + OfDue[call'[th]]
              + stuck'[th[1]]
    <3>1. Held(th[1])' = Held(th[1])
      BY <1>1, <1>6
    <3>2. PICK h \in Nat : h = Held(th[1])
      BY <1>7
    <3>3. PICK c, u, d, s \in Nat : /\ c = Get(charge, th[1]) /\ u = OfUncharged[call[th]]
                                    /\ d = OfDue[call[th]] /\ s = stuck[th[1]]
      BY <1>7, <1>9
    <3>4. PICK cc, uu, dd, ss \in Nat : /\ cc = Get(charge, th[1])' /\ uu = OfUncharged[call'[th]]
                                        /\ dd = OfDue[call'[th]] /\ ss = stuck'[th[1]]
      BY <1>8, <1>9
    <3>5. cc + uu + d + s = c + u + dd + ss
      BY <3>3, <3>4
    <3>6. cc + uu + h + d + s = c + u + h + dd + ss
      BY <3>5
    <3> QED
      BY <3>1, <3>2, <3>3, <3>4, <3>6
  <2>2. \A q \in Pids : status'[q] = status[q]
    OBVIOUS
  <2> QED
    BY <1>1, <1>6, <2>1, <2>2, ChargesMove
<1>11. UsedInv'
  <2>1. CASE UsedInv'
    BY <2>1
  <2>2. CASE OfUnrefunded[call'[th]] + OfUncounted[call[th]] + used
               <= OfUnrefunded[call[th]] + OfUncounted[call'[th]] + used'
    <3>1. Held(th[1])' + OfUnrefunded[call'[th]] + OfUncounted[call[th]] + used
            <= Held(th[1]) + OfUnrefunded[call[th]] + OfUncounted[call'[th]] + used'
      <4>1. Held(th[1])' = Held(th[1])
        BY <1>1, <1>6
      <4> QED
        BY <1>7, <1>8, <1>9, <2>2, <4>1
    <3> QED
      BY <1>1, <1>5, <1>6, <3>1, UsedMoves
  <2> QED
    BY <2>1, <2>2
<1>12. HeldWithinFigure'
  <2>1. \A q \in Pids : Held(q)' <= Held(q)
    BY <1>1, <1>6, NumbersOK DEF Numbers
  <2> QED
    BY <1>1, <2>1, HeldMoves
<1> QED
  BY <1>2, <1>3, <1>4, <1>10, <1>11, <1>12 DEF IndInv

\* The kernel refuses the record lock: what was to be refunded is stuck.
LEMMA RecordLockFailsStep ==
    ASSUME IndInv, NEW th \in Thread, RecordLockFails(th)
    PROVE  IndInv'
<1> DEFINE p == th[1]
<1>1. TypeOK /\ call[th].pc = "flock"
  BY DEF IndInv, RecordLockFails, At
<1>2. /\ p \in Pids /\ th \in ThreadsOf(p) /\ owner[p] = p /\ latch[p] = "usable"
      /\ status[p] = "up"
  BY <1>1, Inside
<1>3. /\ UNCHANGED <<env, status, born, used, charge, flock, owner, latch, keys, depth, mem,
                     inherited>>
      /\ spin' \in [Pids -> BOOLEAN] /\ \A q \in Pids \ {p} : spin'[q] = spin[q]
  BY <1>1, <1>2 DEF RecordLockFails, region, runtime, TypeOK
<1>4. CASE call[th].op = "admit" /\ Goto(th, "giveback") /\ UNCHANGED stuck
  <2>1. /\ call' \in [Thread -> Calls]
        /\ \A u \in Thread \ {th} : call'[u] = call[u]
        /\ call'[th].pc = "giveback" /\ call'[th].op = "admit"
        /\ call'[th].slot = call[th].slot
    BY <1>1, <1>4, Goes DEF PCs
  <2>2. TypeOK'
    BY <1>1, <1>3, <1>4, <2>1 DEF TypeOK
  <2>3. CallInv'
    BY <2>1 DEF IndInv, CallInv
  <2>4. LockInv'
    BY <1>1, <1>3, <2>1, SpinFreed
  <2>5. LatchInv'
    BY <1>2, <1>3, <2>1, LatchKept
  <2>6. OfDue[call'[th]] = OfDue[call[th]] /\ OfUnrefunded[call'[th]] = OfUnrefunded[call[th]]
    BY <1>1, <1>4, <2>1 DEF OfDue, OfUnrefunded, TypeOK
  <2>7. Reserving(th)' => Reserving(th)
    BY <1>1, <1>4, <2>1 DEF Reserving
  <2> QED
    BY <1>1, <1>3, <1>4, <2>1, <2>2, <2>3, <2>4, <2>5, <2>6, <2>7, QuietStep
<1>5. CASE /\ call[th].op = "release" /\ Return(th)
           /\ stuck' = [stuck EXCEPT ![p] = @ + call[th].bytes]
  <2>1. /\ call' \in [Thread -> Calls]
        /\ \A u \in Thread \ {th} : call'[u] = call[u]
        /\ call'[th] = NoCall
    BY <1>1, <1>5, Returns
  <2>2. call'[th].pc = "idle" /\ call'[th].op = "none" /\ call'[th].bytes = 0
    BY <2>1 DEF NoCall
  <2>3. /\ call[th].bytes \in Nat /\ stuck[p] \in Nat
        /\ stuck' \in [Pids -> Nat] /\ stuck'[p] = stuck[p] + call[th].bytes
        /\ \A q \in Pids \ {p} : stuck'[q] = stuck[q]
    BY <1>1, <1>2, <1>5 DEF TypeOK, Calls
  <2>4. TypeOK'
    BY <1>1, <1>3, <2>1, <2>3 DEF TypeOK
  <2>5. CallInv'
    BY <2>1, <2>2 DEF IndInv, CallInv
  <2>6. LockInv'
    BY <1>1, <1>3, <2>1, <2>2, SpinFreed
  <2>7. LatchInv'
    BY <1>2, <1>3, <2>1, LatchKept
  <2>8. TableInv'
    BY <1>2, <1>3, <2>1, <2>2, <2>3 DEF IndInv, TableInv, At, Figure, Get
  <2>9. /\ OfDue[call[th]] = call[th].bytes /\ OfUnrefunded[call[th]] = call[th].bytes
        /\ OfUncharged[call[th]] = 0 /\ OfUncounted[call[th]] = 0
        /\ OfDue[call'[th]] = 0 /\ OfUnrefunded[call'[th]] = 0
        /\ OfUncharged[call'[th]] = 0 /\ OfUncounted[call'[th]] = 0
    BY <1>1, <1>5, <2>1, <2>2 DEF OfDue, OfUnrefunded, OfUncharged, OfUncounted, TypeOK
  <2>10. /\ ~Reserving(th)' /\ ~Freeing(th) /\ ~Freeing(th)'
         /\ ~Charging(th) /\ ~Charging(th)'
    BY <1>1, <2>2 DEF Reserving, Freeing, Charging
  <2>11. /\ \A q \in Pids : Get(charge, q)' = Get(charge, q)
         /\ used' = used /\ used \in Nat /\ Get(charge, p) \in Nat
    BY <1>1, <1>2, <1>3, NumbersOK DEF Get, Numbers
  <2>12. Get(charge, p)' + OfUncharged[call'[th]] + OfDue[call[th]] + stuck[p]
             = Get(charge, p) + OfUncharged[call[th]] + OfDue[call'[th]] + stuck'[p]
    BY <1>2, <2>3, <2>9, <2>11
  <2>13. OfUnrefunded[call'[th]] + OfUncounted[call[th]] + used
           <= OfUnrefunded[call[th]] + OfUncounted[call'[th]] + used'
    BY <2>3, <2>9, <2>11
  <2> QED
    BY <1>1, <1>3, <2>1, <2>2, <2>3, <2>4, <2>5, <2>6, <2>7, <2>8, <2>10, <2>11, <2>12,
       <2>13, BookStep
<1> QED
  BY <1>4, <1>5 DEF RecordLockFails

-----------------------------------------------------------------------------
(* The steps under the lock.                                                *)

\* The thread that holds the card's lock is the only one at these steps.
LEMMA OneUnderLock ==
    ASSUME IndInv, NEW th \in Thread, call[th].pc \in Locking
    PROVE  \A u \in Thread \ {th} : call[u].pc \notin Locking
BY OneHolder DEF IndInv, Alone

\* The total first, when memory was taken.
LEMMA CountStep ==
    ASSUME IndInv, NEW th \in Thread, Count(th)
    PROVE  IndInv'
<1> DEFINE p == th[1]
<1>1. TypeOK /\ call[th].pc = "count"
  BY DEF IndInv, Count, At
<1>2. p \in Pids /\ th \in ThreadsOf(p) /\ owner[p] = p /\ latch[p] = "usable"
  BY <1>1, Inside
<1>3. /\ Goto(th, "commit") /\ used' = used + call[th].bytes
      /\ UNCHANGED <<env, status, born, charge, flock, owner, latch, spin, keys, depth, mem,
                     inherited, stuck>>
  BY DEF Count, private, runtime
<1>4. /\ call' \in [Thread -> Calls]
      /\ \A u \in Thread \ {th} : call'[u] = call[u]
      /\ call'[th].pc = "commit" /\ call'[th].op = call[th].op /\ call'[th].bytes = call[th].bytes
      /\ call'[th].slot = call[th].slot /\ call'[th].key = call[th].key
  BY <1>1, <1>3, Goes DEF PCs
<1>5. used \in Nat /\ used' \in Nat /\ call[th].bytes \in Nat
  BY <1>1, <1>3 DEF TypeOK, Calls
<1>6. TypeOK'
  BY <1>1, <1>3, <1>4, <1>5 DEF TypeOK
<1>7. CallInv'
  BY <1>1, <1>4 DEF IndInv, CallInv
<1>8. LockInv'
  BY <1>1, <1>3, <1>4, LockKept DEF Locking, Spinning
<1>9. LatchInv'
  BY <1>2, <1>3, <1>4, LatchKept
<1>10. TableInv'
  <2>1. \A u \in Thread \ {th} : call'[u].pc \notin {"alloc", "count", "commit"}
    BY <1>1, <1>4, OneUnderLock DEF Locking
  <2> QED
    BY <1>1, <1>3, <1>4, <2>1 DEF IndInv, TableInv, At, Get
<1>11. /\ OfDue[call[th]] = 0 /\ OfUnrefunded[call[th]] = 0
       /\ OfUncharged[call[th]] = call[th].bytes /\ OfUncounted[call[th]] = call[th].bytes
       /\ OfDue[call'[th]] = 0 /\ OfUnrefunded[call'[th]] = 0
       /\ OfUncharged[call'[th]] = call[th].bytes /\ OfUncounted[call'[th]] = 0
  <2>1. call[th].op = "admit"
    BY <1>1 DEF IndInv, CallInv
  <2> QED
    BY <1>1, <1>4, <2>1 DEF OfDue, OfUnrefunded, OfUncharged, OfUncounted, TypeOK
<1>12. /\ Charging(th) /\ Charging(th)' /\ ~Freeing(th) /\ ~Freeing(th)'
       /\ Reserving(th)' => Reserving(th)
  BY <1>1, <1>4 DEF Reserving, Freeing, Charging
<1>13. \A q \in Pids : Get(charge, q)' = Get(charge, q)
  BY <1>3 DEF Get
<1>14. Get(charge, p) \in Nat /\ stuck[p] \in Nat /\ stuck'[p] = stuck[p]
  BY <1>1, <1>2, <1>3, NumbersOK DEF Numbers
<1>15. Get(charge, p)' + OfUncharged[call'[th]] + OfDue[call[th]] + stuck[p]
         = Get(charge, p) + OfUncharged[call[th]] + OfDue[call'[th]] + stuck'[p]
  BY <1>2, <1>11, <1>13, <1>14
<1>16. OfUnrefunded[call'[th]] + OfUncounted[call[th]] + used
         <= OfUnrefunded[call[th]] + OfUncounted[call'[th]] + used'
  BY <1>3, <1>5, <1>11
<1> QED
  BY <1>1, <1>3, <1>4, <1>6, <1>7, <1>8, <1>9, <1>10, <1>12, <1>13, <1>15, <1>16, BookStep

\* The total first, when memory was freed.
LEMMA RefundStep ==
    ASSUME IndInv, NEW th \in Thread, Refund(th)
    PROVE  IndInv'
<1> DEFINE p == th[1]
<1>1. TypeOK /\ call[th].pc = "refund"
  BY DEF IndInv, Refund, At
<1>2. p \in Pids /\ th \in ThreadsOf(p) /\ owner[p] = p /\ latch[p] = "usable"
  BY <1>1, Inside
<1>3. /\ Goto(th, "uncharge") /\ used' = Minus(used, call[th].bytes)
      /\ UNCHANGED <<env, status, born, charge, flock, owner, latch, spin, keys, depth, mem,
                     inherited, stuck>>
  BY DEF Refund, private, runtime
<1>4. /\ call' \in [Thread -> Calls]
      /\ \A u \in Thread \ {th} : call'[u] = call[u]
      /\ call'[th].pc = "uncharge" /\ call'[th].op = call[th].op
      /\ call'[th].bytes = call[th].bytes
      /\ call'[th].slot = call[th].slot /\ call'[th].key = call[th].key
  BY <1>1, <1>3, Goes DEF PCs
<1>5. used \in Nat /\ call[th].bytes \in Nat
  BY <1>1 DEF TypeOK, Calls
<1>6. used' \in Nat /\ used <= call[th].bytes + used'
  BY <1>3, <1>5 DEF Minus
<1>7. TypeOK'
  BY <1>1, <1>3, <1>4, <1>6 DEF TypeOK
<1>8. CallInv'
  BY <1>1, <1>4 DEF IndInv, CallInv
<1>9. LockInv'
  BY <1>1, <1>3, <1>4, LockKept DEF Locking, Spinning
<1>10. LatchInv'
  BY <1>2, <1>3, <1>4, LatchKept
<1>11. TableInv'
  <2>1. \A u \in Thread \ {th} : call'[u].pc \notin {"alloc", "count", "commit"}
    BY <1>1, <1>4, OneUnderLock DEF Locking
  <2> QED
    BY <1>1, <1>3, <1>4, <2>1 DEF IndInv, TableInv, At, Get
<1>12. /\ OfDue[call'[th]] = OfDue[call[th]] /\ OfUnrefunded[call[th]] = call[th].bytes
       /\ OfUncharged[call[th]] = 0 /\ OfUncounted[call[th]] = 0
       /\ OfUnrefunded[call'[th]] = 0 /\ OfDue[call[th]] \in Nat
       /\ OfUncharged[call'[th]] = 0 /\ OfUncounted[call'[th]] = 0
  <2>1. call[th].op = "release"
    BY <1>1 DEF IndInv, CallInv
  <2> QED
    BY <1>1, <1>4, <1>5, <2>1 DEF OfDue, OfUnrefunded, OfUncharged, OfUncounted, TypeOK
<1>13. /\ ~Charging(th) /\ ~Charging(th)' /\ ~Freeing(th) /\ ~Freeing(th)' /\ ~Reserving(th)'
  BY <1>1, <1>4 DEF Reserving, Freeing, Charging
<1>14. \A q \in Pids : Get(charge, q)' = Get(charge, q)
  BY <1>3 DEF Get
<1>15. Get(charge, p) \in Nat /\ stuck[p] \in Nat /\ stuck'[p] = stuck[p]
  BY <1>1, <1>2, <1>3, NumbersOK DEF Numbers
<1>16. Get(charge, p)' + OfUncharged[call'[th]] + OfDue[call[th]] + stuck[p]
         = Get(charge, p) + OfUncharged[call[th]] + OfDue[call'[th]] + stuck'[p]
  BY <1>2, <1>12, <1>14, <1>15
<1>17. OfUnrefunded[call'[th]] + OfUncounted[call[th]] + used
         <= OfUnrefunded[call[th]] + OfUncounted[call'[th]] + used'
  BY <1>5, <1>6, <1>12
<1> QED
  BY <1>1, <1>3, <1>4, <1>7, <1>8, <1>9, <1>10, <1>11, <1>13, <1>14, <1>16, <1>17, BookStep

\* One call's weight is within its process's sum.
LEMMA AcrossPart ==
    ASSUME NEW w \in Weights, NEW cl \in [Thread -> Calls], NEW th \in Thread
    PROVE  w[cl[th]] <= Across(w, cl, th[1])
<1> DEFINE S == ThreadsOf(th[1])
           f == [u \in S |-> w[cl[u]]]
<1>1. th \in S /\ IsFiniteSet(S)
  BY ThreadsFinite DEF ThreadsOf
<1>2. (\A u \in S : f[u] \in Nat) /\ f[th] = w[cl[th]]
  BY <1>1, WeightsAreNat, ThreadsFinite
<1>3. f[th] <= Sum(f, S)
  <2> HIDE DEF f, S
  <2> QED
    BY <1>1, <1>2, SumPart
<1> QED
  BY <1>2, <1>3 DEF Across

\* Where nobody is between the allocation and the charge, a process that runs is
\* charged what it holds and has yet to refund.
LEMMA Settled ==
    ASSUME IndInv, NEW p \in Pids, status[p] = "up",
           \A th \in ThreadsOf(p) : call[th].pc \notin {"count", "commit"}
    PROVE  /\ Get(charge, p) = Held(p) + Due(p) + stuck[p]
           /\ Uncounted(p) = 0
<1>1. TypeOK /\ call \in [Thread -> Calls] /\ OfUncharged \in Weights /\ OfUncounted \in Weights
  BY DEF IndInv, TypeOK, Weights
<1>2. \A th \in ThreadsOf(p) : OfUncharged[call[th]] = 0 /\ OfUncounted[call[th]] = 0
  BY <1>1, ThreadsFinite DEF OfUncharged, OfUncounted
<1>3. Uncharged(p) = 0 /\ Uncounted(p) = 0
  BY <1>1, <1>2, Figures, AcrossZero
<1>4. Get(charge, p) + Uncharged(p) = Held(p) + Due(p) + stuck[p] /\ Get(charge, p) \in Nat
  BY <1>1, NumbersOK DEF IndInv, ChargesExact, Numbers
<1> QED
  BY <1>3, <1>4

\* Then the process's charge, whose place goes with the last byte.
LEMMA UnchargeStep ==
    ASSUME IndInv, NEW th \in Thread, Uncharge(th)
    PROVE  IndInv'
<1> DEFINE p == th[1]
           b == call[th].bytes
           rest == Minus(Get(charge, p), b)
<1>1. TypeOK /\ call[th].pc = "uncharge"
  BY DEF IndInv, Uncharge, At
<1>2. /\ p \in Pids /\ th \in ThreadsOf(p) /\ owner[p] = p /\ latch[p] = "usable"
      /\ status[p] = "up"
  BY <1>1, Inside
<1>3. /\ Goto(th, "funlock")
      /\ charge' = IF rest = 0 THEN Only(charge, Pids \ {p}) ELSE Put(charge, p, rest)
      /\ UNCHANGED <<env, status, born, used, flock, owner, latch, spin, keys, depth, mem,
                     inherited, stuck>>
  BY DEF Uncharge, private, runtime
<1>4. /\ call' \in [Thread -> Calls]
      /\ \A u \in Thread \ {th} : call'[u] = call[u]
      /\ call'[th].pc = "funlock" /\ call'[th].op = call[th].op
      /\ call'[th].bytes = call[th].bytes
      /\ call'[th].slot = call[th].slot /\ call'[th].key = call[th].key
  BY <1>1, <1>3, Goes DEF PCs
<1>5. call[th].op = "release"
  BY <1>1 DEF IndInv, CallInv
<1>6. /\ OfDue[call[th]] = b /\ OfUnrefunded[call[th]] = 0
      /\ OfUncharged[call[th]] = 0 /\ OfUncounted[call[th]] = 0
      /\ OfDue[call'[th]] = 0 /\ OfUnrefunded[call'[th]] = 0
      /\ OfUncharged[call'[th]] = 0 /\ OfUncounted[call'[th]] = 0
  BY <1>1, <1>4, <1>5 DEF OfDue, OfUnrefunded, OfUncharged, OfUncounted, TypeOK
<1>7. \A u \in Thread \ {th} : call[u].pc \notin Locking
  BY <1>1, OneUnderLock DEF Locking
<1>8. b \in Nat /\ Get(charge, p) \in Nat /\ b <= Get(charge, p) /\ used \in Nat /\ stuck[p] \in Nat
  <2>1. \A u \in ThreadsOf(p) : call[u].pc \notin {"count", "commit"}
    BY <1>1, <1>7, ThreadsFinite DEF Locking
  <2>2. Get(charge, p) = Held(p) + Due(p) + stuck[p]
    BY <1>2, <2>1, Settled
  <2>3. OfDue[call[th]] <= Due(p)
    BY <1>1, AcrossPart, Figures DEF TypeOK, Weights
  <2>4. /\ Held(p) \in Nat /\ Due(p) \in Nat /\ stuck[p] \in Nat /\ used \in Nat
        /\ Get(charge, p) \in Nat
    BY <1>1, <1>2, NumbersOK DEF Numbers
  <2>5. b \in Nat
    BY <1>1 DEF TypeOK, Calls
  <2> QED
    BY <1>6, <2>2, <2>3, <2>4, <2>5
<1>9. rest \in Nat /\ rest + b = Get(charge, p)
  BY <1>8 DEF Minus
<1>10. rest # 0 => p \in DOMAIN charge
  BY <1>8, <1>9 DEF Get
<1> HIDE DEF rest
<1>11. /\ DOMAIN charge' \subseteq DOMAIN charge
       /\ \A q \in DOMAIN charge' : charge'[q] = IF q = p THEN rest ELSE charge[q]
       /\ Get(charge', p) = rest
       /\ \A q \in Pids \ {p} : Get(charge', q) = Get(charge, q)
  <2>1. CASE rest = 0
    <3>1. charge' = Only(charge, Pids \ {p})
      BY <1>3, <2>1
    <3>2. /\ DOMAIN charge' = DOMAIN charge \cap (Pids \ {p})
          /\ \A q \in DOMAIN charge' : charge'[q] = charge[q]
      BY <3>1 DEF Only
    <3> QED
      BY <2>1, <3>2 DEF Get
  <2>2. CASE rest # 0
    <3>1. charge' = Put(charge, p, rest) /\ p \in DOMAIN charge
      BY <1>3, <1>10, <2>2
    <3>2. /\ DOMAIN charge' = DOMAIN charge
          /\ \A q \in DOMAIN charge' : charge'[q] = IF q = p THEN rest ELSE charge[q]
      BY <3>1 DEF Put
    <3> QED
      BY <2>2, <3>1, <3>2 DEF Get
  <2> QED
    BY <2>1, <2>2
<1>12. TypeOK'
  <2>1. IsFiniteSet(DOMAIN charge) /\ Cardinality(DOMAIN charge) <= ProcessSlots
        /\ DOMAIN charge \subseteq Pids
    BY <1>1, Bounds, FS_Subset DEF TypeOK
  <2>2. /\ Cardinality(DOMAIN charge') <= Cardinality(DOMAIN charge)
        /\ Cardinality(DOMAIN charge') \in Nat /\ Cardinality(DOMAIN charge) \in Nat
    BY <1>11, <2>1, FS_Subset, FS_CardinalityType
  <2>3. Cardinality(DOMAIN charge') <= ProcessSlots /\ DOMAIN charge' \subseteq Pids
    BY <1>1, <1>11, <2>1, <2>2, Bounds
  <2>4. \A q \in DOMAIN charge' : charge'[q] \in Nat
    BY <1>1, <1>9, <1>11 DEF TypeOK
  <2> QED
    BY <1>1, <1>3, <1>4, <2>3, <2>4 DEF TypeOK
<1>13. CallInv'
  BY <1>4, <1>5 DEF IndInv, CallInv
<1>14. LockInv'
  BY <1>1, <1>3, <1>4, LockKept DEF Locking, Spinning
<1>15. LatchInv'
  BY <1>2, <1>3, <1>4, LatchKept
<1>16. TableInv'
  <2>1. \A u \in Thread : call'[u].pc \notin {"alloc", "count", "commit"}
    BY <1>4, <1>7 DEF Locking
  <2>2. \A q \in Pids : status'[q] = "zombie" => stuck'[q] = Get(charge', q)
    BY <1>2, <1>3, <1>11 DEF IndInv, TableInv
  <2> QED
    BY <2>1, <2>2 DEF TableInv, At, Get
<1>17. /\ ~Charging(th) /\ ~Charging(th)' /\ ~Freeing(th) /\ ~Freeing(th)' /\ ~Reserving(th)'
  BY <1>1, <1>4, <1>5 DEF Reserving, Freeing, Charging
<1>18. Get(charge, p)' = rest /\ \A q \in Pids \ {p} : Get(charge, q)' = Get(charge, q)
  BY <1>11 DEF Get
<1>19. Get(charge, p)' + OfUncharged[call'[th]] + OfDue[call[th]] + stuck[p]
         = Get(charge, p) + OfUncharged[call[th]] + OfDue[call'[th]] + stuck'[p]
  BY <1>3, <1>6, <1>8, <1>9, <1>18
<1>20. OfUnrefunded[call'[th]] + OfUncounted[call[th]] + used
         <= OfUnrefunded[call[th]] + OfUncounted[call'[th]] + used'
  BY <1>3, <1>6, <1>8
<1> QED
  BY <1>1, <1>3, <1>4, <1>12, <1>13, <1>14, <1>15, <1>16, <1>17, <1>18, <1>19, <1>20, BookStep

\* A process that does not run holds nothing and has nothing under way.
LEMMA GoneHasNothing ==
    ASSUME IndInv, NEW p \in Pids, status[p] # "up"
    PROVE  Held(p) = 0 /\ Due(p) = 0 /\ Unrefunded(p) = 0 /\ Uncounted(p) = 0
<1>1. TypeOK /\ call \in [Thread -> Calls] /\ owner[p] = 0
  BY DEF IndInv, TypeOK, OwnerInv
<1>2. /\ DOMAIN mem[p] = {} /\ \A th \in ThreadsOf(p) : call[th].pc = "idle"
  BY <1>1 DEF IndInv, OwnerInv
<1>3. \A th \in ThreadsOf(p) : call[th].op = "none"
  BY <1>2, ThreadsFinite DEF IndInv, CallInv
<1>4. /\ \A th \in ThreadsOf(p) : OfDue[call[th]] = 0
      /\ \A th \in ThreadsOf(p) : OfUnrefunded[call[th]] = 0
      /\ \A th \in ThreadsOf(p) : OfUncounted[call[th]] = 0
  BY <1>1, <1>2, <1>3, ThreadsFinite DEF OfDue, OfUnrefunded, OfUncounted
<1>5. Due(p) = 0 /\ Unrefunded(p) = 0 /\ Uncounted(p) = 0
  <2>1. OfDue \in Weights /\ OfUnrefunded \in Weights /\ OfUncounted \in Weights
    BY DEF Weights
  <2> QED
    BY <1>1, <1>4, <2>1, Figures, AcrossZero
<1>6. Held(p) = 0
  BY <1>2, Totals, SumEmpty DEF Held
<1> QED
  BY <1>5, <1>6

\* Under the lock, before anything is taken, the table is exact.
LEMMA UnderLock ==
    ASSUME IndInv, NEW th \in Thread, call[th].pc = "decide", NEW p \in Pids
    PROVE  /\ Exists(p) => Get(charge, p) = Held(p) + Due(p) + stuck[p]
           /\ Lent(p) <= IF Exists(p) THEN Get(charge, p) ELSE 0
<1>1. TypeOK /\ Numbers
  BY NumbersOK DEF IndInv
<1>2. \A u \in Thread : call[u].pc \notin {"count", "commit", "uncharge"}
  BY OneUnderLock DEF Locking
<1>3. /\ Get(charge, p) \in Nat /\ Held(p) \in Nat /\ Due(p) \in Nat /\ Unrefunded(p) \in Nat
      /\ stuck[p] \in Nat
  BY <1>1 DEF Numbers
<1>4. CASE status[p] = "up"
  <2>1. Get(charge, p) = Held(p) + Due(p) + stuck[p] /\ Uncounted(p) = 0
    BY <1>2, <1>4, ThreadsFinite, Settled
  <2>2. Unrefunded(p) = Due(p)
    <3>1. \A c \in Calls : c.pc # "uncharge" => OfUnrefunded[c] = OfDue[c]
      BY DEF OfUnrefunded, OfDue
    <3>2. \A u \in ThreadsOf(p) : OfUnrefunded[call[u]] = OfDue[call[u]]
      <4>1. \A u \in ThreadsOf(p) : call[u] \in Calls /\ call[u].pc # "uncharge"
        BY <1>1, <1>2, ThreadsFinite DEF TypeOK
      <4> QED
        BY <3>1, <4>1
    <3>3. [u \in ThreadsOf(p) |-> OfUnrefunded[call[u]]] = [u \in ThreadsOf(p) |-> OfDue[call[u]]]
      BY <3>2
    <3>4. Across(OfUnrefunded, call, p) = Across(OfDue, call, p)
      BY <3>3 DEF Across
    <3> QED
      BY <1>1, <3>4, Figures
  <2>3. Exists(p)
    BY <1>4 DEF Exists
  <2> QED
    BY <1>3, <2>1, <2>2, <2>3 DEF Lent
<1>5. CASE status[p] # "up"
  <2>1. Held(p) = 0 /\ Due(p) = 0 /\ Unrefunded(p) = 0 /\ Uncounted(p) = 0
    BY <1>5, GoneHasNothing
  <2>2. Exists(p) => stuck[p] = Get(charge, p)
    BY <1>1, <1>5 DEF Exists, IndInv, TypeOK, TableInv
  <2> QED
    BY <1>3, <2>1, <2>2 DEF Lent
<1> QED
  BY <1>4, <1>5

\* What a sweep leaves: the charges of the processes that exist, whose sum covers
\* what all processes hold or have yet to refund.
LEMMA Sweeps ==
    ASSUME IndInv, NEW th \in Thread, call[th].pc = "decide"
    PROVE  /\ DOMAIN Reclaimed \subseteq DOMAIN charge
           /\ \A q \in DOMAIN Reclaimed : Reclaimed[q] = charge[q] /\ Exists(q)
           /\ \A q \in Pids : Exists(q) => Get(Reclaimed, q) = Get(charge, q)
           /\ Total(Reclaimed) \in Nat
           /\ Total([q \in Pids |-> Lent(q)]) <= Total(Reclaimed)
           /\ Total([p \in {q \in Pids : Exists(q)} |-> Held(p) + Due(p) + stuck[p]])
                = Total(Reclaimed)
<1> DEFINE R == Reclaimed
           E == {q \in Pids : Exists(q)}
           g == [q \in Pids |-> IF Exists(q) THEN Get(charge, q) ELSE 0]
           h == [p \in E |-> Held(p) + Due(p) + stuck[p]]
           l == [q \in Pids |-> Lent(q)]
<1>1. TypeOK /\ Numbers /\ Lends /\ IsFiniteSet(Pids)
  BY NumbersOK, LentNat, Bounds DEF IndInv
<1>2. DOMAIN R = DOMAIN charge \cap E /\ \A q \in DOMAIN R : R[q] = charge[q] /\ Exists(q)
  BY DEF Reclaimed, Only
<1>3. DOMAIN charge \subseteq Pids /\ \A q \in DOMAIN charge : charge[q] \in Nat
  BY <1>1 DEF TypeOK
<1>4. \A q \in Pids : Exists(q) => Get(R, q) = Get(charge, q)
  BY <1>2 DEF Get
<1>5. /\ \A q \in DOMAIN R : R[q] \in Nat
      /\ \A q \in DOMAIN R : g[q] = R[q]
      /\ \A q \in Pids \ DOMAIN R : g[q] = 0
      /\ DOMAIN R \subseteq Pids
  BY <1>2, <1>3 DEF Get
<1>6. \A q \in Pids : g[q] \in Nat /\ l[q] \in Nat /\ l[q] <= g[q]
  <2>1. \A q \in Pids : Lent(q) <= IF Exists(q) THEN Get(charge, q) ELSE 0
    BY UnderLock
  <2> QED
    BY <1>1, <2>1 DEF Numbers, Lends
<1>7. /\ \A p \in E : h[p] \in Nat
      /\ \A p \in E : g[p] = h[p]
      /\ \A p \in Pids \ E : g[p] = 0
      /\ E \subseteq Pids
  <2>1. \A q \in Pids : Exists(q) => Get(charge, q) = Held(q) + Due(q) + stuck[q]
    BY UnderLock
  <2> QED
    BY <1>1, <2>1 DEF Numbers
<1>8. DOMAIN h = E /\ DOMAIN l = Pids
  OBVIOUS
<1>9. /\ Sum(R, DOMAIN R) = Sum(g, Pids) /\ Sum(h, E) = Sum(g, Pids)
      /\ Sum(l, Pids) <= Sum(g, Pids) /\ Sum(g, Pids) \in Nat
  <2> HIDE DEF R, E, g, h, l
  <2>1. Sum(R, DOMAIN R) = Sum(g, Pids)
    BY <1>1, <1>5, SumFilter
  <2>2. Sum(h, E) = Sum(g, Pids)
    BY <1>1, <1>7, SumFilter
  <2>3. Sum(l, Pids) <= Sum(g, Pids) /\ Sum(g, Pids) \in Nat
    BY <1>1, <1>6, SumLeq, SumTake
  <2> QED
    BY <2>1, <2>2, <2>3
<1>10. Total(R) = Sum(R, DOMAIN R) /\ Total(h) = Sum(h, E) /\ Total(l) = Sum(l, Pids)
  <2> HIDE DEF R, E, h, l
  <2> QED
    BY <1>8, Totals
<1>11. Total(R) \in Nat /\ Total(l) <= Total(R) /\ Total(h) = Total(R)
  BY <1>9, <1>10
<1> QED
  BY <1>2, <1>4, <1>11

LEMMA Refuses ==
    ASSUME TypeOK, NEW th \in Thread, Refuse(th)
    PROVE  /\ call' \in [Thread -> Calls]
           /\ \A u \in Thread \ {th} : call'[u] = call[u]
           /\ call'[th].pc = "funlock" /\ call'[th].op = "refused"
           /\ call'[th].bytes = call[th].bytes
           /\ call'[th].slot = call[th].slot /\ call'[th].key = call[th].key
<1> DEFINE c == [call[th] EXCEPT !.pc = "funlock", !.op = "refused"]
<1>1. call \in [Thread -> Calls] /\ call[th] \in Calls
  BY DEF TypeOK
<1>2. call' = [call EXCEPT ![th] = c]
  BY <1>1 DEF Refuse
<1>3. /\ c \in Calls /\ c.pc = "funlock" /\ c.op = "refused" /\ c.bytes = call[th].bytes
      /\ c.slot = call[th].slot /\ c.key = call[th].key
  BY <1>1 DEF Calls, PCs
<1> HIDE DEF c
<1> QED
  BY <1>1, <1>2, <1>3

\* The decision: it sweeps where the request would not fit, and leaves every
\* process that exists its charge.
LEMMA DecideStep ==
    ASSUME IndInv, NEW th \in Thread, Decide(th)
    PROVE  IndInv'
<1> DEFINE p == th[1]
           n == call[th].bytes
           sweep == OverQuota(used, n)
           table == IF sweep THEN Reclaimed ELSE charge
           total == IF sweep THEN Total(Reclaimed) ELSE used
           fits  == ~OverQuota(total, n)
           room  == p \in DOMAIN table \/ Cardinality(DOMAIN table) < ProcessSlots
<1>1. TypeOK /\ call[th].pc = "decide" /\ call[th].op = "admit"
  BY DEF IndInv, Decide, At, CallInv
<1>2. /\ p \in Pids /\ th \in ThreadsOf(p) /\ owner[p] = p /\ latch[p] = "usable"
      /\ status[p] = "up"
  BY <1>1, Inside
<1>3. /\ used' = total
      /\ \/ ~(fits /\ room) /\ charge' = table /\ Refuse(th)
         \/ fits /\ room /\ charge' = Put(table, p, Get(table, p)) /\ Goto(th, "alloc")
      /\ UNCHANGED <<env, status, born, flock, owner, latch, spin, keys, depth, mem,
                     inherited, stuck>>
  BY DEF Decide, private, runtime
<1>4. /\ DOMAIN table \subseteq DOMAIN charge
      /\ \A q \in DOMAIN table : table[q] = charge[q]
      /\ \A q \in Pids : Exists(q) => Get(table, q) = Get(charge, q)
      /\ total \in Nat
      /\ Total([q \in Pids |-> Lent(q)]) <= total
  <2>1. CASE sweep
    BY <1>1, <2>1, Sweeps
  <2>2. CASE ~sweep
    BY <1>1, <2>2 DEF IndInv, UsedInv, TypeOK
  <2> QED
    BY <2>1, <2>2
<1> HIDE DEF table, total
<1>5. fits => total + n <= Figure
  <2>1. n \in Nat /\ Figure \in Nat
    BY <1>1, Bounds DEF TypeOK, Calls
  <2> QED
    BY <1>4, <2>1 DEF OverQuota
<1>6. /\ IsFiniteSet(DOMAIN charge) /\ Cardinality(DOMAIN charge) <= ProcessSlots
      /\ DOMAIN charge \subseteq Pids /\ \A q \in DOMAIN charge : charge[q] \in Nat
  BY <1>1, Bounds, FS_Subset DEF TypeOK
<1>7. /\ IsFiniteSet(DOMAIN table) /\ Cardinality(DOMAIN table) <= ProcessSlots
      /\ Cardinality(DOMAIN table) \in Nat /\ ProcessSlots \in Nat
  <2>1. /\ IsFiniteSet(DOMAIN table) /\ Cardinality(DOMAIN table) <= Cardinality(DOMAIN charge)
        /\ Cardinality(DOMAIN table) \in Nat /\ Cardinality(DOMAIN charge) \in Nat
    BY <1>4, <1>6, FS_Subset, FS_CardinalityType
  <2> QED
    BY <1>1, <1>6, <2>1, Bounds
<1>8. /\ call' \in [Thread -> Calls]
      /\ \A u \in Thread \ {th} : call'[u] = call[u]
      /\ \/ call'[th].pc = "funlock" /\ call'[th].op = "refused"
         \/ call'[th].pc = "alloc" /\ call'[th].op = "admit" /\ fits /\ p \in DOMAIN charge'
      /\ call'[th].bytes = call[th].bytes
      /\ call'[th].slot = call[th].slot /\ call'[th].key = call[th].key
  <2>1. CASE charge' = table /\ Refuse(th)
    BY <1>1, <2>1, Refuses
  <2>2. CASE fits /\ charge' = Put(table, p, Get(table, p)) /\ Goto(th, "alloc")
    <3>1. p \in DOMAIN charge'
      BY <2>2 DEF Put
    <3> QED
      BY <1>1, <2>2, <3>1, Goes DEF PCs
  <2> QED
    BY <1>3, <2>1, <2>2
<1>9. /\ DOMAIN charge' \subseteq Pids /\ Cardinality(DOMAIN charge') <= ProcessSlots
      /\ \A q \in DOMAIN charge' : charge'[q] \in Nat
      /\ \A q \in Pids : Exists(q) => Get(charge', q) = Get(charge, q)
  <2>1. CASE charge' = table
    BY <1>4, <1>6, <1>7, <2>1
  <2>2. CASE room /\ charge' = Put(table, p, Get(table, p))
    <3>1. /\ DOMAIN charge' = DOMAIN table \cup {p}
          /\ \A q \in DOMAIN charge' : charge'[q] = IF q = p THEN Get(table, p) ELSE table[q]
      BY <2>2 DEF Put
    <3>2. Cardinality(DOMAIN charge') <= ProcessSlots
      <4>1. Cardinality(DOMAIN table \cup {p})
              = IF p \in DOMAIN table THEN Cardinality(DOMAIN table)
                                      ELSE Cardinality(DOMAIN table) + 1
        BY <1>7, FS_AddElement
      <4> QED
        BY <1>7, <2>2, <3>1, <4>1
    <3>3. Get(table, p) \in Nat
      BY <1>4, <1>6 DEF Get
    <3>4. \A q \in DOMAIN charge' : charge'[q] \in Nat
      BY <1>4, <1>6, <3>1, <3>3
    <3>5. \A q \in Pids : Get(charge', q) = Get(table, q)
      BY <3>1 DEF Get
    <3> QED
      BY <1>2, <1>4, <1>6, <3>1, <3>2, <3>4, <3>5
  <2> QED
    BY <1>3, <2>1, <2>2
<1>10. used' \in Nat /\ Total([q \in Pids |-> Lent(q)]) <= used'
  BY <1>3, <1>4
<1>11. TypeOK'
  BY <1>1, <1>3, <1>8, <1>9, <1>10 DEF TypeOK
<1>12. CallInv'
  BY <1>8 DEF IndInv, CallInv
<1>13. LockInv'
  BY <1>1, <1>3, <1>8, LockKept DEF Locking, Spinning
<1>14. LatchInv'
  BY <1>2, <1>3, <1>8, LatchKept
<1>15. TableInv'
  <2>1. \A u \in Thread \ {th} : call'[u].pc \notin {"alloc", "count", "commit"}
    BY <1>1, <1>8, OneUnderLock DEF Locking
  <2>2. \A q \in Pids : status'[q] = "zombie" => stuck'[q] = Get(charge', q)
    BY <1>3, <1>9 DEF IndInv, TableInv, Exists
  <2>3. call'[th].pc = "alloc" => used' + call'[th].bytes <= Figure'
    BY <1>3, <1>5, <1>8 DEF Figure
  <2> QED
    BY <1>8, <2>1, <2>2, <2>3 DEF TableInv, At, Get
<1>16. /\ OfDue[call[th]] = 0 /\ OfUnrefunded[call[th]] = 0
       /\ OfUncharged[call[th]] = 0 /\ OfUncounted[call[th]] = 0
       /\ OfDue[call'[th]] = 0 /\ OfUnrefunded[call'[th]] = 0
       /\ OfUncharged[call'[th]] = 0 /\ OfUncounted[call'[th]] = 0
  BY <1>1, <1>8 DEF OfDue, OfUnrefunded, OfUncharged, OfUncounted, TypeOK
<1>17. /\ ~Charging(th) /\ ~Charging(th)' /\ ~Freeing(th) /\ ~Freeing(th)'
       /\ Reserving(th)' => Reserving(th)
  BY <1>1, <1>8 DEF Reserving, Freeing, Charging
<1>18. \A q \in Pids : Exists(q) => Get(charge, q)' = Get(charge, q)
  BY <1>9 DEF Get
<1>19. /\ Get(charge, p)' = Get(charge, p) /\ Get(charge, p) \in Nat
       /\ stuck[p] \in Nat /\ stuck'[p] = stuck[p]
  BY <1>1, <1>2, <1>3, <1>18, NumbersOK DEF Numbers, Exists
<1>20. Get(charge, p)' + OfUncharged[call'[th]] + OfDue[call[th]] + stuck[p]
         = Get(charge, p) + OfUncharged[call[th]] + OfDue[call'[th]] + stuck'[p]
  BY <1>16, <1>19
<1>21. UsedInv'
  <2>1. \A q \in Pids : Uncounted(q)' = Uncounted(q) /\ Unrefunded(q)' = Unrefunded(q)
    <3>1. /\ Uncounted(p)' + OfUncounted[call[th]] = Uncounted(p) + OfUncounted[call'[th]]
          /\ Unrefunded(p)' + OfUnrefunded[call[th]] = Unrefunded(p) + OfUnrefunded[call'[th]]
          /\ \A q \in Pids \ {p} : Uncounted(q)' = Uncounted(q) /\ Unrefunded(q)' = Unrefunded(q)
      BY <1>1, <1>8, <1>11, Moves
    <3>2. Uncounted(p) \in Nat /\ Unrefunded(p) \in Nat
      BY <1>1, <1>2, NumbersOK DEF Numbers
    <3>3. Uncounted(p)' \in Nat /\ Unrefunded(p)' \in Nat
      BY <1>2, <1>11, NumbersNext DEF Numbers
    <3> QED
      BY <1>16, <3>1, <3>2, <3>3
  <2>2. \A q \in Pids : Lent(q)' = Lent(q)
    BY <1>3, <2>1 DEF Lent, Held
  <2>3. [q \in Pids |-> Lent(q)'] = [q \in Pids |-> Lent(q)]
    BY <2>2
  <2> QED
    BY <1>10, <2>3 DEF UsedInv
<1>22. \A q \in Pids \ {p} : status[q] = "up" => Get(charge, q)' = Get(charge, q)
  BY <1>18 DEF Exists
<1>23. /\ \A u \in Thread \ {th} : call'[u] = call[u] /\ depth'[u] = depth[u]
       /\ \A q \in Pids \ {p} : spin'[q] = spin[q] /\ stuck'[q] = stuck[q]
       /\ UNCHANGED <<env, status, owner, keys, mem, inherited>>
       /\ call'[th].pc # "wipe" /\ call'[th].slot = call[th].slot
  BY <1>3, <1>8
<1> QED
  BY <1>1, <1>11, <1>12, <1>13, <1>14, <1>15, <1>17, <1>20, <1>21, <1>22, <1>23, BookStep

-----------------------------------------------------------------------------
(* The steps that write the key map or the memory.                          *)

\* A step of one process leaves the slots and pointers of the others.
LEMMA MapKept ==
    ASSUME IndInv, NEW p \in Pids,
           \A q \in Pids \ {p} : /\ owner'[q] = owner[q] /\ keys'[q] = keys[q]
                                 /\ mem'[q] = mem[q] /\ inherited'[q] = inherited[q],
           \A u \in Thread \ ThreadsOf(p) : call'[u] = call[u],
           FreeOf(p)', owner'[p] = p => SlotOf(p)' /\ LiveOf(p)' /\ HeldOf(p)' /\ FreedOf(p)'
    PROVE  SlotInv' /\ FreeInv' /\ KeyInv'
<1>1. \A q \in Pids \ {p} : \A u \in ThreadsOf(q) : u \in Thread /\ call'[u] = call[u]
  BY DEF ThreadsOf
<1>2. \A u \in Thread \ ThreadsOf(p) : /\ Reserving(u)' = Reserving(u)
                                       /\ Freeing(u)' = Freeing(u) /\ Charging(u)' = Charging(u)
  BY DEF Reserving, Freeing, Charging
<1>3. \A q \in Pids \ {p} : \A u \in ThreadsOf(q) :
         /\ call'[u] = call[u] /\ Reserving(u)' = Reserving(u)
         /\ Freeing(u)' = Freeing(u) /\ Charging(u)' = Charging(u)
  <2>1. \A q \in Pids \ {p} : \A u \in ThreadsOf(q) : u \in Thread \ ThreadsOf(p)
    BY DEF ThreadsOf
  <2> QED
    BY <1>1, <1>2, <2>1
<1>4. \A q \in Pids \ {p} : \A k : LiveSlots(q, k)' = LiveSlots(q, k)
  BY DEF LiveSlots
<1>5. SlotInv'
  <2>1. ASSUME NEW q \in Pids \ {p}, owner'[q] = q PROVE SlotOf(q)'
    BY <1>3, <2>1 DEF IndInv, SlotInv, SlotOf
  <2> QED
    BY <2>1 DEF SlotInv
<1>6. FreeInv'
  <2>1. ASSUME NEW q \in Pids \ {p} PROVE FreeOf(q)'
    BY <1>3 DEF IndInv, FreeInv, FreeOf
  <2> QED
    BY <2>1 DEF FreeInv
<1>7. LiveInv'
  <2>1. ASSUME NEW q \in Pids \ {p}, owner'[q] = q PROVE LiveOf(q)'
    BY <1>3, <1>4, <2>1 DEF IndInv, KeyInv, LiveInv, LiveOf
  <2> QED
    BY <2>1 DEF LiveInv
<1>8. HeldInv'
  <2>1. ASSUME NEW q \in Pids \ {p}, owner'[q] = q PROVE HeldOf(q)'
    BY <1>3, <1>4, <2>1 DEF IndInv, KeyInv, HeldInv, HeldOf
  <2> QED
    BY <2>1 DEF HeldInv
<1>9. FreedInv'
  <2>1. ASSUME NEW q \in Pids \ {p}, owner'[q] = q PROVE FreedOf(q)'
    BY <1>3, <1>4, <2>1 DEF IndInv, KeyInv, FreedInv, FreedOf
  <2> QED
    BY <2>1 DEF FreedInv
<1> QED
  BY <1>5, <1>6, <1>7, <1>8, <1>9 DEF KeyInv

\* The memory a process takes was decided for, but for what the runtime adds.
LEMMA HeldGrows ==
    ASSUME IndInv, TypeOK', UNCHANGED env, NEW th \in Thread, call[th].pc = "alloc",
           \A q \in Pids \ {th[1]} : Held(q)' = Held(q),
           NEW pad \in env.pads, Held(th[1])' = Held(th[1]) + call[th].bytes + pad
    PROVE  HeldWithinFigure'
<1> DEFINE p == th[1]
           f == [q \in Pids |-> Held(q)]
           g == [q \in Pids |-> Held(q)']
           l == [q \in Pids |-> Lent(q)]
<1>1. TypeOK /\ Numbers /\ Numbers' /\ Lends /\ IsFiniteSet(Pids) /\ p \in Pids
  BY NumbersOK, NumbersNext, LentNat, Bounds DEF IndInv
<1>2. \A q \in Pids : Uncounted(q) = 0
  <2>1. \A u \in Thread : call[u].pc # "count"
    BY OneUnderLock DEF Locking
  <2>2. call \in [Thread -> Calls] /\ OfUncounted \in Weights
    BY <1>1 DEF TypeOK, Weights
  <2>3. \A q \in Pids : \A u \in ThreadsOf(q) : OfUncounted[call[u]] = 0
    BY <2>1, <2>2, ThreadsFinite DEF OfUncounted
  <2> QED
    BY <1>1, <2>2, <2>3, Figures, AcrossZero
<1>3. \A q \in Pids : Held(q) \in Nat /\ Lent(q) \in Nat /\ Held(q) <= Lent(q)
  <2>1. \A q \in Pids : Held(q) \in Nat /\ Unrefunded(q) \in Nat /\ Lent(q) \in Nat
    BY <1>1 DEF Numbers, Lends
  <2> QED
    BY <1>2, <2>1 DEF Lent
<1>4. \A q \in Pids : Held(q)' \in Nat
  BY <1>1 DEF Numbers
<1>5. /\ \A q \in Pids : f[q] \in Nat
      /\ \A q \in Pids : g[q] \in Nat
      /\ \A q \in Pids : l[q] \in Nat /\ f[q] <= l[q]
      /\ \A q \in Pids \ {p} : g[q] = f[q]
      /\ DOMAIN f = Pids /\ DOMAIN g = Pids /\ DOMAIN l = Pids
      /\ g[p] = f[p] + call[th].bytes + pad
  BY <1>1, <1>3, <1>4
<1>6. Total(l) <= used /\ used + call[th].bytes <= Figure
  BY <1>1 DEF IndInv, UsedInv, TableInv, At
<1>7. /\ call[th].bytes \in Nat /\ pad \in Nat /\ used \in Nat /\ Figure \in Nat
      /\ Slack(env) \in Nat /\ pad <= Slack(env)
  BY <1>1, Bounds, SlackBounds DEF TypeOK, Calls
<1>8. Total(g) <= Figure + Slack(env)
  <2> HIDE DEF f, g, l
  <2>1. Sum(g, Pids) + f[p] = Sum(f, Pids) + g[p]
    BY <1>1, <1>5, SumChange
  <2>2. Sum(f, Pids) <= Sum(l, Pids)
    BY <1>1, <1>5, SumLeq
  <2>3. Sum(f, Pids) \in Nat /\ Sum(g, Pids) \in Nat /\ Sum(l, Pids) \in Nat
    BY <1>1, <1>5, SumTake
  <2>4. Total(g) = Sum(g, Pids) /\ Total(l) = Sum(l, Pids)
    BY <1>5, Totals
  <2>5. f[p] \in Nat /\ g[p] \in Nat
    BY <1>1, <1>5
  <2> QED
    BY <1>5, <1>6, <1>7, <2>1, <2>2, <2>3, <2>4, <2>5
<1>9. Figure' = Figure /\ Slack(env)' = Slack(env)
  BY DEF Figure, Slack
<1> QED
  BY <1>8, <1>9 DEF HeldWithinFigure

\* The runtime allocates under a pointer that no call is still to refund.
LEMMA AllocStep ==
    ASSUME IndInv, NEW th \in Thread, Alloc(th)
    PROVE  IndInv'
<1> DEFINE p == th[1]
           n == call[th].bytes
<1>1. TypeOK /\ call[th].pc = "alloc" /\ call[th].op = "admit"
  BY DEF IndInv, Alloc, At, CallInv
<1>2. /\ p \in Pids /\ th \in ThreadsOf(p) /\ owner[p] = p /\ latch[p] = "usable"
  BY <1>1, Inside
<1>3. UNCHANGED <<env, status, born, used, charge, flock, owner, latch, spin, keys, depth,
                  inherited, stuck>>
  BY DEF Alloc, region, private
<1>4. CASE Refuse(th) /\ UNCHANGED mem
  <2>1. /\ call' \in [Thread -> Calls]
        /\ \A u \in Thread \ {th} : call'[u] = call[u]
        /\ call'[th].pc = "funlock" /\ call'[th].op = "refused"
        /\ call'[th].slot = call[th].slot
    BY <1>1, <1>4, Refuses
  <2>2. TypeOK'
    BY <1>1, <1>3, <1>4, <2>1 DEF TypeOK
  <2>3. CallInv'
    BY <2>1 DEF IndInv, CallInv
  <2>4. LockInv'
    BY <1>1, <1>3, <2>1, LockKept DEF Locking, Spinning
  <2>5. LatchInv'
    BY <1>2, <1>3, <1>4, <2>1, LatchKept
  <2>6. OfDue[call'[th]] = OfDue[call[th]] /\ OfUnrefunded[call'[th]] = OfUnrefunded[call[th]]
    BY <1>1, <2>1 DEF OfDue, OfUnrefunded, TypeOK
  <2>7. Reserving(th)' => Reserving(th)
    BY <1>1, <2>1 DEF Reserving
  <2> QED
    BY <1>1, <1>3, <1>4, <2>1, <2>2, <2>3, <2>4, <2>5, <2>6, <2>7, QuietStep
<1>5. ASSUME NEW k \in Keys, k \notin DOMAIN mem[p] \cup inherited[p] \cup Refunding(p),
             NEW pad \in env.pads,
             mem' = [mem EXCEPT ![p] = Put(@, k, n + pad)],
             call' = [call EXCEPT ![th].pc = "count", ![th].key = k, ![th].bytes = n + pad]
      PROVE  IndInv'
  <2>1. n \in Nat /\ pad \in Nat /\ n + pad \in Nat
    BY <1>1, Bounds DEF TypeOK, Calls
  <2>2. /\ call' \in [Thread -> Calls]
        /\ \A u \in Thread \ {th} : call'[u] = call[u]
        /\ call'[th].pc = "count" /\ call'[th].op = "admit" /\ call'[th].bytes = n + pad
        /\ call'[th].slot = call[th].slot /\ call'[th].key = k
    <3> DEFINE c == [call[th] EXCEPT !.pc = "count", !.key = k, !.bytes = n + pad]
    <3>1. call \in [Thread -> Calls] /\ call[th] \in Calls
      BY <1>1 DEF TypeOK
    <3>2. call' = [call EXCEPT ![th] = c]
      BY <1>5, <3>1
    <3>3. c \in Calls /\ c.pc = "count" /\ c.op = "admit" /\ c.key = k /\ c.slot = call[th].slot
      BY <1>1, <2>1, <3>1 DEF Calls, PCs
    <3>4. c.bytes = n + pad
      BY <3>1 DEF Calls
    <3> HIDE DEF c
    <3> QED
      BY <3>1, <3>2, <3>3, <3>4
  <2>3. /\ DOMAIN mem' = Pids /\ \A q \in Pids \ {p} : mem'[q] = mem[q]
        /\ mem'[p] = Put(mem[p], k, n + pad)
    BY <1>1, <1>2, <1>5 DEF TypeOK
  <2>4. /\ DOMAIN mem'[p] = DOMAIN mem[p] \cup {k} /\ mem'[p][k] = n + pad
        /\ \A kk \in DOMAIN mem[p] : mem'[p][kk] = mem[p][kk]
    BY <1>5, <2>3 DEF Put
  <2>5. TypeOK'
    <3>1. \A q \in Pids : /\ DOMAIN mem'[q] \subseteq Keys
                          /\ \A kk \in DOMAIN mem'[q] : mem'[q][kk] \in Nat
      <4> SUFFICES ASSUME NEW q \in Pids
                   PROVE  /\ DOMAIN mem'[q] \subseteq Keys
                          /\ \A kk \in DOMAIN mem'[q] : mem'[q][kk] \in Nat
        OBVIOUS
      <4>1. /\ DOMAIN mem[q] \subseteq Keys
            /\ \A kk \in DOMAIN mem[q] : mem[q][kk] \in Nat
        BY <1>1 DEF TypeOK
      <4>2. CASE q # p
        BY <2>3, <4>1, <4>2
      <4>3. CASE q = p
        BY <2>1, <2>4, <4>1, <4>3
      <4> QED
        BY <4>2, <4>3
    <3> QED
      BY <1>1, <1>3, <2>2, <2>3, <3>1 DEF TypeOK
  <2>6. CallInv'
    BY <1>1, <2>2 DEF IndInv, CallInv
  <2>7. OwnerInv'
    BY <1>2, <1>3, <2>2, <2>3, OwnerKept
  <2>8. LockInv'
    BY <1>1, <1>3, <2>2, LockKept DEF Locking, Spinning
  <2>9. LatchInv'
    BY <1>2, <1>3, <2>2, <2>3, LatchKept
  <2>10. SlotInv' /\ FreeInv' /\ KeyInv'
    <3>1. /\ Reserving(th) /\ ~Freeing(th) /\ ~Freeing(th)' /\ ~Charging(th) /\ Charging(th)'
      BY <1>1, <2>2 DEF Reserving, Freeing, Charging
    <3>2. \A u \in Thread \ {th} : /\ Reserving(u)' = Reserving(u)
                                   /\ Freeing(u)' = Freeing(u) /\ Charging(u)' = Charging(u)
      BY <2>2 DEF Reserving, Freeing, Charging
    <3>3. \A u \in ThreadsOf(p) : Freeing(u) => call[u].key # k
      <4>1. \A u \in ThreadsOf(p) : Freeing(u) => call[u].key \in Refunding(p)
        BY DEF Freeing, Refunding
      <4> QED
        BY <1>5, <4>1
    <3>4. \A kk : LiveSlots(p, kk)' = LiveSlots(p, kk)
      BY <1>3 DEF LiveSlots
    <3>5. SlotOf(p) /\ FreeOf(p) /\ LiveOf(p) /\ HeldOf(p) /\ FreedOf(p)
      BY <1>2 DEF IndInv, SlotInv, FreeInv, KeyInv, LiveInv, HeldInv, FreedInv
    <3>6. SlotOf(p)'
      BY <1>3, <2>2, <3>1, <3>2, <3>5, ThreadsFinite DEF SlotOf
    <3>7. FreeOf(p)'
      BY <1>3, <1>5, <2>2, <2>4, <3>1, <3>2, <3>3, <3>5, ThreadsFinite DEF FreeOf
    <3>8. \A i \in Slots : keys[p][i].state = "live" => keys[p][i].key # k
      BY <1>5, <3>3, <3>5 DEF LiveOf
    <3>9. LiveOf(p)'
      BY <1>3, <2>2, <2>4, <3>1, <3>2, <3>4, <3>5, <3>8, ThreadsFinite DEF LiveOf
    <3>10. LiveSlots(p, k) = {}
      BY <3>8 DEF LiveSlots
    <3>11. \A u \in ThreadsOf(p) : u # th => ~Charging(u)
      BY <1>1, OneUnderLock, ThreadsFinite DEF Locking, Charging
    <3>12. HeldOf(p)'
      BY <1>2, <2>2, <2>4, <3>1, <3>2, <3>4, <3>5, <3>10, <3>11, ThreadsFinite DEF HeldOf
    <3>13. FreedOf(p)'
      BY <2>2, <3>1, <3>2, <3>4, <3>5, ThreadsFinite DEF FreedOf
    <3>14. \A u \in Thread \ ThreadsOf(p) : call'[u] = call[u]
      BY <1>2, <2>2
    <3> QED
      BY <1>2, <1>3, <2>3, <3>6, <3>7, <3>9, <3>12, <3>13, <3>14, MapKept
  <2>11. TableInv'
    <3>1. \A u \in Thread \ {th} : call'[u].pc \notin {"alloc", "count", "commit"}
      BY <1>1, <2>2, OneUnderLock DEF Locking
    <3> QED
      BY <1>1, <1>3, <2>2, <3>1 DEF IndInv, TableInv, At, Get
  <2>12. /\ \A q \in Pids \ {p} : Held(q)' = Held(q)
         /\ Held(p)' = Held(p) + (n + pad) /\ Held(p) \in Nat
    <3>1. IsFiniteSet(DOMAIN mem[p]) /\ (\A x \in DOMAIN mem[p] : mem[p][x] \in Nat) /\ Held(p) \in Nat
      BY <1>1, <1>2, NumbersOK DEF Numbers, TypeOK
    <3>2. Total(Put(mem[p], k, n + pad)) = Total(mem[p]) + (n + pad)
      BY <1>5, <2>1, <3>1, PutTotal
    <3> QED
      BY <2>3, <3>1, <3>2 DEF Held
  <2>13. /\ OfDue[call[th]] = 0 /\ OfUnrefunded[call[th]] = 0
         /\ OfUncharged[call[th]] = 0 /\ OfUncounted[call[th]] = 0
         /\ OfDue[call'[th]] = 0 /\ OfUnrefunded[call'[th]] = 0
         /\ OfUncharged[call'[th]] = n + pad /\ OfUncounted[call'[th]] = n + pad
    BY <1>1, <2>2 DEF OfDue, OfUnrefunded, OfUncharged, OfUncounted, TypeOK
  <2>14. /\ \A q \in Pids : Get(charge, q)' = Get(charge, q) /\ stuck'[q] = stuck[q]
         /\ \A q \in Pids : status'[q] = status[q]
         /\ used' = used /\ used \in Nat /\ Get(charge, p) \in Nat /\ stuck[p] \in Nat
    BY <1>1, <1>2, <1>3, NumbersOK DEF Get, Numbers
  <2>15. /\ Structure /\ Structure' /\ ChargesExact /\ UsedInv
    BY <2>5, <2>7, <2>8, <2>10 DEF IndInv, Structure
  <2>16. ChargesExact'
    <3>1. Get(charge, p)' + OfUncharged[call'[th]] + Held(p) + OfDue[call[th]] + stuck[p]
             = Get(charge, p) + OfUncharged[call[th]] + Held(p)' + OfDue[call'[th]] + stuck'[p]
      BY <1>2, <2>1, <2>12, <2>13, <2>14
    <3> QED
      BY <1>1, <2>2, <2>5, <2>12, <2>14, <2>15, <3>1, ChargesMove
  <2>17. UsedInv'
    <3>1. Held(p)' + OfUnrefunded[call'[th]] + OfUncounted[call[th]] + used
             <= Held(p) + OfUnrefunded[call[th]] + OfUncounted[call'[th]] + used'
      BY <2>1, <2>12, <2>13, <2>14
    <3> QED
      BY <2>2, <2>12, <2>15, <3>1, UsedMoves
  <2>18. HeldWithinFigure'
    <3>1. Held(p)' = Held(p) + n + pad
      BY <2>1, <2>12
    <3> QED
      BY <1>1, <1>3, <2>5, <2>12, <3>1, HeldGrows
  <2>19. Tame'
    BY <1>3 DEF IndInv, Tame
  <2> QED
    BY <2>5, <2>6, <2>7, <2>8, <2>9, <2>10, <2>11, <2>16, <2>17, <2>18, <2>19 DEF IndInv
<1>6. ~env.reuse
  BY DEF IndInv, Tame
<1> QED
  BY <1>4, <1>5, <1>6 DEF Alloc

\* The slot that a search finds is one of those it searched.
LEMMA FirstIn ==
    ASSUME NEW S \in SUBSET Slots, S # {}
    PROVE  First(S) \in S
<1> DEFINE T == {j \in 0..KeySlots : KeySlots - j \in S}
<1>1. KeySlots \in Nat /\ S \subseteq 1..KeySlots
  BY ShimAssumption DEF Slots
<1>2. IsFiniteSet(T) /\ T \subseteq Nat
  <2>1. T \subseteq 0..KeySlots /\ T \subseteq Nat
    BY <1>1
  <2>2. IsFiniteSet(0..KeySlots)
    BY <1>1, FS_Interval
  <2> HIDE DEF T
  <2> QED
    BY <2>1, <2>2, FS_Subset
<1>3. T # {}
  <2>1. PICK i \in S : TRUE
    OBVIOUS
  <2>2. KeySlots - i \in 0..KeySlots /\ KeySlots - (KeySlots - i) = i
    BY <1>1, <2>1
  <2>3. KeySlots - i \in T
    BY <2>1, <2>2
  <2> QED
    BY <2>3
<1>4. PICK j \in T : \A k \in T : j >= k
  <2> HIDE DEF T
  <2> QED
    BY <1>2, <1>3, MaxExists
<1>5. KeySlots - j \in S /\ j \in Nat
  BY <1>1
<1>6. \A i \in S : KeySlots - j <= i
  <2> SUFFICES ASSUME NEW i \in S PROVE KeySlots - j <= i
    OBVIOUS
  <2>1. i \in Nat /\ KeySlots - i \in T
    BY <1>1
  <2>2. j >= KeySlots - i
    BY <1>4, <2>1
  <2> QED
    BY <1>1, <1>5, <2>1, <2>2
<1>7. \E i \in S : \A k \in S : i <= k
  BY <1>5, <1>6
<1> QED
  BY <1>7, Zenon DEF First

\* One slot of a process is written.
LEMMA WritesSlot ==
    ASSUME TypeOK, NEW p \in Pids, NEW s \in Slots,
           NEW v \in [state : {"free", "reserved", "live"}, key : Keys \cup {0}, bytes : Nat],
           keys' = [keys EXCEPT ![p][s] = v]
    PROVE  /\ keys' \in [Pids -> [Slots -> [state : {"free", "reserved", "live"},
                                            key : Keys \cup {0}, bytes : Nat]]]
           /\ \A q \in Pids \ {p} : keys'[q] = keys[q]
           /\ \A i \in Slots \ {s} : keys'[p][i] = keys[p][i]
           /\ keys'[p][s] = v
<1>1. keys \in [Pids -> [Slots -> [state : {"free", "reserved", "live"},
                                   key : Keys \cup {0}, bytes : Nat]]]
  BY DEF TypeOK
<1> QED
  BY <1>1

\* A slot that is reserved or given back is not live, before or after.
LEMMA SlotKept ==
    ASSUME IndInv, NEW th \in Thread, owner[th[1]] = th[1],
           UNCHANGED <<owner, mem, inherited>>,
           \A u \in Thread \ {th} : call'[u] = call[u],
           \A q \in Pids \ {th[1]} : keys'[q] = keys[q],
           NEW s \in Slots, \A i \in Slots \ {s} : keys'[th[1]][i] = keys[th[1]][i],
           keys[th[1]][s].state # "live", keys'[th[1]][s].state # "live",
           ~Freeing(th), ~Freeing(th)', ~Charging(th), ~Charging(th)',
           SlotOf(th[1])'
    PROVE  SlotInv' /\ FreeInv' /\ KeyInv'
<1> DEFINE p == th[1]
<1>1. p \in Pids /\ th \in ThreadsOf(p)
  BY Bounds DEF IndInv, ThreadsOf
<1>2. /\ \A i \in Slots : keys'[p][i].state = "live" <=> keys[p][i].state = "live"
      /\ \A i \in Slots : keys[p][i].state = "live" => keys'[p][i] = keys[p][i]
  OBVIOUS
<1>3. \A k : LiveSlots(p, k)' = LiveSlots(p, k)
  BY <1>2 DEF LiveSlots
<1>4. \A u \in Thread : Freeing(u)' <=> Freeing(u)
  BY DEF Freeing
<1>5. \A u \in Thread : Charging(u)' <=> Charging(u)
  BY DEF Charging
<1>6. \A u \in Thread : Freeing(u) \/ Charging(u) => call'[u] = call[u]
  OBVIOUS
<1>7. FreeOf(p) /\ LiveOf(p) /\ HeldOf(p) /\ FreedOf(p)
  BY <1>1 DEF IndInv, FreeInv, KeyInv, LiveInv, HeldInv, FreedInv
<1>8. FreeOf(p)'
  BY <1>4, <1>6, <1>7, ThreadsFinite DEF FreeOf
<1>9. LiveOf(p)'
  BY <1>2, <1>3, <1>4, <1>6, <1>7, ThreadsFinite DEF LiveOf
<1>10. HeldOf(p)'
  BY <1>3, <1>5, <1>6, <1>7, ThreadsFinite DEF HeldOf
<1>11. FreedOf(p)'
  BY <1>3, <1>4, <1>6, <1>7, ThreadsFinite DEF FreedOf
<1>12. \A u \in Thread \ ThreadsOf(p) : call'[u] = call[u]
  BY <1>1
<1> QED
  BY <1>1, <1>8, <1>9, <1>10, <1>11, <1>12, MapKept

\* A step that writes one slot of its process, and neither the books nor the memory.
LEMMA SlotStep ==
    ASSUME IndInv, NEW th \in Thread, call[th].pc \notin {"idle", "wipe"},
           TypeOK', CallInv', LockInv', LatchInv', SlotInv', FreeInv', KeyInv',
           UNCHANGED <<env, status, owner, used, charge, spin, depth, mem, stuck>>,
           \A u \in Thread \ {th} : call'[u] = call[u],
           \A q \in Pids \ {th[1]} : keys'[q] = keys[q],
           call'[th].pc \notin {"wipe", "alloc", "count", "commit"},
           call[th].pc \notin {"count", "commit"},
           OfDue[call'[th]] = OfDue[call[th]],
           OfUnrefunded[call'[th]] = OfUnrefunded[call[th]]
    PROVE  IndInv'
<1>1. owner[th[1]] = th[1]
  BY Inside
<1>2. Tame'
  BY DEF IndInv, Tame
<1>3. OwnerInv'
  BY <1>1, OwnerKept
<1>4. TableInv'
  BY DEF IndInv, TableInv, At, Figure, Get
<1>5. ChargesExact' /\ UsedInv' /\ HeldWithinFigure'
  <2>1. /\ OfUncharged[call'[th]] = OfUncharged[call[th]]
        /\ OfUncounted[call'[th]] = OfUncounted[call[th]]
    BY DEF OfUncharged, OfUncounted, IndInv, TypeOK
  <2>2. Structure'
    BY <1>3 DEF Structure
  <2> QED
    BY <2>1, <2>2, QuietBooks
<1> QED
  BY <1>2, <1>3, <1>4, <1>5 DEF IndInv

\* A slot is reserved before the card is locked, or the request is refused.
LEMMA SlotReserveStep ==
    ASSUME IndInv, NEW th \in Thread, SlotReserve(th)
    PROVE  IndInv'
<1> DEFINE p == th[1]
           i == First(FreeSlots(p))
<1>1. TypeOK /\ call[th].pc = "reserve" /\ call[th].op = "admit"
  BY DEF IndInv, SlotReserve, At, CallInv
<1>2. p \in Pids /\ th \in ThreadsOf(p) /\ owner[p] = p /\ latch[p] = "usable"
  BY <1>1, Inside
<1>3. UNCHANGED <<env, status, born, used, charge, flock, owner, latch, spin, depth, mem,
                  inherited, stuck>>
  BY DEF SlotReserve, region, runtime
<1>4. CASE /\ FreeSlots(p) # {} /\ keys' = [keys EXCEPT ![p][i].state = "reserved"]
           /\ call' = [call EXCEPT ![th].pc = "spin", ![th].slot = i]
  <2>1. i \in Slots /\ keys[p][i].state = "free"
    <3>1. FreeSlots(p) \in SUBSET Slots
      BY DEF FreeSlots
    <3>2. i \in FreeSlots(p)
      BY <1>4, <3>1, FirstIn
    <3> QED
      BY <3>2 DEF FreeSlots
  <2> HIDE DEF i
  <2>2. /\ call' \in [Thread -> Calls]
        /\ \A u \in Thread \ {th} : call'[u] = call[u]
        /\ call'[th].pc = "spin" /\ call'[th].op = "admit" /\ call'[th].bytes = call[th].bytes
        /\ call'[th].slot = i /\ call'[th].key = call[th].key
    <3>1. call \in [Thread -> Calls] /\ i \in 0..KeySlots
      BY <1>1, <2>1, ShimAssumption DEF TypeOK, Slots
    <3> QED
      BY <1>1, <1>4, <3>1 DEF Calls, PCs
  <2>3. /\ keys' \in [Pids -> [Slots -> [state : {"free", "reserved", "live"},
                                         key : Keys \cup {0}, bytes : Nat]]]
        /\ \A q \in Pids \ {p} : keys'[q] = keys[q]
        /\ \A j \in Slots \ {i} : keys'[p][j] = keys[p][j]
        /\ keys'[p][i].state = "reserved"
    <3> DEFINE v == [keys[p][i] EXCEPT !.state = "reserved"]
    <3>1. keys[p][i] \in [state : {"free", "reserved", "live"}, key : Keys \cup {0}, bytes : Nat]
      BY <1>1, <1>2, <2>1 DEF TypeOK
    <3>2. /\ v \in [state : {"free", "reserved", "live"}, key : Keys \cup {0}, bytes : Nat]
          /\ v.state = "reserved"
      BY <3>1
    <3>3. keys' = [keys EXCEPT ![p][i] = v]
      BY <1>4
    <3> HIDE DEF v
    <3> QED
      BY <1>1, <1>2, <2>1, <3>2, <3>3, WritesSlot
  <2>4. TypeOK'
    BY <1>1, <1>3, <2>2, <2>3 DEF TypeOK
  <2>5. CallInv'
    BY <2>2 DEF IndInv, CallInv
  <2>6. LockInv'
    BY <1>1, <1>3, <2>2, LockKept DEF Locking, Spinning
  <2>7. LatchInv'
    BY <1>2, <1>3, <2>2, <2>3, LatchKept
  <2>8. /\ ~Freeing(th) /\ ~Freeing(th)' /\ ~Charging(th) /\ ~Charging(th)'
        /\ ~Reserving(th)
    BY <1>1, <2>2 DEF Freeing, Charging, Reserving
  <2>9. SlotOf(p)'
    <3>1. SlotOf(p)
      BY <1>2 DEF IndInv, SlotInv
    <3>2. \A u \in Thread \ {th} : Reserving(u)' = Reserving(u)
      BY <2>2 DEF Reserving
    <3>3. \A u \in ThreadsOf(p) \ {th} :
              Reserving(u)' => /\ call'[u].slot = call[u].slot /\ call[u].slot \in Slots
                               /\ call[u].slot # i /\ keys[p][call[u].slot].state = "reserved"
      BY <2>1, <2>2, <3>1, <3>2, ThreadsFinite DEF SlotOf
    <3>4. ASSUME NEW u \in ThreadsOf(p), Reserving(u)'
          PROVE  /\ call'[u].slot \in Slots /\ keys'[p][call'[u].slot].state = "reserved"
                 /\ \A x \in ThreadsOf(p) : Reserving(x)' /\ call'[x].slot = call'[u].slot => u = x
      <4>1. CASE u = th
        <5>1. call'[u].slot = i /\ i \in Slots /\ keys'[p][i].state = "reserved"
          BY <2>1, <2>2, <2>3, <4>1
        <5>2. \A x \in ThreadsOf(p) : Reserving(x)' /\ x # th => call'[x].slot # i
          BY <3>3
        <5> QED
          BY <4>1, <5>1, <5>2
      <4>2. CASE u # th
        <5>1. /\ call'[u].slot = call[u].slot /\ call[u].slot \in Slots /\ call[u].slot # i
              /\ keys[p][call[u].slot].state = "reserved" /\ Reserving(u)
          BY <3>2, <3>3, <3>4, <4>2, ThreadsFinite
        <5>2. \A x \in ThreadsOf(p) : Reserving(x)' /\ call'[x].slot = call'[u].slot
                                        => x # th /\ Reserving(x) /\ call[x].slot = call[u].slot
          BY <2>2, <3>2, <3>3, <5>1, ThreadsFinite
        <5>3. \A x \in ThreadsOf(p) : Reserving(x)' /\ call'[x].slot = call'[u].slot => u = x
          BY <3>1, <5>1, <5>2 DEF SlotOf
        <5> QED
          BY <2>3, <5>1, <5>3
      <4> QED
        BY <4>1, <4>2
    <3> QED
      BY <3>4 DEF SlotOf
  <2>10. SlotInv' /\ FreeInv' /\ KeyInv'
    <3>1. keys[p][i].state # "live" /\ keys'[p][i].state # "live"
      BY <2>1, <2>3
    <3> QED
      BY <1>2, <1>3, <2>1, <2>2, <2>3, <2>8, <2>9, <3>1, SlotKept
  <2>11. OfDue[call'[th]] = OfDue[call[th]] /\ OfUnrefunded[call'[th]] = OfUnrefunded[call[th]]
    BY <1>1, <2>2 DEF OfDue, OfUnrefunded, TypeOK
  <2> QED
    BY <1>1, <1>3, <2>2, <2>3, <2>4, <2>5, <2>6, <2>7, <2>10, <2>11, SlotStep
<1>5. CASE Return(th) /\ UNCHANGED keys
  <2>1. /\ call' \in [Thread -> Calls]
        /\ \A u \in Thread \ {th} : call'[u] = call[u]
        /\ call'[th] = NoCall
    BY <1>1, <1>5, Returns
  <2>2. call'[th].pc = "idle" /\ call'[th].op = "none" /\ call'[th].bytes = 0
    BY <2>1 DEF NoCall
  <2>3. TypeOK'
    BY <1>1, <1>3, <1>5, <2>1 DEF TypeOK
  <2>4. CallInv'
    BY <2>1, <2>2 DEF IndInv, CallInv
  <2>5. LockInv'
    BY <1>1, <1>3, <2>1, <2>2, LockKept DEF Locking, Spinning
  <2>6. LatchInv'
    BY <1>2, <1>3, <1>5, <2>1, LatchKept
  <2>7. OfDue[call'[th]] = OfDue[call[th]] /\ OfUnrefunded[call'[th]] = OfUnrefunded[call[th]]
    BY <1>1, <2>1, <2>2 DEF OfDue, OfUnrefunded, TypeOK
  <2>8. ~Reserving(th)'
    BY <2>2 DEF Reserving
  <2> QED
    BY <1>1, <1>3, <1>5, <2>1, <2>2, <2>3, <2>4, <2>5, <2>6, <2>7, <2>8, QuietStep
<1> QED
  BY <1>4, <1>5 DEF SlotReserve

LEMMA SlotTypes ==
    FreeSlot \in [state : {"free", "reserved", "live"}, key : Keys \cup {0}, bytes : Nat]
BY DEF FreeSlot

\* A slot is written that no other call has reserved.
LEMMA SlotsStay ==
    ASSUME IndInv, NEW th \in Thread, owner[th[1]] = th[1], ~Reserving(th)',
           \A u \in Thread \ {th} : call'[u] = call[u],
           NEW s \in Slots, \A i \in Slots \ {s} : keys'[th[1]][i] = keys[th[1]][i],
           \/ keys[th[1]][s].state # "reserved"
           \/ Reserving(th) /\ s = call[th].slot
    PROVE  SlotOf(th[1])'
<1> DEFINE p == th[1]
<1>1. th \in ThreadsOf(p) /\ SlotOf(p)
  BY Bounds DEF IndInv, SlotInv, ThreadsOf
<1>2. \A u \in Thread \ {th} : Reserving(u)' = Reserving(u)
  BY DEF Reserving
<1>3. \A x \in ThreadsOf(p) : Reserving(x)' => x # th /\ Reserving(x) /\ call'[x] = call[x]
  BY <1>2, ThreadsFinite
<1>4. ASSUME NEW u \in ThreadsOf(p), Reserving(u)'
      PROVE  /\ call'[u].slot \in Slots /\ keys'[p][call'[u].slot].state = "reserved"
             /\ \A x \in ThreadsOf(p) : Reserving(x)' /\ call'[x].slot = call'[u].slot => u = x
  <2>1. u # th /\ Reserving(u) /\ call'[u] = call[u]
    BY <1>3, <1>4
  <2>2. /\ call[u].slot \in Slots /\ keys[p][call[u].slot].state = "reserved"
        /\ call[u].slot # s
    BY <1>1, <2>1 DEF SlotOf
  <2>3. \A x \in ThreadsOf(p) : Reserving(x) /\ call[x].slot = call[u].slot => u = x
    BY <1>1, <2>1 DEF SlotOf
  <2> QED
    BY <1>3, <2>1, <2>2, <2>3
<1> QED
  BY <1>4 DEF SlotOf

\* A slot that was not used is given back.
LEMMA SlotFreeStep ==
    ASSUME IndInv, NEW th \in Thread, SlotFree(th)
    PROVE  IndInv'
<1> DEFINE p == th[1]
           s == call[th].slot
<1>1. TypeOK /\ call[th].pc = "giveback" /\ call[th].op \in {"admit", "refused"}
  BY DEF IndInv, SlotFree, At, CallInv, TypeOK, Calls
<1>2. p \in Pids /\ th \in ThreadsOf(p) /\ owner[p] = p /\ latch[p] = "usable"
  BY <1>1, Inside
<1>3. /\ UNCHANGED <<env, status, born, used, charge, flock, owner, latch, spin, depth, mem,
                     inherited, stuck>>
      /\ Return(th) /\ keys' = [keys EXCEPT ![p][s] = FreeSlot]
  BY DEF SlotFree, region, runtime
<1>4. SlotOf(p) /\ Reserving(th)
  BY <1>1, <1>2 DEF IndInv, SlotInv, Reserving
<1>5. s \in Slots /\ keys[p][s].state = "reserved"
  BY <1>2, <1>4 DEF SlotOf
<1>6. /\ call' \in [Thread -> Calls]
      /\ \A u \in Thread \ {th} : call'[u] = call[u]
      /\ call'[th] = NoCall
  BY <1>1, <1>3, Returns
<1>7. call'[th].pc = "idle" /\ call'[th].op = "none" /\ call'[th].bytes = 0
  BY <1>6 DEF NoCall
<1>8. /\ keys' \in [Pids -> [Slots -> [state : {"free", "reserved", "live"},
                                       key : Keys \cup {0}, bytes : Nat]]]
      /\ \A q \in Pids \ {p} : keys'[q] = keys[q]
      /\ \A j \in Slots \ {s} : keys'[p][j] = keys[p][j]
      /\ keys'[p][s] = FreeSlot
  BY <1>1, <1>2, <1>3, <1>5, SlotTypes, WritesSlot
<1>9. TypeOK'
  BY <1>1, <1>3, <1>6, <1>8 DEF TypeOK
<1>10. CallInv'
  BY <1>6, <1>7 DEF IndInv, CallInv
<1>11. LockInv'
  BY <1>1, <1>3, <1>6, <1>7, LockKept DEF Locking, Spinning
<1>12. LatchInv'
  BY <1>2, <1>3, <1>6, <1>8, LatchKept
<1>13. /\ ~Freeing(th) /\ ~Freeing(th)' /\ ~Charging(th) /\ ~Charging(th)' /\ ~Reserving(th)'
  BY <1>1, <1>7 DEF Freeing, Charging, Reserving
<1>14. SlotOf(p)'
  BY <1>2, <1>4, <1>5, <1>6, <1>8, <1>13, SlotsStay
<1>15. SlotInv' /\ FreeInv' /\ KeyInv'
  <2>1. keys[p][s].state # "live" /\ keys'[p][s].state # "live"
    BY <1>5, <1>8 DEF FreeSlot
  <2> HIDE DEF s
  <2> QED
    BY <1>2, <1>3, <1>5, <1>6, <1>8, <1>13, <1>14, <2>1, SlotKept
<1>16. OfDue[call'[th]] = OfDue[call[th]] /\ OfUnrefunded[call'[th]] = OfUnrefunded[call[th]]
  BY <1>1, <1>6, <1>7 DEF OfDue, OfUnrefunded, TypeOK
<1> QED
  BY <1>1, <1>3, <1>6, <1>7, <1>8, <1>9, <1>10, <1>11, <1>12, <1>15, <1>16, SlotStep

\* The refund finds the slot of what was freed, which has the size that was
\* charged; what is in no slot was never charged.
LEMMA SlotTakeStep ==
    ASSUME IndInv, NEW th \in Thread, SlotTake(th)
    PROVE  IndInv'
<1> DEFINE p == th[1]
           k == call[th].key
           i == First(LiveSlots(p, k))
<1>1. TypeOK /\ call[th].pc = "take" /\ call[th].op = "release" /\ Freeing(th)
  BY DEF IndInv, SlotTake, At, CallInv, Freeing
<1>2. p \in Pids /\ th \in ThreadsOf(p) /\ owner[p] = p
  BY <1>1, Inside
<1>3. UNCHANGED <<env, status, born, used, charge, flock, owner, latch, spin, depth, mem,
                  inherited, stuck>>
  BY DEF SlotTake, region, runtime
<1>4. SlotOf(p) /\ FreeOf(p) /\ LiveOf(p) /\ HeldOf(p) /\ FreedOf(p)
  BY <1>2 DEF IndInv, SlotInv, FreeInv, KeyInv, LiveInv, HeldInv, FreedInv
<1>5. /\ k \notin DOMAIN mem[p]
      /\ \A u \in ThreadsOf(p) : Freeing(u) /\ call[u].key = k => u = th
  BY <1>1, <1>2, <1>4 DEF FreeOf
<1>6. CASE /\ LiveSlots(p, k) # {} /\ keys' = [keys EXCEPT ![p][i] = FreeSlot]
           /\ call' = [call EXCEPT ![th].pc = "open", ![th].bytes = keys[p][i].bytes]
  <2>1. i \in LiveSlots(p, k) /\ i \in Slots
    <3>1. LiveSlots(p, k) \in SUBSET Slots
      BY DEF LiveSlots
    <3> QED
      BY <1>6, <3>1, FirstIn
  <2> HIDE DEF i
  <2>2. keys[p][i].state = "live" /\ keys[p][i].key = k
    BY <2>1 DEF LiveSlots
  <2>3. keys[p][i].bytes = call[th].bytes /\ \A j \in LiveSlots(p, k) : j = i
    BY <1>4, <1>5, <2>1, <2>2 DEF LiveOf
  <2>4. /\ call' \in [Thread -> Calls]
        /\ \A u \in Thread \ {th} : call'[u] = call[u]
        /\ call'[th].pc = "open" /\ call'[th].op = "release" /\ call'[th].bytes = call[th].bytes
        /\ call'[th].slot = call[th].slot /\ call'[th].key = k
    <3>1. call \in [Thread -> Calls]
      BY <1>1 DEF TypeOK
    <3>2. call' = [call EXCEPT ![th].pc = "open", ![th].bytes = call[th].bytes]
      BY <1>6, <2>3
    <3> QED
      BY <1>1, <3>1, <3>2 DEF Calls, PCs
  <2>5. /\ keys' \in [Pids -> [Slots -> [state : {"free", "reserved", "live"},
                                         key : Keys \cup {0}, bytes : Nat]]]
        /\ \A q \in Pids \ {p} : keys'[q] = keys[q]
        /\ \A j \in Slots \ {i} : keys'[p][j] = keys[p][j]
        /\ keys'[p][i] = FreeSlot
    <3>1. keys' = [keys EXCEPT ![p][i] = FreeSlot]
      BY <1>6
    <3> HIDE DEF p, k
    <3> QED
      BY <1>1, <1>2, <2>1, <3>1, SlotTypes, WritesSlot
  <2>6. keys'[p][i].state = "free"
    BY <2>5 DEF FreeSlot
  <2>7. TypeOK'
    BY <1>1, <1>3, <2>4, <2>5 DEF TypeOK
  <2>8. CallInv'
    BY <2>4 DEF IndInv, CallInv
  <2>9. LockInv'
    BY <1>1, <1>3, <2>4, LockKept DEF Locking, Spinning
  <2>10. LatchInv'
    <3>1. latch[p] = "usable"
      BY <1>2, <2>1, <2>2 DEF IndInv, LatchInv
    <3> QED
      BY <1>3, <2>4, <2>5, <3>1, LatchKept
  <2>11. ~Freeing(th)' /\ ~Charging(th) /\ ~Charging(th)' /\ ~Reserving(th) /\ ~Reserving(th)'
    BY <1>1, <2>4 DEF Freeing, Charging, Reserving
  <2>12. \A u \in Thread \ {th} : /\ Reserving(u)' = Reserving(u)
                                  /\ Freeing(u)' = Freeing(u) /\ Charging(u)' = Charging(u)
    BY <2>4 DEF Reserving, Freeing, Charging
  <2>13. \A kk : LiveSlots(p, kk)' = LiveSlots(p, kk) \ {i}
    BY <2>5, <2>6 DEF LiveSlots
  <2>14. \A kk : kk # k => LiveSlots(p, kk)' = LiveSlots(p, kk)
    BY <2>2, <2>13 DEF LiveSlots
  <2>15. SlotOf(p)'
    BY <1>2, <2>1, <2>2, <2>4, <2>5, <2>11, SlotsStay
  <2>16. FreeOf(p)'
    BY <1>3, <1>4, <2>4, <2>11, <2>12, ThreadsFinite DEF FreeOf
  <2>17. LiveOf(p)'
    <3> SUFFICES ASSUME NEW j \in Slots, keys'[p][j].state = "live"
                 PROVE  /\ \A x \in LiveSlots(p, keys[p][j].key)' : j = x
                        /\ \/ /\ keys'[p][j].key \in DOMAIN mem'[p]
                              /\ keys'[p][j].bytes = mem'[p][keys'[p][j].key]
                           \/ \E u \in ThreadsOf(p) : /\ Freeing(u)' /\ call'[u].key = keys'[p][j].key
                                                      /\ call'[u].bytes = keys'[p][j].bytes
      BY DEF LiveOf
    <3>1. j # i /\ keys'[p][j] = keys[p][j] /\ keys[p][j].state = "live"
      BY <2>5, <2>6
    <3>2. keys[p][j].key # k
      BY <2>3, <3>1 DEF LiveSlots
    <3>3. \A x \in LiveSlots(p, keys[p][j].key)' : j = x
      BY <1>4, <2>13, <3>1 DEF LiveOf, LiveSlots
    <3>4. CASE keys[p][j].key \in DOMAIN mem[p] /\ keys[p][j].bytes = mem[p][keys[p][j].key]
      BY <1>3, <3>1, <3>3, <3>4
    <3>5. CASE \E u \in ThreadsOf(p) : /\ Freeing(u) /\ call[u].key = keys[p][j].key
                                       /\ call[u].bytes = keys[p][j].bytes
      <4>1. PICK u \in ThreadsOf(p) : /\ Freeing(u) /\ call[u].key = keys[p][j].key
                                      /\ call[u].bytes = keys[p][j].bytes
        BY <3>5
      <4>2. u \in Thread \ {th}
        BY <3>2, <4>1, ThreadsFinite
      <4>3. Freeing(u)' /\ call'[u] = call[u]
        BY <2>4, <2>12, <4>1, <4>2
      <4> QED
        BY <3>1, <3>3, <4>1, <4>3
    <3> QED
      BY <1>4, <3>1, <3>4, <3>5 DEF LiveOf
  <2>18. HeldOf(p)'
    BY <1>3, <1>4, <1>5, <2>4, <2>11, <2>12, <2>14, ThreadsFinite DEF HeldOf
  <2>19. FreedOf(p)'
    BY <1>4, <1>5, <2>4, <2>11, <2>12, <2>14, ThreadsFinite DEF FreedOf
  <2>20. SlotInv' /\ FreeInv' /\ KeyInv'
    <3>1. \A u \in Thread \ ThreadsOf(p) : call'[u] = call[u]
      BY <1>2, <2>4
    <3> QED
      BY <1>2, <1>3, <2>5, <2>15, <2>16, <2>17, <2>18, <2>19, <3>1, MapKept
  <2>21. OfDue[call'[th]] = OfDue[call[th]] /\ OfUnrefunded[call'[th]] = OfUnrefunded[call[th]]
    BY <1>1, <2>4 DEF OfDue, OfUnrefunded, TypeOK
  <2> QED
    BY <1>1, <1>3, <2>4, <2>5, <2>7, <2>8, <2>9, <2>10, <2>20, <2>21, SlotStep
<1>7. CASE LiveSlots(p, k) = {} /\ Return(th) /\ UNCHANGED keys
  <2>1. /\ call' \in [Thread -> Calls]
        /\ \A u \in Thread \ {th} : call'[u] = call[u]
        /\ call'[th] = NoCall
    BY <1>1, <1>7, Returns
  <2>2. call'[th].pc = "idle" /\ call'[th].op = "none" /\ call'[th].bytes = 0
    BY <2>1 DEF NoCall
  <2>3. call[th].bytes = 0
    BY <1>1, <1>2, <1>4, <1>7 DEF FreedOf
  <2>4. TypeOK'
    BY <1>1, <1>3, <1>7, <2>1 DEF TypeOK
  <2>5. CallInv'
    BY <2>1, <2>2 DEF IndInv, CallInv
  <2>6. LockInv'
    BY <1>1, <1>3, <2>1, <2>2, LockKept DEF Locking, Spinning
  <2>7. LatchInv'
    BY <1>3, <1>7, <2>1, <2>2, ThreadsFinite DEF IndInv, LatchInv
  <2>8. OfDue[call'[th]] = OfDue[call[th]] /\ OfUnrefunded[call'[th]] = OfUnrefunded[call[th]]
    BY <1>1, <2>1, <2>2, <2>3 DEF OfDue, OfUnrefunded, TypeOK
  <2>9. ~Freeing(th)' /\ ~Charging(th) /\ ~Charging(th)' /\ ~Reserving(th)'
    BY <1>1, <2>2 DEF Freeing, Charging, Reserving
  <2>10. SlotInv' /\ FreeInv' /\ KeyInv'
    <3>1. \A u \in Thread \ {th} : /\ Reserving(u)' = Reserving(u)
                                   /\ Freeing(u)' = Freeing(u) /\ Charging(u)' = Charging(u)
      BY <2>1 DEF Reserving, Freeing, Charging
    <3>2. \A kk : LiveSlots(p, kk)' = LiveSlots(p, kk)
      BY <1>7 DEF LiveSlots
    <3>3. SlotOf(p)'
      BY <1>4, <1>7, <2>1, <2>9, <3>1, ThreadsFinite DEF SlotOf
    <3>4. FreeOf(p)'
      BY <1>3, <1>4, <2>1, <2>9, <3>1, ThreadsFinite DEF FreeOf
    <3>5. LiveOf(p)'
      <4>1. \A j \in Slots : keys[p][j].state = "live" => keys[p][j].key # k
        BY <1>7 DEF LiveSlots
      <4> QED
        BY <1>3, <1>4, <1>7, <2>1, <3>1, <3>2, <4>1, ThreadsFinite DEF LiveOf
    <3>6. HeldOf(p)'
      BY <1>3, <1>4, <2>1, <2>9, <3>1, <3>2, ThreadsFinite DEF HeldOf
    <3>7. FreedOf(p)'
      BY <1>4, <2>1, <2>9, <3>1, <3>2, ThreadsFinite DEF FreedOf
    <3>8. \A u \in Thread \ ThreadsOf(p) : call'[u] = call[u]
      BY <1>2, <2>1
    <3> QED
      BY <1>2, <1>3, <1>7, <3>3, <3>4, <3>5, <3>6, <3>7, <3>8, MapKept
  <2> QED
    BY <1>1, <1>3, <1>7, <2>1, <2>2, <2>4, <2>5, <2>6, <2>7, <2>8, <2>10, SlotStep
<1> QED
  BY <1>6, <1>7 DEF SlotTake

\* The charge, and the slot from which it will be refunded.
LEMMA CommitStep ==
    ASSUME IndInv, NEW th \in Thread, Commit(th)
    PROVE  IndInv'
<1> DEFINE p == th[1]
           b == call[th].bytes
           k == call[th].key
           s == call[th].slot
           v == [state |-> "live", key |-> k, bytes |-> b]
<1>1. TypeOK /\ call[th].pc = "commit" /\ call[th].op = "admit"
  BY DEF IndInv, Commit, At, CallInv
<1>2. p \in Pids /\ th \in ThreadsOf(p) /\ owner[p] = p /\ latch[p] = "usable" /\ status[p] = "up"
  BY <1>1, Inside
<1>3. /\ UNCHANGED <<env, status, born, used, flock, owner, latch, spin, depth, mem,
                     inherited, stuck>>
      /\ Goto(th, "funlock") /\ keys' = [keys EXCEPT ![p][s] = v]
      /\ charge' = Put(charge, p, Get(charge, p) + b)
  BY DEF Commit, runtime
<1>4. SlotOf(p) /\ FreeOf(p) /\ LiveOf(p) /\ HeldOf(p) /\ FreedOf(p)
  BY <1>2 DEF IndInv, SlotInv, FreeInv, KeyInv, LiveInv, HeldInv, FreedInv
<1>5. Reserving(th) /\ Charging(th) /\ ~Freeing(th)
  BY <1>1 DEF Reserving, Charging, Freeing
<1>6. s \in Slots /\ keys[p][s].state = "reserved"
  BY <1>2, <1>4, <1>5 DEF SlotOf
<1>7. k \in DOMAIN mem[p] /\ b = mem[p][k] /\ LiveSlots(p, k) = {}
  BY <1>2, <1>4, <1>5 DEF HeldOf
<1>8. /\ call' \in [Thread -> Calls]
      /\ \A u \in Thread \ {th} : call'[u] = call[u]
      /\ call'[th].pc = "funlock" /\ call'[th].op = call[th].op /\ call'[th].bytes = b
      /\ call'[th].slot = s /\ call'[th].key = k
  BY <1>1, <1>3, Goes DEF PCs
<1>9. b \in Nat /\ k \in Keys \cup {0} /\ Get(charge, p) \in Nat
      /\ used \in Nat /\ stuck[p] \in Nat /\ Held(p) \in Nat
  BY <1>1, <1>2, NumbersOK DEF TypeOK, Calls, Numbers
<1>10. /\ keys' \in [Pids -> [Slots -> [state : {"free", "reserved", "live"},
                                        key : Keys \cup {0}, bytes : Nat]]]
       /\ \A q \in Pids \ {p} : keys'[q] = keys[q]
       /\ \A j \in Slots \ {s} : keys'[p][j] = keys[p][j]
       /\ keys'[p][s] = v
  <2>1. v \in [state : {"free", "reserved", "live"}, key : Keys \cup {0}, bytes : Nat]
    BY <1>9
  <2> HIDE DEF v
  <2> QED
    BY <1>1, <1>2, <1>3, <1>6, <2>1, WritesSlot
<1>11. keys'[p][s].state = "live" /\ keys'[p][s].key = k /\ keys'[p][s].bytes = b
  BY <1>10
<1> HIDE DEF v
<1>12. p \in DOMAIN charge
  BY <1>1 DEF IndInv, TableInv
<1>13. /\ DOMAIN charge' = DOMAIN charge /\ charge'[p] = Get(charge, p) + b
       /\ \A q \in DOMAIN charge \ {p} : charge'[q] = charge[q]
  BY <1>3, <1>12 DEF Put
<1>14. TypeOK'
  <2>1. Get(charge, p) + b \in Nat
    BY <1>9
  <2>2. \A q \in DOMAIN charge : charge[q] \in Nat
    BY <1>1 DEF TypeOK
  <2>3. \A q \in DOMAIN charge' : charge'[q] \in Nat
    BY <1>13, <2>1, <2>2
  <2> QED
    BY <1>1, <1>3, <1>8, <1>10, <1>13, <2>3 DEF TypeOK
<1>15. CallInv'
  BY <1>1, <1>8 DEF IndInv, CallInv
<1>16. OwnerInv'
  BY <1>2, <1>3, <1>8, <1>10, OwnerKept
<1>17. LockInv'
  BY <1>1, <1>3, <1>8, LockKept DEF Locking, Spinning
<1>18. LatchInv'
  BY <1>2, <1>3, <1>8, <1>10, LatchKept
<1>19. SlotInv' /\ FreeInv' /\ KeyInv'
  <2>1. ~Reserving(th)' /\ ~Charging(th)' /\ ~Freeing(th)'
    BY <1>1, <1>8 DEF Reserving, Charging, Freeing
  <2>2. \A u \in Thread \ {th} : Freeing(u)' = Freeing(u) /\ Charging(u)' = Charging(u)
    BY <1>8 DEF Freeing, Charging
  <2>3. \A u \in ThreadsOf(p) : ~Charging(u)'
    <3>1. \A u \in Thread \ {th} : ~Charging(u)
      BY <1>1, OneUnderLock DEF Locking, Charging
    <3> QED
      BY <2>1, <2>2, <3>1, ThreadsFinite
  <2>4. \A kk : kk # k => LiveSlots(p, kk)' = LiveSlots(p, kk)
    <3> SUFFICES ASSUME NEW kk, kk # k
                 PROVE  {j \in Slots : keys'[p][j].state = "live" /\ keys'[p][j].key = kk}
                          = {j \in Slots : keys[p][j].state = "live" /\ keys[p][j].key = kk}
      BY DEF LiveSlots
    <3>1. \A j \in Slots : keys'[p][j].state = "live" /\ keys'[p][j].key = kk
                             <=> keys[p][j].state = "live" /\ keys[p][j].key = kk
      BY <1>6, <1>10, <1>11
    <3> QED
      BY <3>1
  <2>5. \A kk : kk = k => LiveSlots(p, kk)' = {s}
    <3>1. \A j \in Slots : ~(keys[p][j].state = "live" /\ keys[p][j].key = k)
      BY <1>7 DEF LiveSlots
    <3>2. \A j \in Slots : keys'[p][j].state = "live" /\ keys'[p][j].key = k <=> j = s
      BY <1>6, <1>10, <1>11, <3>1
    <3>3. {j \in Slots : keys'[p][j].state = "live" /\ keys'[p][j].key = k} = {s}
      BY <1>6, <3>2
    <3> QED
      BY <3>3 DEF LiveSlots
  <2>6. SlotOf(p)'
    BY <1>2, <1>5, <1>6, <1>8, <1>10, <2>1, SlotsStay
  <2>7. FreeOf(p)'
    BY <1>3, <1>4, <1>8, <2>1, <2>2, ThreadsFinite DEF FreeOf
  <2>8. LiveOf(p)'
    <3> SUFFICES ASSUME NEW j \in Slots, keys'[p][j].state = "live"
                 PROVE  /\ \A x \in LiveSlots(p, keys[p][j].key)' : j = x
                        /\ \/ /\ keys'[p][j].key \in DOMAIN mem'[p]
                              /\ keys'[p][j].bytes = mem'[p][keys'[p][j].key]
                           \/ \E u \in ThreadsOf(p) : /\ Freeing(u)' /\ call'[u].key = keys'[p][j].key
                                                      /\ call'[u].bytes = keys'[p][j].bytes
      BY DEF LiveOf
    <3>1. CASE j = s
      <4>1. \A x \in LiveSlots(p, keys[p][j].key)' : j = x
        BY <1>11, <2>5, <3>1 DEF LiveSlots
      <4> QED
        BY <1>3, <1>7, <1>11, <3>1, <4>1
    <3>2. CASE j # s
      <4>1. keys'[p][j] = keys[p][j] /\ keys[p][j].state = "live"
        BY <1>10, <3>2
      <4>2. keys[p][j].key # k
        BY <1>7, <4>1 DEF LiveSlots
      <4>3. \A x \in LiveSlots(p, keys[p][j].key)' : j = x
        <5>1. \A x \in LiveSlots(p, keys[p][j].key) : j = x
          BY <1>4, <4>1 DEF LiveOf
        <5>2. \A x \in Slots : keys'[p][x].state = "live" /\ keys'[p][x].key = keys[p][j].key
                 => x \in LiveSlots(p, keys[p][j].key)
          BY <1>10, <1>11, <4>2 DEF LiveSlots
        <5> QED
          BY <4>1, <5>1, <5>2 DEF LiveSlots
      <4>4. CASE keys[p][j].key \in DOMAIN mem[p] /\ keys[p][j].bytes = mem[p][keys[p][j].key]
        BY <1>3, <4>1, <4>3, <4>4
      <4>5. CASE \E u \in ThreadsOf(p) : /\ Freeing(u) /\ call[u].key = keys[p][j].key
                                         /\ call[u].bytes = keys[p][j].bytes
        <5>1. PICK u \in ThreadsOf(p) : /\ Freeing(u) /\ call[u].key = keys[p][j].key
                                        /\ call[u].bytes = keys[p][j].bytes
          BY <4>5
        <5>2. u \in Thread \ {th}
          BY <1>5, <5>1, ThreadsFinite
        <5>3. Freeing(u)' /\ call'[u] = call[u]
          BY <1>8, <2>2, <5>1, <5>2
        <5> QED
          BY <4>1, <4>3, <5>1, <5>3
      <4> QED
        BY <1>4, <4>1, <4>4, <4>5 DEF LiveOf
    <3> QED
      BY <3>1, <3>2
  <2>9. HeldOf(p)'
    <3>1. ASSUME NEW kk \in DOMAIN mem[p] PROVE LiveSlots(p, kk)' # {}
      <4>1. CASE kk = k
        BY <2>5, <4>1
      <4>2. CASE kk # k
        <5>1. \A u \in ThreadsOf(p) : ~(Charging(u) /\ call[u].key = kk)
          <6>1. \A u \in ThreadsOf(p) : Charging(u) => u = th
            BY <2>2, <2>3, ThreadsFinite
          <6> QED
            BY <4>2, <6>1
        <5>2. LiveSlots(p, kk) # {}
          BY <1>4, <5>1 DEF HeldOf
        <5> QED
          BY <2>4, <4>2, <5>2
      <4> QED
        BY <4>1, <4>2
    <3> QED
      BY <1>3, <2>3, <3>1 DEF HeldOf
  <2>10. FreedOf(p)'
    BY <1>4, <1>8, <2>1, <2>2, <2>4, <2>5, ThreadsFinite DEF FreedOf
  <2>11. \A u \in Thread \ ThreadsOf(p) : call'[u] = call[u]
    BY <1>2, <1>8
  <2> QED
    BY <1>2, <1>3, <1>10, <2>6, <2>7, <2>8, <2>9, <2>10, <2>11, MapKept
<1>20. TableInv'
  <2>1. \A u \in Thread : call'[u].pc \notin {"alloc", "count", "commit"}
    BY <1>1, <1>8, OneUnderLock DEF Locking
  <2>2. \A q \in Pids : status'[q] = "zombie" => stuck'[q] = Get(charge', q)
    BY <1>2, <1>3, <1>13 DEF IndInv, TableInv, Get
  <2> QED
    BY <2>1, <2>2 DEF TableInv, At, Get
<1>21. /\ OfDue[call[th]] = 0 /\ OfUnrefunded[call[th]] = 0
       /\ OfUncharged[call[th]] = b /\ OfUncounted[call[th]] = 0
       /\ OfDue[call'[th]] = 0 /\ OfUnrefunded[call'[th]] = 0
       /\ OfUncharged[call'[th]] = 0 /\ OfUncounted[call'[th]] = 0
  BY <1>1, <1>8 DEF OfDue, OfUnrefunded, OfUncharged, OfUncounted, TypeOK
<1>22. /\ Get(charge, p)' = Get(charge, p) + b
       /\ \A q \in Pids \ {p} : Get(charge, q)' = Get(charge, q) /\ stuck'[q] = stuck[q]
       /\ \A q \in Pids : Held(q)' = Held(q) /\ status'[q] = status[q]
       /\ stuck'[p] = stuck[p] /\ used' = used
  BY <1>3, <1>12, <1>13 DEF Get, Held
<1>23. Structure /\ Structure' /\ ChargesExact /\ UsedInv /\ HeldWithinFigure
  BY <1>14, <1>16, <1>17, <1>19 DEF IndInv, Structure
<1>24. ChargesExact'
  <2>1. Get(charge, p)' + OfUncharged[call'[th]] + Held(p) + OfDue[call[th]] + stuck[p]
           = Get(charge, p) + OfUncharged[call[th]] + Held(p)' + OfDue[call'[th]] + stuck'[p]
    BY <1>2, <1>9, <1>21, <1>22
  <2> QED
    BY <1>1, <1>8, <1>14, <1>22, <1>23, <2>1, ChargesMove
<1>25. UsedInv'
  <2>1. Held(p)' + OfUnrefunded[call'[th]] + OfUncounted[call[th]] + used
           <= Held(p) + OfUnrefunded[call[th]] + OfUncounted[call'[th]] + used'
    BY <1>2, <1>9, <1>21, <1>22
  <2> QED
    BY <1>2, <1>8, <1>22, <1>23, <2>1, UsedMoves
<1>26. HeldWithinFigure'
  <2>1. \A q \in Pids : Held(q)' <= Held(q)
    BY <1>1, <1>22, NumbersOK DEF Numbers
  <2> QED
    BY <1>1, <1>3, <1>14, <1>23, <2>1, HeldMoves
<1>27. Tame'
  BY <1>3 DEF IndInv, Tame
<1> QED
  BY <1>14, <1>15, <1>16, <1>17, <1>18, <1>19, <1>20, <1>24, <1>25, <1>26, <1>27 DEF IndInv

-----------------------------------------------------------------------------
(* The calls, and what a forked child does first.                           *)

\* What a process that made no call yet has in its slots, or one that was reset.
LEMMA MapOf ==
    ASSUME IndInv, NEW p \in Pids, owner[p] \in {0, p}
    PROVE  SlotOf(p) /\ FreeOf(p) /\ LiveOf(p) /\ HeldOf(p) /\ FreedOf(p)
<1>1. FreeOf(p)
  BY DEF IndInv, FreeInv
<1>2. CASE owner[p] = p
  BY <1>1, <1>2 DEF IndInv, SlotInv, KeyInv, LiveInv, HeldInv, FreedInv
<1>3. CASE owner[p] = 0
  <2>1. keys[p] = NoKeys /\ DOMAIN mem[p] = {} /\ \A th \in ThreadsOf(p) : call[th].pc = "idle"
    BY <1>3 DEF IndInv, OwnerInv
  <2>2. \A i \in Slots : keys[p][i].state = "free"
    BY <2>1 DEF NoKeys, FreeSlot
  <2>3. \A th \in ThreadsOf(p) : call[th].op = "none"
    BY <2>1, ThreadsFinite DEF IndInv, CallInv
  <2>4. \A th \in ThreadsOf(p) : ~Reserving(th) /\ ~Freeing(th) /\ ~Charging(th)
    BY <2>1, <2>3 DEF Reserving, Freeing, Charging
  <2> QED
    BY <1>1, <2>1, <2>2, <2>4 DEF SlotOf, LiveOf, HeldOf, FreedOf
<1> QED
  BY <1>2, <1>3

\* A thread enters the library: its process records its pid, or is found to be a
\* forked child that no other thread of it has woken.
LEMMA Enters ==
    ASSUME IndInv, NEW th \in Thread, NEW c \in Calls, Enter(th, c), c.op \in {"admit", "release"},
           UNCHANGED <<env, status, flock, latch, spin, keys, depth>>,
           \A q \in Pids \ {th[1]} : mem'[q] = mem[q],
           DOMAIN mem'[th[1]] \subseteq DOMAIN mem[th[1]],
           c.op = "release" /\ DOMAIN mem[th[1]] = {} => c.bytes = 0
    PROVE  /\ call' \in [Thread -> Calls] /\ owner' \in [Pids -> Pids \cup {0}]
           /\ \A u \in Thread \ {th} : call'[u] = call[u]
           /\ \A q \in Pids \ {th[1]} : owner'[q] = owner[q]
           /\ call[th].pc = "idle" /\ th[1] \in Pids /\ th \in ThreadsOf(th[1]) /\ status[th[1]] = "up"
           /\ call'[th].pc \in {"open", "take", "wipe"} /\ call'[th].op = c.op
           /\ call'[th].bytes = c.bytes /\ call'[th].slot = c.slot /\ call'[th].key = c.key
           /\ call'[th].pc = "take" => c.op = "release"
           /\ c.op = "release" => call'[th].pc # "open"
           /\ owner[th[1]] \notin {0, th[1]} =>
                 /\ owner'[th[1]] = owner[th[1]]
                 /\ \A u \in ThreadsOf(th[1]) \ {th} : call[u].pc = "idle"
           /\ CallInv' /\ OwnerInv' /\ LockInv' /\ LatchInv'
<1> DEFINE p == th[1]
<1>1. TypeOK /\ p \in Pids /\ th \in ThreadsOf(p) /\ p # 0
  BY Bounds DEF IndInv, ThreadsOf
<1>2. /\ status[p] = "up" /\ call[th].pc = "idle" /\ call[th].op = "none"
      /\ \/ owner[p] \in {0, p}
         \/ \A u \in ThreadsOf(p) \ {th} : call[u].pc = "idle" /\ depth[u] = 0
  BY DEF Enter, FirstAlone, At, IndInv, Tame, CallInv
<1>3. /\ owner' \in [Pids -> Pids \cup {0}]
      /\ \A q \in Pids \ {p} : owner'[q] = owner[q]
      /\ owner'[p] = IF owner[p] = 0 THEN p ELSE owner[p]
  BY <1>1 DEF Enter, TypeOK
<1>4. /\ call' \in [Thread -> Calls]
      /\ \A u \in Thread \ {th} : call'[u] = call[u]
      /\ call'[th].pc = IF owner[p] \in {0, p} THEN AfterReset(c.op) ELSE "wipe"
      /\ call'[th].op = c.op
      /\ call'[th].bytes = c.bytes /\ call'[th].slot = c.slot /\ call'[th].key = c.key
  <2> DEFINE pc == IF owner[p] \in {0, p} THEN AfterReset(c.op) ELSE "wipe"
  <2>1. pc \in PCs
    BY DEF AfterReset, PCs
  <2>2. call' = [call EXCEPT ![th] = [c EXCEPT !.pc = pc]]
    BY DEF Enter
  <2>3. call \in [Thread -> Calls]
    BY <1>1 DEF TypeOK
  <2> HIDE DEF pc
  <2>4. /\ call' \in [Thread -> Calls]
        /\ \A u \in Thread \ {th} : call'[u] = call[u]
        /\ call'[th].pc = pc /\ call'[th].op = c.op
        /\ call'[th].bytes = c.bytes /\ call'[th].slot = c.slot /\ call'[th].key = c.key
    BY <2>1, <2>2, <2>3 DEF Calls
  <2> QED
    BY <2>4 DEF pc
<1>5. /\ call'[th].pc \in {"open", "take", "wipe"}
      /\ call'[th].pc = "take" => c.op = "release"
      /\ c.op = "release" => call'[th].pc # "open"
      /\ owner[p] \in {0, p} <=> call'[th].pc # "wipe"
  BY <1>4 DEF AfterReset
<1>6. CallInv'
  BY <1>4, <1>5 DEF IndInv, CallInv
<1>7. OwnerInv'
  <2>1. ASSUME NEW q \in Pids \ {p}
        PROVE  /\ status'[q] # "up" => owner'[q] = 0
               /\ owner'[q] = 0 => /\ keys'[q] = NoKeys /\ ~spin'[q] /\ DOMAIN mem'[q] = {}
                                   /\ \A u \in ThreadsOf(q) : call'[u].pc = "idle" /\ depth'[u] = 0
               /\ owner'[q] \notin {0, q} =>
                     /\ DOMAIN mem'[q] = {}
                     /\ \A u \in ThreadsOf(q) :
                           /\ call'[u].pc \in {"idle", "wipe"}
                           /\ call'[u].op = "release" => call'[u].bytes = 0
                     /\ \A u, x \in ThreadsOf(q) :
                           (call'[u].pc # "idle" \/ depth'[u] # 0)
                           /\ (call'[x].pc # "idle" \/ depth'[x] # 0) => u = x
               /\ owner'[q] = q => \A u \in ThreadsOf(q) : call'[u].pc # "wipe"
    <3>1. \A u \in ThreadsOf(q) : u \in Thread \ {th}
      BY <1>1 DEF ThreadsOf
    <3> QED
      BY <1>3, <1>4, <3>1 DEF IndInv, OwnerInv
  <2>2. owner'[p] # 0 /\ status'[p] = "up"
    BY <1>1, <1>2, <1>3
  <2>3. owner'[p] \notin {0, p} =>
              /\ DOMAIN mem'[p] = {}
              /\ \A u \in ThreadsOf(p) :
                    /\ call'[u].pc \in {"idle", "wipe"}
                    /\ call'[u].op = "release" => call'[u].bytes = 0
              /\ \A u, x \in ThreadsOf(p) :
                    (call'[u].pc # "idle" \/ depth'[u] # 0)
                    /\ (call'[x].pc # "idle" \/ depth'[x] # 0) => u = x
    <3> SUFFICES ASSUME owner'[p] \notin {0, p}
                 PROVE  /\ DOMAIN mem'[p] = {}
                        /\ \A u \in ThreadsOf(p) :
                              /\ call'[u].pc \in {"idle", "wipe"}
                              /\ call'[u].op = "release" => call'[u].bytes = 0
                        /\ \A u, x \in ThreadsOf(p) :
                              (call'[u].pc # "idle" \/ depth'[u] # 0)
                              /\ (call'[x].pc # "idle" \/ depth'[x] # 0) => u = x
      OBVIOUS
    <3>1. owner[p] \notin {0, p} /\ owner'[p] = owner[p]
      BY <1>3
    <3>2. DOMAIN mem[p] = {}
      BY <1>1, <3>1 DEF IndInv, OwnerInv
    <3>3. \A u \in ThreadsOf(p) \ {th} : /\ call'[u] = call[u] /\ call[u].pc = "idle"
                                         /\ depth'[u] = 0 /\ call[u].op = "none"
      BY <1>2, <1>4, <3>1, ThreadsFinite DEF IndInv, CallInv
    <3> QED
      BY <1>4, <1>5, <3>1, <3>2, <3>3
  <2>4. owner'[p] = p => \A u \in ThreadsOf(p) : call'[u].pc # "wipe"
    <3>1. owner'[p] = p => owner[p] \in {0, p}
      BY <1>3
    <3>2. owner[p] \in {0, p} => \A u \in ThreadsOf(p) : call[u].pc # "wipe"
      BY <1>1 DEF IndInv, OwnerInv
    <3> QED
      BY <1>4, <1>5, <3>1, <3>2, ThreadsFinite
  <2> QED
    BY <2>1, <2>2, <2>3, <2>4 DEF OwnerInv
<1>8. owner[p] = 0 => \A u \in ThreadsOf(p) : /\ call[u].pc = "idle" /\ depth[u] = 0
                                              /\ call[u].op = "none"
  BY <1>1, ThreadsFinite DEF IndInv, OwnerInv, CallInv
<1>9. LockInv'
  <2>1. \A u \in Thread : /\ call'[u].pc \in Locking <=> call[u].pc \in Locking
                          /\ call'[u].pc \in Spinning <=> call[u].pc \in Spinning
                          /\ call'[u].pc = "create" <=> call[u].pc = "create"
    <3>1. /\ call[th].pc \notin Locking /\ call[th].pc \notin Spinning /\ call[th].pc # "create"
          /\ call'[th].pc \notin Locking /\ call'[th].pc \notin Spinning /\ call'[th].pc # "create"
      BY <1>2, <1>5 DEF Locking, Spinning
    <3> QED
      BY <1>4, <3>1
  <2>2. owner[p] = 0 => \A u \in ThreadsOf(p) :
            /\ call[u].pc \notin Locking /\ call[u].pc \notin Spinning /\ call[u].pc # "create"
            /\ depth[u] = 0
    BY <1>8 DEF Locking, Spinning
  <2>3. \A q \in Pids : owner'[q] = q => owner[q] = q \/ (q = p /\ owner[q] = 0)
    BY <1>1, <1>3
  <2> QED
    BY <2>1, <2>2, <2>3, ThreadsFinite DEF IndInv, LockInv
<1>10. LatchInv'
  <2> SUFFICES ASSUME NEW q \in Pids, owner'[q] = q, latch'[q] # "usable"
               PROVE  /\ DOMAIN mem'[q] = {}
                      /\ \A i \in Slots : keys'[q][i].state = "free"
                      /\ \A u \in ThreadsOf(q) :
                            /\ call'[u].pc \in {"idle", "take", "open", "create"}
                            /\ call'[u].op = "release" => call'[u].bytes = 0
    BY DEF LatchInv
  <2>1. CASE q # p
    <3>1. \A u \in ThreadsOf(q) : call'[u] = call[u]
      BY <1>4, <2>1 DEF ThreadsOf
    <3> QED
      BY <1>3, <2>1, <3>1 DEF IndInv, LatchInv
  <2>2. CASE q = p
    <3>1. owner[p] \in {0, p}
      BY <1>3, <2>2
    <3>2. /\ DOMAIN mem[p] = {} /\ \A i \in Slots : keys[p][i].state = "free"
          /\ \A u \in ThreadsOf(p) : /\ call[u].pc \in {"idle", "take", "open", "create"}
                                     /\ call[u].op = "release" => call[u].bytes = 0
      <4>1. CASE owner[p] = p
        BY <1>1, <2>2, <4>1 DEF IndInv, LatchInv
      <4>2. CASE owner[p] = 0
        BY <1>1, <1>8, <4>2 DEF IndInv, OwnerInv, NoKeys, FreeSlot
      <4> QED
        BY <3>1, <4>1, <4>2
    <3> QED
      BY <1>4, <1>5, <2>2, <3>1, <3>2, ThreadsFinite
  <2> QED
    BY <2>1, <2>2
<1> QED
  BY <1>1, <1>2, <1>3, <1>4, <1>5, <1>6, <1>7, <1>9, <1>10

\* An allocation is asked for: nothing is taken yet.
LEMMA HipMallocStep ==
    ASSUME IndInv, NEW th \in Thread, NEW n \in env.sizes, HipMalloc(th, n)
    PROVE  IndInv'
<1> DEFINE p == th[1]
           c == [NoCall EXCEPT !.op = "admit", !.bytes = n]
<1>1. TypeOK /\ n \in Nat
  BY Bounds DEF IndInv
<1>2. c \in Calls /\ c.op = "admit" /\ c.bytes = n
  <2>1. NoCall \in Calls
    BY ShimAssumption DEF NoCall, Calls, PCs
  <2> QED
    BY <1>1, <2>1 DEF Calls
<1>3. /\ Enter(th, c)
      /\ UNCHANGED <<env, status, born, used, charge, flock, latch, spin, keys, depth, mem,
                     inherited, stuck>>
  BY DEF HipMalloc, region, runtime
<1> HIDE DEF c
<1>4. /\ call' \in [Thread -> Calls] /\ owner' \in [Pids -> Pids \cup {0}]
      /\ \A u \in Thread \ {th} : call'[u] = call[u]
      /\ \A q \in Pids \ {p} : owner'[q] = owner[q]
      /\ call[th].pc = "idle" /\ p \in Pids /\ th \in ThreadsOf(p) /\ status[p] = "up"
      /\ call'[th].pc \in {"open", "take", "wipe"} /\ call'[th].op = "admit"
      /\ owner[p] \notin {0, p} => owner'[p] = owner[p]
      /\ CallInv' /\ OwnerInv' /\ LockInv' /\ LatchInv'
  BY <1>2, <1>3, Enters
<1>5. TypeOK'
  BY <1>1, <1>3, <1>4 DEF TypeOK
<1>6. call[th].op = "none"
  BY <1>4 DEF IndInv, CallInv
<1>7. SlotInv' /\ FreeInv' /\ KeyInv'
  <2>1. /\ ~Reserving(th) /\ ~Freeing(th) /\ ~Charging(th)
        /\ ~Reserving(th)' /\ ~Freeing(th)' /\ ~Charging(th)'
    BY <1>4, <1>6 DEF Reserving, Freeing, Charging
  <2>2. \A u \in Thread : /\ Reserving(u)' <=> Reserving(u)
                          /\ Freeing(u)' <=> Freeing(u)
                          /\ Charging(u)' <=> Charging(u)
    <3>1. \A u \in Thread \ {th} : /\ Reserving(u)' <=> Reserving(u)
                                   /\ Freeing(u)' <=> Freeing(u)
                                   /\ Charging(u)' <=> Charging(u)
      BY <1>4 DEF Reserving, Freeing, Charging
    <3> QED
      BY <2>1, <3>1
  <2>3. \A u \in Thread : Reserving(u) \/ Freeing(u) \/ Charging(u) => call'[u] = call[u]
    BY <1>4, <2>1
  <2>4. \A k : LiveSlots(p, k)' = LiveSlots(p, k)
    BY <1>3 DEF LiveSlots
  <2>5. FreeOf(p)'
    BY <1>3, <1>4, <2>2, <2>3, ThreadsFinite DEF IndInv, FreeInv, FreeOf
  <2>6. owner'[p] = p => SlotOf(p) /\ LiveOf(p) /\ HeldOf(p) /\ FreedOf(p)
    BY <1>4, MapOf
  <2>7. owner'[p] = p => SlotOf(p)'
    BY <1>3, <2>2, <2>3, <2>6, ThreadsFinite DEF SlotOf
  <2>8. owner'[p] = p => LiveOf(p)'
    BY <1>3, <2>2, <2>3, <2>4, <2>6, ThreadsFinite DEF LiveOf
  <2>9. owner'[p] = p => HeldOf(p)'
    BY <1>3, <2>2, <2>3, <2>4, <2>6, ThreadsFinite DEF HeldOf
  <2>10. owner'[p] = p => FreedOf(p)'
    BY <2>2, <2>3, <2>4, <2>6, ThreadsFinite DEF FreedOf
  <2>11. \A u \in Thread \ ThreadsOf(p) : call'[u] = call[u]
    BY <1>4
  <2> QED
    BY <1>3, <1>4, <2>5, <2>7, <2>8, <2>9, <2>10, <2>11, MapKept
<1>8. TableInv'
  BY <1>3, <1>4 DEF IndInv, TableInv, At, Figure, Get
<1>9. ChargesExact' /\ UsedInv' /\ HeldWithinFigure'
  <2>1. /\ OfUncharged[call'[th]] = OfUncharged[call[th]]
        /\ OfUncounted[call'[th]] = OfUncounted[call[th]]
        /\ OfDue[call'[th]] = OfDue[call[th]]
        /\ OfUnrefunded[call'[th]] = OfUnrefunded[call[th]]
    BY <1>1, <1>4, <1>6 DEF OfUncharged, OfUncounted, OfDue, OfUnrefunded, TypeOK
  <2>2. Structure'
    BY <1>4, <1>5, <1>7 DEF Structure
  <2> QED
    BY <1>3, <1>4, <2>1, <2>2, QuietBooks
<1>10. Tame'
  BY <1>3 DEF IndInv, Tame
<1> QED
  BY <1>4, <1>5, <1>7, <1>8, <1>9, <1>10 DEF IndInv

\* What is freed is no longer held, and its refund is under way.
LEMMA HipFreeStep ==
    ASSUME IndInv, NEW th \in Thread, NEW k \in Keys, HipFree(th, k)
    PROVE  IndInv'
<1> DEFINE p == th[1]
           b == Get(mem[p], k)
           c == [NoCall EXCEPT !.op = "release", !.key = k, !.bytes = b]
<1>1. TypeOK /\ p \in Pids /\ th \in ThreadsOf(p)
  BY Bounds DEF IndInv, ThreadsOf
<1>2. /\ IsFiniteSet(DOMAIN mem[p]) /\ DOMAIN mem[p] \subseteq Keys
      /\ \A x \in DOMAIN mem[p] : mem[p][x] \in Nat
  BY <1>1, NumbersOK DEF Numbers, TypeOK
<1>3. /\ k \in Given(p) \cup inherited[p]
      /\ Enter(th, c)
      /\ mem' = [mem EXCEPT ![p] = Only(@, Keys \ {k})]
      /\ inherited' = [inherited EXCEPT ![p] = @ \ {k}]
      /\ UNCHANGED <<env, status, born, used, charge, flock, latch, spin, keys, depth, stuck>>
  BY DEF HipFree, region
<1>4. /\ Total(Only(mem[p], Keys \ {k})) + b = Total(mem[p])
      /\ Total(Only(mem[p], Keys \ {k})) \in Nat /\ b \in Nat
      /\ DOMAIN Only(mem[p], Keys \ {k}) = DOMAIN mem[p] \ {k}
  BY <1>2, OnlyTotal
<1>5. /\ DOMAIN mem' = Pids /\ \A q \in Pids \ {p} : mem'[q] = mem[q]
      /\ mem'[p] = Only(mem[p], Keys \ {k})
      /\ inherited' \in [Pids -> SUBSET Keys]
      /\ \A q \in Pids \ {p} : inherited'[q] = inherited[q]
      /\ inherited'[p] = inherited[p] \ {k}
  BY <1>1, <1>3 DEF TypeOK
<1>6. /\ DOMAIN mem'[p] = DOMAIN mem[p] \ {k}
      /\ \A x \in DOMAIN mem[p] \ {k} : mem'[p][x] = mem[p][x]
  BY <1>2, <1>5 DEF Only
<1>7. /\ k \in DOMAIN mem[p] => b = mem[p][k]
      /\ k \notin DOMAIN mem[p] => b = 0
  BY DEF Get
<1> HIDE DEF b
<1>8. c \in Calls /\ c.op = "release" /\ c.bytes = b /\ c.key = k
  <2>1. NoCall \in Calls
    BY ShimAssumption DEF NoCall, Calls, PCs
  <2> QED
    BY <1>4, <2>1 DEF Calls
<1> HIDE DEF c
<1>9. /\ call' \in [Thread -> Calls] /\ owner' \in [Pids -> Pids \cup {0}]
      /\ \A u \in Thread \ {th} : call'[u] = call[u]
      /\ \A q \in Pids \ {p} : owner'[q] = owner[q]
      /\ call[th].pc = "idle" /\ status[p] = "up"
      /\ call'[th].pc \in {"take", "wipe"} /\ call'[th].op = "release"
      /\ call'[th].bytes = b /\ call'[th].key = k
      /\ owner[p] \notin {0, p} => owner'[p] = owner[p]
      /\ CallInv' /\ OwnerInv' /\ LockInv' /\ LatchInv'
  <2>1. c.op = "release" /\ DOMAIN mem[p] = {} => c.bytes = 0
    BY <1>7, <1>8
  <2>2. DOMAIN mem'[p] \subseteq DOMAIN mem[p]
    BY <1>6
  <2>3. c.op \in {"admit", "release"}
    BY <1>8
  <2>4. /\ call' \in [Thread -> Calls] /\ owner' \in [Pids -> Pids \cup {0}]
        /\ \A u \in Thread \ {th} : call'[u] = call[u]
        /\ \A q \in Pids \ {p} : owner'[q] = owner[q]
        /\ call[th].pc = "idle" /\ status[p] = "up"
        /\ call'[th].pc \in {"open", "take", "wipe"} /\ call'[th].op = c.op
        /\ call'[th].bytes = c.bytes /\ call'[th].key = c.key
        /\ c.op = "release" => call'[th].pc # "open"
        /\ owner[p] \notin {0, p} => owner'[p] = owner[p]
        /\ CallInv' /\ OwnerInv' /\ LockInv' /\ LatchInv'
    BY <1>3, <1>5, <1>8, <2>1, <2>2, <2>3, Enters
  <2> QED
    BY <1>8, <2>4
<1>10. TypeOK'
  <2>1. \A q \in Pids : /\ DOMAIN mem'[q] \subseteq Keys
                        /\ \A x \in DOMAIN mem'[q] : mem'[q][x] \in Nat
    BY <1>1, <1>5, <1>6 DEF TypeOK
  <2> QED
    BY <1>1, <1>3, <1>5, <1>9, <2>1 DEF TypeOK
<1>11. call[th].op = "none"
  BY <1>9 DEF IndInv, CallInv
<1>12. /\ k \in DOMAIN mem[p] \cup inherited[p]
       /\ \A u \in ThreadsOf(p) : Charging(u) /\ k \in DOMAIN mem[p] /\ k \notin inherited[p]
                                    => call[u].key # k
  <2>1. \A u \in ThreadsOf(p) : Charging(u) => call[u].op = "admit"
    BY ThreadsFinite DEF IndInv, CallInv, Charging
  <2> QED
    BY <1>3, <2>1 DEF Given
<1>13. SlotInv' /\ FreeInv' /\ KeyInv'
  <2>1. /\ ~Reserving(th) /\ ~Freeing(th) /\ ~Charging(th)
        /\ ~Reserving(th)' /\ Freeing(th)' /\ ~Charging(th)'
    BY <1>9, <1>11 DEF Reserving, Freeing, Charging
  <2>2. \A u \in Thread \ {th} : /\ Reserving(u)' <=> Reserving(u)
                                 /\ Freeing(u)' <=> Freeing(u)
                                 /\ Charging(u)' <=> Charging(u)
    BY <1>9 DEF Reserving, Freeing, Charging
  <2>3. \A u \in Thread : /\ Reserving(u)' <=> Reserving(u)
                          /\ Charging(u)' <=> Charging(u)
                          /\ Freeing(u)' <=> (Freeing(u) \/ u = th)
                          /\ Reserving(u) => u # th
                          /\ Freeing(u) => u # th
                          /\ Charging(u) => u # th
                          /\ u # th => call'[u] = call[u]
    BY <1>9, <2>1, <2>2
  <2>4. \A x : LiveSlots(p, x)' = LiveSlots(p, x)
    BY <1>3 DEF LiveSlots
  <2>5. FreeOf(p)
    BY <1>1 DEF IndInv, FreeInv
  <2>6. FreeOf(p)'
    <3>1. \A u \in ThreadsOf(p) : Freeing(u) => call[u].key # k
      BY <1>12, <2>5 DEF FreeOf
    <3>2. DOMAIN mem'[p] \cap inherited'[p] = {}
      BY <1>5, <1>6, <2>5 DEF FreeOf
    <3>3. ASSUME NEW u \in ThreadsOf(p), Freeing(u)'
          PROVE  /\ call'[u].key \notin DOMAIN mem'[p] \cup inherited'[p]
                 /\ \A x \in ThreadsOf(p) : Freeing(x)' /\ call'[x].key = call'[u].key => u = x
      <4>1. CASE u = th
        BY <1>5, <1>6, <1>9, <2>3, <3>1, <4>1, ThreadsFinite
      <4>2. CASE u # th
        <5>1. Freeing(u) /\ call'[u] = call[u]
          BY <2>3, <3>3, <4>2, ThreadsFinite
        <5>2. call[u].key \notin DOMAIN mem[p] \cup inherited[p]
          BY <2>5, <5>1 DEF FreeOf
        <5>3. \A x \in ThreadsOf(p) : Freeing(x) /\ call[x].key = call[u].key => u = x
          BY <2>5, <5>1 DEF FreeOf
        <5>4. \A x \in ThreadsOf(p) : Freeing(x)' /\ call'[x].key = call'[u].key => u = x
          BY <1>9, <2>3, <3>1, <5>1, <5>3, ThreadsFinite
        <5> QED
          BY <1>5, <1>6, <5>1, <5>2, <5>4
      <4> QED
        BY <4>1, <4>2
    <3> QED
      BY <3>2, <3>3 DEF FreeOf
  <2>7. owner'[p] = p => SlotOf(p) /\ LiveOf(p) /\ HeldOf(p) /\ FreedOf(p)
    BY <1>1, <1>9, MapOf
  <2>8. \A u \in ThreadsOf(p) : Charging(u) /\ owner'[p] = p => call[u].key # k
    BY <1>12, <2>5, <2>7 DEF FreeOf, HeldOf
  <2>9. owner'[p] = p => SlotOf(p)'
    BY <1>3, <2>3, <2>7, ThreadsFinite DEF SlotOf
  <2>10. owner'[p] = p => LiveOf(p)'
    <3> SUFFICES ASSUME owner'[p] = p, NEW j \in Slots, keys'[p][j].state = "live"
                 PROVE  /\ \A x \in LiveSlots(p, keys[p][j].key)' : j = x
                        /\ \/ /\ keys'[p][j].key \in DOMAIN mem'[p]
                              /\ keys'[p][j].bytes = mem'[p][keys'[p][j].key]
                           \/ \E u \in ThreadsOf(p) : /\ Freeing(u)' /\ call'[u].key = keys'[p][j].key
                                                      /\ call'[u].bytes = keys'[p][j].bytes
      BY DEF LiveOf
    <3>1. keys'[p][j] = keys[p][j] /\ keys[p][j].state = "live"
      BY <1>3
    <3>2. \A x \in LiveSlots(p, keys[p][j].key)' : j = x
      BY <1>3, <2>7, <3>1 DEF LiveOf, LiveSlots
    <3>3. CASE keys[p][j].key \in DOMAIN mem[p] /\ keys[p][j].bytes = mem[p][keys[p][j].key]
      <4>1. CASE keys[p][j].key = k
        BY <1>1, <1>7, <1>9, <2>1, <3>1, <3>2, <3>3, <4>1
      <4>2. CASE keys[p][j].key # k
        BY <1>6, <3>1, <3>2, <3>3, <4>2
      <4> QED
        BY <4>1, <4>2
    <3>4. CASE \E u \in ThreadsOf(p) : /\ Freeing(u) /\ call[u].key = keys[p][j].key
                                       /\ call[u].bytes = keys[p][j].bytes
      <4>1. PICK u \in ThreadsOf(p) : /\ Freeing(u) /\ call[u].key = keys[p][j].key
                                      /\ call[u].bytes = keys[p][j].bytes
        BY <3>4
      <4>2. Freeing(u)' /\ call'[u] = call[u]
        BY <2>3, <4>1, ThreadsFinite
      <4> QED
        BY <3>1, <3>2, <4>1, <4>2
    <3> QED
      BY <2>7, <3>1, <3>3, <3>4 DEF LiveOf
  <2>11. owner'[p] = p => HeldOf(p)'
    BY <1>6, <2>3, <2>4, <2>7, <2>8, ThreadsFinite DEF HeldOf
  <2>12. owner'[p] = p => FreedOf(p)'
    <3>1. owner'[p] = p /\ LiveSlots(p, k) = {} => b = 0
      BY <1>7, <2>7, <2>8 DEF HeldOf
    <3>2. ASSUME owner'[p] = p, NEW u \in ThreadsOf(p), Freeing(u)',
                 LiveSlots(p, call[u].key)' = {}
          PROVE  call'[u].bytes = 0
      <4>1. CASE u = th
        <5>1. LiveSlots(p, k) = {}
          BY <1>3, <1>9, <3>2, <4>1 DEF LiveSlots
        <5> QED
          BY <1>9, <3>1, <3>2, <4>1, <5>1
      <4>2. CASE u # th
        <5>1. Freeing(u) /\ call'[u] = call[u]
          BY <2>3, <3>2, <4>2, ThreadsFinite
        <5>2. LiveSlots(p, call[u].key) = {}
          BY <1>3, <3>2, <5>1 DEF LiveSlots
        <5> QED
          BY <2>7, <3>2, <5>1, <5>2 DEF FreedOf
      <4> QED
        BY <4>1, <4>2
    <3> QED
      BY <3>2 DEF FreedOf
  <2>13. /\ \A u \in Thread \ ThreadsOf(p) : call'[u] = call[u]
         /\ \A q \in Pids \ {p} : keys'[q] = keys[q]
    BY <1>1, <1>3, <1>9
  <2> QED
    BY <1>1, <1>5, <1>9, <2>6, <2>9, <2>10, <2>11, <2>12, <2>13, MapKept
<1>14. TableInv'
  BY <1>3, <1>9 DEF IndInv, TableInv, At, Figure, Get
<1>15. /\ OfDue[call[th]] = 0 /\ OfUnrefunded[call[th]] = 0
       /\ OfUncharged[call[th]] = 0 /\ OfUncounted[call[th]] = 0
       /\ OfDue[call'[th]] = b /\ OfUnrefunded[call'[th]] = b
       /\ OfUncharged[call'[th]] = 0 /\ OfUncounted[call'[th]] = 0
  BY <1>1, <1>9, <1>11 DEF OfDue, OfUnrefunded, OfUncharged, OfUncounted, TypeOK
<1>16. /\ Held(p)' + b = Held(p) /\ Held(p)' \in Nat
       /\ \A q \in Pids \ {p} : Held(q)' = Held(q)
       /\ \A q \in Pids : Get(charge, q)' = Get(charge, q) /\ stuck'[q] = stuck[q]
       /\ \A q \in Pids : status'[q] = status[q]
       /\ used' = used
  BY <1>3, <1>4, <1>5 DEF Held, Get
<1>17. used \in Nat /\ Get(charge, p) \in Nat /\ stuck[p] \in Nat /\ Held(p) \in Nat
  BY <1>1, NumbersOK DEF Numbers
<1>18. Structure /\ Structure' /\ ChargesExact /\ UsedInv /\ HeldWithinFigure
  BY <1>9, <1>10, <1>13 DEF IndInv, Structure
<1>19. ChargesExact'
  <2>1. Get(charge, p)' + OfUncharged[call'[th]] + Held(p) + OfDue[call[th]] + stuck[p]
           = Get(charge, p) + OfUncharged[call[th]] + Held(p)' + OfDue[call'[th]] + stuck'[p]
    BY <1>1, <1>4, <1>15, <1>16, <1>17
  <2> QED
    BY <1>1, <1>9, <1>10, <1>16, <1>18, <2>1, ChargesMove
<1>20. UsedInv'
  <2>1. Held(p)' + OfUnrefunded[call'[th]] + OfUncounted[call[th]] + used
           <= Held(p) + OfUnrefunded[call[th]] + OfUncounted[call'[th]] + used'
    BY <1>4, <1>15, <1>16, <1>17
  <2> QED
    BY <1>9, <1>16, <1>18, <2>1, UsedMoves
<1>21. HeldWithinFigure'
  <2>1. \A q \in Pids : Held(q)' <= Held(q)
    BY <1>1, <1>4, <1>16, <1>17, NumbersOK DEF Numbers
  <2> QED
    BY <1>1, <1>3, <1>10, <1>18, <2>1, HeldMoves
<1>22. Tame'
  BY <1>3 DEF IndInv, Tame
<1> QED
  BY <1>9, <1>10, <1>13, <1>14, <1>19, <1>20, <1>21, <1>22 DEF IndInv

\* What the invariant says of the calls, the locks and the latch of one process.
OwnsOf(p) ==
    /\ status[p] # "up" => owner[p] = 0
    /\ owner[p] = 0 => /\ keys[p] = NoKeys /\ ~spin[p] /\ DOMAIN mem[p] = {}
                       /\ \A th \in ThreadsOf(p) : call[th].pc = "idle" /\ depth[th] = 0
    /\ owner[p] \notin {0, p} =>
          /\ DOMAIN mem[p] = {}
          /\ \A th \in ThreadsOf(p) :
                /\ call[th].pc \in {"idle", "wipe"}
                /\ call[th].op = "release" => call[th].bytes = 0
          /\ \A th, u \in ThreadsOf(p) :
                (call[th].pc # "idle" \/ depth[th] # 0) /\ (call[u].pc # "idle" \/ depth[u] # 0)
                => th = u
    /\ owner[p] = p => \A th \in ThreadsOf(p) : call[th].pc # "wipe"
LocksOf(p) ==
    owner[p] = p =>
        \A th \in ThreadsOf(p) :
            /\ depth[th] = IF call[th].pc \in Locking THEN 1 ELSE 0
            /\ call[th].pc \in Locking => flock = p
            /\ call[th].pc \in Spinning => spin[p]
            /\ call[th].pc = "create" => latch[p] = "opening"
            /\ \A u \in ThreadsOf(p) :
                  /\ call[th].pc \in Spinning /\ call[u].pc \in Spinning => th = u
                  /\ call[th].pc = "create" /\ call[u].pc = "create" => th = u
LatchOf(p) ==
    owner[p] = p /\ latch[p] # "usable" =>
        /\ DOMAIN mem[p] = {}
        /\ \A i \in Slots : keys[p][i].state = "free"
        /\ \A th \in ThreadsOf(p) :
              /\ call[th].pc \in {"idle", "take", "open", "create"}
              /\ call[th].op = "release" => call[th].bytes = 0

\* A step of one process leaves what the invariant says of the others.
LEMMA OthersKept ==
    ASSUME IndInv, NEW p \in Pids,
           \A q \in Pids \ {p} : /\ status'[q] = status[q] /\ owner'[q] = owner[q]
                                 /\ latch'[q] = latch[q] /\ keys'[q] = keys[q] /\ mem'[q] = mem[q],
           \A q \in Pids \ {p} : spin'[q] = spin[q],
           \A u \in Thread \ ThreadsOf(p) : call'[u] = call[u] /\ depth'[u] = depth[u],
           flock' = flock \/ flock = p,
           OwnsOf(p)', LocksOf(p)', LatchOf(p)'
    PROVE  OwnerInv' /\ LockInv' /\ LatchInv'
<1>1. ASSUME NEW q \in Pids \ {p}
      PROVE  \A u \in ThreadsOf(q) : call'[u] = call[u] /\ depth'[u] = depth[u]
  BY DEF ThreadsOf
<1>2. ASSUME NEW q \in Pids \ {p}
      PROVE  OwnsOf(q)'
  <2>1. OwnsOf(q)
    BY DEF IndInv, OwnerInv, OwnsOf
  <2> QED
    BY <1>1, <2>1 DEF OwnsOf
<1>3. ASSUME NEW q \in Pids \ {p}
      PROVE  LocksOf(q)'
  <2>1. LocksOf(q)
    BY DEF IndInv, LockInv, LocksOf
  <2> QED
    BY <1>1, <2>1 DEF LocksOf
<1>4. ASSUME NEW q \in Pids \ {p}
      PROVE  LatchOf(q)'
  <2>1. LatchOf(q)
    BY DEF IndInv, LatchInv, LatchOf
  <2> QED
    BY <1>1, <2>1 DEF LatchOf
<1>5. \A q \in Pids : OwnsOf(q)' /\ LocksOf(q)' /\ LatchOf(q)'
  BY <1>2, <1>3, <1>4
<1>6. OwnerInv'
  BY <1>5 DEF OwnerInv, OwnsOf
<1>7. LockInv'
  BY <1>5 DEF LockInv, LocksOf
<1>8. LatchInv'
  BY <1>5 DEF LatchInv, LatchOf
<1> QED
  BY <1>6, <1>7, <1>8

\* A forked child wipes what it inherited: it holds nothing, and no other thread
\* of it is in a call or holds a lock.
LEMMA ForkResetStep ==
    ASSUME IndInv, NEW th \in Thread, ForkReset(th)
    PROVE  IndInv'
<1> DEFINE p == th[1]
<1>1. TypeOK /\ p \in Pids /\ th \in ThreadsOf(p) /\ p # 0 /\ call[th].pc = "wipe"
  BY Bounds DEF IndInv, ThreadsOf, ForkReset, At
<1>2. /\ owner[p] \notin {0, p} /\ status[p] = "up" /\ DOMAIN mem[p] = {}
      /\ call[th].op = "release" => call[th].bytes = 0
      /\ \A u \in ThreadsOf(p) \ {th} : call[u].pc = "idle" /\ depth[u] = 0
  <2>1. owner[p] \notin {0, p}
    BY <1>1 DEF IndInv, OwnerInv
  <2>2. status[p] = "up"
    BY <1>1, <2>1 DEF IndInv, OwnerInv
  <2>3. /\ DOMAIN mem[p] = {}
        /\ call[th].op = "release" => call[th].bytes = 0
        /\ \A u, x \in ThreadsOf(p) :
              (call[u].pc # "idle" \/ depth[u] # 0) /\ (call[x].pc # "idle" \/ depth[x] # 0)
              => u = x
    BY <1>1, <2>1 DEF IndInv, OwnerInv
  <2>4. \A u \in ThreadsOf(p) \ {th} : call[u].pc = "idle" /\ depth[u] = 0
    BY <1>1, <2>3
  <2> QED
    BY <2>1, <2>2, <2>3, <2>4
<1>3. /\ UNCHANGED <<env, status, born, used, charge, flock, mem, inherited, stuck>>
      /\ Goto(th, AfterReset(call[th].op))
  BY DEF ForkReset, region, runtime
<1>4. /\ latch' \in [Pids -> {"untried", "opening", "usable", "unusable"}]
      /\ \A q \in Pids \ {p} : latch'[q] = latch[q]
      /\ spin' \in [Pids -> BOOLEAN] /\ \A q \in Pids \ {p} : spin'[q] = spin[q]
      /\ owner' \in [Pids -> Pids \cup {0}]
      /\ owner'[p] = p /\ \A q \in Pids \ {p} : owner'[q] = owner[q]
      /\ depth' \in [Thread -> 0..2]
      /\ depth'[th] = 0 /\ \A u \in Thread \ {th} : depth'[u] = depth[u]
  <2>1. latch' \in [Pids -> {"untried", "opening", "usable", "unusable"}]
        /\ \A q \in Pids \ {p} : latch'[q] = latch[q]
    BY <1>1 DEF ForkReset, TypeOK
  <2>2. spin' \in [Pids -> BOOLEAN] /\ \A q \in Pids \ {p} : spin'[q] = spin[q]
    BY <1>1 DEF ForkReset, TypeOK
  <2>3. /\ owner' \in [Pids -> Pids \cup {0}]
        /\ owner'[p] = p /\ \A q \in Pids \ {p} : owner'[q] = owner[q]
    BY <1>1 DEF ForkReset, TypeOK
  <2>4. /\ depth' \in [Thread -> 0..2]
        /\ depth'[th] = 0 /\ \A u \in Thread \ {th} : depth'[u] = depth[u]
    BY <1>1 DEF ForkReset, TypeOK
  <2> QED
    BY <2>1, <2>2, <2>3, <2>4
<1>5. /\ keys' \in [Pids -> [Slots -> [state : {"free", "reserved", "live"},
                                       key : Keys \cup {0}, bytes : Nat]]]
      /\ \A q \in Pids \ {p} : keys'[q] = keys[q]
      /\ \A i \in Slots : keys'[p][i].state = "free"
  <2>1. NoKeys \in [Slots -> [state : {"free", "reserved", "live"},
                             key : Keys \cup {0}, bytes : Nat]]
    BY SlotTypes DEF NoKeys
  <2>2. \A i \in Slots : NoKeys[i].state = "free"
    BY DEF NoKeys, FreeSlot
  <2> QED
    BY <1>1, <2>1, <2>2 DEF ForkReset, TypeOK
<1>6. /\ call' \in [Thread -> Calls]
      /\ \A u \in Thread \ {th} : call'[u] = call[u]
      /\ call'[th].pc = AfterReset(call[th].op)
      /\ call'[th].op = call[th].op /\ call'[th].bytes = call[th].bytes
      /\ call'[th].slot = call[th].slot /\ call'[th].key = call[th].key
  BY <1>1, <1>3, Goes DEF PCs, AfterReset
<1>7. call[th].op \in {"admit", "release"}
  BY <1>1 DEF IndInv, CallInv, TypeOK, Calls
<1>8. /\ call'[th].pc \in {"open", "take"}
      /\ call'[th].pc = "take" <=> call[th].op = "release"
  BY <1>6, <1>7 DEF AfterReset
<1>9. \A u \in ThreadsOf(p) : u # th => /\ call'[u] = call[u] /\ call'[u].pc = "idle"
                                        /\ call'[u].op = "none" /\ depth'[u] = 0
  BY <1>2, <1>4, <1>6, ThreadsFinite DEF IndInv, CallInv
<1>10. TypeOK'
  BY <1>1, <1>3, <1>4, <1>5, <1>6 DEF TypeOK
<1>11. CallInv'
  BY <1>6, <1>7, <1>8 DEF IndInv, CallInv
<1>12. \A q \in Pids \ {p} : \A u \in ThreadsOf(q) : call'[u] = call[u] /\ depth'[u] = depth[u]
  BY <1>4, <1>6 DEF ThreadsOf
<1>13. OwnsOf(p)'
  <2>1. status'[p] = "up" /\ owner'[p] = p /\ \A u \in ThreadsOf(p) : call'[u].pc # "wipe"
    BY <1>2, <1>3, <1>4, <1>8, <1>9
  <2> QED
    BY <1>1, <2>1 DEF OwnsOf
<1>14. LocksOf(p)'
  <2>1. \A u \in ThreadsOf(p) : /\ call'[u].pc \notin Locking /\ call'[u].pc \notin Spinning
                                /\ call'[u].pc # "create" /\ depth'[u] = 0
    BY <1>4, <1>8, <1>9 DEF Locking, Spinning
  <2> QED
    BY <2>1 DEF LocksOf
<1>15. OwnerInv' /\ LockInv' /\ LatchInv'
  <2>1. \A u \in ThreadsOf(p) : /\ call'[u].pc \in {"idle", "take", "open", "create"}
                                /\ call'[u].op = "release" => call'[u].bytes = 0
    BY <1>2, <1>6, <1>8, <1>9
  <2>2. LatchOf(p)'
    BY <1>2, <1>3, <1>5, <2>1 DEF LatchOf
  <2>3. \A u \in Thread \ ThreadsOf(p) : call'[u] = call[u] /\ depth'[u] = depth[u]
    BY <1>1, <1>4, <1>6
  <2>4. \A q \in Pids \ {p} : /\ status'[q] = status[q] /\ owner'[q] = owner[q]
                              /\ latch'[q] = latch[q] /\ keys'[q] = keys[q] /\ mem'[q] = mem[q]
    BY <1>3, <1>4, <1>5
  <2>5. \A q \in Pids \ {p} : spin'[q] = spin[q]
    BY <1>4
  <2>6. flock' = flock \/ flock = p
    BY <1>3
  <2> HIDE DEF p
  <2> QED
    BY <1>1, <1>13, <1>14, <2>2, <2>3, <2>4, <2>5, <2>6, OthersKept
<1>16. SlotInv' /\ FreeInv' /\ KeyInv'
  <2>1. \A u \in ThreadsOf(p) : /\ ~Reserving(u)' /\ ~Charging(u)'
                                /\ Freeing(u)' => u = th /\ Freeing(th)
    BY <1>1, <1>6, <1>8, <1>9 DEF Reserving, Charging, Freeing
  <2>2. FreeOf(p)'
    BY <1>1, <1>3, <1>6, <2>1 DEF IndInv, FreeInv, FreeOf
  <2>3. SlotOf(p)' /\ LiveOf(p)' /\ HeldOf(p)'
    BY <1>2, <1>3, <1>5, <2>1 DEF SlotOf, LiveOf, HeldOf
  <2>4. FreedOf(p)'
    BY <1>2, <1>6, <2>1 DEF FreedOf, Freeing
  <2>5. \A u \in Thread \ ThreadsOf(p) : call'[u] = call[u]
    BY <1>1, <1>6
  <2> QED
    BY <1>1, <1>3, <1>4, <1>5, <2>2, <2>3, <2>4, <2>5, MapKept
<1>17. TableInv'
  BY <1>3, <1>6, <1>8 DEF IndInv, TableInv, At, Figure, Get
<1>18. ChargesExact' /\ UsedInv' /\ HeldWithinFigure'
  <2>1. /\ OfUncharged[call'[th]] = OfUncharged[call[th]]
        /\ OfUncounted[call'[th]] = OfUncounted[call[th]]
        /\ OfDue[call'[th]] = OfDue[call[th]]
        /\ OfUnrefunded[call'[th]] = OfUnrefunded[call[th]]
    BY <1>1, <1>6, <1>8 DEF OfUncharged, OfUncounted, OfDue, OfUnrefunded, TypeOK
  <2>2. Structure'
    BY <1>10, <1>15, <1>16 DEF Structure
  <2> QED
    BY <1>3, <1>6, <2>1, <2>2, QuietBooks
<1>19. Tame'
  BY <1>3 DEF IndInv, Tame
<1> QED
  BY <1>10, <1>11, <1>15, <1>16, <1>17, <1>18, <1>19 DEF IndInv

-----------------------------------------------------------------------------
(* Processes begin and end.                                                 *)

\* The process holds nothing and is in no call.
Bare(p) == /\ DOMAIN mem[p] = {}
           /\ \A th \in ThreadsOf(p) : call[th].pc = "idle" /\ call[th].op = "none"
Zeroes(p) == /\ Held(p) = 0 /\ Due(p) = 0 /\ Unrefunded(p) = 0
             /\ Uncounted(p) = 0 /\ Uncharged(p) = 0

LEMMA BareZeroes == TypeOK => \A p \in Pids : Bare(p) => Zeroes(p)
<1> SUFFICES ASSUME TypeOK, NEW p \in Pids, Bare(p)
             PROVE  Zeroes(p)
  OBVIOUS
<1>1. call \in [Thread -> Calls]
  BY DEF TypeOK
<1>2. /\ \A th \in ThreadsOf(p) : OfDue[call[th]] = 0
      /\ \A th \in ThreadsOf(p) : OfUnrefunded[call[th]] = 0
      /\ \A th \in ThreadsOf(p) : OfUncounted[call[th]] = 0
      /\ \A th \in ThreadsOf(p) : OfUncharged[call[th]] = 0
  BY <1>1, ThreadsFinite DEF Bare, OfDue, OfUnrefunded, OfUncounted, OfUncharged
<1>3. Due(p) = 0 /\ Unrefunded(p) = 0 /\ Uncounted(p) = 0 /\ Uncharged(p) = 0
  <2>1. /\ OfDue \in Weights /\ OfUnrefunded \in Weights
        /\ OfUncounted \in Weights /\ OfUncharged \in Weights
    BY DEF Weights
  <2> QED
    BY <1>1, <1>2, <2>1, Figures, AcrossZero
<1>4. Held(p) = 0
  BY Totals, SumEmpty DEF Bare, Held
<1> QED
  BY <1>3, <1>4 DEF Zeroes

LEMMA BareZeroesNext == TypeOK' => (\A p \in Pids : Bare(p) => Zeroes(p))'
BY BareZeroes, PTL

\* A process that comes to be bare: its charge is stuck, and nothing is held.
LEMMA ProcessBooks ==
    ASSUME IndInv, Structure', NEW p \in Pids, UNCHANGED <<env, used, charge>>,
           \A q \in Pids \ {p} : status'[q] = status[q] /\ mem'[q] = mem[q] /\ stuck'[q] = stuck[q],
           \A u \in Thread \ ThreadsOf(p) : call'[u] = call[u],
           Bare(p)', status'[p] = "up" => stuck'[p] = Get(charge, p)
    PROVE  ChargesExact' /\ UsedInv' /\ HeldWithinFigure'
<1>1. /\ TypeOK /\ TypeOK' /\ Structure /\ ChargesExact /\ UsedInv /\ HeldWithinFigure
      /\ call \in [Thread -> Calls] /\ call' \in [Thread -> Calls]
  BY DEF IndInv, Structure, TypeOK
<1>2. Zeroes(p)'
  BY <1>1, BareZeroesNext
<1>3. ASSUME NEW q \in Pids \ {p}
      PROVE  /\ Uncharged(q)' = Uncharged(q) /\ Uncounted(q)' = Uncounted(q)
             /\ Due(q)' = Due(q) /\ Unrefunded(q)' = Unrefunded(q) /\ Held(q)' = Held(q)
  <2>1. \A th \in ThreadsOf(q) : call'[th] = call[th]
    BY DEF ThreadsOf
  <2>2. \A w \in Weights : Across(w, call', q) = Across(w, call, q)
    BY <1>1, <2>1, AcrossSame
  <2>3. /\ OfDue \in Weights /\ OfUnrefunded \in Weights
        /\ OfUncounted \in Weights /\ OfUncharged \in Weights
    BY DEF Weights
  <2>4. Held(q)' = Held(q)
    BY DEF Held
  <2> QED
    BY <1>1, <2>2, <2>3, <2>4, Figures, FiguresNext
<1>4. \A q \in Pids : Get(charge, q)' = Get(charge, q)
  BY DEF Get
<1>5. ChargesExact'
  <2> SUFFICES ASSUME NEW q \in Pids, status'[q] = "up"
               PROVE  Get(charge, q)' + Uncharged(q)' = Held(q)' + Due(q)' + stuck'[q]
    BY DEF ChargesExact
  <2>1. CASE q = p
    <3>1. Uncharged(p)' = 0 /\ Held(p)' = 0 /\ Due(p)' = 0
      BY <1>2 DEF Zeroes
    <3>2. Get(charge, p)' = stuck'[p] /\ stuck'[p] \in Nat
      BY <1>1, <1>4, <2>1 DEF TypeOK
    <3> QED
      BY <2>1, <3>1, <3>2
  <2>2. CASE q # p
    BY <1>1, <1>3, <1>4, <2>2 DEF ChargesExact
  <2> QED
    BY <2>1, <2>2
<1>6. UsedInv'
  <2>1. \A q \in Pids \ {p} : Lent(q)' = Lent(q)
    BY <1>3 DEF Lent
  <2>2. Lent(p)' = 0
    BY <1>2 DEF Lent, Zeroes
  <2>3. Lent(p) \in Nat /\ used \in Nat /\ used' = used
    BY <1>1, LentNat DEF Structure, Lends, TypeOK
  <2>4. /\ Total([q \in Pids |-> Lent(q)']) + Lent(p) = Total([q \in Pids |-> Lent(q)]) + Lent(p)'
        /\ Total([q \in Pids |-> Lent(q)']) \in Nat /\ Total([q \in Pids |-> Lent(q)]) \in Nat
    BY <1>1, <2>1, OneLends
  <2>5. Total([q \in Pids |-> Lent(q)]) <= used
    BY <1>1 DEF UsedInv
  <2>6. Total([q \in Pids |-> Lent(q)']) <= used'
    BY <2>2, <2>3, <2>4, <2>5
  <2> QED
    BY <2>6 DEF UsedInv
<1>7. HeldWithinFigure'
  <2>1. \A q \in Pids : Held(q)' <= Held(q)
    BY <1>1, <1>2, <1>3, NumbersOK DEF Numbers, Zeroes
  <2> QED
    BY <1>1, <2>1, HeldMoves
<1> QED
  BY <1>5, <1>6, <1>7

\* A process begins or ends, and none of its threads is in a call.
LEMMA ProcessStep ==
    ASSUME IndInv, TypeOK', CallInv', NEW p \in Pids, UNCHANGED <<env, used, charge>>,
           \A q \in Pids \ {p} : /\ status'[q] = status[q] /\ owner'[q] = owner[q]
                                 /\ latch'[q] = latch[q] /\ keys'[q] = keys[q]
                                 /\ mem'[q] = mem[q] /\ inherited'[q] = inherited[q]
                                 /\ stuck'[q] = stuck[q],
           \A q \in Pids \ {p} : spin'[q] = spin[q],
           \A u \in Thread \ ThreadsOf(p) : call'[u] = call[u] /\ depth'[u] = depth[u],
           flock' = flock \/ flock = p,
           owner'[p] # p, OwnsOf(p)', Bare(p)',
           status'[p] # "none" => stuck'[p] = Get(charge, p)
    PROVE  IndInv'
<1>1. OwnerInv' /\ LockInv' /\ LatchInv'
  <2>1. LocksOf(p)' /\ LatchOf(p)'
    BY DEF LocksOf, LatchOf
  <2>2. \A q \in Pids \ {p} : /\ status'[q] = status[q] /\ owner'[q] = owner[q]
                              /\ latch'[q] = latch[q] /\ keys'[q] = keys[q] /\ mem'[q] = mem[q]
    OBVIOUS
  <2> QED
    BY <2>1, <2>2, OthersKept
<1>2. SlotInv' /\ FreeInv' /\ KeyInv'
  <2>1. FreeOf(p)'
    BY DEF FreeOf, Bare, Freeing
  <2>2. \A q \in Pids \ {p} : /\ owner'[q] = owner[q] /\ keys'[q] = keys[q]
                              /\ mem'[q] = mem[q] /\ inherited'[q] = inherited[q]
    OBVIOUS
  <2>3. \A u \in Thread \ ThreadsOf(p) : call'[u] = call[u]
    OBVIOUS
  <2> QED
    BY <2>1, <2>2, <2>3, MapKept
<1>3. TableInv'
  <2>1. \A th \in Thread : /\ call'[th].pc \in {"alloc", "count", "commit"} => th[1] \in DOMAIN charge'
                           /\ At(th, "alloc")' => used' + call'[th].bytes <= Figure'
    <3> SUFFICES ASSUME NEW th \in Thread
                 PROVE  /\ call'[th].pc \in {"alloc", "count", "commit"} => th[1] \in DOMAIN charge'
                        /\ call'[th].pc = "alloc" => used' + call'[th].bytes <= Figure'
      BY DEF At
    <3>1. CASE th \in ThreadsOf(p)
      BY <3>1 DEF Bare
    <3>2. CASE th \notin ThreadsOf(p)
      <4>1. call'[th] = call[th] /\ Figure' = Figure /\ used' = used /\ charge' = charge
        BY <3>2 DEF Figure
      <4> QED
        BY <4>1 DEF IndInv, TableInv, At
    <3> QED
      BY <3>1, <3>2
  <2>2. \A q \in Pids : status'[q] = "zombie" => stuck'[q] = Get(charge, q)'
    <3>1. \A q \in Pids : Get(charge, q)' = Get(charge, q)
      BY DEF Get
    <3>2. \A q \in Pids : status[q] = "zombie" => stuck[q] = Get(charge, q)
      BY DEF IndInv, TableInv
    <3> QED
      BY <3>1, <3>2
  <2> QED
    BY <2>1, <2>2 DEF TableInv
<1>4. ChargesExact' /\ UsedInv' /\ HeldWithinFigure'
  <2>1. Structure'
    BY <1>1, <1>2 DEF Structure
  <2>2. \A q \in Pids \ {p} : status'[q] = status[q] /\ mem'[q] = mem[q] /\ stuck'[q] = stuck[q]
    OBVIOUS
  <2>3. \A u \in Thread \ ThreadsOf(p) : call'[u] = call[u]
    OBVIOUS
  <2>4. status'[p] = "up" => stuck'[p] = Get(charge, p)
    OBVIOUS
  <2> QED
    BY <2>1, <2>2, <2>3, <2>4, ProcessBooks
<1>5. Tame'
  BY DEF IndInv, Tame
<1> QED
  BY <1>1, <1>2, <1>3, <1>4, <1>5 DEF IndInv

\* A process that does not run is bare.
LEMMA GoneIsBare ==
    ASSUME IndInv, NEW p \in Pids, status[p] # "up"
    PROVE  /\ Bare(p) /\ owner[p] = 0 /\ keys[p] = NoKeys /\ ~spin[p] /\ DOMAIN mem[p] = {}
           /\ \A th \in ThreadsOf(p) : call[th] = NoCall /\ depth[th] = 0
           /\ OwnsOf(p)
<1>1. owner[p] = 0
  BY DEF IndInv, OwnerInv
<1>2. /\ keys[p] = NoKeys /\ ~spin[p] /\ DOMAIN mem[p] = {}
      /\ \A th \in ThreadsOf(p) : call[th].pc = "idle" /\ depth[th] = 0
  BY <1>1 DEF IndInv, OwnerInv
<1>3. \A th \in ThreadsOf(p) : call[th].op = "none" /\ call[th] = NoCall
  BY <1>2, ThreadsFinite DEF IndInv, CallInv
<1>4. OwnsOf(p)
  BY DEF IndInv, OwnerInv, OwnsOf
<1> QED
  BY <1>1, <1>2, <1>3, <1>4 DEF Bare

\* A program is executed: whatever is charged to its pid is a former owner's.
LEMMA StartStep ==
    ASSUME IndInv, NEW p \in Pids, Start(p)
    PROVE  IndInv'
<1>1. /\ TypeOK /\ CallInv /\ Pids \subseteq Nat \ {0} /\ status[p] = "none"
      /\ env.born \in 0..MaxBorn /\ MaxBorn \in Nat
  BY Bounds DEF IndInv, Start
<1>2. UNCHANGED <<env, used, charge, flock, owner, latch, spin, keys, depth, call, mem, inherited>>
  BY DEF Start, region, private, runtime
<1>3. /\ status' \in [Pids -> {"none", "up", "zombie"}] /\ status'[p] = "up"
      /\ \A q \in Pids \ {p} : status'[q] = status[q]
  BY <1>1 DEF Start, TypeOK
<1>4. stuck' \in [Pids -> Nat] /\ stuck'[p] = Get(charge, p) /\ \A q \in Pids \ {p} : stuck'[q] = stuck[q]
  <2>1. Get(charge, p) \in Nat /\ stuck \in [Pids -> Nat]
    BY <1>1, NumbersOK DEF Numbers, TypeOK
  <2> QED
    BY <2>1 DEF Start
<1>5. born' \in 0..MaxBorn
  BY <1>1 DEF Start, TypeOK
<1>6. TypeOK'
  BY <1>1, <1>2, <1>3, <1>4, <1>5 DEF TypeOK
<1>7. CallInv'
  BY <1>1, <1>2 DEF CallInv
<1>8. /\ Bare(p) /\ owner[p] = 0 /\ keys[p] = NoKeys /\ ~spin[p] /\ DOMAIN mem[p] = {}
      /\ \A th \in ThreadsOf(p) : call[th] = NoCall /\ depth[th] = 0
  BY <1>1, GoneIsBare
<1>9. Bare(p)'
  BY <1>2, <1>8 DEF Bare
<1>10. owner'[p] # p
  BY <1>1, <1>2, <1>8
<1>11. OwnsOf(p)'
  <2>1. \A th \in ThreadsOf(p) : call'[th].pc = "idle" /\ depth'[th] = 0
    BY <1>2, <1>8, <1>9 DEF Bare
  <2> QED
    BY <1>1, <1>2, <1>3, <1>8, <2>1 DEF OwnsOf
<1>12. /\ \A q \in Pids \ {p} : /\ status'[q] = status[q] /\ owner'[q] = owner[q]
                                /\ latch'[q] = latch[q] /\ keys'[q] = keys[q]
                                /\ mem'[q] = mem[q] /\ inherited'[q] = inherited[q]
                                /\ stuck'[q] = stuck[q]
       /\ \A u \in Thread \ ThreadsOf(p) : call'[u] = call[u] /\ depth'[u] = depth[u]
  BY <1>2, <1>3, <1>4
<1>13. \A q \in Pids \ {p} : spin'[q] = spin[q]
  BY <1>2
<1>14. status'[p] # "none" => stuck'[p] = Get(charge, p)
  BY <1>4
<1> QED
  BY <1>2, <1>6, <1>7, <1>9, <1>10, <1>11, <1>12, <1>13, <1>14, ProcessStep

\* A zombie is waited for.
LEMMA ReapStep ==
    ASSUME IndInv, NEW p \in Pids, Reap(p)
    PROVE  IndInv'
<1>1. TypeOK /\ CallInv /\ Pids \subseteq Nat \ {0} /\ status[p] = "zombie"
  BY Bounds DEF IndInv, Reap
<1>2. UNCHANGED <<env, born, used, charge, flock, owner, latch, spin, keys, depth, call, mem, inherited>>
  BY DEF Reap, region, private, runtime
<1>3. /\ status' \in [Pids -> {"none", "up", "zombie"}] /\ status'[p] = "none"
      /\ \A q \in Pids \ {p} : status'[q] = status[q]
  BY <1>1 DEF Reap, TypeOK
<1>4. stuck' \in [Pids -> Nat] /\ \A q \in Pids \ {p} : stuck'[q] = stuck[q]
  BY <1>1 DEF Reap, TypeOK
<1>5. TypeOK'
  BY <1>1, <1>2, <1>3, <1>4 DEF TypeOK
<1>6. CallInv'
  BY <1>1, <1>2 DEF CallInv
<1>7. /\ Bare(p) /\ owner[p] = 0 /\ keys[p] = NoKeys /\ ~spin[p] /\ DOMAIN mem[p] = {}
      /\ \A th \in ThreadsOf(p) : call[th] = NoCall /\ depth[th] = 0
  BY <1>1, GoneIsBare
<1>8. Bare(p)'
  BY <1>2, <1>7 DEF Bare
<1>9. owner'[p] # p
  BY <1>1, <1>2, <1>7
<1>10. OwnsOf(p)'
  <2>1. \A th \in ThreadsOf(p) : call'[th].pc = "idle" /\ depth'[th] = 0
    BY <1>2, <1>7, <1>8 DEF Bare
  <2> QED
    BY <1>1, <1>2, <1>3, <1>7, <2>1 DEF OwnsOf
<1>11. /\ \A q \in Pids \ {p} : /\ status'[q] = status[q] /\ owner'[q] = owner[q]
                                /\ latch'[q] = latch[q] /\ keys'[q] = keys[q]
                                /\ mem'[q] = mem[q] /\ inherited'[q] = inherited[q]
                                /\ stuck'[q] = stuck[q]
       /\ \A u \in Thread \ ThreadsOf(p) : call'[u] = call[u] /\ depth'[u] = depth[u]
  BY <1>2, <1>3, <1>4
<1>12. \A q \in Pids \ {p} : spin'[q] = spin[q]
  BY <1>2
<1>13. status'[p] # "none" => stuck'[p] = Get(charge, p)
  BY <1>3
<1> QED
  BY <1>2, <1>5, <1>6, <1>8, <1>9, <1>10, <1>11, <1>12, <1>13, ProcessStep

\* A process is killed at whatever step it is: its calls are over and the locks
\* it had are free.
LEMMA KillStep ==
    ASSUME IndInv, NEW p \in Pids, Kill(p)
    PROVE  IndInv'
<1>1. TypeOK /\ CallInv /\ Pids \subseteq Nat \ {0} /\ status[p] = "up"
  BY Bounds DEF IndInv, Kill
<1>2. UNCHANGED <<env, born, used, charge>>
  BY DEF Kill
<1>3. /\ status' \in [Pids -> {"none", "up", "zombie"}] /\ status'[p] = "zombie"
      /\ \A q \in Pids \ {p} : status'[q] = status[q]
      /\ owner' \in [Pids -> Pids \cup {0}] /\ owner'[p] = 0
      /\ \A q \in Pids \ {p} : owner'[q] = owner[q]
      /\ latch' \in [Pids -> {"untried", "opening", "usable", "unusable"}]
      /\ \A q \in Pids \ {p} : latch'[q] = latch[q]
      /\ inherited' \in [Pids -> SUBSET Keys]
      /\ \A q \in Pids \ {p} : inherited'[q] = inherited[q]
      /\ flock' \in Pids \cup {0} /\ (flock' = flock \/ flock = p)
  BY <1>1 DEF Kill, TypeOK
<1>4. stuck' \in [Pids -> Nat] /\ stuck'[p] = Get(charge, p) /\ \A q \in Pids \ {p} : stuck'[q] = stuck[q]
  <2>1. Get(charge, p) \in Nat /\ stuck \in [Pids -> Nat]
    BY <1>1, NumbersOK DEF Numbers, TypeOK
  <2> QED
    BY <2>1 DEF Kill
<1>5. spin' \in [Pids -> BOOLEAN] /\ ~spin'[p] /\ \A q \in Pids \ {p} : spin'[q] = spin[q]
  BY <1>1 DEF Kill, TypeOK
<1>6. /\ keys' \in [Pids -> [Slots -> [state : {"free", "reserved", "live"},
                                       key : Keys \cup {0}, bytes : Nat]]]
      /\ keys'[p] = NoKeys /\ \A q \in Pids \ {p} : keys'[q] = keys[q]
  <2>1. NoKeys \in [Slots -> [state : {"free", "reserved", "live"},
                             key : Keys \cup {0}, bytes : Nat]]
    BY SlotTypes DEF NoKeys
  <2> QED
    BY <1>1, <2>1 DEF Kill, TypeOK
<1>7. /\ depth' \in [Thread -> 0..2] /\ \A u \in ThreadsOf(p) : depth'[u] = 0
      /\ \A u \in Thread \ ThreadsOf(p) : depth'[u] = depth[u]
  BY <1>1 DEF Kill, TypeOK, ThreadsOf
<1>8. /\ call' \in [Thread -> Calls]
      /\ \A u \in ThreadsOf(p) : call'[u] = NoCall
      /\ \A u \in Thread \ ThreadsOf(p) : call'[u] = call[u]
  <2>1. NoCall \in Calls
    BY ShimAssumption DEF NoCall, Calls, PCs
  <2> QED
    BY <1>1, <2>1 DEF Kill, TypeOK, ThreadsOf
<1>9. /\ DOMAIN mem' = Pids /\ DOMAIN mem'[p] = {} /\ \A q \in Pids \ {p} : mem'[q] = mem[q]
  BY <1>1 DEF Kill, TypeOK, Nothing
<1>10. TypeOK'
  <2>1. \A q \in Pids : /\ DOMAIN mem'[q] \subseteq Keys
                        /\ \A k \in DOMAIN mem'[q] : mem'[q][k] \in Nat
    BY <1>1, <1>9 DEF TypeOK
  <2> QED
    BY <1>1, <1>2, <1>3, <1>4, <1>5, <1>6, <1>7, <1>8, <1>9, <2>1 DEF TypeOK
<1>11. CallInv'
  <2>1. /\ NoCall.pc = "idle" /\ NoCall.op = "none"
    BY DEF NoCall
  <2> SUFFICES ASSUME NEW th \in Thread
               PROVE  LET c == call'[th] IN
                      /\ c.pc = "idle" <=> c.op = "none"
                      /\ c.pc = "idle" => c = NoCall
                      /\ c.pc \in {"reserve", "decide", "alloc", "count", "commit"} => c.op = "admit"
                      /\ c.pc \in {"take", "refund", "uncharge"} => c.op = "release"
                      /\ c.pc = "giveback" => c.op # "release"
                      /\ c.op = "refused" => c.pc \in {"funlock", "sunlock", "giveback"}
    BY DEF CallInv
  <2>2. CASE th \in ThreadsOf(p)
    BY <1>8, <2>1, <2>2
  <2>3. CASE th \notin ThreadsOf(p)
    <3>1. call'[th] = call[th]
      BY <1>8, <2>3
    <3> QED
      BY <1>1, <3>1 DEF CallInv
  <2> QED
    BY <2>2, <2>3
<1>12. Bare(p)'
  BY <1>8, <1>9 DEF Bare, NoCall
<1>13. owner'[p] # p
  BY <1>1, <1>3
<1>14. OwnsOf(p)'
  <2>1. \A th \in ThreadsOf(p) : call'[th].pc = "idle" /\ depth'[th] = 0
    BY <1>7, <1>12 DEF Bare
  <2> QED
    BY <1>1, <1>3, <1>5, <1>6, <1>9, <2>1 DEF OwnsOf
<1>15. /\ \A q \in Pids \ {p} : /\ status'[q] = status[q] /\ owner'[q] = owner[q]
                                /\ latch'[q] = latch[q] /\ keys'[q] = keys[q]
                                /\ mem'[q] = mem[q] /\ inherited'[q] = inherited[q]
                                /\ stuck'[q] = stuck[q]
       /\ \A u \in Thread \ ThreadsOf(p) : call'[u] = call[u] /\ depth'[u] = depth[u]
       /\ flock' = flock \/ flock = p
  BY <1>3, <1>4, <1>6, <1>7, <1>8, <1>9
<1>16. \A q \in Pids \ {p} : spin'[q] = spin[q]
  BY <1>5
<1>17. status'[p] # "none" => stuck'[p] = Get(charge, p)
  BY <1>4
<1> QED
  BY <1>2, <1>10, <1>11, <1>12, <1>13, <1>14, <1>15, <1>16, <1>17, ProcessStep

\* A process forks: the child has a copy, and one thread that may believe that
\* it holds the card.
LEMMA ForkStep ==
    ASSUME IndInv, NEW th \in Thread, NEW c \in Pids, Fork(th, c)
    PROVE  IndInv'
<1> DEFINE p == th[1]
           t == <<c, th[2]>>
<1>1. /\ TypeOK /\ CallInv /\ Pids \subseteq Nat \ {0} /\ p \in Pids /\ th \in ThreadsOf(p)
      /\ status[p] = "up" /\ status[c] = "none" /\ owner[p] # c
      /\ env.born \in 0..MaxBorn /\ MaxBorn \in Nat
  BY Bounds DEF IndInv, Fork, ThreadsOf
<1>2. t \in Thread /\ t \in ThreadsOf(c)
  BY <1>1, Bounds DEF Fork, ThreadsOf
<1>3. UNCHANGED <<env, used, charge, flock, call, mem>>
  BY DEF Fork, region
<1>4. /\ status' \in [Pids -> {"none", "up", "zombie"}] /\ status'[c] = "up"
      /\ \A q \in Pids \ {c} : status'[q] = status[q]
  BY <1>1 DEF Fork, TypeOK
<1>5. /\ owner' \in [Pids -> Pids \cup {0}] /\ owner'[c] = owner[p]
      /\ \A q \in Pids \ {c} : owner'[q] = owner[q]
  BY <1>1 DEF Fork, TypeOK
<1>6. /\ latch' \in [Pids -> {"untried", "opening", "usable", "unusable"}]
      /\ \A q \in Pids \ {c} : latch'[q] = latch[q]
  BY <1>1 DEF Fork, TypeOK
<1>7. /\ spin' \in [Pids -> BOOLEAN] /\ spin'[c] = spin[p]
      /\ \A q \in Pids \ {c} : spin'[q] = spin[q]
  BY <1>1 DEF Fork, TypeOK
<1>8. /\ keys' \in [Pids -> [Slots -> [state : {"free", "reserved", "live"},
                                       key : Keys \cup {0}, bytes : Nat]]]
      /\ keys'[c] = keys[p] /\ \A q \in Pids \ {c} : keys'[q] = keys[q]
  BY <1>1 DEF Fork, TypeOK
<1>9. /\ depth' \in [Thread -> 0..2] /\ depth'[t] = depth[th]
      /\ \A u \in Thread \ {t} : depth'[u] = depth[u]
  BY <1>1, <1>2 DEF Fork, TypeOK
<1>10. /\ inherited' \in [Pids -> SUBSET Keys]
       /\ \A q \in Pids \ {c} : inherited'[q] = inherited[q]
  <2>1. inherited[p] \cup Given(p) \in SUBSET Keys
    BY <1>1 DEF TypeOK, Given
  <2>2. inherited \in [Pids -> SUBSET Keys]
    BY <1>1 DEF TypeOK
  <2>3. inherited' = [inherited EXCEPT ![c] = inherited[p] \cup Given(p)]
    BY DEF Fork
  <2> QED
    BY <2>1, <2>2, <2>3
<1>11. stuck' \in [Pids -> Nat] /\ stuck'[c] = Get(charge, c) /\ \A q \in Pids \ {c} : stuck'[q] = stuck[q]
  <2>1. Get(charge, c) \in Nat /\ stuck \in [Pids -> Nat]
    BY <1>1, NumbersOK DEF Numbers, TypeOK
  <2> QED
    BY <2>1 DEF Fork
<1>12. born' \in 0..MaxBorn
  BY <1>1 DEF Fork, TypeOK
<1>13. TypeOK'
  BY <1>1, <1>3, <1>4, <1>5, <1>6, <1>7, <1>8, <1>9, <1>10, <1>11, <1>12 DEF TypeOK
<1>14. CallInv'
  BY <1>1, <1>3 DEF CallInv
<1>15. /\ Bare(c) /\ DOMAIN mem[c] = {}
       /\ \A u \in ThreadsOf(c) : call[u] = NoCall /\ depth[u] = 0
  BY <1>1, GoneIsBare
<1>16. Bare(c)'
  BY <1>3, <1>15 DEF Bare
<1>17. owner'[c] # c
  BY <1>1, <1>5
<1>18. OwnsOf(c)'
  <2>1. /\ \A u \in ThreadsOf(c) : call'[u].pc = "idle" /\ call'[u].op = "none"
        /\ \A u \in ThreadsOf(c) \ {t} : depth'[u] = 0
        /\ DOMAIN mem'[c] = {}
    BY <1>3, <1>9, <1>15, <1>16, ThreadsFinite DEF Bare
  <2>2. owner[p] = 0 => keys[p] = NoKeys /\ ~spin[p] /\ depth[th] = 0
    BY <1>1 DEF IndInv, OwnerInv
  <2>3. owner'[c] = 0 => /\ keys'[c] = NoKeys /\ ~spin'[c]
                         /\ \A u \in ThreadsOf(c) : depth'[u] = 0
    BY <1>5, <1>7, <1>8, <1>9, <2>1, <2>2
  <2> HIDE DEF t
  <2> QED
    BY <1>4, <1>17, <2>1, <2>3 DEF OwnsOf
<1>19. \A u \in Thread \ ThreadsOf(c) : call'[u] = call[u] /\ depth'[u] = depth[u]
  BY <1>2, <1>3, <1>9
<1>20. \A q \in Pids \ {c} : /\ status'[q] = status[q] /\ owner'[q] = owner[q]
                             /\ latch'[q] = latch[q] /\ keys'[q] = keys[q]
                             /\ mem'[q] = mem[q] /\ inherited'[q] = inherited[q]
                             /\ stuck'[q] = stuck[q]
  BY <1>3, <1>4, <1>5, <1>6, <1>8, <1>10, <1>11
<1>21. \A q \in Pids \ {c} : spin'[q] = spin[q]
  BY <1>7
<1>22. status'[c] # "none" => stuck'[c] = Get(charge, c)
  BY <1>11
<1> HIDE DEF p, t
<1> QED
  BY <1>3, <1>13, <1>14, <1>16, <1>17, <1>18, <1>19, <1>20, <1>21, <1>22, ProcessStep

-----------------------------------------------------------------------------
(* The invariant holds, and what follows from it.                           *)

LEMMA InitInv == Init /\ Tame => IndInv
<1> SUFFICES ASSUME Init, Tame PROVE IndInv
  OBVIOUS
<1>1. /\ Pids \subseteq Nat \ {0} /\ IsFiniteSet(Pids) /\ MaxBorn \in Nat
      /\ NoCall \in Calls /\ NoCall.pc = "idle" /\ NoCall.op = "none" /\ NoCall.bytes = 0
  BY ShimAssumption DEF NoCall, Calls, PCs
<1>2. /\ \A th \in Thread : call[th] = NoCall
      /\ \A p \in Pids : /\ owner[p] = 0 /\ status[p] = "none" /\ keys[p] = NoKeys
                         /\ DOMAIN mem[p] = {} /\ inherited[p] = {} /\ stuck[p] = 0
  BY DEF Init, Nothing
<1>3. TypeOK
  <2>1. NoKeys \in [Slots -> [state : {"free", "reserved", "live"},
                             key : Keys \cup {0}, bytes : Nat]]
    BY SlotTypes DEF NoKeys
  <2>2. /\ DOMAIN charge = {} /\ Cardinality(DOMAIN charge) <= ProcessSlots
    BY FS_EmptySet, ShimAssumption DEF Init, Nothing
  <2> QED
    BY <1>1, <1>2, <2>1, <2>2 DEF Init, TypeOK
<1>4. CallInv
  BY <1>1, <1>2 DEF CallInv
<1>5. \A p \in Pids : Bare(p)
  BY <1>1, <1>2, ThreadsFinite DEF Bare
<1>6. OwnerInv
  <2>1. \A p \in Pids : ~spin[p] /\ \A th \in ThreadsOf(p) : depth[th] = 0
    BY ThreadsFinite DEF Init
  <2> QED
    BY <1>1, <1>2, <1>5, <2>1 DEF OwnerInv, Bare
<1>7. \A p \in Pids : owner[p] # p
  BY <1>1, <1>2
<1>8. LockInv /\ LatchInv /\ SlotInv /\ KeyInv
  BY <1>7 DEF LockInv, LatchInv, SlotInv, KeyInv, LiveInv, HeldInv, FreedInv
<1>9. FreeInv
  BY <1>2, <1>5 DEF FreeInv, FreeOf, Freeing, Bare
<1>10. TableInv
  BY <1>1, <1>2 DEF TableInv, At
<1>11. ChargesExact
  BY <1>2 DEF ChargesExact
<1>12. \A p \in Pids : Zeroes(p)
  BY <1>3, <1>5, BareZeroes
<1>13. UsedInv /\ HeldWithinFigure
  <2> DEFINE f == [p \in Pids |-> Lent(p)]
             g == [p \in Pids |-> Held(p)]
  <2>1. /\ DOMAIN f = Pids /\ DOMAIN g = Pids
        /\ \A p \in Pids : f[p] = 0
        /\ \A p \in Pids : g[p] = 0
    BY <1>12 DEF Lent, Zeroes
  <2> HIDE DEF f, g
  <2>2. Total(f) = 0 /\ Total(g) = 0
    BY <1>1, <2>1, Totals, SumZero
  <2>3. used \in Nat /\ Figure \in Nat /\ Slack(env) \in Nat
    BY <1>3, Bounds, SlackBounds DEF TypeOK
  <2> QED
    BY <2>2, <2>3 DEF UsedInv, HeldWithinFigure, f, g
<1> QED
  BY <1>3, <1>4, <1>6, <1>8, <1>9, <1>10, <1>11, <1>13 DEF IndInv

LEMMA NextInv == IndInv /\ [Next]_vars => IndInv'
<1> SUFFICES ASSUME IndInv, [Next]_vars PROVE IndInv'
  OBVIOUS
<1>1. ASSUME NEW p \in Pids, Start(p) \/ Kill(p) \/ Reap(p)
      PROVE  IndInv'
  BY <1>1, StartStep, KillStep, ReapStep
<1>2. ASSUME NEW th \in Thread, NEW c \in Pids, Fork(th, c)
      PROVE  IndInv'
  BY <1>2, ForkStep
<1>3. ASSUME NEW th \in Thread, NEW n \in env.sizes, HipMalloc(th, n)
      PROVE  IndInv'
  BY <1>3, HipMallocStep
<1>4. ASSUME NEW th \in Thread, NEW k \in Keys, HipFree(th, k)
      PROVE  IndInv'
  BY <1>4, HipFreeStep
<1>5. ASSUME NEW th \in Thread, Step(th)
      PROVE  IndInv'
  <2>1. CASE ForkReset(th) \/ RegionOpen(th) \/ RegionCreate(th)
    BY <2>1, ForkResetStep, RegionOpenStep, RegionCreateStep
  <2>2. CASE SlotReserve(th) \/ SlotTake(th) \/ SlotFree(th)
    BY <2>2, SlotReserveStep, SlotTakeStep, SlotFreeStep
  <2>3. CASE SpinLock(th) \/ RecordLock(th) \/ RecordLockFails(th)
    BY <2>3, SpinLockStep, RecordLockStep, RecordLockFailsStep
  <2>4. CASE RecordUnlock(th) \/ SpinUnlock(th)
    BY <2>4, RecordUnlockStep, SpinUnlockStep
  <2>5. CASE Decide(th) \/ Alloc(th) \/ Count(th) \/ Commit(th)
    BY <2>5, DecideStep, AllocStep, CountStep, CommitStep
  <2>6. CASE Refund(th) \/ Uncharge(th)
    BY <2>6, RefundStep, UnchargeStep
  <2> QED
    BY <1>5, <2>1, <2>2, <2>3, <2>4, <2>5, <2>6 DEF Step
<1>6. CASE UNCHANGED vars
  <2>1. UNCHANGED <<env, status, born, used, charge, flock, owner, latch, spin, keys, depth,
                    call, mem, inherited, stuck>>
    BY <1>6 DEF vars, region, private, runtime
  <2>2. Tame' /\ TypeOK' /\ CallInv'
    BY <2>1 DEF IndInv, Tame, TypeOK, CallInv
  <2>3. OwnerInv' /\ LockInv' /\ LatchInv'
    BY <2>1 DEF IndInv, OwnerInv, LockInv, LatchInv
  <2>4. /\ \A p \in Pids : SlotOf(p)' = SlotOf(p) /\ FreeOf(p)' = FreeOf(p) /\ LiveOf(p)' = LiveOf(p)
        /\ \A p \in Pids : HeldOf(p)' = HeldOf(p) /\ FreedOf(p)' = FreedOf(p)
    BY <2>1 DEF SlotOf, FreeOf, LiveOf, HeldOf, FreedOf, Reserving, Freeing, Charging, LiveSlots
  <2>5. SlotInv' /\ FreeInv' /\ KeyInv'
    BY <2>1, <2>4 DEF IndInv, SlotInv, FreeInv, KeyInv, LiveInv, HeldInv, FreedInv
  <2>6. TableInv'
    BY <2>1 DEF IndInv, TableInv, At, Figure, Get
  <2>7. \A p \in Pids : /\ Held(p)' = Held(p) /\ Due(p)' = Due(p) /\ Uncharged(p)' = Uncharged(p)
                        /\ Lent(p)' = Lent(p) /\ Get(charge, p)' = Get(charge, p)
    BY <2>1 DEF Held, Due, Uncharged, Lent, Unrefunded, Uncounted, SumOf, Get
  <2>8. ChargesExact' /\ UsedInv' /\ HeldWithinFigure'
    BY <2>1, <2>7 DEF IndInv, ChargesExact, UsedInv, HeldWithinFigure, Figure, Slack
  <2> QED
    BY <2>2, <2>3, <2>5, <2>6, <2>8 DEF IndInv
<1> QED
  BY <1>1, <1>2, <1>3, <1>4, <1>5, <1>6 DEF Next

\* Whoever refuses a request at its decision is that decision.
LEMMA DecisionRefuses ==
    ASSUME IndInv, Next, NEW th \in Thread, call[th].pc = "decide", call'[th].op = "refused"
    PROVE  Decide(th)
<1>1. /\ call \in [Thread -> Calls] /\ call[th].op = "admit" /\ NoCall.op = "none"
  BY DEF IndInv, TypeOK, CallInv, NoCall
<1>2. call' # call
  BY <1>1
<1>3. ~\E p \in Pids : Start(p) \/ Kill(p) \/ Reap(p)
  <2>1. ASSUME NEW p \in Pids, Kill(p)
        PROVE  FALSE
    <3>1. call'[th] = NoCall \/ call'[th] = call[th]
      BY <2>1 DEF Kill
    <3> QED
      BY <1>1, <3>1
  <2> QED
    BY <1>2, <2>1 DEF Start, Reap
<1>4. ~\E u \in Thread, c \in Pids : Fork(u, c)
  BY <1>2 DEF Fork
<1>5. ASSUME NEW u \in Thread, NEW c, Enter(u, c)
      PROVE  FALSE
  <2>1. u # th
    BY <1>5 DEF Enter, At
  <2>2. call'[th] = call[th]
    BY <1>1, <1>5, <2>1 DEF Enter
  <2> QED
    BY <1>1, <2>2
<1>6. PICK u \in Thread : Step(u)
  BY <1>3, <1>4, <1>5 DEF Next, HipMalloc, HipFree
<1>7. u = th
  <2> SUFFICES ASSUME u # th PROVE call'[th] = call[th]
    BY <1>1
  <2>1. \A pc : Goto(u, pc) => call'[th] = call[th]
    BY <1>1 DEF Goto
  <2>2. /\ Return(u) => call'[th] = call[th]
        /\ Refuse(u) => call'[th] = call[th]
        /\ AfterUnlock(u) => call'[th] = call[th]
    BY <1>1, <2>1 DEF Return, Refuse, AfterUnlock
  <2>3. CASE SlotReserve(u) \/ SlotTake(u) \/ Alloc(u)
    BY <1>1, <2>2, <2>3 DEF SlotReserve, SlotTake, Alloc
  <2>4. CASE ~(SlotReserve(u) \/ SlotTake(u) \/ Alloc(u))
    BY <1>6, <2>1, <2>2, <2>4
       DEF Step, ForkReset, RegionOpen, RegionCreate, SlotFree, SpinLock, RecordLock,
           RecordLockFails, RecordUnlock, SpinUnlock, Decide, Count, Commit, Refund, Uncharge
  <2> QED
    BY <2>3, <2>4
<1> QED
  BY <1>6, <1>7 DEF Step, At, ForkReset, RegionOpen, RegionCreate, SlotReserve, SlotTake, SlotFree,
     SpinLock, RecordLock, RecordLockFails, RecordUnlock, SpinUnlock, Alloc, Count, Commit, Refund,
     Uncharge

\* What a decision that finds no room found.
LEMMA RefusalDue ==
    ASSUME IndInv, NEW th \in Thread, Decide(th), OverQuota(used', call[th].bytes)
    PROVE  Total([p \in {q \in Pids : Exists(q)} |-> Held(p) + Due(p) + stuck[p]])
             + call[th].bytes > Figure
<1>1. call[th].pc = "decide"
  BY DEF Decide, At
<1>2. /\ used' = IF OverQuota(used, call[th].bytes) THEN Total(Reclaimed) ELSE used
  BY DEF Decide
<1>3. OverQuota(Total(Reclaimed), call[th].bytes)
  BY <1>2
<1>4. /\ Total([p \in {q \in Pids : Exists(q)} |-> Held(p) + Due(p) + stuck[p]]) = Total(Reclaimed)
      /\ Total(Reclaimed) \in Nat
  BY <1>1, Sweeps
<1>5. call[th].bytes \in Nat /\ Figure \in Nat
  BY Bounds DEF IndInv, TypeOK, Calls
<1>6. Total(Reclaimed) + call[th].bytes > Figure
  BY <1>3, <1>4, <1>5 DEF OverQuota
<1> QED
  BY <1>4, <1>6

\* The library keeps IndInv, whatever processes and threads call it, fork and are
\* killed: who holds the two locks, what each slot of the key map stands for, and
\* what the total and the charges of the region add up to.
THEOREM ShimInvariance == Spec /\ Tame => []IndInv
<1>1. Init /\ Tame => IndInv
  BY InitInv
<1>2. IndInv /\ [Next]_vars => IndInv'
  BY NextInv
<1> QED
  BY <1>1, <1>2, PTL DEF Spec

\* Every variable of the shim keeps its type: held_depth counts neither below zero
\* nor past a nested call, and the table of processes keeps to its length.
THEOREM ShimTypes == Spec /\ Tame => []TypeOK
<1>1. IndInv => TypeOK
  BY DEF IndInv
<1> QED
  BY ShimInvariance, <1>1, PTL

\* vrocm_ledger_admit: what the processes of a container have not freed stays
\* together within the figure, but for what the runtime takes beyond one request,
\* whatever is killed between the decision and the charge.
THEOREM FigureKept == Spec /\ Tame => []HeldWithinFigure
<1>1. IndInv => HeldWithinFigure
  BY DEF IndInv
<1> QED
  BY ShimInvariance, <1>1, PTL

\* vrocm_ledger_release: a process is charged exactly what it has not freed and
\* what of its refunds is under way or was lost.
THEOREM ChargesKept == Spec /\ Tame => []ChargesExact
<1>1. IndInv => ChargesExact
  BY DEF IndInv
<1> QED
  BY ShimInvariance, <1>1, PTL

\* vrocm_ledger_reclaim: a request is refused for the quota only when what the
\* processes that exist hold or owe leaves no room for it.
THEOREM RefusalsDue == Spec /\ Tame => RefusedOnlyFull
<1>1. IndInv /\ [Next]_vars =>
        [\A th \in Thread :
            (/\ At(th, "decide") /\ call'[th].op = "refused"
             /\ OverQuota(used', call[th].bytes))
            => Total([p \in {q \in Pids : Exists(q)} |-> Held(p) + Due(p) + stuck[p]])
                 + call[th].bytes > Figure]_vars
  <2> SUFFICES ASSUME IndInv, Next, NEW th \in Thread, At(th, "decide"), call'[th].op = "refused",
                      OverQuota(used', call[th].bytes)
               PROVE  Total([p \in {q \in Pids : Exists(q)} |-> Held(p) + Due(p) + stuck[p]])
                        + call[th].bytes > Figure
    OBVIOUS
  <2>1. Decide(th)
    BY DecisionRefuses DEF At
  <2> QED
    BY <2>1, RefusalDue
<1> QED
  BY ShimInvariance, <1>1, PTL DEF Spec, RefusedOnlyFull

=============================================================================
