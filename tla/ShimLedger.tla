----------------------------- MODULE ShimLedger -----------------------------
(***************************************************************************)
(* The memory of a slice (csrc/amd/rocm-slicing-shim).  A library preloaded *)
(* into every process of a container admits each allocation of device       *)
(* memory against the card's figure, and refunds it when it is freed.  The  *)
(* processes share a mapped file with the total and each process's charge;  *)
(* a spin lock among the threads of a process and a record lock among the   *)
(* processes guard it.  Processes fork and are killed at any step.          *)
(*                                                                          *)
(* One card: cards share only the key map, and no call holds two.  The      *)
(* figure is usable.  The runtime does not call back into the library from  *)
(* within an allocation, and the processes see each other's pids.           *)
(***************************************************************************)
EXTENDS Naturals, FiniteSets, FiniteSetsExt

CONSTANTS
    Pids,          \* process ids, small numbers from 1
    Thread,        \* their threads, pairs of a pid and a name
    Keys,          \* the device pointers the runtime hands out
    KeySlots,      \* KEY_SLOTS, the length of the key map
    ProcessSlots,  \* VROCM_MAX_PROCESSES_PER_DEVICE
    MaxBorn,       \* bounds the processes ever created
    Environments   \* what a behaviour may meet:
                   \*   figure   the card's quota
                   \*   threads  the threads there may be
                   \*   born     how many processes are created
                   \*   sizes    the bytes asked for
                   \*   pads     what the runtime takes beyond them
                   \*   kills    processes are killed
                   \*   forks    processes fork
                   \*   fails    the record lock, or the open, may fail
                   \*   reuse    a pointer freed is handed out before its refund
                   \*   race     any threads of a forked child make its first call, at once

Slots  == 1..KeySlots
Slack(e) == Max(e.pads)

ASSUME ShimAssumption ==
    /\ Pids \subseteq Nat \ {0} /\ IsFiniteSet(Pids) /\ IsFiniteSet(Thread)
    /\ \A th \in Thread : th[1] \in Pids
    /\ 0 \notin Keys /\ IsFiniteSet(Keys)
    /\ {KeySlots, ProcessSlots, MaxBorn} \subseteq Nat \ {0}
    /\ \A e \in Environments :
         /\ e.threads \subseteq Thread /\ e.born \in 0..MaxBorn /\ e.figure \in Nat \ {0}
         /\ e.sizes \subseteq Nat /\ e.pads \subseteq Nat
         /\ IsFiniteSet(e.pads) /\ 0 \in e.pads
         /\ {e.kills, e.forks, e.fails, e.reuse, e.race} \subseteq BOOLEAN

VARIABLES
    env,
    status, born,    \* "none", "up" or "zombie"; the processes created so far
    used, charge,    \* the region: memory_used_bytes, and processes[] by pid
    flock,           \* the process that has the card's record lock, or 0
    owner, latch,    \* per process: owner_pid, region_state,
    spin, keys,      \* ... device_lock, the key map
    depth,           \* per thread: held_depth
    call,            \* ... and the call in progress
    mem, inherited,  \* the runtime: what a process holds, pointers from its parent
    stuck            \* history: charged to a process and nothing will refund it

region == <<used, charge, flock>>
private == <<owner, latch, spin, keys, depth>>
runtime == <<mem, inherited>>
vars == <<env, status, born, region, private, call, runtime, stuck>>

----------------------------------------------------------------------------
FreeSlot == [state |-> "free", key |-> 0, bytes |-> 0]
NoKeys   == [i \in Slots |-> FreeSlot]
Nothing  == [k \in {} |-> 0]
NoCall   == [pc |-> "idle", op |-> "none", bytes |-> 0, slot |-> 0, key |-> 0]

Total(f) == MapThenSumSet(LAMBDA x : f[x], DOMAIN f)
Held(p)  == Total(mem[p])
Get(f, x) == IF x \in DOMAIN f THEN f[x] ELSE 0
Put(f, x, v) == [y \in DOMAIN f \cup {x} |-> IF y = x THEN v ELSE f[y]]
Only(f, S) == [x \in DOMAIN f \cap S |-> f[x]]
Minus(a, b) == IF a > b THEN a - b ELSE 0
ThreadsOf(p) == {th \in Thread : th[1] = p}
\* The pointers a process has been given: those of allocations that returned.
Given(p) == DOMAIN mem[p] \ {call[th].key : th \in {x \in ThreadsOf(p) : call[x].op = "admit"}}
Figure == env.figure
Exists(p) == status[p] # "none"        \* kill(p, 0) finds a zombie too

PCs == {"idle", "wipe", "take", "open", "create", "reserve", "spin", "flock",
        "decide", "alloc", "count", "commit", "refund", "uncharge",
        "funlock", "sunlock", "giveback"}
Calls == [pc : PCs, op : {"none", "admit", "release", "refused"}, bytes : Nat,
          slot : 0..KeySlots, key : Keys \cup {0}]

TypeOK ==
    /\ env \in Environments
    /\ status \in [Pids -> {"none", "up", "zombie"}]
    /\ born \in 0..MaxBorn
    /\ used \in Nat
    /\ DOMAIN charge \subseteq Pids /\ Cardinality(DOMAIN charge) <= ProcessSlots
    /\ \A p \in DOMAIN charge : charge[p] \in Nat
    /\ flock \in Pids \cup {0}
    /\ owner \in [Pids -> Pids \cup {0}]
    /\ latch \in [Pids -> {"untried", "opening", "usable", "unusable"}]
    /\ spin \in [Pids -> BOOLEAN]
    /\ keys \in [Pids -> [Slots -> [state : {"free", "reserved", "live"},
                                   key : Keys \cup {0}, bytes : Nat]]]
    /\ depth \in [Thread -> 0..2]
    /\ call \in [Thread -> Calls]
    /\ DOMAIN mem = Pids
    /\ \A p \in Pids : /\ DOMAIN mem[p] \subseteq Keys
                      /\ \A k \in DOMAIN mem[p] : mem[p][k] \in Nat
    /\ inherited \in [Pids -> SUBSET Keys]
    /\ stuck \in [Pids -> Nat]

Init ==
    /\ env \in Environments
    /\ status = [p \in Pids |-> "none"] /\ born = 0
    /\ used = 0 /\ charge = Nothing /\ flock = 0
    /\ owner = [p \in Pids |-> 0]
    /\ latch = [p \in Pids |-> "untried"]
    /\ spin = [p \in Pids |-> FALSE]
    /\ keys = [p \in Pids |-> NoKeys]
    /\ depth = [th \in Thread |-> 0]
    /\ call = [th \in Thread |-> NoCall]
    /\ mem = [p \in Pids |-> Nothing]
    /\ inherited = [p \in Pids |-> {}]
    /\ stuck = [p \in Pids |-> 0]

----------------------------------------------------------------------------
(* Processes.                                                               *)

\* The program is executed, under a pid that may have been another's.
Start(p) ==
    /\ status[p] = "none" /\ born < env.born
    /\ status' = [status EXCEPT ![p] = "up"]
    /\ born' = born + 1
    /\ stuck' = [stuck EXCEPT ![p] = Get(charge, p)]
    /\ UNCHANGED <<env, region, private, call, runtime>>

\* A thread forks, outside the library or while the runtime allocates for it:
\* the child has a copy of everything private, that thread and no other, and
\* none of the locks.  Its pid is not the one recorded in the copy.
Fork(th, c) ==
    LET p == th[1] IN
    /\ env.forks /\ born < env.born
    /\ status[p] = "up" /\ status[c] = "none" /\ owner[p] # c
    /\ {th, <<c, th[2]>>} \subseteq env.threads
    /\ call[th].pc \in {"idle", "alloc"}
    /\ status' = [status EXCEPT ![c] = "up"]
    /\ born' = born + 1
    /\ owner' = [owner EXCEPT ![c] = owner[p]]
    /\ latch' = [latch EXCEPT ![c] = latch[p]]
    /\ spin' = [spin EXCEPT ![c] = spin[p]]
    /\ keys' = [keys EXCEPT ![c] = keys[p]]
    /\ depth' = [depth EXCEPT ![<<c, th[2]>>] = depth[th]]
    /\ inherited' = [inherited EXCEPT ![c] = inherited[p] \cup Given(p)]
    /\ stuck' = [stuck EXCEPT ![c] = Get(charge, c)]
    /\ UNCHANGED <<env, region, call, mem>>

\* The process ends at whatever step it is: the kernel drops its record lock,
\* the driver takes its memory back, the region keeps its charge.
Kill(p) ==
    /\ env.kills /\ status[p] = "up"
    /\ status' = [status EXCEPT ![p] = "zombie"]
    /\ flock' = IF flock = p THEN 0 ELSE flock
    /\ owner' = [owner EXCEPT ![p] = 0]
    /\ latch' = [latch EXCEPT ![p] = "untried"]
    /\ spin' = [spin EXCEPT ![p] = FALSE]
    /\ keys' = [keys EXCEPT ![p] = NoKeys]
    /\ depth' = [th \in Thread |-> IF th[1] = p THEN 0 ELSE depth[th]]
    /\ call' = [th \in Thread |-> IF th[1] = p THEN NoCall ELSE call[th]]
    /\ mem' = [mem EXCEPT ![p] = Nothing]
    /\ inherited' = [inherited EXCEPT ![p] = {}]
    /\ stuck' = [stuck EXCEPT ![p] = Get(charge, p)]
    /\ UNCHANGED <<env, born, used, charge>>

\* Its parent waits for it, and the pid is free.
Reap(p) ==
    /\ status[p] = "zombie"
    /\ status' = [status EXCEPT ![p] = "none"]
    /\ stuck' = [stuck EXCEPT ![p] = 0]
    /\ UNCHANGED <<env, born, region, private, call, runtime>>

----------------------------------------------------------------------------
(* A call begins with fork_reset: the process records its pid, or finds that *)
(* of its parent, and then wipes what it inherited.                          *)

At(th, pc) == call[th].pc = pc
Goto(th, pc) == call' = [call EXCEPT ![th].pc = pc]
Return(th) == call' = [call EXCEPT ![th] = NoCall]

AfterReset(op) == IF op = "admit" THEN "open" ELSE "take"

\* The first call of a forked child is over before its other threads call, and
\* made by the thread that forked if that was within an allocation.
FirstAlone(th) ==
    \/ owner[th[1]] \in {0, th[1]} \/ env.race
    \/ \A u \in ThreadsOf(th[1]) \ {th} : At(u, "idle") /\ depth[u] = 0

Enter(th, c) ==
    LET p == th[1] IN
    /\ status[p] = "up" /\ th \in env.threads /\ At(th, "idle") /\ FirstAlone(th)
    /\ owner' = [owner EXCEPT ![p] = IF @ = 0 THEN p ELSE @]
    /\ call' = [call EXCEPT ![th] =
                  [c EXCEPT !.pc = IF owner[p] \in {0, p} THEN AfterReset(c.op) ELSE "wipe"]]

\* hipMalloc and its kin: vrocm_ledger_admit.
HipMalloc(th, n) ==
    /\ Enter(th, [NoCall EXCEPT !.op = "admit", !.bytes = n])
    /\ UNCHANGED <<env, status, born, region, latch, spin, keys, depth, runtime, stuck>>

\* hipFree: the runtime frees, then vrocm_ledger_release.  bytes is what was freed,
\* for the history, until slot_take reads what was charged.  hipFreeAsync makes
\* the same call once the free is issued: mem is what the program has not freed,
\* and the card may hold more until the stream gets there.
HipFree(th, k) ==
    LET p == th[1] IN
    /\ k \in Given(p) \cup inherited[p]
    /\ Enter(th, [NoCall EXCEPT !.op = "release", !.key = k, !.bytes = Get(mem[p], k)])
    /\ mem' = [mem EXCEPT ![p] = Only(@, Keys \ {k})]
    /\ inherited' = [inherited EXCEPT ![p] = @ \ {k}]
    /\ UNCHANGED <<env, status, born, region, latch, spin, keys, depth, stuck>>

\* Fault models: the spin lock, or the key map, stays as the parent had it.
ForkResetKeepsSpin(th) ==
    LET p == th[1] IN
    /\ At(th, "wipe")
    /\ latch' = [latch EXCEPT ![p] = IF @ = "opening" THEN "untried" ELSE @]
    /\ keys' = [keys EXCEPT ![p] = NoKeys]
    /\ depth' = [depth EXCEPT ![th] = 0]
    /\ owner' = [owner EXCEPT ![p] = p]
    /\ Goto(th, AfterReset(call[th].op))
    /\ UNCHANGED <<env, status, born, region, spin, runtime, stuck>>

ForkResetKeepsKeys(th) ==
    LET p == th[1] IN
    /\ At(th, "wipe")
    /\ latch' = [latch EXCEPT ![p] = IF @ = "opening" THEN "untried" ELSE @]
    /\ spin' = [spin EXCEPT ![p] = FALSE]
    /\ depth' = [depth EXCEPT ![th] = 0]
    /\ owner' = [owner EXCEPT ![p] = p]
    /\ Goto(th, AfterReset(call[th].op))
    /\ UNCHANGED <<env, status, born, region, keys, runtime, stuck>>

ForkReset(th) ==
    LET p == th[1] IN
    /\ At(th, "wipe")
    /\ latch' = [latch EXCEPT ![p] = IF @ = "opening" THEN "untried" ELSE @]
    /\ spin' = [spin EXCEPT ![p] = FALSE]
    /\ keys' = [keys EXCEPT ![p] = NoKeys]
    /\ depth' = [depth EXCEPT ![th] = 0]
    /\ owner' = [owner EXCEPT ![p] = p]
    /\ Goto(th, AfterReset(call[th].op))
    /\ UNCHANGED <<env, status, born, region, runtime, stuck>>

----------------------------------------------------------------------------
(* region_open: one thread is elected, the others wait for its answer.      *)

AfterOpen(op) == IF op = "admit" THEN "reserve" ELSE "spin"

RegionOpen(th) ==
    LET p == th[1] IN
    /\ At(th, "open") /\ latch[p] # "opening"
    /\ latch' = [latch EXCEPT ![p] = IF @ = "untried" THEN "opening" ELSE @]
    /\ \/ latch[p] = "untried" /\ Goto(th, "create")
       \/ latch[p] = "usable" /\ Goto(th, AfterOpen(call[th].op))
       \/ latch[p] = "unusable" /\ Return(th)
    /\ UNCHANGED <<env, status, born, region, owner, spin, keys, depth, runtime, stuck>>

RegionCreate(th) ==
    LET p == th[1] IN
    /\ At(th, "create")
    /\ \E ok \in IF env.fails THEN BOOLEAN ELSE {TRUE} :
         /\ latch' = [latch EXCEPT ![p] = IF ok THEN "usable" ELSE "unusable"]
         /\ IF ok THEN Goto(th, AfterOpen(call[th].op)) ELSE Return(th)
    /\ UNCHANGED <<env, status, born, region, owner, spin, keys, depth, runtime, stuck>>

----------------------------------------------------------------------------
(* The key map, each operation under keys_lock.                             *)

First(S) == CHOOSE i \in S : \A j \in S : i <= j
FreeSlots(p) == {i \in Slots : keys[p][i].state = "free"}
LiveSlots(p, k) == {i \in Slots : keys[p][i].state = "live" /\ keys[p][i].key = k}

SlotReserve(th) ==
    LET p == th[1]
        i == First(FreeSlots(p)) IN
    /\ At(th, "reserve")
    /\ \/ /\ FreeSlots(p) # {}
          /\ keys' = [keys EXCEPT ![p][i].state = "reserved"]
          /\ call' = [call EXCEPT ![th].pc = "spin", ![th].slot = i]
       \/ /\ FreeSlots(p) = {}
          /\ Return(th) /\ UNCHANGED keys
    /\ UNCHANGED <<env, status, born, region, owner, latch, spin, depth, runtime, stuck>>

SlotTake(th) ==
    LET p == th[1]
        found == LiveSlots(p, call[th].key)
        i == First(found) IN
    /\ At(th, "take")
    /\ \/ /\ found # {}
          /\ keys' = [keys EXCEPT ![p][i] = FreeSlot]
          /\ call' = [call EXCEPT ![th].pc = "open", ![th].bytes = keys[p][i].bytes]
       \/ /\ found = {}
          /\ Return(th) /\ UNCHANGED keys
    /\ UNCHANGED <<env, status, born, region, owner, latch, spin, depth, runtime, stuck>>

SlotFree(th) ==
    /\ At(th, "giveback")
    /\ keys' = [keys EXCEPT ![th[1]][call[th].slot] = FreeSlot]
    /\ Return(th)
    /\ UNCHANGED <<env, status, born, region, owner, latch, spin, depth, runtime, stuck>>

----------------------------------------------------------------------------
(* The card's lock: the spin lock first, then the record lock, and back in  *)
(* the opposite order.                                                      *)

Locked(op) == IF op = "admit" THEN "decide" ELSE "refund"

\* Fault model: the record lock is taken for enough.
SpinLockNone(th) ==
    /\ At(th, "spin")
    /\ Goto(th, "flock")
    /\ UNCHANGED <<env, status, born, region, private, runtime, stuck>>

\* A thread that holds the lock is let through, and counted.
SpinLock(th) ==
    LET p == th[1] IN
    /\ At(th, "spin")
    /\ IF depth[th] > 0
       THEN /\ depth' = [depth EXCEPT ![th] = @ + 1]
            /\ Goto(th, Locked(call[th].op)) /\ UNCHANGED spin
       ELSE /\ ~spin[p] /\ spin' = [spin EXCEPT ![p] = TRUE]
            /\ Goto(th, "flock") /\ UNCHANGED depth
    /\ UNCHANGED <<env, status, born, region, owner, latch, keys, runtime, stuck>>

\* A record lock belongs to the process, whose threads it does not exclude.
RecordLock(th) ==
    LET p == th[1] IN
    /\ At(th, "flock") /\ flock \in {0, p}
    /\ flock' = p
    /\ depth' = [depth EXCEPT ![th] = 1]
    /\ Goto(th, Locked(call[th].op))
    /\ UNCHANGED <<env, status, born, used, charge, owner, latch, spin, keys, runtime, stuck>>

\* The kernel refuses the record lock: no admission, or a refund that is lost.
RecordLockFails(th) ==
    LET p == th[1] IN
    /\ At(th, "flock") /\ env.fails
    /\ spin' = [spin EXCEPT ![p] = FALSE]
    /\ \/ /\ call[th].op = "admit" /\ Goto(th, "giveback") /\ UNCHANGED stuck
       \/ /\ call[th].op = "release" /\ Return(th)
          /\ stuck' = [stuck EXCEPT ![p] = @ + call[th].bytes]
    /\ UNCHANGED <<env, status, born, region, owner, latch, keys, depth, runtime>>

AfterUnlock(th) == IF call[th].op = "refused" THEN Goto(th, "giveback") ELSE Return(th)

\* Fault model: the thread goes on believing that it holds the card.
RecordUnlockUncounted(th) ==
    LET p == th[1] IN
    /\ At(th, "funlock")
    /\ Goto(th, "sunlock") /\ flock' = IF flock = p THEN 0 ELSE flock
    /\ UNCHANGED <<env, status, born, used, charge, private, runtime, stuck>>

RecordUnlock(th) ==
    LET p == th[1] IN
    /\ At(th, "funlock")
    /\ depth' = [depth EXCEPT ![th] = @ - 1]
    /\ IF depth[th] > 1
       THEN AfterUnlock(th) /\ UNCHANGED flock
       ELSE Goto(th, "sunlock") /\ flock' = IF flock = p THEN 0 ELSE flock
    /\ UNCHANGED <<env, status, born, used, charge, owner, latch, spin, keys, runtime, stuck>>

SpinUnlock(th) ==
    /\ At(th, "sunlock")
    /\ spin' = [spin EXCEPT ![th[1]] = FALSE]
    /\ AfterUnlock(th)
    /\ UNCHANGED <<env, status, born, region, owner, latch, keys, depth, runtime, stuck>>

----------------------------------------------------------------------------
(* Admission, under the lock: decide, allocate, charge.                     *)

OverQuota(u, n) == u > Figure \/ n > Figure - u

Refuse(th) == call' = [call EXCEPT ![th].pc = "funlock", ![th].op = "refused"]

\* Fault model: no sweep.
ReclaimedNot == charge

\* vrocm_ledger_reclaim: charges of processes that no longer exist are dropped.
Reclaimed == Only(charge, {p \in Pids : Exists(p)})

\* Sweep if it would not fit, decide, and claim this pid's slot.
Decide(th) ==
    LET p == th[1]
        n == call[th].bytes
        sweep == OverQuota(used, n)
        table == IF sweep THEN Reclaimed ELSE charge
        total == IF sweep THEN Total(Reclaimed) ELSE used
        fits  == ~OverQuota(total, n)
        room  == p \in DOMAIN table \/ Cardinality(DOMAIN table) < ProcessSlots IN
    /\ At(th, "decide")
    /\ used' = total
    /\ \/ ~(fits /\ room) /\ charge' = table /\ Refuse(th)
       \/ fits /\ room /\ charge' = Put(table, p, Get(table, p)) /\ Goto(th, "alloc")
    /\ UNCHANGED <<env, status, born, flock, private, runtime, stuck>>

\* Pointers whose refund is still to find its slot.
Refunding(p) == {call[th].key : th \in {x \in ThreadsOf(p) :
                    call[x].op = "release" /\ call[x].pc \in {"wipe", "take"}}}

\* The runtime allocates, fails, or answers a request for nothing with a null.
Alloc(th) ==
    LET p == th[1]
        n == call[th].bytes
        taken == DOMAIN mem[p] \cup inherited[p] \cup (IF env.reuse THEN {} ELSE Refunding(p)) IN
    /\ At(th, "alloc")
    /\ \/ Refuse(th) /\ UNCHANGED mem
       \/ \E k \in Keys \ taken, pad \in env.pads :
            /\ n > 0
            /\ mem' = [mem EXCEPT ![p] = Put(@, k, n + pad)]
            /\ call' = [call EXCEPT ![th].pc = "count", ![th].key = k, ![th].bytes = n + pad]
    /\ UNCHANGED <<env, status, born, region, private, inherited, stuck>>

Count(th) ==
    /\ At(th, "count")
    /\ used' = used + call[th].bytes
    /\ Goto(th, "commit")
    /\ UNCHANGED <<env, status, born, charge, flock, private, runtime, stuck>>

Commit(th) ==
    LET p == th[1] IN
    /\ At(th, "commit")
    /\ charge' = Put(charge, p, Get(charge, p) + call[th].bytes)
    /\ keys' = [keys EXCEPT ![p][call[th].slot] =
                  [state |-> "live", key |-> call[th].key, bytes |-> call[th].bytes]]
    /\ Goto(th, "funlock")
    /\ UNCHANGED <<env, status, born, used, flock, owner, latch, spin, depth, runtime, stuck>>

(* The refund, under the lock: the total, then this pid's charge, whose     *)
(* slot is freed with the last byte.                                        *)

Refund(th) ==
    /\ At(th, "refund")
    /\ used' = Minus(used, call[th].bytes)
    /\ Goto(th, "uncharge")
    /\ UNCHANGED <<env, status, born, charge, flock, private, runtime, stuck>>

Uncharge(th) ==
    LET p == th[1]
        rest == Minus(Get(charge, p), call[th].bytes) IN
    /\ At(th, "uncharge")
    /\ charge' = IF rest = 0 THEN Only(charge, Pids \ {p}) ELSE Put(charge, p, rest)
    /\ Goto(th, "funlock")
    /\ UNCHANGED <<env, status, born, used, flock, private, runtime, stuck>>

----------------------------------------------------------------------------
Step(th) ==
    \/ ForkReset(th) \/ RegionOpen(th) \/ RegionCreate(th)
    \/ SlotReserve(th) \/ SlotTake(th) \/ SlotFree(th)
    \/ SpinLock(th) \/ RecordLock(th) \/ RecordLockFails(th)
    \/ RecordUnlock(th) \/ SpinUnlock(th)
    \/ Decide(th) \/ Alloc(th) \/ Count(th) \/ Commit(th)
    \/ Refund(th) \/ Uncharge(th)

Next ==
    \/ \E p \in Pids : Start(p) \/ Kill(p) \/ Reap(p)
    \/ \E th \in Thread, c \in Pids : Fork(th, c)
    \/ \E th \in Thread, n \in env.sizes : HipMalloc(th, n)
    \/ \E th \in Thread, k \in Keys : HipFree(th, k)
    \/ \E th \in Thread : Step(th)

\* Threads run, and the runtime's calls return.  The kernel queues those who
\* wait for the record lock.
Fairness ==
    /\ \A th \in Thread : WF_vars(Step(th))
    /\ \A th \in Thread : SF_vars(RecordLock(th))

Spec == Init /\ [][Next]_vars /\ Fairness

----------------------------------------------------------------------------
(* What a process's calls have under way: taken and not charged yet, freed  *)
(* and not refunded yet.                                                    *)

SumOf(S) == Total([th \in S |-> call[th].bytes])
Uncharged(p) == SumOf({th \in ThreadsOf(p) : call[th].pc \in {"count", "commit"}})
Due(p) == SumOf({th \in ThreadsOf(p) : call[th].op = "release"
                                        /\ call[th].pc \notin {"funlock", "sunlock"}})

\* What the processes of a container have taken and not freed stays together
\* within its figure, but for what the runtime took beyond one request: whichever
\* processes and threads ask at once, fork, or are killed between the decision
\* and the charge (vrocm_ledger_admit, the two locks).  With asynchronous frees
\* the card may hold more: hipFreeAsync refunds "when the free is ISSUED".
HeldWithinFigure ==
    Total([p \in Pids |-> Held(p)]) <= Figure + Slack(env)

\* A process is charged exactly what it has not freed: a free is refunded once,
\* in the size that was charged, and neither a fork nor another process's sweep
\* takes a byte off it or adds one.  What cannot be refunded is only a refund
\* the kernel refused to lock for, or the charge of a former owner of the pid
\* (vrocm_ledger_admit, vrocm_ledger_release, fork_reset).
ChargesExact ==
    \A p \in Pids : status[p] = "up" =>
        Get(charge, p) + Uncharged(p) = Held(p) + Due(p) + stuck[p]

\* An allocation is refused for the quota only when the processes that exist
\* leave no room for it: neither the charge of a killed process whose pid is gone
\* nor a total left half updated by one stands in its way (vrocm_ledger_reclaim).
\* That of a zombie, or of a former owner of the pid, is stuck and does.
RefusedOnlyFull ==
    [][\A th \in Thread :
        (/\ At(th, "decide") /\ call'[th].op = "refused"
         /\ OverQuota(used', call[th].bytes))
        => Total([p \in {q \in Pids : Exists(q)} |-> Held(p) + Due(p) + stuck[p]])
             + call[th].bytes > Figure]_vars

Engaged(p) == owner[p] = p /\ (spin[p] \/ latch[p] = "opening")

\* No thread waits for a lock that nobody will release or an answer that nobody
\* will give: a spin lock it waits for comes free, and an opening it waits for
\* is decided, in forked children too (spin_lock, region_open, fork_reset).
WaitsEnd ==
    \A p \in Pids : Engaged(p) ~> ~Engaged(p)
----------------------------------------------------------------------------
(* The inductive invariant behind them.                                     *)

\* The runtime hands a pointer out again only after its refund found its slot,
\* and a forked child's first call is made by one thread alone.
Tame == ~env.reuse /\ ~env.race

Locking  == {"decide", "alloc", "count", "commit", "refund", "uncharge", "funlock"}
Spinning == Locking \cup {"flock", "sunlock"}

\* What a call does at each of its steps.
CallInv ==
    \A th \in Thread : LET c == call[th] IN
        /\ c.pc = "idle" <=> c.op = "none"
        /\ c.pc = "idle" => c = NoCall
        /\ c.pc \in {"reserve", "decide", "alloc", "count", "commit"} => c.op = "admit"
        /\ c.pc \in {"take", "refund", "uncharge"} => c.op = "release"
        /\ c.pc = "giveback" => c.op # "release"
        /\ c.op = "refused" => c.pc \in {"funlock", "sunlock", "giveback"}

\* A process that made no call yet has nothing, and one that does not run has
\* made none; a forked child has what it inherited, and at most one thread at
\* its first call or with its parent's hold on the lock.
OwnerInv ==
    \A p \in Pids :
        /\ status[p] # "up" => owner[p] = 0
        /\ owner[p] = 0 => /\ keys[p] = NoKeys /\ ~spin[p] /\ DOMAIN mem[p] = {}
                           /\ \A th \in ThreadsOf(p) : call[th].pc = "idle" /\ depth[th] = 0
        /\ owner[p] \notin {0, p} =>
              /\ DOMAIN mem[p] = {}
              /\ \A th \in ThreadsOf(p) :
                    /\ call[th].pc \in {"idle", "wipe"}
                    /\ call[th].op = "release" => call[th].bytes = 0
              /\ \A th, u \in ThreadsOf(p) :
                    (call[th].pc # "idle" \/ depth[th] # 0) /\ (call[u].pc # "idle" \/ depth[u] # 0)
                    => th = u
        /\ owner[p] = p => \A th \in ThreadsOf(p) : call[th].pc # "wipe"

\* Who holds what: one thread of a process the spin lock, one process the record
\* lock, one thread the opening.
LockInv ==
    \A p \in Pids : owner[p] = p =>
        \A th \in ThreadsOf(p) :
            /\ depth[th] = IF call[th].pc \in Locking THEN 1 ELSE 0
            /\ call[th].pc \in Locking => flock = p
            /\ call[th].pc \in Spinning => spin[p]
            /\ call[th].pc = "create" => latch[p] = "opening"
            /\ \A u \in ThreadsOf(p) :
                  /\ call[th].pc \in Spinning /\ call[u].pc \in Spinning => th = u
                  /\ call[th].pc = "create" /\ call[u].pc = "create" => th = u

\* Nothing is admitted before the region is usable.
LatchInv ==
    \A p \in Pids : owner[p] = p /\ latch[p] # "usable" =>
        /\ DOMAIN mem[p] = {}
        /\ \A i \in Slots : keys[p][i].state = "free"
        /\ \A th \in ThreadsOf(p) :
              /\ call[th].pc \in {"idle", "take", "open", "create"}
              /\ call[th].op = "release" => call[th].bytes = 0

\* The slot a call of hipMalloc has reserved.
Reserving(th) ==
    \/ /\ call[th].op \in {"admit", "refused"}
       /\ call[th].pc \in {"spin", "flock", "decide", "alloc", "count", "commit", "giveback"}
    \/ call[th].op = "refused" /\ call[th].pc \in {"funlock", "sunlock"}

SlotOf(p) ==
    \A th \in ThreadsOf(p) : Reserving(th) =>
        /\ call[th].slot \in Slots /\ keys[p][call[th].slot].state = "reserved"
        /\ \A u \in ThreadsOf(p) : Reserving(u) /\ call[u].slot = call[th].slot => th = u

Freeing(th)  == call[th].op = "release" /\ call[th].pc \in {"wipe", "take"}
Charging(th) == call[th].pc \in {"count", "commit"}

\* A pointer being freed is nobody's, and freed by one call.
FreeOf(p) ==
    /\ DOMAIN mem[p] \cap inherited[p] = {}
    /\ \A th \in ThreadsOf(p) : Freeing(th) =>
          /\ call[th].key \notin DOMAIN mem[p] \cup inherited[p]
          /\ \A u \in ThreadsOf(p) : Freeing(u) /\ call[u].key = call[th].key => th = u

\* A live slot has the size of what the process holds under its key, or of what
\* a call just freed.
LiveOf(p) ==
    \A i \in Slots : keys[p][i].state = "live" =>
        /\ \A j \in LiveSlots(p, keys[p][i].key) : i = j
        /\ \/ /\ keys[p][i].key \in DOMAIN mem[p]
              /\ keys[p][i].bytes = mem[p][keys[p][i].key]
           \/ \E th \in ThreadsOf(p) : /\ Freeing(th) /\ call[th].key = keys[p][i].key
                                       /\ call[th].bytes = keys[p][i].bytes

\* What is held is in a slot, or about to be.
HeldOf(p) ==
    /\ \A k \in DOMAIN mem[p] :
          \/ LiveSlots(p, k) # {}
          \/ \E th \in ThreadsOf(p) : Charging(th) /\ call[th].key = k
    /\ \A th \in ThreadsOf(p) : Charging(th) =>
          /\ call[th].key \in DOMAIN mem[p] /\ call[th].bytes = mem[p][call[th].key]
          /\ LiveSlots(p, call[th].key) = {}

\* What is freed and in no slot was never charged.
FreedOf(p) ==
    \A th \in ThreadsOf(p) :
        Freeing(th) /\ LiveSlots(p, call[th].key) = {} => call[th].bytes = 0

SlotInv  == \A p \in Pids : owner[p] = p => SlotOf(p)
FreeInv  == \A p \in Pids : FreeOf(p)
LiveInv  == \A p \in Pids : owner[p] = p => LiveOf(p)
HeldInv  == \A p \in Pids : owner[p] = p => HeldOf(p)
FreedInv == \A p \in Pids : owner[p] = p => FreedOf(p)

KeyInv == LiveInv /\ HeldInv /\ FreedInv

\* A process that is charged has its place in the table, what was decided still
\* fits, and what is left of a process that ended is stuck.
TableInv ==
    /\ \A th \in Thread :
          /\ call[th].pc \in {"alloc", "count", "commit"} => th[1] \in DOMAIN charge
          /\ At(th, "alloc") => used + call[th].bytes <= Figure
    /\ \A p \in Pids : status[p] = "zombie" => stuck[p] = Get(charge, p)

Unrefunded(p) == SumOf({th \in ThreadsOf(p) : call[th].op = "release"
                          /\ call[th].pc \notin {"uncharge", "funlock", "sunlock"}})
Uncounted(p) == SumOf({th \in ThreadsOf(p) : call[th].pc = "count"})
Lent(p) == Held(p) + Unrefunded(p) - Uncounted(p)

\* The total covers what the processes hold or have yet to refund, but for what
\* is about to be counted.
UsedInv == Total([p \in Pids |-> Lent(p)]) <= used

IndInv ==
    /\ Tame /\ TypeOK
    /\ CallInv /\ OwnerInv /\ LockInv /\ LatchInv
    /\ SlotInv /\ FreeInv /\ KeyInv
    /\ TableInv /\ ChargesExact /\ UsedInv /\ HeldWithinFigure
=============================================================================
