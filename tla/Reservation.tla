---------------------------- MODULE Reservation -----------------------------
(***************************************************************************)
(* How downloads share the cache's filesystem (pkg/modelmanager/gc): an     *)
(* attempt reserves what it has yet to write before it writes, a            *)
(* reservation that does not fit under the high watermark collects first,   *)
(* and a collection removes unreferenced trees down to the low watermark.   *)
(*                                                                          *)
(* Bytes are counted in units.  Every attempt is at a digest of Size units, *)
(* in one file, so a published tree, and a finished attempt, occupies Size. *)
(* A file is asked of the peers first, one candidate after the other, and   *)
(* of the hub when they are spent; each begins at the last checkpoint.  The *)
(* filesystem holds nothing but the cache: what others write is theirs.     *)
(***************************************************************************)
EXTENDS Integers, FiniteSets, FiniteSetsExt

CONSTANTS
    Attempts,      \* the digests an attempt may run at
    Size,          \* units of a digest's content
    High, Low,     \* the watermarks, in units
    Trees,         \* published trees at the start
    Environments   \* what a behaviour may meet:
                   \*   who    the attempts that run in it
                   \*   whole  a hub may answer a resume with the whole file
                   \*   peers  the candidates a file is asked of before the hub

ASSUME ReservationAssumption ==
    /\ IsFiniteSet(Attempts)
    /\ Size \in Nat \ {0} /\ Trees \in Nat
    /\ High \in Nat /\ Low \in 0..High
    /\ Trees * Size <= High
    /\ Environments \subseteq [who : SUBSET Attempts, whole : BOOLEAN, peers : Nat]
    /\ {"none", "timer"} \cap Attempts = {}   \* nobody, and the collector's timer

VARIABLES
    st,        \* where each attempt is
    held,      \* what its files occupy
    saved,     \* its checkpoint
    counted,   \* what written() says of it
    debit,     \* what is to be taken off that count
    tried,     \* the candidates it has asked, or passed over
    from,      \* where the source it is asking began
    reserved,  \* the attempts with a reservation
    idle,      \* published trees a collection may remove
    kept,      \* those referenced, pinned or within their grace
    mu,        \* who holds c.mu
    incoming,  \* what that one computed
    pass,      \* who holds collectMu
    passIn,    \* what its collection makes room for
    cands,     \* the candidates it has not come to, -1 before it lists them
    env        \* the environment, fixed from the start

file    == <<held, saved>>
count   == <<counted, debit, tried, from>>
trees   == <<idle, kept>>
locks   == <<mu, incoming>>
passing == <<pass, passIn, cands>>
vars    == <<st, file, count, reserved, trees, locks, passing, env>>

None  == "none"
Timer == "timer"
Tries == {"try", "retry", "last"}
Running == {"resume", "write", "count", "uncount"}

TypeOK ==
    /\ st \in [Attempts -> {"idle", "lock", "collect"} \cup Running \cup Tries]
    /\ held \in [Attempts -> 0..Size] /\ saved \in [Attempts -> 0..Size]
    /\ counted \in [Attempts -> Int]
    /\ debit \in [Attempts -> Nat] /\ tried \in [Attempts -> Nat]
    /\ from \in [Attempts -> 0..Size]
    /\ reserved \subseteq Attempts
    /\ idle \in Nat /\ kept \in Nat
    /\ mu \in Attempts \cup {None}
    /\ incoming \in Nat
    /\ pass \in Attempts \cup {None, Timer}
    /\ passIn \in Nat /\ cands \in Nat \cup {-1}
    /\ env \in Environments

Init ==
    /\ st = [a \in Attempts |-> "idle"]
    /\ held = [a \in Attempts |-> 0] /\ saved = [a \in Attempts |-> 0]
    /\ counted = [a \in Attempts |-> 0]
    /\ debit = [a \in Attempts |-> 0] /\ tried = [a \in Attempts |-> 0]
    /\ from = [a \in Attempts |-> 0]
    /\ reserved = {}
    /\ idle = Trees /\ kept = 0
    /\ mu = None /\ incoming = 0
    /\ pass = None /\ passIn = 0 /\ cands = -1
    /\ env \in Environments

-----------------------------------------------------------------------------
Total(f, S) == MapThenSumSet(LAMBDA a : f[a], S)

\* Usage, of the filesystem.
Used == Total(held, Attempts) + (idle + kept) * Size

\* What an attempt that counted c has yet to write, as far as Reserve can tell.
Rest(c) == IF c < Size THEN Size - c ELSE 0

\* inFlight, by the attempts' own counts.
InFlight == Total([a \in Attempts |-> Rest(counted[a])], reserved)

Fits(bytes, watermark) == Used + bytes <= watermark

-----------------------------------------------------------------------------
(* An attempt, from its listing to its end.                                 *)

\* A checkpoint counts while the file reaches up to it.
Resumable(a) == IF saved[a] <= held[a] THEN saved[a] ELSE 0

\* The peers are spent: pullFromPeers has failed, or there are none.
FromHub(a) == tried[a] = env.peers

\* Fault model: what an earlier attempt left is counted by the file's length.
ListHeld(a) ==
    /\ a \in env.who
    /\ st[a] = "idle"
    /\ counted' = [counted EXCEPT ![a] = held[a]]
    /\ debit' = [debit EXCEPT ![a] = 0]
    /\ tried' = [tried EXCEPT ![a] = 0]
    /\ from' = [from EXCEPT ![a] = 0]
    /\ st' = [st EXCEPT ![a] = "try"]
    /\ UNCHANGED <<file, reserved, trees, locks, passing, env>>

\* fetchTree counts what an earlier attempt left verified.
List(a) ==
    /\ a \in env.who
    /\ st[a] = "idle"
    /\ counted' = [counted EXCEPT ![a] = Resumable(a)]
    /\ debit' = [debit EXCEPT ![a] = 0]
    /\ tried' = [tried EXCEPT ![a] = 0]
    /\ from' = [from EXCEPT ![a] = 0]
    /\ st' = [st EXCEPT ![a] = "try"]
    /\ UNCHANGED <<file, reserved, trees, locks, passing, env>>

\* tryReserve takes c.mu and reads the counts ...
ReadCounts(a) ==
    /\ st[a] \in Tries
    /\ mu = None
    /\ mu' = a
    /\ incoming' = Rest(counted[a]) + InFlight
    /\ UNCHANGED <<st, file, count, reserved, trees, passing, env>>

\* ... and then the usage, and decides.
Admit(a) ==
    /\ mu = a
    /\ Fits(incoming, High)
    /\ mu' = None
    /\ incoming' = 0
    /\ reserved' = reserved \cup {a}
    /\ st' = [st EXCEPT ![a] = "resume"]
    /\ pass' = IF pass = a THEN None ELSE pass
    /\ UNCHANGED <<file, count, trees, passIn, cands, env>>

\* What Reserve does when the download does not fit.
AfterMiss(a) ==
    CASE st[a] = "try"   -> "lock"
      [] st[a] = "retry" -> "collect"
      [] st[a] = "last"  -> "idle"

\* The last miss is the refusal.
Miss(a) ==
    /\ mu = a
    /\ ~Fits(incoming, High)
    /\ mu' = None
    /\ incoming' = 0
    /\ st' = [st EXCEPT ![a] = AfterMiss(a)]
    /\ IF st[a] = "retry"
       THEN passIn' = incoming /\ cands' = -1
       ELSE UNCHANGED <<passIn, cands>>
    /\ pass' = IF st[a] = "last" THEN None ELSE pass
    /\ UNCHANGED <<file, count, reserved, trees, env>>

\* No watermarks are in force, or the usage cannot be read: Reserve fails.
ReserveFails(a) ==
    /\ st[a] \in Tries
    /\ mu \in {None, a}
    /\ mu' = None
    /\ incoming' = 0
    /\ st' = [st EXCEPT ![a] = "idle"]
    /\ pass' = IF pass = a THEN None ELSE pass
    /\ UNCHANGED <<file, count, reserved, trees, passIn, cands, env>>

\* Reserve takes collectMu before it tries again.
LockCollect(a) ==
    /\ st[a] = "lock"
    /\ pass = None
    /\ pass' = a
    /\ st' = [st EXCEPT ![a] = "retry"]
    /\ UNCHANGED <<file, count, reserved, trees, locks, passIn, cands, env>>

\* Each candidate, and then the hub, cuts the file to its checkpoint and goes on
\* from there.  Nothing is taken off the count for what a candidate loses here.
Resume(a) ==
    /\ st[a] = "resume"
    /\ FromHub(a) => debit[a] = 0
    /\ held' = [held EXCEPT ![a] = Resumable(a)]
    /\ from' = [from EXCEPT ![a] = Resumable(a)]
    /\ st' = [st EXCEPT ![a] = "write"]
    /\ UNCHANGED <<saved, counted, debit, tried, reserved, trees, locks, passing, env>>

\* Fault model: a response longer than the range is written past it.
WritePastEnd(a) ==
    /\ st[a] = "write"
    /\ held' = [held EXCEPT ![a] = @ + 1]
    /\ st' = [st EXCEPT ![a] = "count"]
    /\ UNCHANGED <<saved, count, reserved, trees, locks, passing, env>>

\* A write is on disk before it is counted.
Write(a) ==
    /\ st[a] = "write"
    /\ held[a] < Size
    /\ held' = [held EXCEPT ![a] = @ + 1]
    /\ st' = [st EXCEPT ![a] = "count"]
    /\ UNCHANGED <<saved, count, reserved, trees, locks, passing, env>>

\* fromPeers keeps what the candidates delivered.
Count(a) ==
    /\ st[a] = "count"
    /\ counted' = [counted EXCEPT ![a] = @ + 1]
    /\ debit' = [debit EXCEPT ![a] = IF FromHub(a) THEN @ ELSE @ + 1]
    /\ st' = [st EXCEPT ![a] = "write"]
    /\ UNCHANGED <<file, tried, from, reserved, trees, locks, passing, env>>

\* What was hashed is recorded, on the intervals and when a source is done; a
\* candidate's bytes are hashed before they are counted.
Checkpoint(a) ==
    /\ st[a] = "write" \/ (st[a] = "count" /\ ~FromHub(a))
    /\ saved' = [saved EXCEPT ![a] = held[a]]
    /\ UNCHANGED <<st, held, count, reserved, trees, locks, passing, env>>

\* A candidate fails, and those set aside earlier are passed over.
PeerFails(a) ==
    /\ st[a] \in {"resume", "write", "count"}
    /\ \E n \in tried[a] + 1 .. env.peers : tried' = [tried EXCEPT ![a] = n]
    /\ st' = [st EXCEPT ![a] = "resume"]
    /\ UNCHANGED <<file, counted, debit, from, reserved, trees, locks, passing, env>>

\* All have: what they delivered is withdrawn from the count.
Withdraw(a) ==
    /\ st[a] = "resume"
    /\ FromHub(a)
    /\ debit[a] # 0
    /\ counted' = [counted EXCEPT ![a] = @ - debit[a]]
    /\ debit' = [debit EXCEPT ![a] = 0]
    /\ UNCHANGED <<st, file, tried, from, reserved, trees, locks, passing, env>>

\* A hub that does not honor a resume: the file is cut first, uncounted then.
StartOver(a) ==
    /\ env.whole
    /\ st[a] = "write"
    /\ FromHub(a)
    /\ from[a] > 0 /\ held[a] < Size
    /\ held' = [held EXCEPT ![a] = 0]
    /\ from' = [from EXCEPT ![a] = 0]
    /\ debit' = [debit EXCEPT ![a] = held[a]]
    /\ st' = [st EXCEPT ![a] = "uncount"]
    /\ UNCHANGED <<saved, counted, tried, reserved, trees, locks, passing, env>>

Uncount(a) ==
    /\ st[a] = "uncount"
    /\ counted' = [counted EXCEPT ![a] = @ - debit[a]]
    /\ debit' = [debit EXCEPT ![a] = 0]
    /\ st' = [st EXCEPT ![a] = "write"]
    /\ UNCHANGED <<file, tried, from, reserved, trees, locks, passing, env>>

\* The attempt's tree is renamed into published/.
Publish(a) ==
    /\ st[a] = "write"
    /\ held[a] = Size
    /\ held' = [held EXCEPT ![a] = 0]
    /\ saved' = [saved EXCEPT ![a] = 0]
    /\ kept' = kept + 1

\* The hub's file fails its check and is removed, with its checkpoint.
Discard(a) ==
    /\ st[a] = "write"
    /\ FromHub(a)
    /\ held' = [held EXCEPT ![a] = 0]
    /\ saved' = [saved EXCEPT ![a] = 0]
    /\ UNCHANGED kept

\* A failure leaves the file; a failed publication leaves no checkpoint.
Leave(a) ==
    /\ \/ UNCHANGED saved
       \/ st[a] = "write" /\ held[a] = Size /\ saved' = [saved EXCEPT ![a] = 0]
    /\ UNCHANGED <<held, kept>>

\* The attempt ends; release needs c.mu.
End(a) ==
    /\ st[a] \in {"resume", "write"}
    /\ mu = None
    /\ st' = [st EXCEPT ![a] = "idle"]
    /\ reserved' = reserved \ {a}
    /\ Publish(a) \/ Discard(a) \/ Leave(a)
    /\ UNCHANGED <<count, idle, locks, passing, env>>

-----------------------------------------------------------------------------
(* Collections, and what mounts, grace and pins do to the trees.            *)

\* Collect, by the timer.
BeginCollect ==
    /\ pass = None
    /\ mu = None
    /\ pass' = Timer
    /\ passIn' = InFlight
    /\ cands' = -1
    /\ UNCHANGED <<st, file, count, reserved, trees, locks, env>>

\* collect is running, for the timer or for a reservation.
Collecting == pass = Timer \/ (pass \in Attempts /\ st[pass] = "collect")

\* It starts with the stale partials of attempts that are not running.
RemovePartial(a) ==
    /\ Collecting
    /\ cands = -1
    /\ st[a] = "idle"
    /\ held[a] > 0 \/ saved[a] > 0
    /\ held' = [held EXCEPT ![a] = 0]
    /\ saved' = [saved EXCEPT ![a] = 0]
    /\ UNCHANGED <<st, count, reserved, trees, locks, passing, env>>

\* Above the high watermark the candidates are listed.
ListCandidates ==
    /\ Collecting
    /\ cands = -1
    /\ ~Fits(passIn, High)
    /\ cands' = idle
    /\ UNCHANGED <<st, file, count, reserved, trees, locks, pass, passIn, env>>

\* They go one by one while the low watermark is exceeded.
RemoveTree ==
    /\ Collecting
    /\ cands > 0
    /\ ~Fits(passIn, Low)
    /\ idle > 0
    /\ idle' = idle - 1
    /\ cands' = cands - 1
    /\ UNCHANGED <<st, file, count, reserved, kept, locks, pass, passIn, env>>

\* A candidate that was mounted or pinned meanwhile is passed over.
SkipTree ==
    /\ Collecting
    /\ cands > 0
    /\ ~Fits(passIn, Low)
    /\ kept > 0
    /\ cands' = cands - 1
    /\ UNCHANGED <<st, file, count, reserved, trees, locks, pass, passIn, env>>

\* collect returns: the timer's pass is over, a reservation's tries again.
Return ==
    /\ Collecting
    /\ passIn' = 0
    /\ IF pass = Timer
       THEN pass' = None /\ UNCHANGED st
       ELSE pass' = pass /\ st' = [st EXCEPT ![pass] = "last"]
    /\ UNCHANGED <<file, count, reserved, trees, locks, env>>

EndCollect ==
    \/ /\ cands = -1 /\ Fits(passIn, High)
       /\ cands' = 0
       /\ Return
    \/ /\ cands = 0 \/ (cands > 0 /\ Fits(passIn, Low))
       /\ cands' = cands
       /\ Return

\* The context is canceled or the store cannot be read.
CollectFails ==
    /\ Collecting
    /\ pass' = None /\ passIn' = 0 /\ cands' = -1
    /\ st' = IF pass = Timer THEN st ELSE [st EXCEPT ![pass] = "idle"]
    /\ UNCHANGED <<file, count, reserved, trees, locks, env>>

Keep ==
    /\ idle > 0
    /\ idle' = idle - 1
    /\ kept' = kept + 1
    /\ UNCHANGED <<st, file, count, reserved, locks, passing, env>>

Expire ==
    /\ kept > 0
    /\ kept' = kept - 1
    /\ idle' = idle + 1
    /\ UNCHANGED <<st, file, count, reserved, locks, passing, env>>

\* The plugin restarts: reservations and locks are memory.
Restart ==
    /\ st' = [a \in Attempts |-> "idle"]
    /\ reserved' = {}
    /\ mu' = None /\ incoming' = 0
    /\ pass' = None /\ passIn' = 0 /\ cands' = -1
    /\ UNCHANGED <<file, count, trees, env>>

Next ==
    \/ \E a \in Attempts :
          \/ List(a) \/ ReadCounts(a) \/ Admit(a) \/ Miss(a) \/ ReserveFails(a)
          \/ LockCollect(a) \/ Resume(a) \/ Write(a) \/ Count(a) \/ Checkpoint(a)
          \/ PeerFails(a) \/ Withdraw(a) \/ StartOver(a) \/ Uncount(a) \/ End(a)
          \/ RemovePartial(a)
    \/ BeginCollect \/ ListCandidates \/ RemoveTree \/ SkipTree \/ EndCollect
    \/ CollectFails \/ Keep \/ Expire \/ Restart

Spec == Init /\ [][Next]_vars

-----------------------------------------------------------------------------
(* Properties.                                                              *)

\* Reserve: what is on disk, with what every admitted download has yet to
\* write, stays under the high watermark, however writes, counts, admissions
\* and collections interleave ("reservations that each fit and together do not
\* are never all admitted").
RoomForAll ==
    Used + Total([a \in Attempts |-> Size - held[a]], reserved) <= High
-----------------------------------------------------------------------------
(* The inductive invariant behind RoomForAll.                               *)

\* Nothing is ever cut from a file that was counted: no candidates, and hubs
\* that honor a resume.
Steady == ~env.whole /\ env.peers = 0

\* Where files may be cut, there is one attempt.
Alone == Steady \/ \A a, b \in env.who : a = b

\* Reservations are held from Admit to End, by attempts of the environment.
StageInv ==
    \A a \in Attempts :
        /\ a \in reserved <=> st[a] \in Running
        /\ st[a] # "idle" => a \in env.who
        /\ st[a] = "uncount" => env.whole

\* What a reservation begins with is the checkpoint its file is cut to; where
\* nothing is cut later, all that is counted is on disk.
CountedInv ==
    \A a \in Attempts :
        /\ st[a] \in Tries \cup {"lock", "collect"} => counted[a] = Resumable(a)
        /\ Steady => /\ debit[a] = 0 /\ tried[a] = 0
                     /\ st[a] = "resume" => counted[a] = Resumable(a)
                     /\ st[a] = "write" => counted[a] <= held[a]
                     /\ st[a] = "count" => counted[a] < held[a]

\* The holder of c.mu is trying, and what it computed still covers its download
\* and those admitted: counts only grow meanwhile.
LockInv ==
    mu # None => /\ st[mu] \in Tries
                 /\ Alone => Rest(counted[mu]) + InFlight <= incoming

IndInv == TypeOK /\ StageInv /\ CountedInv /\ LockInv /\ (Alone => RoomForAll)
=============================================================================
