---------------------------- MODULE Materializer ----------------------------
(***************************************************************************)
(* The attempts at one digest (pkg/modelmanager/materialize) beside the     *)
(* collector that prunes what they leave (pkg/modelmanager/gc): a mount     *)
(* starts or joins an attempt, the attempt numbers itself and carries the   *)
(* previous one's directory over, tries its sources, and publishes or       *)
(* records a failure that holds the next one back.                          *)
(*                                                                          *)
(* Digests share no state here but the collector, which visits them one     *)
(* after another, so the module is about one of them.  Time is abstract: a  *)
(* backoff, a record's age, a partial's age and the waiter window each pass *)
(* by a step of their own.  A directory is the set of its files; a file's   *)
(* bytes are FileFetch's subject, a published tree's life ModelStore's.     *)
(***************************************************************************)
EXTENDS Naturals, FiniteSets

CONSTANTS
    Artifacts,   \* the model artifacts resolved to the digest
    Anchored,    \* those without a hub, anchored to the digest itself
    Files,       \* the manifest's files
    MaxNumber,   \* bound on attempt numbers
    MaxFailures, \* where the doubling of the backoff ends
    MaxFaults,   \* bounds crashes and failed writes
    Environments \* what a behaviour may meet:
                 \*   asking  the artifacts whose mounts ask
                 \*   ages    it outlasts the collector's PartialTTL
                 \*   faults  how many crashes and failed writes

ASSUME MaterializerAssumption ==
    /\ Anchored \subseteq Artifacts
    /\ MaxNumber \in Nat /\ MaxFailures \in Nat \ {0} /\ MaxFaults \in Nat
    /\ Environments \subseteq
          [asking : SUBSET Artifacts, ages : BOOLEAN, faults : 0..MaxFaults]

VARIABLES
    phase,       \* the running attempt's progress, "none" when jobs has none
    asked,       \* a mount asked within the waiter window
    canceled,    \* the attempt's context is canceled
    joined,      \* the artifacts that asked, and those of them left to try
    todo,
    cur,         \* the source being tried
    outcome,     \* how the attempt, or its last source, ended
    number,      \* the number handed out last
    prev,        \* what latestPartial found
    got, open,   \* files downloaded, and being downloaded
    rec,         \* the ledger's record of the digest
    owed,        \* a failed attempt's backoff has not passed
    dir, files,  \* the partial's number, 0 for none, and its files
    stale,       \* it was not written to for PartialTTL
    published, tree,
    gc, gcDir, gcTodo, gcOld,
    faults,
    env          \* fixed from the start

job   == <<phase, asked, canceled, joined, todo, cur, outcome>>
work  == <<number, prev, got, open>>
disk  == <<dir, files, stale, published, tree>>
ledger == <<rec, owed>>
collector == <<gc, gcDir, gcTodo, gcOld>>
vars  == <<job, work, disk, ledger, collector, faults, env>>

None     == "none"
Outcomes == {None, "published", "denied", "config", "failed", "canceled"}
NoRecord == [last |-> 0, failures |-> 0, reason |-> None, wait |-> FALSE, old |-> FALSE]

TypeOK ==
    /\ phase \in {None, "number", "update", "move", "source", "reserve", "fetch",
                  "record", "leave"}
    /\ asked \in BOOLEAN /\ canceled \in BOOLEAN
    /\ joined \subseteq Artifacts /\ todo \subseteq joined
    /\ cur \in Artifacts \cup {None}
    /\ outcome \in Outcomes
    /\ number \in 0..MaxNumber /\ prev \in 0..MaxNumber
    /\ got \subseteq Files /\ open \subseteq Files
    /\ rec \in [last : 0..MaxNumber, failures : 0..MaxFailures,
                reason : {None, "free", "failed"}, wait : BOOLEAN, old : BOOLEAN]
    /\ owed \in BOOLEAN
    /\ dir \in 0..MaxNumber /\ files \subseteq Files /\ stale \in BOOLEAN
    /\ published \in BOOLEAN /\ tree \subseteq Files
    /\ gc \in {"idle", "partials", "remove", "unlink", "records", "onDisk", "prune",
               "drop", "evict"}
    /\ gcDir \in 0..MaxNumber /\ gcTodo \subseteq Files /\ gcOld \in BOOLEAN
    /\ faults \in 0..MaxFaults
    /\ env \in Environments

Init ==
    /\ phase = None /\ asked = FALSE /\ canceled = FALSE
    /\ joined = {} /\ todo = {} /\ cur = None /\ outcome = None
    /\ number = 0 /\ prev = 0 /\ got = {} /\ open = {}
    /\ rec = NoRecord /\ owed = FALSE
    /\ dir = 0 /\ files = {} /\ stale = FALSE
    /\ published = FALSE /\ tree = {}
    /\ gc = "idle" /\ gcDir = 0 /\ gcTodo = {} /\ gcOld = FALSE
    /\ faults = 0
    /\ env \in Environments

-----------------------------------------------------------------------------
(* Mounts.                                                                  *)

\* Ensure under m.mu, without a running attempt: it starts one, unless the tree
\* is published or its backoff has not passed.
Start(a) ==
    /\ phase = None
    /\ ~published
    /\ ~(rec.reason # None /\ rec.wait)
    /\ number < MaxNumber
    /\ phase' = "number"
    /\ asked' = TRUE
    /\ canceled' = FALSE
    /\ joined' = {a}
    /\ todo' = {} /\ cur' = None /\ outcome' = None
    /\ got' = {} /\ open' = {}
    /\ UNCHANGED <<number, prev, disk, ledger, collector, faults>>

\* Ensure with one: its source is added to the attempt's.
Join(a) ==
    /\ phase # None
    /\ ~published
    /\ asked' = TRUE
    /\ joined' = joined \cup {a}
    /\ UNCHANGED <<phase, canceled, todo, cur, outcome, work, disk, ledger, collector, faults>>

-----------------------------------------------------------------------------
(* The attempt: run, attempt, NewAttempt, fromSource and fetchTree.         *)

\* latestPartial.
ReadLatest ==
    /\ phase = "number"
    /\ prev' = dir
    /\ phase' = "update"
    /\ UNCHANGED <<asked, canceled, joined, todo, cur, outcome, number, got, open, disk,
                   ledger, collector, faults>>

\* Fault model: the highest number is handed out again.
HighestNumber == IF rec.last > prev THEN rec.last ELSE IF prev > 0 THEN prev ELSE 1

\* The number after the record's and the partials' highest.
NextNumber == (IF rec.last > prev THEN rec.last ELSE prev) + 1

\* UpdateDigest under digestMu hands out the number.
HandOut ==
    /\ phase = "update"
    /\ NextNumber <= MaxNumber
    /\ number' = NextNumber
    /\ rec' = [rec EXCEPT !.last = NextNumber]
    /\ phase' = "move"
    /\ UNCHANGED <<asked, canceled, joined, todo, cur, outcome, prev, got, open, disk, owed,
                   collector, faults>>

\* Fault model: artifacts whose mounts never asked are tried.
AllSources == Artifacts

\* snapshotSources: the sources that have asked by now are the ones tried.
Sources == joined

\* The previous directory is renamed, or a new one made.
Carry ==
    /\ phase = "move"
    /\ prev = dir
    /\ dir' = number
    /\ files' = IF prev = 0 THEN {} ELSE files
    /\ stale' = (prev # 0 /\ stale)
    /\ todo' = Sources
    /\ phase' = "source"
    /\ UNCHANGED <<asked, canceled, joined, cur, outcome, work, published, tree, ledger,
                   collector, faults>>

\* The end of the attempt with an error, or of one source with a refusal that
\* another source may not meet.
Conclude(o) ==
    /\ outcome' = o
    /\ \/ /\ o \in {"denied", "config"}
          /\ cur' \notin Anchored
          /\ todo' # {}
          /\ phase' = "source"
          /\ owed' = owed
       \/ /\ ~(o \in {"denied", "config"} /\ cur' \notin Anchored /\ todo' # {})
          /\ phase' = "record"
          /\ owed' = (owed \/ o \in {"denied", "failed"})

\* The directory to carry is gone: NewAttempt fails, and with it the attempt.
CarryFails ==
    /\ phase = "move"
    /\ prev # 0 /\ prev # dir
    /\ Conclude("failed")
    /\ UNCHANGED <<asked, canceled, joined, todo, cur, work, disk, rec, collector, faults>>

\* So does a directory or a record that cannot be read or written.
NewAttemptFails ==
    /\ phase \in {"number", "update", "move"}
    /\ faults < env.faults
    /\ faults' = faults + 1
    /\ Conclude("failed")
    /\ UNCHANGED <<asked, canceled, joined, todo, cur, work, disk, rec, collector>>

\* Environment and the listing, from a hub or from the peers.
Pick(s) ==
    /\ phase = "source"
    /\ s \in todo
    /\ cur' = s
    /\ todo' = todo \ {s}
    /\ UNCHANGED <<asked, canceled, joined, work, disk, rec, collector, faults>>

List(s) ==
    /\ Pick(s)
    /\ ~canceled
    /\ phase' = "reserve"
    /\ UNCHANGED <<outcome, owed>>

ListFails(s) ==
    /\ Pick(s)
    /\ ~canceled
    /\ \E o \in IF s \in Anchored THEN {"failed"} ELSE {"config", "denied", "failed"} :
          Conclude(o)

\* The listing of a canceled attempt fails with the transport's error; only
\* fromPeersOnly asks whether the cancellation was the cause.
ListCanceled(s) ==
    /\ Pick(s)
    /\ canceled
    /\ Conclude(IF s \in Anchored THEN "canceled" ELSE "failed")

Reserve ==
    /\ phase = "reserve"
    /\ phase' = "fetch"
    /\ got' = {}
    /\ UNCHANGED <<asked, canceled, joined, todo, cur, outcome, number, prev, open, disk,
                   ledger, collector, faults>>

\* No room, or no watermarks in force.  A collection stopped by the canceled
\* context is one more reason to fail.
ReserveFails ==
    /\ phase = "reserve"
    /\ \E o \in {"config", "failed"} :
          /\ outcome' = o
          /\ owed' = (owed \/ o = "failed")
    /\ phase' = "record"
    /\ UNCHANGED <<asked, canceled, joined, todo, cur, work, disk, rec, collector, faults>>

\* A file is opened, made if it is not there.
OpenFile(f) ==
    /\ phase = "fetch"
    /\ f \notin got \cup open
    /\ open' = open \cup {f}
    /\ files' = files \cup {f}
    /\ stale' = FALSE
    /\ UNCHANGED <<job, number, prev, got, dir, published, tree, ledger, collector, faults>>

FetchFile(f) ==
    /\ phase = "fetch"
    /\ f \in open
    /\ open' = open \ {f}
    /\ got' = got \cup {f}
    /\ UNCHANGED <<job, number, prev, disk, ledger, collector, faults>>

\* One file fails the group, which waits for the others; a file that did not
\* verify is removed.
FetchFails ==
    /\ phase = "fetch"
    /\ ~canceled
    /\ open # {}
    /\ open' = {}
    /\ \E bad \in SUBSET open : files' = files \ bad
    /\ UNCHANGED <<todo, cur>>
    /\ \E o \in IF cur \in Anchored THEN {"failed"} ELSE {"denied", "failed"} : Conclude(o)
    /\ UNCHANGED <<asked, canceled, joined, number, prev, got, dir, stale, published, tree,
                   rec, collector, faults>>

\* Fault model: the group's last files are not waited for.
SomeFetched == got # {}

\* The group of downloads has ended without an error.
AllFetched == got = Files

FetchCanceled ==
    /\ phase = "fetch"
    /\ canceled
    /\ ~AllFetched
    /\ open' = {}
    /\ outcome' = "canceled"
    /\ phase' = "record"
    /\ UNCHANGED <<asked, canceled, joined, todo, cur, number, prev, got, disk, ledger,
                   collector, faults>>

\* Publish renames the directory, whatever is in it.
Publish ==
    /\ phase = "fetch"
    /\ AllFetched
    /\ published' = TRUE
    /\ tree' = files
    /\ dir' = 0 /\ files' = {} /\ stale' = FALSE
    /\ outcome' = "published"
    /\ phase' = "record"
    /\ UNCHANGED <<asked, canceled, joined, todo, cur, work, ledger, collector, faults>>

\* Fault model: a refused credential leaves the next mount free.
RecordedFree ==
    IF outcome = "published"
    THEN [rec EXCEPT !.failures = 0, !.reason = None, !.wait = FALSE, !.old = FALSE]
    ELSE [rec EXCEPT !.reason = "free", !.wait = (outcome = "failed"), !.old = FALSE]

\* record: what the outcome means for the next attempt.
Recorded ==
    CASE outcome = "published" ->
            [rec EXCEPT !.failures = 0, !.reason = None, !.wait = FALSE, !.old = FALSE]
      [] outcome \in {"canceled", "config"} ->
            [rec EXCEPT !.reason = "free", !.wait = FALSE, !.old = FALSE]
      [] OTHER ->
            [rec EXCEPT !.failures = IF @ < MaxFailures THEN @ + 1 ELSE @,
                        !.reason = "failed", !.wait = TRUE, !.old = FALSE]

Record ==
    /\ phase = "record"
    /\ rec' = Recorded
    /\ phase' = "leave"
    /\ UNCHANGED <<asked, canceled, joined, todo, cur, outcome, work, disk, owed, collector,
                   faults>>

\* The ledger cannot be written: that is logged, and the backoff is not known.
RecordFails ==
    /\ phase = "record"
    /\ faults < env.faults
    /\ faults' = faults + 1
    /\ phase' = "leave"
    /\ owed' = FALSE
    /\ UNCHANGED <<asked, canceled, joined, todo, cur, outcome, work, disk, rec, collector>>

Leave ==
    /\ phase = "leave"
    /\ phase' = None
    /\ UNCHANGED <<asked, canceled, joined, todo, cur, outcome, work, disk, ledger,
                   collector, faults>>

\* Fault model: the watcher looks once, before the first download.
WatchedAtStart == phase \in {"number", "update", "move"}

\* The watcher runs from the attempt's start until it returns.
Watched == phase \in {"number", "update", "move", "source", "reserve", "fetch"}

\* watchWaiters: nobody asked within the window, so the attempt is canceled.
Watch ==
    /\ Watched
    /\ ~asked
    /\ ~canceled
    /\ canceled' = TRUE
    /\ UNCHANGED <<phase, asked, joined, todo, cur, outcome, work, disk, ledger, collector,
                   faults>>

-----------------------------------------------------------------------------
(* Time.                                                                    *)

WindowPasses ==
    /\ phase # None
    /\ asked
    /\ asked' = FALSE
    /\ UNCHANGED <<phase, canceled, joined, todo, cur, outcome, work, disk, ledger,
                   collector, faults>>

BackoffPasses ==
    /\ rec.wait
    /\ rec' = [rec EXCEPT !.wait = FALSE]
    /\ owed' = FALSE
    /\ UNCHANGED <<job, work, disk, collector, faults>>

RecordAges ==
    /\ env.ages
    /\ rec.reason # None
    /\ ~rec.wait
    /\ ~rec.old
    /\ rec' = [rec EXCEPT !.old = TRUE]
    /\ UNCHANGED <<job, work, disk, owed, collector, faults>>

PartialAges ==
    /\ env.ages
    /\ phase = None
    /\ dir # 0
    /\ ~stale
    /\ stale' = TRUE
    /\ UNCHANGED <<job, work, dir, files, published, tree, ledger, collector, faults>>

-----------------------------------------------------------------------------
(* The collector.  Each reading is a step: nothing keeps attempts out.      *)

ListPartials ==
    /\ gc = "idle"
    /\ gc' = "partials"
    /\ gcDir' = IF stale THEN dir ELSE 0
    /\ UNCHANGED <<job, work, disk, ledger, gcTodo, gcOld, faults>>

CheckDownloading ==
    /\ gc = "partials"
    /\ gc' = IF gcDir # 0 /\ phase = None THEN "remove" ELSE "records"
    /\ UNCHANGED <<job, work, disk, ledger, gcDir, gcTodo, gcOld, faults>>

\* RemoveAll opens the directory, if it still has its name, and lists it ...
OpenPartial ==
    /\ gc = "remove"
    /\ IF dir = gcDir
       THEN gc' = "unlink" /\ gcTodo' = files
       ELSE gc' = "records" /\ gcTodo' = {}
    /\ UNCHANGED <<job, work, disk, ledger, gcDir, gcOld, faults>>

\* ... unlinks what it listed in the directory it holds, renamed or not ...
Unlink(f) ==
    /\ gc = "unlink"
    /\ f \in gcTodo
    /\ gcTodo' = gcTodo \ {f}
    /\ IF published
       THEN tree' = tree \ {f} /\ files' = files
       ELSE files' = files \ {f} /\ tree' = tree
    /\ UNCHANGED <<job, work, dir, stale, published, ledger, gc, gcDir, gcOld, faults>>

\* ... and removes the name, if it is still there.
RemoveDir ==
    /\ gc = "unlink"
    /\ gcTodo = {}
    /\ gc' = "records"
    /\ IF dir = gcDir
       THEN dir' = 0 /\ files' = {} /\ stale' = FALSE
       ELSE UNCHANGED <<dir, files, stale>>
    /\ UNCHANGED <<job, work, published, tree, ledger, gcDir, gcTodo, gcOld, faults>>

\* pruneRecords: the records, then the partials, then each digest's state.
ReadRecords ==
    /\ gc = "records"
    /\ gc' = "onDisk"
    /\ gcOld' = (rec.reason # None /\ rec.old)
    /\ UNCHANGED <<job, work, disk, ledger, gcDir, gcTodo, faults>>

ReadOnDisk ==
    /\ gc = "onDisk"
    /\ gc' = "prune"
    /\ gcOld' = (gcOld /\ dir = 0)
    /\ UNCHANGED <<job, work, disk, ledger, gcDir, gcTodo, faults>>

CheckRecord ==
    /\ gc = "prune"
    /\ gc' = IF gcOld /\ ~published /\ phase = None THEN "drop" ELSE "evict"
    /\ UNCHANGED <<job, work, disk, ledger, gcDir, gcTodo, gcOld, faults>>

RemoveDigest ==
    /\ gc = "drop"
    /\ rec' = NoRecord
    /\ gc' = "evict"
    /\ UNCHANGED <<job, work, disk, owed, gcDir, gcTodo, gcOld, faults>>

\* The rest of a collection: the tree is removed, as in ModelStore, or stays.
Evict ==
    /\ gc = "evict"
    /\ gc' = "idle"
    /\ gcDir' = 0 /\ gcOld' = FALSE
    /\ \/ /\ published /\ phase = None
          /\ published' = FALSE /\ tree' = {}
       \/ UNCHANGED <<published, tree>>
    /\ UNCHANGED <<job, work, dir, files, stale, ledger, gcTodo, faults>>

-----------------------------------------------------------------------------
\* The plugin stops at any point and starts again: memory is lost.
Crash ==
    /\ faults < env.faults
    /\ faults' = faults + 1
    /\ phase' = None /\ asked' = FALSE /\ canceled' = FALSE
    /\ joined' = {} /\ todo' = {} /\ cur' = None /\ outcome' = None
    /\ prev' = 0 /\ got' = {} /\ open' = {}
    /\ owed' = (owed /\ rec.wait)
    /\ gc' = "idle" /\ gcDir' = 0 /\ gcTodo' = {} /\ gcOld' = FALSE
    /\ UNCHANGED <<number, disk, rec>>

\* What a canceled or failing attempt does by itself.
Run ==
    \/ ReadLatest \/ HandOut \/ Carry \/ CarryFails \/ NewAttemptFails
    \/ \E s \in Artifacts : List(s) \/ ListFails(s) \/ ListCanceled(s)
    \/ Reserve \/ ReserveFails \/ FetchCanceled \/ Record \/ RecordFails \/ Leave

Download == \/ \E f \in Files : OpenFile(f) \/ FetchFile(f)
            \/ FetchFails \/ Publish

Time == WindowPasses \/ BackoffPasses \/ RecordAges \/ PartialAges

Collect ==
    \/ ListPartials \/ CheckDownloading \/ OpenPartial \/ RemoveDir
    \/ \E f \in Files : Unlink(f)
    \/ ReadRecords \/ ReadOnDisk \/ CheckRecord \/ RemoveDigest \/ Evict

Next ==
    /\ \/ \E a \in env.asking : Start(a) \/ Join(a)
       \/ Run \/ Download \/ Watch \/ Time \/ Collect \/ Crash
    /\ UNCHANGED env

Spec == Init /\ [][Next]_vars

\* The attempt's own steps and its watcher are goroutines that run; how long a
\* download takes is the network's affair, so no fairness is assumed of it, but
\* the files that are there are published.
FairSpec ==
    /\ Spec
    /\ WF_vars(Run /\ UNCHANGED env)
    /\ WF_vars(Publish /\ UNCHANGED env)
    /\ WF_vars(Watch /\ UNCHANGED env)

-----------------------------------------------------------------------------
(* Properties.                                                              *)

\* run: "a mount that finds no running attempt always finds its backoff".  An
\* attempt does not start while the backoff of a failed one has not passed, in
\* behaviours too short for its record to be pruned.
BackoffHonored ==
    [][phase = None /\ phase' = "number" /\ ~env.ages => ~owed]_vars

\* NewAttempt and RemovePartial: while an attempt runs in its directory, the
\* directory keeps its name; a removal meant for another attempt's misses it.
AttemptKeepsDir == phase \in {"source", "reserve", "fetch"} => dir = number

\* fetchTree and Publish: a published tree has every file of the manifest, so
\* no file of a running attempt was removed under it.
PublishedComplete == published => tree = Files

\* The same of behaviours too short for a partial to be pruned: attempts that
\* fail, are canceled, crash and carry each other's files over add up to the
\* whole tree.
CompleteUnpruned == ~env.ages => PublishedComplete

\* DigestRecord.LastAttempt: a number is never handed out again while the
\* digest's record is kept.
NumbersRise ==
    [][phase = "update" /\ phase' = "move" /\ ~env.ages => number' > number]_vars

\* watchWaiters: an attempt that no mount asks for any more ends, even if its
\* downloads never do.
AbandonedEnds == (phase # None /\ ~asked) ~> (phase = None \/ asked)

-----------------------------------------------------------------------------
(* The inductive invariant behind the safety properties.                    *)

Attempting == {"number", "update", "move", "source", "reserve", "fetch"}
InDir      == {"source", "reserve", "fetch"}

\* An attempt runs only while the tree is not published, and its number is past
\* that of every partial it found.
NumberInv ==
    /\ phase \in Attempting => ~published
    /\ phase \in {"update", "move"} => dir <= prev
    /\ phase = "move" => prev < number
    /\ AttemptKeepsDir

\* The collector means a partial no later than the one that is there, and an
\* attempt that started after it looked runs in a later one.
CollectorInv ==
    /\ gc \in {"partials", "remove", "unlink"} /\ gcDir # 0 /\ ~published => gcDir <= dir
    /\ gc \in {"remove", "unlink"} => gcDir # 0
    /\ gc \in {"remove", "unlink"} /\ phase \in InDir => gcDir < number

\* A file is open only while it is fetched, and once.
OpenInv ==
    /\ phase # "fetch" => open = {}
    /\ got \cap open = {}

\* Nothing is pruned while nothing is old enough.
YoungInv ==
    /\ ~stale /\ gcDir = 0 /\ ~rec.old /\ ~gcOld
    /\ gc \notin {"remove", "unlink", "drop"}

\* What an attempt downloaded is in its directory, and the record counts on.
KeptInv ==
    /\ phase = "fetch" => got \cup open \subseteq files
    /\ rec.last = number

\* A failure's backoff is in the record by the time a mount can look for it.
BackoffInv ==
    /\ phase \in Attempting => ~owed
    /\ phase = "record" /\ owed => outcome \in {"denied", "failed"}
    /\ phase \in {None, "leave"} /\ owed => rec.wait
    /\ rec.wait => rec.reason # None

IndInv ==
    /\ TypeOK /\ NumberInv /\ CollectorInv /\ OpenInv
    /\ ~env.ages => YoungInv /\ KeptInv /\ BackoffInv /\ PublishedComplete
=============================================================================
