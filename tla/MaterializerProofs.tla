------------------------- MODULE MaterializerProofs -------------------------
(***************************************************************************)
(* Proofs about Materializer for any artifacts, files, bounds and           *)
(* environments: IndInv is inductive, so an attempt keeps its directory     *)
(* beside the collector, attempts that nothing is pruned from add up to the *)
(* whole tree, backoffs are honored and numbers rise.                       *)
(***************************************************************************)
EXTENDS Materializer, TLAPS

\* What the assumption on the constants says of a behaviour's environment.
LEMMA Bounds ==
    ASSUME TypeOK
    PROVE  /\ MaxNumber \in Nat /\ MaxFailures \in Nat \ {0} /\ MaxFaults \in Nat
           /\ env.asking \subseteq Artifacts /\ env.ages \in BOOLEAN
           /\ env.faults \in 0..MaxFaults
BY MaterializerAssumption DEF TypeOK

\* The first start finds nothing on disk and in the ledger.
LEMMA InitInv == Init => IndInv
<1> SUFFICES ASSUME Init PROVE IndInv
  OBVIOUS
<1>1. TypeOK
  <2>1. rec \in [last : 0..MaxNumber, failures : 0..MaxFailures,
                reason : {None, "free", "failed"}, wait : BOOLEAN, old : BOOLEAN]
    BY MaterializerAssumption DEF Init, NoRecord
  <2>2. /\ number \in 0..MaxNumber /\ prev \in 0..MaxNumber /\ dir \in 0..MaxNumber
        /\ gcDir \in 0..MaxNumber /\ faults \in 0..MaxFaults
    BY MaterializerAssumption DEF Init
  <2>3. /\ asked \in BOOLEAN /\ canceled \in BOOLEAN /\ owed \in BOOLEAN /\ stale \in BOOLEAN
        /\ published \in BOOLEAN /\ gcOld \in BOOLEAN
    BY DEF Init
  <2> QED
    BY <2>1, <2>2, <2>3 DEF Init, TypeOK, Outcomes
<1>2. NumberInv /\ CollectorInv /\ OpenInv
  BY DEF Init, NumberInv, CollectorInv, OpenInv, AttemptKeepsDir, Attempting, InDir, None
<1>3. YoungInv /\ KeptInv /\ BackoffInv /\ PublishedComplete
  BY DEF Init, YoungInv, KeptInv, BackoffInv, PublishedComplete, NoRecord, Attempting, None
<1> QED
  BY <1>1, <1>2, <1>3 DEF IndInv

\* Ensure: an attempt starts where none runs and no backoff is due, and a mount
\* that finds one joins it.
LEMMA MountInv ==
    ASSUME IndInv, UNCHANGED env, NEW a \in env.asking, Start(a) \/ Join(a)
    PROVE  IndInv'
<1> USE DEF IndInv, work, disk, ledger, collector
<1>1. CASE Start(a)
  <2>1. TypeOK'
    <3>1. /\ phase' = "number" /\ asked' = TRUE /\ canceled' = FALSE /\ joined' = {a}
          /\ todo' = {} /\ cur' = None /\ outcome' = None /\ got' = {} /\ open' = {}
      BY <1>1 DEF Start
    <3>2. UNCHANGED <<number, prev, rec, owed, dir, files, stale, published, tree, gc, gcDir,
                      gcTodo, gcOld, faults, env>>
      BY <1>1 DEF Start
    <3>3. a \in Artifacts
      BY Bounds
    <3>4. /\ asked' \in BOOLEAN /\ canceled' \in BOOLEAN
          /\ owed' \in BOOLEAN /\ stale' \in BOOLEAN /\ published' \in BOOLEAN /\ gcOld' \in BOOLEAN
      BY <3>1, <3>2, Zenon DEF TypeOK
    <3> QED
      BY <3>1, <3>2, <3>3, <3>4 DEF TypeOK, Outcomes
  <2>2. NumberInv' /\ CollectorInv' /\ OpenInv'
    BY <1>1 DEF Start, NumberInv, CollectorInv, OpenInv, AttemptKeepsDir, InDir
  <2>3. ~env.ages => YoungInv' /\ KeptInv' /\ BackoffInv' /\ PublishedComplete'
    BY <1>1 DEF Start, YoungInv, KeptInv, BackoffInv, PublishedComplete, None
  <2> QED
    BY <2>1, <2>2, <2>3
<1>2. CASE Join(a)
  <2>1. TypeOK'
    BY <1>2, Bounds DEF Join, TypeOK
  <2>2. NumberInv' /\ CollectorInv' /\ OpenInv'
    BY <1>2 DEF Join, NumberInv, CollectorInv, OpenInv, AttemptKeepsDir
  <2>3. ~env.ages => YoungInv' /\ KeptInv' /\ BackoffInv' /\ PublishedComplete'
    BY <1>2 DEF Join, YoungInv, KeptInv, BackoffInv, PublishedComplete
  <2> QED
    BY <2>1, <2>2, <2>3
<1> QED
  BY <1>1, <1>2

\* A step that ends an attempt, or one of its sources, leaves the directory, the
\* ledger and the collector alone; a failure owes a backoff from then on.
LEMMA ConcludeInv ==
    ASSUME IndInv, phase \in Attempting, NEW o \in Outcomes \ {"published"},
           outcome' = o, phase' \in {"source", "record"},
           phase' = "source" => phase \in InDir /\ owed' = owed,
           phase' = "record" => owed' = (owed \/ o \in {"denied", "failed"}),
           joined' = joined, todo' \subseteq joined, cur' \in Artifacts \cup {None},
           open' = {}, files' \subseteq files, faults' \in 0..MaxFaults,
           UNCHANGED <<asked, canceled, number, prev, got, dir, stale, published, tree, rec,
                       collector, env>>
    PROVE  IndInv'
<1> USE DEF IndInv, collector
<1>1. TypeOK'
  <2>1. owed' \in BOOLEAN
    BY Zenon DEF TypeOK
  <2> QED
    BY <2>1 DEF TypeOK, Outcomes
<1>2. NumberInv' /\ CollectorInv' /\ OpenInv'
  BY DEF NumberInv, CollectorInv, OpenInv, AttemptKeepsDir, Attempting, InDir
<1>3. ~env.ages => YoungInv' /\ KeptInv' /\ BackoffInv' /\ PublishedComplete'
  BY DEF YoungInv, KeptInv, BackoffInv, PublishedComplete, Attempting, InDir, None
<1> QED
  BY <1>1, <1>2, <1>3

\* NewAttempt: the number is past the record's and the partial's, and the
\* partial is carried over only if it is still there.
LEMMA NewAttemptInv ==
    ASSUME IndInv, UNCHANGED env,
           ReadLatest \/ HandOut \/ Carry \/ CarryFails \/ NewAttemptFails
    PROVE  IndInv'
<1> USE DEF IndInv
<1>1. CASE ReadLatest
  <2> USE <1>1 DEF ReadLatest, disk, ledger, collector
  <2>1. TypeOK'
    BY DEF TypeOK
  <2>2. NumberInv' /\ CollectorInv' /\ OpenInv'
    BY Bounds DEF TypeOK, NumberInv, CollectorInv, OpenInv, AttemptKeepsDir, Attempting, InDir
  <2>3. ~env.ages => YoungInv' /\ KeptInv' /\ BackoffInv' /\ PublishedComplete'
    BY DEF YoungInv, KeptInv, BackoffInv, PublishedComplete, Attempting, None
  <2> QED
    BY <2>1, <2>2, <2>3
<1>2. CASE HandOut
  <2> USE <1>2 DEF HandOut, disk, ledger, collector
  <2>1. NextNumber \in 0..MaxNumber /\ prev < NextNumber /\ rec'.last = NextNumber
    BY Bounds DEF TypeOK, NextNumber
  <2>2. UNCHANGED <<rec.failures, rec.reason, rec.wait, rec.old>>
    BY DEF TypeOK
  <2>3. TypeOK'
    BY <2>1 DEF TypeOK
  <2>4. NumberInv' /\ CollectorInv' /\ OpenInv'
    BY <2>1 DEF NumberInv, CollectorInv, OpenInv, AttemptKeepsDir, Attempting, InDir
  <2>5. ~env.ages => YoungInv' /\ KeptInv' /\ BackoffInv' /\ PublishedComplete'
    BY <2>1, <2>2 DEF YoungInv, KeptInv, BackoffInv, PublishedComplete, Attempting, None
  <2> QED
    BY <2>3, <2>4, <2>5
<1>3. CASE Carry
  <2> USE <1>3 DEF Carry, work, ledger, collector
  <2>1. TypeOK'
    BY DEF TypeOK, Sources
  <2>2. NumberInv' /\ OpenInv'
    BY DEF NumberInv, OpenInv, AttemptKeepsDir, Attempting, InDir
  <2>3. CollectorInv'
    BY Bounds DEF TypeOK, NumberInv, CollectorInv, Attempting
  <2>4. ~env.ages => YoungInv' /\ KeptInv' /\ BackoffInv' /\ PublishedComplete'
    BY DEF YoungInv, KeptInv, BackoffInv, PublishedComplete, Attempting, None
  <2> QED
    BY <2>1, <2>2, <2>3, <2>4
<1>4. CASE CarryFails \/ NewAttemptFails
  <2>1. /\ phase \in {"number", "update", "move"} /\ Conclude("failed")
        /\ UNCHANGED <<asked, canceled, joined, todo, cur, number, prev, got, open, dir, files,
                       stale, published, tree, rec, collector>>
        /\ faults' \in 0..MaxFaults
    BY <1>4, Bounds DEF CarryFails, NewAttemptFails, TypeOK, work, disk
  <2>2. outcome' = "failed" /\ phase' = "record" /\ owed' = (owed \/ "failed" \in {"denied", "failed"})
    BY <2>1, Zenon DEF Conclude
  <2>3. open' = {} /\ files' \subseteq files /\ todo' \subseteq joined /\ cur' \in Artifacts \cup {None}
    BY <2>1 DEF OpenInv, TypeOK
  <2> QED
    BY <2>1, <2>2, <2>3, ConcludeInv DEF Attempting, Outcomes
<1> QED
  BY <1>1, <1>2, <1>3, <1>4

\* fromSource: a source is listed and reserved for, or refused; what another
\* source may not meet lets the attempt go on with the next.
LEMMA SourceInv ==
    ASSUME IndInv, UNCHANGED env,
           \/ \E s \in Artifacts : List(s) \/ ListFails(s) \/ ListCanceled(s)
           \/ Reserve \/ ReserveFails
    PROVE  IndInv'
<1> USE DEF IndInv
<1>1. ASSUME NEW s \in Artifacts, List(s)
      PROVE  IndInv'
  <2> USE <1>1 DEF List, Pick, work, disk, collector
  <2>1. TypeOK'
    BY DEF TypeOK
  <2>2. NumberInv' /\ CollectorInv' /\ OpenInv'
    BY DEF NumberInv, CollectorInv, OpenInv, AttemptKeepsDir, Attempting, InDir
  <2>3. ~env.ages => YoungInv' /\ KeptInv' /\ BackoffInv' /\ PublishedComplete'
    BY DEF YoungInv, KeptInv, BackoffInv, PublishedComplete, Attempting, None
  <2> QED
    BY <2>1, <2>2, <2>3
<1>2. ASSUME NEW s \in Artifacts, ListFails(s) \/ ListCanceled(s)
      PROVE  IndInv'
  <2>1. Pick(s) /\ \E o \in {"config", "denied", "failed", "canceled"} : Conclude(o)
    BY <1>2 DEF ListFails, ListCanceled
  <2>2. PICK o \in {"config", "denied", "failed", "canceled"} : Conclude(o)
    BY <2>1
  <2>3. /\ outcome' = o /\ phase' \in {"source", "record"}
        /\ phase' = "source" => owed' = owed
        /\ phase' = "record" => owed' = (owed \/ o \in {"denied", "failed"})
    BY <2>2, Zenon DEF Conclude
  <2>4. /\ phase = "source" /\ todo' \subseteq joined /\ cur' \in Artifacts \cup {None}
        /\ open' = {} /\ files' \subseteq files /\ faults' \in 0..MaxFaults
        /\ UNCHANGED <<asked, canceled, joined, number, prev, got, dir, stale, published, tree,
                       rec, collector>>
    BY <2>1 DEF Pick, TypeOK, OpenInv, work, disk
  <2> QED
    BY <2>3, <2>4, ConcludeInv DEF Attempting, InDir, Outcomes
<1>3. CASE Reserve
  <2> USE <1>3 DEF Reserve, disk, ledger, collector
  <2>1. TypeOK'
    BY DEF TypeOK
  <2>2. NumberInv' /\ CollectorInv' /\ OpenInv'
    BY DEF NumberInv, CollectorInv, OpenInv, AttemptKeepsDir, Attempting, InDir
  <2>3. ~env.ages => YoungInv' /\ KeptInv' /\ BackoffInv' /\ PublishedComplete'
    BY DEF OpenInv, YoungInv, KeptInv, BackoffInv, PublishedComplete, Attempting, None
  <2> QED
    BY <2>1, <2>2, <2>3
<1>4. CASE ReserveFails
  <2>1. PICK o \in {"config", "failed"} : outcome' = o /\ owed' = (owed \/ o = "failed")
    BY <1>4 DEF ReserveFails
  <2>2. phase' = "record" /\ owed' = (owed \/ o \in {"denied", "failed"})
    BY <1>4, <2>1, Zenon DEF ReserveFails
  <2>3. /\ phase = "reserve" /\ todo' \subseteq joined /\ cur' \in Artifacts \cup {None}
        /\ open' = {} /\ files' \subseteq files /\ faults' \in 0..MaxFaults
        /\ UNCHANGED <<asked, canceled, joined, number, prev, got, dir, stale, published, tree,
                       rec, collector>>
    BY <1>4 DEF ReserveFails, TypeOK, OpenInv, work, disk
  <2> QED
    BY <2>1, <2>2, <2>3, ConcludeInv DEF Attempting, Outcomes
<1> QED
  BY <1>1, <1>2, <1>3, <1>4

\* fetchTree and Publish: a file that is fetched is in the directory, so what is
\* renamed has all of them while the collector removes none.
LEMMA FetchInv ==
    ASSUME IndInv, UNCHANGED env,
           \/ \E f \in Files : OpenFile(f) \/ FetchFile(f)
           \/ FetchFails \/ FetchCanceled \/ Publish
    PROVE  IndInv'
<1> USE DEF IndInv
<1>1. ASSUME NEW f \in Files, OpenFile(f)
      PROVE  IndInv'
  <2> USE <1>1 DEF OpenFile, job, ledger, collector
  <2>1. TypeOK'
    <3>1. open' \subseteq Files /\ files' \subseteq Files /\ stale' \in BOOLEAN
      BY DEF TypeOK
    <3> QED
      BY <3>1 DEF TypeOK
  <2>2. NumberInv' /\ CollectorInv' /\ OpenInv'
    BY DEF NumberInv, CollectorInv, OpenInv, AttemptKeepsDir
  <2>3. ~env.ages => YoungInv' /\ KeptInv' /\ BackoffInv' /\ PublishedComplete'
    BY DEF YoungInv, KeptInv, BackoffInv, PublishedComplete
  <2> QED
    BY <2>1, <2>2, <2>3
<1>2. ASSUME NEW f \in Files, FetchFile(f)
      PROVE  IndInv'
  <2> USE <1>2 DEF FetchFile, job, disk, ledger, collector
  <2>1. TypeOK'
    BY DEF TypeOK
  <2>2. NumberInv' /\ CollectorInv' /\ OpenInv'
    BY DEF NumberInv, CollectorInv, OpenInv, AttemptKeepsDir
  <2>3. ~env.ages => YoungInv' /\ KeptInv' /\ BackoffInv' /\ PublishedComplete'
    BY DEF YoungInv, KeptInv, BackoffInv, PublishedComplete
  <2> QED
    BY <2>1, <2>2, <2>3
<1>3. CASE FetchFails
  <2>1. PICK o \in {"denied", "failed"} : Conclude(o)
    BY <1>3 DEF FetchFails
  <2>2. /\ outcome' = o /\ phase' \in {"source", "record"}
        /\ phase' = "source" => owed' = owed
        /\ phase' = "record" => owed' = (owed \/ o \in {"denied", "failed"})
    BY <2>1, Zenon DEF Conclude
  <2>3. /\ phase = "fetch" /\ todo' \subseteq joined /\ cur' \in Artifacts \cup {None}
        /\ open' = {} /\ files' \subseteq files /\ faults' \in 0..MaxFaults
        /\ UNCHANGED <<asked, canceled, joined, number, prev, got, dir, stale, published, tree,
                       rec, collector>>
    BY <1>3 DEF FetchFails, TypeOK
  <2> QED
    BY <2>2, <2>3, ConcludeInv DEF Attempting, InDir, Outcomes
<1>4. CASE FetchCanceled
  <2>1. /\ outcome' = "canceled" /\ phase' = "record" /\ owed' = owed
        /\ phase = "fetch" /\ todo' \subseteq joined /\ cur' \in Artifacts \cup {None}
        /\ open' = {} /\ files' \subseteq files /\ faults' \in 0..MaxFaults
        /\ UNCHANGED <<asked, canceled, joined, number, prev, got, dir, stale, published, tree,
                       rec, collector>>
    BY <1>4 DEF FetchCanceled, TypeOK, disk, ledger
  <2>2. owed' = (owed \/ "canceled" \in {"denied", "failed"})
    <3>1. owed \in BOOLEAN
      BY DEF TypeOK
    <3>2. "canceled" \notin {"denied", "failed"}
      OBVIOUS
    <3> QED
      BY <2>1, <3>1, <3>2, Zenon
  <2> QED
    BY <2>1, <2>2, ConcludeInv DEF Attempting, Outcomes
<1>5. CASE Publish
  <2> USE <1>5 DEF Publish, AllFetched, work, ledger, collector
  <2>1. open = {}
    BY DEF OpenInv, TypeOK
  <2>2. TypeOK'
    <3>1. dir' \in 0..MaxNumber
      BY Bounds
    <3>2. stale' \in BOOLEAN /\ published' \in BOOLEAN
      BY Zenon
    <3>3. files' \subseteq Files /\ tree' \subseteq Files /\ outcome' \in Outcomes
      BY DEF TypeOK, Outcomes
    <3> QED
      BY <3>1, <3>2, <3>3 DEF TypeOK
  <2>3. NumberInv' /\ CollectorInv' /\ OpenInv'
    BY <2>1 DEF NumberInv, CollectorInv, OpenInv, AttemptKeepsDir, Attempting, InDir
  <2>4. ~env.ages => YoungInv' /\ KeptInv' /\ BackoffInv' /\ PublishedComplete'
    BY DEF TypeOK, YoungInv, KeptInv, BackoffInv, PublishedComplete, Attempting, None
  <2> QED
    BY <2>2, <2>3, <2>4
<1> QED
  BY <1>1, <1>2, <1>3, <1>4, <1>5

\* record: the outcome is in the record before the attempt is over, or the
\* ledger could not be written and nothing is owed.
LEMMA RecordInv ==
    ASSUME IndInv, UNCHANGED env, Record \/ RecordFails \/ Leave
    PROVE  IndInv'
<1> USE DEF IndInv
<1>1. CASE Record
  <2> USE <1>1 DEF Record, work, disk, collector
  <2>1. /\ rec'.last = rec.last /\ rec'.old = FALSE
        /\ rec' \in [last : 0..MaxNumber, failures : 0..MaxFailures,
                     reason : {None, "free", "failed"}, wait : BOOLEAN, old : BOOLEAN]
    <3>1. /\ rec.last \in 0..MaxNumber /\ rec.failures \in 0..MaxFailures
          /\ rec = [last |-> rec.last, failures |-> rec.failures, reason |-> rec.reason,
                    wait |-> rec.wait, old |-> rec.old]
      BY DEF TypeOK
    <3>2. CASE outcome = "published"
      <4>1. rec' = [rec EXCEPT !.failures = 0, !.reason = None, !.wait = FALSE, !.old = FALSE]
        BY <3>2 DEF Recorded
      <4>2. rec' = [last |-> rec.last, failures |-> 0, reason |-> None, wait |-> FALSE,
                    old |-> FALSE]
        BY <3>1, <4>1
      <4> QED
        BY <3>1, <4>2, Bounds
    <3>3. CASE outcome \in {"canceled", "config"}
      BY <3>3 DEF Recorded, TypeOK
    <3>4. CASE outcome \notin {"published", "canceled", "config"}
      <4>1. (IF rec.failures < MaxFailures THEN rec.failures + 1 ELSE rec.failures)
               \in 0..MaxFailures
        BY <3>1, Bounds
      <4> QED
        BY <3>4, <4>1 DEF Recorded, TypeOK
    <3> QED
      BY <3>2, <3>3, <3>4
  <2>2. rec'.wait => rec'.reason # None
    BY DEF TypeOK, Recorded, None
  <2>3. outcome \in {"denied", "failed"} => rec'.wait
    BY DEF TypeOK, Recorded
  <2>4. TypeOK'
    BY <2>1 DEF TypeOK
  <2>5. NumberInv' /\ CollectorInv' /\ OpenInv'
    BY DEF NumberInv, CollectorInv, OpenInv, AttemptKeepsDir, Attempting, InDir
  <2>6. ~env.ages => YoungInv' /\ KeptInv' /\ BackoffInv' /\ PublishedComplete'
    BY <2>1, <2>2, <2>3 DEF YoungInv, KeptInv, BackoffInv, PublishedComplete, Attempting, None
  <2> QED
    BY <2>4, <2>5, <2>6
<1>2. CASE RecordFails
  <2> USE <1>2 DEF RecordFails, work, disk, collector
  <2>1. TypeOK'
    <3>1. faults' \in 0..MaxFaults
      BY Bounds DEF TypeOK
    <3>2. owed' \in BOOLEAN
      BY Zenon
    <3> QED
      BY <3>1, <3>2 DEF TypeOK
  <2>2. NumberInv' /\ CollectorInv' /\ OpenInv'
    BY DEF NumberInv, CollectorInv, OpenInv, AttemptKeepsDir, Attempting, InDir
  <2>3. ~env.ages => YoungInv' /\ KeptInv' /\ BackoffInv' /\ PublishedComplete'
    BY DEF YoungInv, KeptInv, BackoffInv, PublishedComplete, Attempting, None
  <2> QED
    BY <2>1, <2>2, <2>3
<1>3. CASE Leave
  <2> USE <1>3 DEF Leave, work, disk, ledger, collector
  <2>1. TypeOK'
    BY DEF TypeOK
  <2>2. NumberInv' /\ CollectorInv' /\ OpenInv'
    BY DEF NumberInv, CollectorInv, OpenInv, AttemptKeepsDir, Attempting, InDir, None
  <2>3. ~env.ages => YoungInv' /\ KeptInv' /\ BackoffInv' /\ PublishedComplete'
    BY DEF YoungInv, KeptInv, BackoffInv, PublishedComplete, Attempting, None
  <2> QED
    BY <2>1, <2>2, <2>3
<1> QED
  BY <1>1, <1>2, <1>3

\* The watcher and the clock: a backoff that passes is no longer owed, and a
\* record or a partial grows old only in behaviours that last that long.
LEMMA TimeInv ==
    ASSUME IndInv, UNCHANGED env, Watch \/ Time
    PROVE  IndInv'
<1> USE DEF IndInv
<1>1. CASE Watch \/ WindowPasses
  <2>1. /\ asked' \in BOOLEAN /\ canceled' \in BOOLEAN
        /\ UNCHANGED <<phase, joined, todo, cur, outcome, work, disk, ledger, collector, faults>>
    BY <1>1 DEF Watch, WindowPasses, TypeOK
  <2> USE <2>1 DEF work, disk, ledger, collector
  <2>2. TypeOK'
    BY DEF TypeOK
  <2>3. NumberInv' /\ CollectorInv' /\ OpenInv'
    BY DEF NumberInv, CollectorInv, OpenInv, AttemptKeepsDir
  <2>4. ~env.ages => YoungInv' /\ KeptInv' /\ BackoffInv' /\ PublishedComplete'
    BY DEF YoungInv, KeptInv, BackoffInv, PublishedComplete
  <2> QED
    BY <2>2, <2>3, <2>4
<1>2. CASE BackoffPasses \/ RecordAges
  <2>1. /\ UNCHANGED <<job, work, disk, collector, faults>>
        /\ rec'.last = rec.last /\ rec'.reason = rec.reason
        /\ rec' \in [last : 0..MaxNumber, failures : 0..MaxFailures,
                     reason : {None, "free", "failed"}, wait : BOOLEAN, old : BOOLEAN]
    BY <1>2 DEF BackoffPasses, RecordAges, TypeOK
  <2>2. /\ owed' \in BOOLEAN
        /\ ~env.ages => rec'.wait = FALSE /\ owed' = FALSE /\ rec'.old = rec.old
    BY <1>2 DEF BackoffPasses, RecordAges, TypeOK
  <2> USE <2>1, <2>2 DEF job, work, disk, collector
  <2>3. TypeOK'
    BY DEF TypeOK
  <2>4. NumberInv' /\ CollectorInv' /\ OpenInv'
    BY DEF NumberInv, CollectorInv, OpenInv, AttemptKeepsDir
  <2>5. ~env.ages => YoungInv' /\ KeptInv' /\ BackoffInv' /\ PublishedComplete'
    BY DEF YoungInv, KeptInv, BackoffInv, PublishedComplete
  <2> QED
    BY <2>3, <2>4, <2>5
<1>3. CASE PartialAges
  <2> USE <1>3 DEF PartialAges, job, work, ledger, collector
  <2>1. TypeOK'
    BY DEF TypeOK
  <2>2. NumberInv' /\ CollectorInv' /\ OpenInv'
    BY DEF NumberInv, CollectorInv, OpenInv, AttemptKeepsDir
  <2> QED
    BY <2>1, <2>2
<1> QED
  BY <1>1, <1>2, <1>3 DEF Time

\* The collector: what it removes is the partial it found, never the one of an
\* attempt that started since; and it finds nothing old in a short behaviour.
LEMMA CollectInv ==
    ASSUME IndInv, UNCHANGED env, Collect
    PROVE  IndInv'
<1> USE DEF IndInv
<1>1. CASE ListPartials \/ CheckDownloading \/ OpenPartial
  <2>1. UNCHANGED <<job, work, disk, ledger, gcOld, faults>>
    BY <1>1 DEF ListPartials, CheckDownloading, OpenPartial
  <2>2. /\ gc' \in {"partials", "remove", "unlink", "records"}
        /\ gcDir' \in 0..MaxNumber /\ gcTodo' \subseteq Files
    BY <1>1, Bounds DEF ListPartials, CheckDownloading, OpenPartial, TypeOK
  <2>3. /\ gc' \in {"remove", "unlink"} => gcDir' # 0 /\ gcDir' = gcDir
        /\ gc' \in {"remove", "unlink"} => gc = "remove" \/ phase = None
        /\ gc' = "partials" => gcDir' = 0 \/ (stale /\ gcDir' = dir)
        /\ gc' # "partials" => gc \in {"partials", "remove"} /\ gcDir' = gcDir
    BY <1>1 DEF ListPartials, CheckDownloading, OpenPartial, CollectorInv
  <2> USE <2>1, <2>2, <2>3 DEF job, work, disk, ledger
  <2>4. TypeOK'
    BY DEF TypeOK
  <2>5. NumberInv' /\ OpenInv'
    BY DEF NumberInv, OpenInv, AttemptKeepsDir
  <2>6. CollectorInv'
    BY Bounds DEF TypeOK, CollectorInv, InDir, None
  <2>7. ~env.ages => YoungInv' /\ KeptInv' /\ BackoffInv' /\ PublishedComplete'
    BY DEF YoungInv, KeptInv, BackoffInv, PublishedComplete
  <2> QED
    BY <2>4, <2>5, <2>6, <2>7
<1>2. ASSUME NEW f \in Files, Unlink(f)
      PROVE  IndInv'
  <2>1. env.ages
    BY <1>2 DEF Unlink, YoungInv
  <2> USE <1>2 DEF Unlink, job, work, ledger
  <2>2. TypeOK'
    BY DEF TypeOK
  <2>3. NumberInv' /\ CollectorInv' /\ OpenInv'
    BY DEF NumberInv, CollectorInv, OpenInv, AttemptKeepsDir
  <2> QED
    BY <2>1, <2>2, <2>3
<1>3. CASE RemoveDir
  <2>1. env.ages
    BY <1>3 DEF RemoveDir, YoungInv
  <2> USE <1>3 DEF RemoveDir, job, work, ledger
  <2>2. TypeOK'
    <3>1. dir' \in 0..MaxNumber /\ files' \subseteq Files
      BY Bounds DEF TypeOK
    <3>2. stale' \in BOOLEAN
      BY Zenon DEF TypeOK
    <3> QED
      BY <3>1, <3>2 DEF TypeOK
  <2>3. phase \in InDir => dir' = dir
    BY Bounds DEF TypeOK, CollectorInv, NumberInv, AttemptKeepsDir, InDir
  <2>4. dir' = dir \/ dir' = 0
    OBVIOUS
  <2>5. NumberInv' /\ CollectorInv' /\ OpenInv'
    BY <2>3, <2>4, Bounds DEF TypeOK, NumberInv, CollectorInv, OpenInv, AttemptKeepsDir, InDir
  <2> QED
    BY <2>1, <2>2, <2>5
<1>4. CASE ReadRecords \/ ReadOnDisk \/ CheckRecord
  <2>1. /\ UNCHANGED <<job, work, disk, ledger, gcDir, gcTodo, faults>>
        /\ gc' \in {"onDisk", "prune", "drop", "evict"}
    BY <1>4 DEF ReadRecords, ReadOnDisk, CheckRecord
  <2>2. gcOld' \in BOOLEAN
    BY <1>4, Zenon DEF ReadRecords, ReadOnDisk, CheckRecord, TypeOK
  <2>3. ~env.ages => ~gcOld' /\ gc' # "drop"
    BY <1>4 DEF ReadRecords, ReadOnDisk, CheckRecord, YoungInv
  <2> USE <2>1, <2>2, <2>3 DEF job, work, disk, ledger
  <2>4. TypeOK'
    BY DEF TypeOK
  <2>5. NumberInv' /\ CollectorInv' /\ OpenInv'
    BY DEF NumberInv, CollectorInv, OpenInv, AttemptKeepsDir
  <2>6. ~env.ages => YoungInv' /\ KeptInv' /\ BackoffInv' /\ PublishedComplete'
    BY DEF YoungInv, KeptInv, BackoffInv, PublishedComplete
  <2> QED
    BY <2>4, <2>5, <2>6
<1>5. CASE RemoveDigest
  <2>1. env.ages
    BY <1>5 DEF RemoveDigest, YoungInv
  <2> USE <1>5 DEF RemoveDigest, job, work, disk
  <2>2. rec' \in [last : 0..MaxNumber, failures : 0..MaxFailures,
                 reason : {None, "free", "failed"}, wait : BOOLEAN, old : BOOLEAN]
    BY Bounds DEF NoRecord
  <2>3. TypeOK'
    BY <2>2 DEF TypeOK
  <2>4. NumberInv' /\ CollectorInv' /\ OpenInv'
    BY DEF NumberInv, CollectorInv, OpenInv, AttemptKeepsDir
  <2> QED
    BY <2>1, <2>3, <2>4
<1>6. CASE Evict
  <2>1. /\ gc' = "idle" /\ gcDir' = 0 /\ gcOld' = FALSE
        /\ published' \in BOOLEAN /\ tree' \subseteq Files
        /\ UNCHANGED <<published, tree>> \/ (published' = FALSE /\ tree' = {})
        /\ UNCHANGED <<job, work, dir, files, stale, ledger, gcTodo, faults>>
    BY <1>6 DEF Evict, TypeOK
  <2> USE <2>1 DEF job, work, ledger
  <2>2. TypeOK'
    <3>1. gcDir' \in 0..MaxNumber
      BY Bounds
    <3>2. gcOld' \in BOOLEAN
      BY Zenon
    <3> QED
      BY <3>1, <3>2 DEF TypeOK
  <2>3. NumberInv' /\ CollectorInv' /\ OpenInv'
    BY DEF NumberInv, CollectorInv, OpenInv, AttemptKeepsDir
  <2>4. ~env.ages => YoungInv' /\ KeptInv' /\ BackoffInv' /\ PublishedComplete'
    BY DEF YoungInv, KeptInv, BackoffInv, PublishedComplete
  <2> QED
    BY <2>2, <2>3, <2>4
<1> QED
  BY <1>1, <1>2, <1>3, <1>4, <1>5, <1>6 DEF Collect

\* A crash loses the attempt and the collection; the disk and the ledger stay.
LEMMA CrashInv ==
    ASSUME IndInv, UNCHANGED env, Crash
    PROVE  IndInv'
<1> USE DEF IndInv, Crash, disk
<1>1. owed' \in BOOLEAN /\ (owed' => rec.wait)
  BY Zenon DEF TypeOK
<1>2. TypeOK'
  <2>1. faults' \in 0..MaxFaults /\ prev' \in 0..MaxNumber /\ gcDir' \in 0..MaxNumber
    BY Bounds DEF TypeOK
  <2>2. asked' \in BOOLEAN /\ canceled' \in BOOLEAN /\ gcOld' \in BOOLEAN
    BY Zenon
  <2> QED
    BY <1>1, <2>1, <2>2 DEF TypeOK, Outcomes
<1>3. NumberInv' /\ CollectorInv' /\ OpenInv'
  BY DEF NumberInv, CollectorInv, OpenInv, AttemptKeepsDir, Attempting, InDir, None
<1>4. ~env.ages => YoungInv' /\ KeptInv' /\ BackoffInv' /\ PublishedComplete'
  BY <1>1 DEF YoungInv, KeptInv, BackoffInv, PublishedComplete, Attempting, None
<1> QED
  BY <1>2, <1>3, <1>4

-----------------------------------------------------------------------------
(* The theorems.                                                            *)

\* Every step of a mount, an attempt, the clock and the collector keeps the
\* invariant, and so does a crash.
LEMMA NextInv == IndInv /\ [Next]_vars => IndInv'
<1> SUFFICES ASSUME IndInv, [Next]_vars PROVE IndInv'
  OBVIOUS
<1>1. CASE Next
  <2>1. CASE \E a \in env.asking : Start(a) \/ Join(a)
    BY <1>1, <2>1, MountInv DEF Next
  <2>2. CASE Run \/ Download
    BY <1>1, <2>2, NewAttemptInv, SourceInv, FetchInv, RecordInv DEF Next, Run, Download
  <2>3. CASE Watch \/ Time
    BY <1>1, <2>3, TimeInv DEF Next
  <2>4. CASE Collect \/ Crash
    BY <1>1, <2>4, CollectInv, CrashInv DEF Next
  <2> QED
    BY <1>1, <2>1, <2>2, <2>3, <2>4 DEF Next
<1>2. CASE UNCHANGED vars
  BY <1>2 DEF vars, job, work, disk, ledger, collector, IndInv, TypeOK, NumberInv, CollectorInv,
     OpenInv, AttemptKeepsDir, YoungInv, KeptInv, BackoffInv, PublishedComplete
<1> QED
  BY <1>1, <1>2

\* The invariant holds throughout, however attempts, mounts, collections and
\* crashes follow each other.
THEOREM MaterializeInvariance == Spec => []IndInv
BY InitInv, NextInv, PTL DEF Spec

\* Every variable keeps its type: numbers stay within their bound, sources are
\* artifacts that asked, and files are the manifest's.
THEOREM MaterializeTypes == Spec => []TypeOK
<1>1. IndInv => TypeOK
  BY DEF IndInv
<1> QED
  BY <1>1, MaterializeInvariance, PTL

\* NewAttempt and RemovePartial: a collection never takes the directory of a
\* running attempt, whenever it listed the partials.
THEOREM DirKept == Spec => []AttemptKeepsDir
<1>1. IndInv => AttemptKeepsDir
  BY DEF IndInv, NumberInv
<1> QED
  BY <1>1, MaterializeInvariance, PTL

\* fetchTree and Publish: where nothing grows old enough to be pruned, what is
\* published has every file, however many attempts it took.
THEOREM TreesComplete == Spec => []CompleteUnpruned
<1>1. IndInv => CompleteUnpruned
  BY DEF IndInv, CompleteUnpruned
<1> QED
  BY <1>1, MaterializeInvariance, PTL

\* run: no attempt starts while a failed one's backoff is owed.
THEOREM BackoffsHonored == Spec => BackoffHonored
<1>1. IndInv /\ [Next]_vars => [phase = None /\ phase' = "number" /\ ~env.ages => ~owed]_vars
  <2> SUFFICES ASSUME IndInv, Next, phase = None, phase' = "number", ~env.ages
               PROVE  ~owed
    OBVIOUS
  <2>1. \E a \in env.asking : Start(a)
    BY DEF Next, Join, Run, Download, Watch, Time, Collect, Crash, ReadLatest, HandOut, Carry,
       CarryFails, NewAttemptFails, List, ListFails, ListCanceled, Pick, Reserve, ReserveFails,
       FetchCanceled, Record, RecordFails, Leave, OpenFile, FetchFile, FetchFails, Publish,
       WindowPasses, BackoffPasses, RecordAges, PartialAges, ListPartials, CheckDownloading,
       OpenPartial, RemoveDir, Unlink, ReadRecords, ReadOnDisk, CheckRecord, RemoveDigest, Evict,
       None, job
  <2> QED
    BY <2>1 DEF Start, IndInv, BackoffInv
<1> QED
  BY <1>1, MaterializeInvariance, PTL DEF Spec, BackoffHonored

\* DigestRecord.LastAttempt: the number handed out is past every earlier one
\* while the record is kept, also after a crash.
THEOREM NumbersIncrease == Spec => NumbersRise
<1>1. IndInv /\ [Next]_vars =>
         [phase = "update" /\ phase' = "move" /\ ~env.ages => number' > number]_vars
  <2> SUFFICES ASSUME IndInv, Next, phase = "update", phase' = "move", ~env.ages
               PROVE  number' > number
    OBVIOUS
  <2>1. HandOut
    BY DEF Next, Start, Join, Run, Download, Watch, Time, Collect, Crash, ReadLatest, Carry,
       CarryFails, NewAttemptFails, Conclude, List, ListFails, ListCanceled, Pick, Reserve,
       ReserveFails, FetchCanceled, Record, RecordFails, Leave, OpenFile, FetchFile, FetchFails,
       Publish, WindowPasses, BackoffPasses, RecordAges, PartialAges, ListPartials,
       CheckDownloading, OpenPartial, RemoveDir, Unlink, ReadRecords, ReadOnDisk, CheckRecord,
       RemoveDigest, Evict, None, job
  <2>2. rec.last = number
    BY DEF IndInv, KeptInv
  <2> QED
    BY <2>1, <2>2, Bounds DEF HandOut, NextNumber, IndInv, TypeOK
<1> QED
  BY <1>1, MaterializeInvariance, PTL DEF Spec, NumbersRise
=============================================================================
