---------------------------- MODULE DeviceLedger ----------------------------
(***************************************************************************)
(* Who holds which card of a node (pkg/deviceplugin).  kubelet asks for the *)
(* containers of the Pods it admits, naming a card and never the container; *)
(* Allocate finds out whom the call is for, checks the card, reserves it in *)
(* memory and records it in the Pod's annotation, each a step of its own.   *)
(* The reconciler rebuilds the Devices ledger from the annotations its      *)
(* informer has, prunes the reservations and retries the give-backs that    *)
(* did not reach the API.                                                   *)
(*                                                                          *)
(* A container asks for one card, whole or a slice of it; hardware          *)
(* partitions and visibility requests are left out.  kubelet admits one Pod *)
(* at a time and is asked for its pods, as it is by default.                *)
(***************************************************************************)
EXTENDS Naturals, FiniteSets, FiniteSetsExt, SequencesExt

CONSTANTS
    Pods, Containers, Cards,
    PodOf,         \* the Pod of a container
    Units,         \* the units its slice needs
    Whole,         \* the units of a card
    Rank,          \* oldest Pod first, then the order of its containers
    MaxRestarts,   \* bounds the device manager's restarts
    Environments,  \* what a behaviour may meet:
                   \*   pods      the Pods bound to the node at the start
                   \*   cards     its cards
                   \*   mode      the family each container asks for
                   \*   restarts  how many restarts of the device manager
                   \*   loses     kubelet may lose an answer it has not checkpointed
                   \*   late      a Pod may reach the informer during a reconcile
    Nil, None

Modes == {"exclusive", "shared", "sliced"}

ASSUME LedgerAssumption ==
    /\ IsFiniteSet(Containers) /\ IsFiniteSet(Cards)
    /\ PodOf \in [Containers -> Pods]
    /\ Units \in [Containers -> 1..Whole]
    /\ Whole \in Nat /\ MaxRestarts \in Nat
    /\ Rank \in [Containers -> Nat]
    /\ \A c, d \in Containers : Rank[c] = Rank[d] => c = d
    /\ Environments \subseteq [pods : SUBSET Pods, cards : SUBSET Cards,
                              mode : [Containers -> Modes],
                              restarts : 0..MaxRestarts, loses : BOOLEAN, late : BOOLEAN]
    /\ Nil \notin Containers \cup Cards \cup Modes /\ None \notin Cards \cup {Nil}

Entry   == Cards \cup {Nil}             \* what a record says a container holds
Phases  == {"none", "pending", "done", "gone"}
Nothing == [c \in Containers |-> Nil]
Free    == [k \in Cards |-> Nil]
Own(p)  == {c \in Containers : PodOf[c] = p}

VARIABLES
    env,
    api, anno,          \* the API: each Pod's phase, "pending" until it is
                        \* terminal, and its annotation's entries
    ledger,             \* the Devices status: the mode each card is held in
    cphase, cache,      \* the informer's copy of the Pods ...
    ledgerSeen,         \* ... and of the ledger
    admitted, over,     \* kubelet: the Pods it has, those that ended or were refused
    held,               \* ... and the card it recorded for a container
    resv,               \* r.reservations
    pend,               \* r.pendingReleases: None, or what to restore
    call,               \* the Allocate in progress
    rec,                \* the reconcile in progress
    restarts

Mode == env.mode

cluster == <<api, anno, ledger>>
informer == <<cphase, cache, ledgerSeen>>
kubelet == <<admitted, over, held>>
vars == <<env, cluster, informer, kubelet, resv, pend, call, rec, restarts>>

NoCall == [at |-> "idle", for |-> Nil, card |-> Nil, waits |-> {}, who |-> Nil,
           base |-> Nothing, prior |-> Nil, value |-> Nothing]
NoPass == [at |-> "idle", phase |-> [p \in Pods |-> "none"], entries |-> Nothing,
           seen |-> Free, want |-> Free, todo |-> {}, who |-> Nil, value |-> Nothing]

TypeOK ==
    /\ env \in Environments
    /\ api \in [Pods -> Phases] /\ cphase \in [Pods -> Phases]
    /\ anno \in [Containers -> Entry] /\ cache \in [Containers -> Entry]
    /\ ledger \in [Cards -> Modes \cup {Nil}] /\ ledgerSeen \in [Cards -> Modes \cup {Nil}]
    /\ admitted \subseteq Pods /\ over \subseteq admitted
    /\ held \in [Containers -> Entry] /\ resv \in [Containers -> Entry]
    /\ pend \in [Containers -> Entry \cup {None}]
    /\ call \in [at : {"idle", "decide", "build", "land", "respond", "undo"},
                 for : Containers \cup {Nil}, card : Entry, waits : SUBSET Containers,
                 who : Containers \cup {Nil}, base : [Containers -> Entry],
                 prior : Entry, value : [Containers -> Entry]]
    /\ call.at # "idle" => call.for # Nil /\ PodOf[call.for] \in admitted \ over
    /\ call.at \notin {"idle", "decide"} => call.who # Nil
    /\ rec \in [at : {"idle", "publish", "retry", "give"},
                phase : [Pods -> Phases], entries : [Containers -> Entry],
                seen : [Cards -> Modes \cup {Nil}], want : [Cards -> Modes \cup {Nil}],
                todo : SUBSET Containers,
                who : Containers \cup {Nil}, value : [Containers -> Entry]]
    /\ restarts \in 0..MaxRestarts

Init ==
    /\ env \in Environments
    /\ api = [p \in Pods |-> IF p \in env.pods THEN "pending" ELSE "none"]
    /\ cphase = [p \in Pods |-> "none"]
    /\ anno = Nothing /\ cache = Nothing /\ held = Nothing /\ resv = Nothing
    /\ ledger = Free /\ ledgerSeen = Free
    /\ admitted = {} /\ over = {}
    /\ pend = [c \in Containers |-> None]
    /\ call = NoCall /\ rec = NoPass /\ restarts = 0

-----------------------------------------------------------------------------
(* The API server, the informer and kubelet.                                *)

\* The informer delivers a Pod: its phase and its whole annotation.
Deliver(p) ==
    /\ cphase[p] # api[p] \/ \E c \in Own(p) : cache[c] # anno[c]
    /\ cphase[p] = "none" /\ ~env.late => rec.at = "idle"
    /\ cphase' = [cphase EXCEPT ![p] = api[p]]
    /\ cache' = [c \in Containers |-> IF PodOf[c] = p THEN anno[c] ELSE cache[c]]
    /\ UNCHANGED <<env, cluster, ledgerSeen, kubelet, resv, pend, call, rec, restarts>>

DeliverLedger ==
    /\ ledgerSeen # ledger
    /\ ledgerSeen' = ledger
    /\ UNCHANGED <<env, cluster, cphase, cache, kubelet, resv, pend, call, rec, restarts>>

\* The Pods kubelet reports, and what a container of theirs holds.  A Pod it has
\* refused, or whose containers have stopped, is off the list at once.
Reported == admitted \ over
Holds(c) == PodOf[c] \in Reported /\ held[c] # Nil
Served(p) == \A c \in Own(p) : held[c] # Nil

\* kubelet takes up a Pod once it is done admitting the one before.
Admit(p) ==
    /\ api[p] = "pending" /\ p \notin admitted
    /\ \A q \in Reported : Served(q)
    /\ admitted' = admitted \cup {p}
    /\ UNCHANGED <<env, cluster, informer, over, held, resv, pend, call, rec, restarts>>

\* The Pod's containers stop, and kubelet takes its devices back.
Finish(p) ==
    /\ p \in Reported /\ Served(p)
    /\ over' = over \cup {p}
    /\ UNCHANGED <<env, cluster, informer, admitted, held, resv, pend, call, rec, restarts>>

\* kubelet writes the terminal phase of a Pod that ended or was refused ...
WritePhase(p) ==
    /\ p \in over /\ api[p] = "pending"
    /\ api' = [api EXCEPT ![p] = "done"]
    /\ UNCHANGED <<env, anno, ledger, informer, kubelet, resv, pend, call, rec, restarts>>

\* ... and its object goes when somebody deletes it.
Delete(p) ==
    /\ api[p] = "done"
    /\ api' = [api EXCEPT ![p] = "gone"]
    /\ anno' = [c \in Containers |-> IF PodOf[c] = p THEN Nil ELSE anno[c]]
    /\ UNCHANGED <<env, ledger, informer, kubelet, resv, pend, call, rec, restarts>>

-----------------------------------------------------------------------------
(* What a container holds, as the device plugin reads it.                   *)

\* verifyKubeletAllocations: what kubelet reports of whole cards agrees with
\* the Pods given.
Agrees(phase, entries) ==
    \A c \in Containers : Holds(c) /\ Mode[c] # "sliced" =>
        \/ phase[PodOf[c]] = "done"
        \/ phase[PodOf[c]] = "pending" /\ entries[c] = held[c]

\* Fault model: only what this process reserved counts.
ClaimOfMemory(c) == resv[c]

\* priorClaimOf: the reservation, else what a pending give-back leaves, else
\* the annotation.
ClaimOf(c) ==
    IF resv[c] # Nil THEN resv[c] ELSE IF pend[c] # None THEN pend[c] ELSE cache[c]

\* slicedOccupancy, heldExcept: what others hold of a card, a finished Pod
\* nothing.
Others(c, k) ==
    {d \in Containers \ {c} :
        /\ Mode[d] = "sliced" /\ cphase[PodOf[d]] = "pending"
        /\ ClaimOf(d) = k}

Room(c, k) == MapThenSumSet(LAMBDA d : Units[d], Others(c, k)) + Units[c] <= Whole

\* Fault model: what was decided and is not yet in the ledger is forgotten.
HeldPerLedger(c, k, m) == ledgerSeen[k] \notin {Nil, Mode[c]}

\* cardHeldInOtherMode: per the ledger as the informer has it, or the mode found
\* among the reservations.
HeldInOtherMode(c, k, m) == ledgerSeen[k] \notin {Nil, Mode[c]} \/ m \notin {Nil, Mode[c]}

\* reservedModeForResource: that of the first one the walk over the map meets.
ReservedModes(k) ==
    LET holders == {d \in Containers : resv[d] = k}
    IN IF holders = {} THEN {Nil} ELSE {Mode[d] : d \in holders}

\* Fault model: what is cached of the siblings is taken for all there is.
PatchedCached(base, who, entry) ==
    [d \in Containers |-> IF PodOf[d] # PodOf[who] THEN Nil
                          ELSE IF d = who THEN entry ELSE base[d]]

\* The annotation's new value: the Pod as it was read, its other containers'
\* reservations over it, and this container's entry.
Patched(base, who, entry) ==
    [d \in Containers |-> IF PodOf[d] # PodOf[who] THEN Nil
                          ELSE IF d = who THEN entry
                          ELSE IF resv[d] # Nil THEN resv[d] ELSE base[d]]

\* The patch replaces the whole value, on a Pod that is still there.
Write(who, value) ==
    /\ api[PodOf[who]] # "gone"
    /\ anno' = [d \in Containers |-> IF PodOf[d] = PodOf[who] THEN value[d] ELSE anno[d]]

-----------------------------------------------------------------------------
(* Allocate.                                                                *)

\* kubelet rejects the Pod of a call that was refused.
Refuse ==
    /\ over' = over \cup {PodOf[call.for]}
    /\ call' = NoCall

\* kubelet asks for the next container of the Pod it admits, with a token that
\* is free: a whole card's only one, or one of many.  Before all else the
\* records are verified against kubelet, which also says who waits.
Ask(c, k) ==
    /\ call.at = "idle"
    /\ PodOf[c] \in Reported /\ held[c] = Nil
    /\ \A d \in Own(PodOf[c]) : Rank[d] < Rank[c] => held[d] # Nil
    /\ Mode[c] = "exclusive" =>
          \A d \in Containers : Holds(d) /\ Mode[d] = "exclusive" => held[d] # k
    /\ Agrees(cphase, cache)
    /\ call' = [NoCall EXCEPT !.at = "decide", !.for = c, !.card = k,
                              !.waits = {d \in Containers : PodOf[d] \in Reported
                                                               /\ held[d] = Nil}]
    /\ UNCHANGED <<env, cluster, informer, kubelet, resv, pend, rec, restarts>>

\* The records disagree, or kubelet does not answer.
AskRefused(c) ==
    /\ call.at = "idle"
    /\ PodOf[c] \in Reported /\ held[c] = Nil
    /\ over' = over \cup {PodOf[c]}
    /\ UNCHANGED <<env, cluster, informer, admitted, held, resv, pend, call, rec, restarts>>

\* getAllocatingPod: of the pending containers kubelet says wait for a device of
\* the family, the first of the highest tier: unclaimed and feasible, unclaimed,
\* claimed.
Candidates ==
    {d \in call.waits : Mode[d] = Mode[call.for] /\ cphase[PodOf[d]] = "pending"}

Tier ==
    LET unclaimed == {d \in Candidates : resv[d] = Nil}
        feasible  == {d \in unclaimed : Mode[d] = "sliced" => Room(d, call.card)}
    IN IF feasible # {} THEN feasible
       ELSE IF unclaimed # {} THEN unclaimed ELSE Candidates

Picked == CHOOSE d \in Tier : \A e \in Tier : Rank[d] <= Rank[e]

\* Fault model: a replay on another card is accepted.
AcceptableReplay(c, m) ==
    /\ ~HeldInOtherMode(c, call.card, m)
    /\ Mode[c] = "sliced" => Room(c, call.card)

\* A replay on another card, a card held in another mode, or one without room.
Acceptable(c, m) ==
    /\ ClaimOf(c) \in {Nil, call.card}
    /\ ~HeldInOtherMode(c, call.card, m)
    /\ Mode[c] = "sliced" => Room(c, call.card)

\* decideAllocation, under the node's mutex: the card is reserved.
Decide ==
    /\ call.at = "decide"
    /\ Candidates # {} /\ \E m \in ReservedModes(call.card) : Acceptable(Picked, m)
    /\ resv' = [resv EXCEPT ![Picked] = call.card]
    /\ call' = [call EXCEPT !.at = "build", !.who = Picked, !.prior = ClaimOf(Picked),
                  !.waits = {},
                  !.base = [d \in Containers |->
                              IF PodOf[d] = PodOf[Picked] THEN cache[d] ELSE Nil]]
    /\ UNCHANGED <<env, cluster, informer, kubelet, pend, rec, restarts>>

\* Fault model: the refusal is logged, and the call goes on.
DecideRefusedGoesOn ==
    /\ call.at = "decide"
    /\ Candidates # {} /\ \E m \in ReservedModes(call.card) : ~Acceptable(Picked, m)
    /\ over' = over \cup {PodOf[call.for]}
    /\ UNCHANGED <<env, cluster, informer, admitted, held, resv, pend, call, rec, restarts>>

DecideRefused ==
    /\ call.at = "decide"
    /\ Candidates # {} => \E m \in ReservedModes(call.card) : ~Acceptable(Picked, m)
    /\ Refuse
    /\ UNCHANGED <<env, cluster, informer, admitted, held, resv, pend, rec, restarts>>

\* patchAllocatingPod, up to the request ...
Build ==
    /\ call.at = "build"
    /\ call' = [call EXCEPT !.at = "land",
                            !.value = Patched(call.base, call.who, call.card)]
    /\ UNCHANGED <<env, cluster, informer, kubelet, resv, pend, rec, restarts>>

\* ... which lands and supersedes a pending give-back.
Land ==
    /\ call.at = "land"
    /\ Write(call.who, call.value)
    /\ pend' = [pend EXCEPT ![call.who] = None]
    /\ call' = [call EXCEPT !.at = "respond", !.value = Nothing]
    /\ UNCHANGED <<env, api, ledger, informer, kubelet, resv, rec, restarts>>

\* A responder that answers before the patch fails, or the patch does: the
\* reservation is dropped.
Unreserve ==
    /\ call.at \in {"build", "land"}
    /\ resv' = [resv EXCEPT ![call.who] = Nil]
    /\ Refuse
    /\ UNCHANGED <<env, cluster, informer, admitted, held, pend, rec, restarts>>

\* kubelet records the answer, or dies first and will ask again.
Respond ==
    /\ call.at = "respond"
    /\ \/ held' = [held EXCEPT ![call.for] = call.card]
       \/ env.loses /\ UNCHANGED held
    /\ call' = NoCall
    /\ UNCHANGED <<env, cluster, informer, admitted, over, resv, pend, rec, restarts>>

\* The responder refuses after the patch.  releaseAllocation: the reservation is
\* settled first, then the annotation.
RefuseLate ==
    /\ call.at = "respond"
    /\ resv' = [resv EXCEPT ![call.who] = call.prior]
    /\ call' = [call EXCEPT !.at = "undo",
                            !.value = Patched(call.base, call.who, call.prior)]
    /\ UNCHANGED <<env, cluster, informer, kubelet, pend, rec, restarts>>

\* kubelet hears of the refusal as the give-back lands, not after it.
UndoLands ==
    /\ call.at = "undo"
    /\ Write(call.who, call.value)
    /\ Refuse
    /\ UNCHANGED <<env, api, ledger, informer, admitted, held, resv, pend, rec, restarts>>

\* Fault model: a give-back that fails is only logged.
UndoForgotten ==
    /\ call.at = "undo"
    /\ Refuse
    /\ UNCHANGED <<env, cluster, informer, admitted, held, resv, pend, rec, restarts>>

\* recordPendingRelease.
UndoFails ==
    /\ call.at = "undo"
    /\ pend' = [pend EXCEPT ![call.who] = call.prior]
    /\ Refuse
    /\ UNCHANGED <<env, cluster, informer, admitted, held, resv, rec, restarts>>

-----------------------------------------------------------------------------
(* Reconcile.                                                               *)

\* applyAllocatedStatus, on the ledger so far: the Pod's entries one by one, up to
\* one whose card is held in another mode.
Merge(lg, p) ==
    LET holding == {c \in Own(p) : cphase[p] = "pending" /\ cache[c] # Nil}
        agrees(c) == /\ lg[cache[c]] \in {Nil, Mode[c]}
                     /\ \A d \in holding : Rank[d] < Rank[c]
                           /\ cache[d] = cache[c] => Mode[d] = Mode[c]
        merged == {c \in holding : \A d \in holding : Rank[d] <= Rank[c] => agrees(d)}
    IN [k \in Cards |->
          IF \E c \in merged : cache[c] = k
          THEN Mode[CHOOSE c \in merged : cache[c] = k] ELSE lg[k]]

Orders == SetToSeqs({PodOf[c] : c \in {d \in Containers : cache[d] # Nil}})

\* Fault model: the fold starts from the ledger that was published.
DesiredOnTop == {FoldLeft(Merge, ledgerSeen, order) : order \in Orders}

\* BuildDesiredStatus: from nothing, the Pods in the order the informer lists them.
Desired == {FoldLeft(Merge, Free, order) : order \in Orders}

\* The ledger and the Pods, as the informer has them, and the ledger they make.
Read ==
    /\ rec.at = "idle"
    /\ \E lg \in Desired :
          rec' = [NoPass EXCEPT !.at = "publish", !.phase = cphase, !.entries = cache,
                                !.seen = ledgerSeen, !.want = lg]
    /\ UNCHANGED <<env, cluster, informer, kubelet, resv, pend, call, restarts>>

Live(p) == rec.phase[p] \in {"pending", "done"}

\* Fault model: reservations are dropped by a refusal only.
PruneNothing ==
    /\ rec' = NoPass
    /\ UNCHANGED <<resv, pend>>

\* pruneReservations, and the give-backs whose Pod is gone; those of the others
\* are to be retried, one for each Pod.
Prune ==
    /\ resv' = [c \in Containers |-> IF Live(PodOf[c]) THEN resv[c] ELSE Nil]
    /\ pend' = [c \in Containers |-> IF Live(PodOf[c]) THEN pend[c] ELSE None]
    /\ LET todo == {c \in Containers : pend'[c] # None} IN
       rec' = IF todo = {} THEN NoPass
              ELSE [NoPass EXCEPT !.at = "retry", !.todo = todo, !.entries = rec.entries]

\* publishAcceleratorLedger, once verified and unless nothing changed; refused
\* when the ledger was written since it was read.
Publish ==
    /\ rec.at = "publish"
    /\ Agrees(rec.phase, rec.entries)
    /\ rec.want # rec.seen => ledger = rec.seen
    /\ ledger' = IF rec.want # rec.seen THEN rec.want ELSE ledger
    /\ Prune
    /\ UNCHANGED <<env, api, anno, informer, kubelet, call, restarts>>

\* The verification fails, or the write: the pass goes on without it.
NotPublished ==
    /\ rec.at = "publish"
    /\ Prune
    /\ UNCHANGED <<env, cluster, informer, kubelet, call, restarts>>

\* peekPendingRelease, read again right before the write.
Retry(c) ==
    /\ rec.at = "retry" /\ c \in rec.todo
    /\ pend[c] # None
    /\ rec' = [rec EXCEPT !.at = "give", !.todo = @ \ Own(PodOf[c]), !.who = c,
                          !.value = Patched(rec.entries, c, pend[c])]
    /\ UNCHANGED <<env, cluster, informer, kubelet, resv, pend, call, restarts>>

RetryLands ==
    /\ rec.at = "give"
    /\ Write(rec.who, rec.value)
    /\ pend' = [pend EXCEPT ![rec.who] = None]
    /\ rec' = [rec EXCEPT !.at = "retry", !.who = Nil, !.value = Nothing]
    /\ UNCHANGED <<env, api, ledger, informer, kubelet, resv, call, restarts>>

\* unpatchAllocatingPod records what it could not write once more.
RetryFails ==
    /\ rec.at = "give"
    /\ pend' = [pend EXCEPT ![rec.who] = rec.value[rec.who]]
    /\ rec' = [rec EXCEPT !.at = "retry", !.who = Nil, !.value = Nothing]
    /\ UNCHANGED <<env, cluster, informer, kubelet, resv, call, restarts>>

EndPass ==
    /\ rec.at = "retry"
    /\ \A c \in rec.todo : pend[c] = None
    /\ rec' = NoPass
    /\ UNCHANGED <<env, cluster, informer, kubelet, resv, pend, call, restarts>>

-----------------------------------------------------------------------------
\* The device manager restarts: its memory is gone, the call fails, whether its
\* patch has landed or not, and the informer lists anew.
Restart ==
    /\ restarts < env.restarts
    /\ restarts' = restarts + 1
    /\ cphase' = api /\ cache' = anno /\ ledgerSeen' = ledger
    /\ resv' = Nothing /\ pend' = [c \in Containers |-> None]
    /\ IF call.at = "idle" THEN UNCHANGED <<over, call>> ELSE Refuse
    /\ rec' = NoPass
    /\ UNCHANGED <<env, cluster, admitted, held>>

CallStep ==
    \/ Decide \/ DecideRefused \/ Build \/ Land \/ Unreserve \/ Respond
    \/ RefuseLate \/ UndoLands \/ UndoFails

PassStep ==
    \/ Read \/ Publish \/ NotPublished
    \/ (\E c \in Containers : Retry(c)) \/ RetryLands \/ RetryFails \/ EndPass

Next ==
    \/ \E p \in Pods : Deliver(p) \/ Admit(p) \/ Finish(p) \/ WritePhase(p) \/ Delete(p)
    \/ DeliverLedger
    \/ \E c \in Containers : AskRefused(c) \/ \E k \in env.cards : Ask(c, k)
    \/ CallStep \/ PassStep
    \/ Restart

\* The device manager runs, its informer catches up, and an API that is asked
\* again and again answers at last.  kubelet and the users are free.
Fairness ==
    /\ WF_vars(\E p \in Pods : Deliver(p))
    /\ WF_vars(DeliverLedger)
    /\ WF_vars(CallStep)
    /\ WF_vars(PassStep)
    /\ SF_vars(Publish)
    /\ SF_vars(RetryLands)

Spec == Init /\ [][Next]_vars /\ Fairness

-----------------------------------------------------------------------------
(* Properties.                                                              *)

\* A container that runs, or may: kubelet holds a card for each of its Pod's.
Runs(c) == PodOf[c] \in Reported /\ Served(PodOf[c])

\* rejectCrossModeCards: containers that run never hold one card in two modes,
\* however far the annotations, the ledger and the informer's copies of them are
\* behind.
OneMode ==
    \A c, d \in Containers : Runs(c) /\ Runs(d) /\ held[c] = held[d] => Mode[c] = Mode[d]

\* rejectSlicedOvercommit: the slices that run on a card fit into it, whatever
\* was lost with a restart.
SlicedFits ==
    \A k \in Cards :
        MapThenSumSet(LAMBDA c : Units[c],
            {c \in Containers : Runs(c) /\ held[c] = k /\ Mode[c] = "sliced"}) <= Whole

\* patchAllocatingPod: the annotation, the only record that outlives the
\* process, says what each running container holds: no sibling's patch, no
\* refusal and no retry writes over it.
DurableClaim == \A c \in Containers : Runs(c) => anno[c] = held[c]

\* decideAllocation, patchAllocatingPod, retryPendingReleases: while kubelet reports
\* a Pod, what the annotation says a container of it holds is neither changed nor
\* taken back, by a replay, a sibling's patch, a give-back that is retried or a
\* restart.  (A refused call's own give-back ends the Pod in the same step.)
\* Under late a reconcile may drop a reservation the next patch needs.
ClaimStays ==
    [][~env.late => \A c \in Containers :
          PodOf[c] \in Reported /\ PodOf[c] \in Reported' /\ anno[c] # Nil =>
              anno'[c] = anno[c]]_vars

\* releaseAllocation, retryPendingReleases: every give-back reaches the API, and
\* a container kubelet never started is not recorded as holding a card for good.
\* A restart forgets what it had yet to give back, and an answer kubelet lost
\* stays recorded until the Pod is gone: the second part is about behaviours
\* with neither.
RefusedGivenBack ==
    []<>(env.restarts = 0 =>
            \A c \in Containers :
                /\ pend[c] = None
                /\ PodOf[c] \in over /\ held[c] = Nil /\ ~env.loses => anno[c] = Nil)

\* Reconcile: the ledger does not stay behind what runs.
LedgerFollows ==
    []<>(\A c \in Containers : Runs(c) => ledger[held[c]] = Mode[c])

\* pruneReservations: no reservation outlives its Pod for good.
ReservationsEnd ==
    []<>(\A c \in Containers : api[PodOf[c]] = "gone" => resv[c] = Nil)
=============================================================================
