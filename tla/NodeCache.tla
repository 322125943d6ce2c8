------------------------------ MODULE NodeCache ------------------------------
(***************************************************************************)
(* What a node's model store promises its Pods, without directories,        *)
(* ledgers, locks or processes: some digests are present, and a Pod volume  *)
(* that was mounted from one keeps it until the volume is unmounted.  Only  *)
(* a reboot, which ends the Pods too, takes a mounted digest away.          *)
(***************************************************************************)
CONSTANTS Hex, Target, NoTree

VARIABLES
    present,   \* the digests a volume can be mounted from
    mounted    \* the digest each volume is mounted from

Init ==
    /\ present = {}
    /\ mounted = [t \in Target |-> NoTree]

Add(h) ==
    /\ present' = present \cup {h}
    /\ UNCHANGED mounted

\* A digest is evicted only when nothing is mounted from it.
Evict(h) ==
    /\ \A t \in Target : mounted[t] # h
    /\ present' = present \ {h}
    /\ UNCHANGED mounted

Mount(t, h) ==
    /\ mounted[t] = NoTree
    /\ h \in present
    /\ mounted' = [mounted EXCEPT ![t] = h]
    /\ UNCHANGED present

Unmount(t) ==
    /\ mounted' = [mounted EXCEPT ![t] = NoTree]
    /\ UNCHANGED present

\* A digest added or evicted just before may be back as it was.
Reboot ==
    /\ mounted' = [t \in Target |-> NoTree]
    /\ present' \in SUBSET Hex

Next ==
    \/ \E h \in Hex : Add(h) \/ Evict(h)
    \/ \E t \in Target : Unmount(t) \/ \E h \in Hex : Mount(t, h)
    \/ Reboot

Spec == Init /\ [][Next]_<<present, mounted>>
=============================================================================
