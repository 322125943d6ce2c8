--------------------------- MODULE MCDeviceLedger ---------------------------
(* DeviceLedger on small instances. *)
EXTENDS DeviceLedger, TLC

CONSTANTS A, B, C, a1, a2, b1, c1, k1, k2

\* A Pod of two containers and two Pods of one; two slices do not fit one card.
PodsOf  == a1 :> A @@ a2 :> A @@ b1 :> B @@ c1 :> C
UnitsOf == [c \in Containers |-> 2]
Order   == a1 :> 1 @@ a2 :> 2 @@ b1 :> 3 @@ c1 :> 4

AllWhole  == [c \in Containers |-> "exclusive"]
AllSliced == [c \in Containers |-> "sliced"]
OneSliced == [AllWhole EXCEPT ![c1] = "sliced"]
SlicedFirst == [AllWhole EXCEPT ![a1] = "sliced"]

\* Two cards for the containers of one Pod, both whole or one a slice, with
\* answers kubelet loses; a whole card and a slice that want the same card;
\* slices across a restart of the device manager.
Sound ==
    { [pods |-> {A}, cards |-> {k1, k2}, mode |-> AllWhole,
       restarts |-> 0, loses |-> TRUE, late |-> FALSE],
      [pods |-> {A}, cards |-> {k1, k2}, mode |-> SlicedFirst,
       restarts |-> 0, loses |-> TRUE, late |-> FALSE],
      [pods |-> {B, C}, cards |-> {k1}, mode |-> OneSliced,
       restarts |-> 0, loses |-> FALSE, late |-> FALSE],
      [pods |-> {B, C}, cards |-> {k1}, mode |-> AllSliced,
       restarts |-> 1, loses |-> FALSE, late |-> FALSE] }

\* A whole card and a slice that want the same card, with Pods that reach the
\* informer while a reconcile is under way.
Overtaken ==
    { [pods |-> {B, C}, cards |-> {k1}, mode |-> OneSliced,
       restarts |-> 0, loses |-> FALSE, late |-> TRUE] }
=============================================================================
