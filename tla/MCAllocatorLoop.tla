-------------------------- MODULE MCAllocatorLoop ---------------------------
(* AllocatorLoop on small instances. *)
EXTENDS AllocatorLoop, TLC

CONSTANTS c1, c2, p1, v1, v2

FirstAndNext == <<c1, c2>>

\* The loop replaces an allocator by another on the same socket, or two Starts
\* and a Stop meet on one server.
Callers ==
    { [on     |-> c1 :> v1 @@ c2 :> v2 @@ p1 :> v1,
       faults |-> 2, loop |-> TRUE, calls |-> {}, stops |-> {}],
      [on     |-> c1 :> v1 @@ c2 :> v1 @@ p1 :> v1,
       faults |-> 1, loop |-> FALSE, calls |-> {c1, c2}, stops |-> {p1}] }
=============================================================================
