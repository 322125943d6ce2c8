--------------------------- MODULE MCMaterializer ---------------------------
(* Materializer on small instances. *)
EXTENDS Materializer

CONSTANTS hub1, hub2, anchored

\* Three artifacts of the digest with a crash or a failed write; or two of them
\* for longer than the collector's PartialTTL.
ShortAndLong ==
    { [asking |-> {hub1, hub2, anchored}, ages |-> FALSE, faults |-> 1],
      [asking |-> {hub1, anchored}, ages |-> TRUE, faults |-> 0] }

\* One artifact, whose partial is pruned.
Pruned == { [asking |-> {hub1}, ages |-> TRUE, faults |-> 0] }
=============================================================================
