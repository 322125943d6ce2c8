---------------------------- MODULE MCModelStore ----------------------------
(* ModelStore on small instances. *)
EXTENDS ModelStore, TLC

\* The targets are interchangeable, and so are the digests.
Symmetry == Permutations(Hex) \cup Permutations(Target)
=============================================================================
