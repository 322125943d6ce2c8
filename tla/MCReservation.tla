--------------------------- MODULE MCReservation ---------------------------
(* Reservation on small instances. *)
EXTENDS Reservation

\* Downloads side by side from hubs that honor a resume, or one alone that
\* candidates may fail and a hub may make start over.
Fitting == [who : {Attempts}, whole : {FALSE}, peers : {0}]
               \cup [who : {{a} : a \in Attempts}, whole : BOOLEAN, peers : {0, 2}]

\* Downloads side by side, each with two candidates before the hub.
WithPeers == [who : {Attempts}, whole : {FALSE}, peers : {2}]

\* Downloads side by side from a hub that makes a resumed one start over.
StartingOver == [who : {Attempts}, whole : {TRUE}, peers : {0}]
=============================================================================
