---------------------------- MODULE MCFileFetch ----------------------------
(* FileFetch in small environments. *)
EXTENDS FileFetch

Hub(i, p, n) ==
    [peers |-> 0, interval |-> i, whole |-> FALSE, power |-> p, faults |-> n]

\* A hub whose download loses power; one that ignores ranges; candidates that
\* deliver what they like before the hub, on a plugin that crashes.
Sound == {Hub(2, TRUE, 2),
          [Hub(2, FALSE, 0) EXCEPT !.whole = TRUE],
          [Hub(3, FALSE, 2) EXCEPT !.peers = 1],
          [Hub(2, FALSE, 2) EXCEPT !.peers = 2]}

\* A candidate's download that loses power.
PeerPower == {[Hub(2, TRUE, 1) EXCEPT !.peers = 1]}
=============================================================================
