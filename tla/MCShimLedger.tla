---------------------------- MODULE MCShimLedger ----------------------------
(* ShimLedger on small instances. *)
EXTENDS ShimLedger

CONSTANTS t1, t2

Three == {<<1, t1>>, <<1, t2>>, <<2, t1>>}
Two   == {<<1, t1>>, <<2, t1>>}

Calm == [figure |-> 1, threads |-> Three, born |-> 2, sizes |-> {1}, pads |-> {0}, kills |-> FALSE,
         forks |-> FALSE, fails |-> FALSE, reuse |-> FALSE, race |-> FALSE]

\* Two threads and a process of one, started or forked by one of them while the
\* other is anywhere in a call; processes killed, with pids that come back or with
\* allocations of two sizes; opens and locks that fail, requests for nothing,
\* allocations that take more than was asked.
Forking == [Calm EXCEPT !.forks = TRUE]
Killed  == [Calm EXCEPT !.kills = TRUE, !.threads = Two]
Failing == [Calm EXCEPT !.fails = TRUE, !.threads = Two, !.sizes = {0, 1}, !.pads = {0, 1}]
Sound   == {Forking, Failing, [Killed EXCEPT !.born = 3],
            [Killed EXCEPT !.sizes = {1, 2}, !.figure = 2]}
=============================================================================
