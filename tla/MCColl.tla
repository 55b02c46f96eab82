------------------------------- MODULE MCColl -------------------------------
(* Programs of collective calls for three to five endpoints. *)
EXTENDS Coll
C(op, mc, root, cnt) == [op |-> op, mc |-> mc, set |-> 0, root |-> root, cnt |-> cnt]
J(mc, set) == [op |-> "join", mc |-> mc, set |-> set, root |-> 0, cnt |-> 1]
Program(n, sets, calls) ==
    [n |-> n, sets |-> sets, calls |-> calls, joined |-> FALSE, waits |-> TRUE, directed |-> FALSE]
\* The calls are made on the group of all endpoints, which has been joined.
OnAll(n, calls) == [Program(n, <<[i \in 1 .. n |-> i]>>, calls) EXCEPT !.joined = TRUE]
MCEnvs == {
    Program(3, << <<3, 1, 2>> >>, <<J(1, 1), C("allreduce", 2, 0, 1)>>),
    OnAll(3, <<C("allreduce", 2, 0, 1), C("barrier", 2, 0, 1)>>),
    OnAll(4, <<C("allreduce", 2, 0, 1)>>),
    OnAll(5, <<C("scatter", 2, 2, 1)>>),
    OnAll(3, <<C("broadcast", 2, 1, 3)>>),
    OnAll(3, <<C("allgather", 2, 0, 2)>>),
    OnAll(3, <<C("scatter", 2, 1, 1), C("scatter", 2, 0, 1)>>),
    \* Two sets with the members 2 and 3 in common, which have other ranks there.
    [Program(4, << <<1, 2, 3, 4>>, <<2, 3>> >>, <<J(1, 1), J(2, 2)>>) EXCEPT !.directed = TRUE]}
\* As the last one, for a peer endpoint without FI_DIRECTED_RECV.
Undirected ==
    {Program(4, << <<1, 2, 3, 4>>, <<2, 3>>, <<4, 3>> >>, <<J(1, 1), J(2, 2), J(3, 3)>>)}
\* Two joins at the same time.
AtOnce ==
    {[Program(3, << <<1, 2>>, <<2, 3>> >>, <<J(1, 1), J(2, 2)>>) EXCEPT !.waits = FALSE, !.directed = TRUE]}
\* A broadcast whose count is not a multiple of the number of ranks.
Uneven == {OnAll(3, <<C("broadcast", 2, 0, 4)>>)}
=============================================================================
