-------------------------------- MODULE MCRxd --------------------------------
(***************************************************************************)
(* Rxd and RxdStream with two endpoints and small sets of programs.        *)
(***************************************************************************)
EXTENDS RxdStream

CONSTANTS a, b
MCEP == {a, b}

Msg(n, pre) == [op |-> "MSG", segs |-> n, pre |-> pre]
Write(n) == [op |-> "WRITE", segs |-> n, pre |-> TRUE]
Read(n) == [op |-> "READ_REQ", segs |-> n, pre |-> TRUE]
Fetch(n) == [op |-> "FETCH", segs |-> n, pre |-> TRUE]

\* The environment in which a posts x and b posts y, over a network that duplicates
\* and reorders.
Env(x, y) == [prog |-> [e \in MCEP |-> IF e = a THEN x ELSE y],
              retry |-> TRUE, lossy |-> FALSE, keep |-> TRUE]
FromA(x) == Env(x, <<>>)
NoRetry(E) == {[x EXCEPT !.retry = FALSE, !.keep = FALSE] : x \in E}
Reordered(E) == {[x EXCEPT !.keep = FALSE] : x \in E}
Lossy(E) == {[x EXCEPT !.keep = FALSE, !.lossy = TRUE] : x \in E}

Short == {FromA(<<Msg(2, pre)>>) : pre \in BOOLEAN}
Crossing == {Env(<<Msg(1, TRUE)>>, <<Msg(1, TRUE)>>)}

\* Messages that fill and overflow the window, early and late receives, both directions.
Messages ==
    Short \cup Crossing \cup
    {FromA(<<Msg(2, TRUE), Msg(1, FALSE)>>), FromA(<<Msg(1, TRUE), Msg(2, FALSE)>>),
     FromA(<<Msg(3, TRUE), Msg(1, TRUE)>>)}

\* Reads and fetching atomics, whose data flows back, between messages and writes.
Remote ==
    {FromA(<<Write(2), Read(1)>>), FromA(<<Msg(3, FALSE), Write(1)>>), FromA(<<Fetch(1)>>)}

Normal == Messages \cup Remote \cup {FromA(<<Read(2), Msg(1, TRUE)>>)} \cup NoRetry(Messages \cup Remote)
Flows ==
    Short \cup Crossing \cup
    {FromA(<<Read(1)>>), Env(<<>>, <<Read(2)>>), FromA(<<Write(1)>>), FromA(<<Write(3)>>), FromA(<<Fetch(1)>>),
     FromA(<<Msg(1, TRUE), Msg(1, FALSE)>>)}
Fair ==
    Lossy({FromA(<<Msg(1, TRUE)>>), FromA(<<Write(1)>>)})
    \cup Reordered({FromA(<<Read(1)>>), FromA(<<Fetch(1)>>)})

\* For what a particular sequence of calls leads to.
Overtake == {FromA(<<Read(2), Msg(1, TRUE), Msg(1, TRUE)>>)}
TwoSegments == Reordered({FromA(<<Msg(2, TRUE)>>)})
LateReceive == {FromA(<<Msg(1, FALSE), Msg(2, TRUE)>>)}
EarlySegments == NoRetry({FromA(<<Msg(3, TRUE), Msg(1, TRUE)>>)})
=============================================================================
