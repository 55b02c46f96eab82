----------------------------- MODULE MCMrCache -----------------------------
(***************************************************************************)
(* Regions of three addresses: nested, overlapping and apart.  An aligning *)
(* provider has pages of two addresses, and one that starts at the third.  *)
(***************************************************************************)
EXTENDS MrCache
MCAligned == [r \in Regions |-> <<IF r[1] < 3 THEN 1 ELSE 3, IF r[2] < 3 THEN 2 ELSE 3>>]

S(first, last) == [op |-> "search", reg |-> <<first, last>>]
F(first, last) == [op |-> "find", reg |-> <<first, last>>]
R(first, last) == [op |-> "reg", reg |-> <<first, last>>]
Setup(pr, mo, fa, c1, c2, c3) ==
    [provider |-> pr, monitor |-> mo, fails |-> fa, calls |-> <<c1, c2, c3>>]
MCSetups == {
    \* nested and overlapping regions
    Setup("exact", "notify", FALSE, <<S(1, 1), S(1, 2)>>, <<S(1, 2), S(2, 3)>>, << >>),
    Setup("exact", "notify", FALSE, <<S(1, 1)>>, <<S(1, 2)>>, <<S(1, 2)>>),
    \* failures, and a registration outside the cache
    Setup("exact", "notify", TRUE, <<S(1, 1), S(2, 3)>>, <<R(1, 2)>>, << >>),
    \* regions that become the same when they are aligned
    Setup("aligned", "notify", FALSE, <<S(1, 1), F(2, 2)>>, <<S(2, 2), F(1, 1)>>, << >>),
    Setup("aligned", "notify", FALSE, <<S(1, 1), S(2, 3)>>, <<S(2, 2)>>, << >>),
    \* allocations that are asked for
    Setup("exact", "query", FALSE, <<S(1, 2), S(1, 1)>>, <<F(1, 1), S(1, 1)>>, << >>),
    Setup("exact", "query", FALSE, <<S(1, 2), F(1, 3)>>, <<S(2, 3)>>, << >>)}
=============================================================================
