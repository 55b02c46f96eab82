------------------------------ MODULE MCRxmConn ------------------------------
(* Instances of RxmConn: two endpoints that send to each other, or one of   *)
(* them to the other or to itself, with up to two failures.                 *)
EXTENDS RxmConn, TLC

MCPool == (1 :> 1 .. 4) @@ (2 :> {5})
Both == {<<1, 2>>, <<2, 1>>}
MCDeferring ==
    [wants : {Both}, faults : {1}, defers : {TRUE}, removes : {FALSE}]
MCSetups ==
    [wants : {Both}, faults : {2}, defers : {FALSE}, removes : {TRUE}]
    \cup [wants : {{<<1, 1>>}}, faults : {1}, defers : {FALSE}, removes : {TRUE}]
    \cup MCDeferring
=============================================================================
