----------------------------- MODULE MCSm2Fifo -----------------------------
(***************************************************************************)
(* Three endpoints, so that two write to one queue while its owner reads   *)
(* it, and an entry for each.                                              *)
(***************************************************************************)
EXTENDS Sm2Fifo, TLC
CONSTANTS a, b, c, x1, x2, x3
MCEp == {a, b, c}
MCEnt == {x1, x2, x3}
MCHome == x1 :> a @@ x2 :> b @@ x3 :> c
=============================================================================
