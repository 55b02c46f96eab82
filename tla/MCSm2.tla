------------------------------- MODULE MCSm2 -------------------------------
(***************************************************************************)
(* Two endpoints of the sm2 provider.  The receiver has one entry to       *)
(* notify senders with, fewer than the messages set aside may need.        *)
(***************************************************************************)
EXTENDS Sm2
MCPool == [e \in Ep |-> IF e = "a" THEN 2 ELSE 1]
=============================================================================
