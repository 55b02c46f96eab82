--------------------------- MODULE MCAtomicQueue ---------------------------
(***************************************************************************)
(* Two producers and two consumers of the atomic queue.                   *)
(***************************************************************************)
EXTENDS AtomicQueue
CONSTANTS p1, p2, c1, c2
MCProducers == {p1, p2}
MCConsumers == {c1, c2}
MCValue == {"x"}
=============================================================================
