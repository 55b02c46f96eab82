---------------------------- MODULE MCRxdChannel ----------------------------
(***************************************************************************)
(* RxdChannel with two payloads and transfers of at most two packets.      *)
(***************************************************************************)
EXTENDS RxdChannel
CONSTANTS d1, d2
MCPayload == {d1, d2}
MCTransfers == {<<>>} \cup {<<d>> : d \in MCPayload} \cup {<<d, e>> : d, e \in MCPayload}
=============================================================================
