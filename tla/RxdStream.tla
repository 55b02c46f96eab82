------------------------------ MODULE RxdStream ------------------------------
(***************************************************************************)
(* The packets one RXD endpoint sends the other are an RxdChannel.  The    *)
(* mapping is for environments with retry and keep and without lossy: the  *)
(* abstract network keeps what was received.                               *)
(***************************************************************************)
EXTENDS Rxd

CONSTANTS
    From,       \* the endpoint whose packets are looked at
    MaxLog      \* no fewer than the packets a program numbers

ASSUME FromAssumption == From \in EP

To == Other(From)

\* What the operations of a program, and the answers to them, number.
Numberings(p) ==
    {XferPkts([id |-> <<e, i>>, op |-> p[e][i].op, num_segs |-> p[e][i].segs]) :
        <<e, i>> \in {x \in EP \X (1 .. 3) : x[2] <= Len(p[x[1]])}}
    \cup
    {[n \in 1 .. (IF p[e][i].op = "FETCH" THEN 1 ELSE p[e][i].segs) |->
         [type |-> "DATA_READ", id |-> <<e, i>>, seg |-> n - 1,
          num_segs |-> IF p[e][i].op = "FETCH" THEN 1 ELSE p[e][i].segs]] :
        <<e, i>> \in {x \in EP \X (1 .. 3) : x[2] <= Len(p[x[1]]) /\ p[x[1]][x[2]].op \in {"READ_REQ", "FETCH"}}}
Batches == UNION {{FlattenSeq(s) : s \in SetToAllKPermutations(Numberings(x.prog))} : x \in Envs}
AllPkts == UNION {ToSet(b) : b \in Batches}
Numbered == {u \in ToSet(peer[From].unacked) : u.type = "PKT"}
InFlight == {m \in net[To] : m.type = "PKT"} \cup ToSet(peer[To].buf_pkts)

Channel == INSTANCE RxdChannel WITH
    Payload <- AllPkts,
    Transfers <- Batches,
    log <- peer[From].log,
    sent <- peer[From].sent,
    unacked <- {u.seq : u \in Numbered},
    in_use <- {u.seq : u \in {v \in Numbered : v.in_use}},
    acked <- {u.seq : u \in {v \in Numbered : v.acked}},
    abandoned <- peer[From].abandoned,
    last_rx_ack <- peer[From].last_rx_ack,
    tx_window <- peer[From].tx_window,
    rx_seq_no <- peer[To].rx_seq_no,
    rx_window <- peer[To].rx_window,
    delivered <- peer[To].delivered,
    pkts <- {[seq |-> m.seq, data |-> m.data] : m \in InFlight},
    acks <- {[seq |-> m.seq, window |-> m.window] : m \in {x \in net[From] : x.type = "ACK"}}

\* Every step of the two endpoints is a step of the abstract stream from From to To,
\* or leaves it alone: whatever the handlers of rxd_cq.c and the retry pass of
\* rxd_ep_progress do, and however calls, datagrams, completions and timeouts
\* interleave, they number, keep, resend, release and accept packets as RxdChannel
\* allows, so what is proved of RxdChannel holds of them.
ImplementsChannel == Channel!Spec
=============================================================================
