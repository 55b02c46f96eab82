----------------------------- MODULE RxdChannel -----------------------------
(***************************************************************************)
(* The packet stream from one RXD peer to another (prov/rxd): how a packet *)
(* gets a sequence number, how long the transmitter keeps it on            *)
(* peer->unacked, when it may be sent again, what an ACK releases, which   *)
(* packets the receiver accepts.  Module Rxd, which models the handlers    *)
(* with the messages, lists and timers that drive them, implements this    *)
(* module; what is promised of the stream is proved here once.             *)
(*                                                                         *)
(* The datagram service may lose, duplicate and reorder: pkts and acks are *)
(* the datagrams that can still arrive, and taking one in does not use it  *)
(* up.  Sequence numbers are 64 bits in the code and do not wrap here.     *)
(* A definition that no other uses and that stands before the one it       *)
(* resembles is a mistake the properties are there to catch.               *)
(***************************************************************************)
EXTENDS Naturals, Sequences, FiniteSets

CONSTANTS
    Payload,    \* what a packet may carry
    Transfers,  \* what one handler may number: the packets of the transfers it starts
    Window,     \* rxd_env.max_unacked, what both windows start from
    MaxLog      \* bound: sequence numbers handed out

ASSUME TransfersAssumption == Transfers \subseteq Seq(Payload)
ASSUME WindowAssumption == Window \in Nat \ {0}
ASSUME MaxLogAssumption == MaxLog \in Nat

VARIABLES
    log,        \* history: the payload bound to each sequence number handed out:
                \* log[s + 1] for number s, and peer->tx_seq_no is Len(log)
    sent,       \* history: sequence numbers transmitted at least once
    unacked,    \* sequence numbers of the packets on peer->unacked
    in_use,     \* those flagged RXD_PKT_IN_USE: the datagram endpoint has the buffer
    acked,      \* those flagged RXD_PKT_ACKED: acknowledged while in use
    abandoned,  \* history: dropped from unacked because the peer timed out
    last_rx_ack,
    tx_window,
    rx_seq_no,  \* the next sequence number the receiver accepts
    rx_window,
    delivered,  \* history: the payloads the receiver accepted, in order
    pkts,       \* packets in flight
    acks        \* ACKs in flight

txVars == <<log, sent, unacked, in_use, acked, abandoned, last_rx_ack, tx_window>>
rxVars == <<rx_seq_no, rx_window, delivered>>
vars == <<txVars, rxVars, pkts, acks>>

SeqNos == 0 .. Len(log) - 1
Ack(s, w) == [seq |-> s, window |-> w]

(***************************************************************************)
(* rxd_create_peer, at both ends.                                          *)
(***************************************************************************)
Init ==
    /\ log = <<>> /\ sent = {} /\ unacked = {} /\ in_use = {} /\ acked = {}
    /\ abandoned = {} /\ last_rx_ack = 0 /\ tx_window = Window
    /\ rx_seq_no = 0 /\ rx_window = Window /\ delivered = <<>>
    /\ pkts = {} /\ acks = {}

(***************************************************************************)
(* What every transmit-side handler ends with: transfers take the next     *)
(* sequence numbers for their segments (data), and packets T are sent for  *)
(* the first time, as far as the window allows; kept is what the handler   *)
(* left on peer->unacked.                                                  *)
(***************************************************************************)
Send(data, T, kept, held, window) ==
    /\ log' = log \o data
    /\ T \subseteq (0 .. Len(log') - 1) \ sent
    /\ T # {} => Cardinality(kept) + Cardinality(T) <= window
    /\ sent' = sent \cup T
    /\ unacked' = kept \cup T
    /\ in_use' = held \cup T
    /\ pkts' = pkts \cup {[seq |-> s, data |-> log'[s + 1]] : s \in T}

\* A new operation.
Post(data, T) ==
    /\ Send(data, T, unacked, in_use, tx_window)
    /\ UNCHANGED <<acked, abandoned, last_rx_ack, tx_window, rxVars, acks>>

\* An ACK.  The window is taken first; an ACK that repeats the last one does
\* nothing more.  Otherwise the packets at the front of the list that lie
\* before the ACK go: those in use are marked, the others freed.  The walk
\* stops at the first packet that is not before the ACK, and the list need not
\* be sorted, so R is any subset of what may go.
HandleAckAtSeq(a, R, data, T) ==
    /\ a \in acks
    /\ tx_window' = a.window
    /\ last_rx_ack' = a.seq
    /\ R \subseteq {s \in unacked : s <= a.seq}
    /\ acked' = acked \cup (R \cap in_use)
    /\ Send(data, T, unacked \ (R \ in_use), in_use, a.window)
    /\ UNCHANGED <<abandoned, rxVars, acks>>
HandleAckInUse(a, R, data, T) ==
    /\ a \in acks
    /\ tx_window' = a.window
    /\ last_rx_ack' = a.seq
    /\ R \subseteq {s \in unacked : s < a.seq}
    /\ Send(data, T, unacked \ R, in_use, a.window)
    /\ UNCHANGED <<acked, abandoned, rxVars, acks>>
HandleAck(a, R, data, T) ==
    /\ a \in acks
    /\ tx_window' = a.window
    /\ last_rx_ack' = a.seq
    /\ R \subseteq {s \in unacked : s < a.seq}
    /\ a.seq = last_rx_ack => R = {} /\ T = {} /\ data = <<>>
    /\ acked' = acked \cup (R \cap in_use)
    /\ Send(data, T, unacked \ (R \ in_use), in_use, a.window)
    /\ UNCHANGED <<abandoned, rxVars, acks>>

\* The datagram endpoint returns the buffer of packet s.
SendComp(s, data, T) ==
    /\ s \in in_use
    /\ acked' = acked \ {s}
    /\ s \notin acked => T = {} /\ data = <<>>
    /\ Send(data, T, IF s \in acked THEN unacked \ {s} ELSE unacked,
            in_use \ {s}, tx_window)
    /\ UNCHANGED <<abandoned, last_rx_ack, tx_window, rxVars, acks>>

\* Packets S are retransmitted: none that the datagram endpoint still has.
Resend(S) ==
    /\ S \subseteq unacked \ (in_use \cup acked)
    /\ in_use' = in_use \cup S
    /\ pkts' = pkts \cup {[seq |-> s, data |-> log[s + 1]] : s \in S}
    /\ UNCHANGED <<log, sent, unacked, acked, abandoned, last_rx_ack, tx_window,
                   rxVars, acks>>

\* rxd_peer_timeout: the transmitter gives up on everything unacknowledged.
Abandon ==
    /\ abandoned' = abandoned \cup unacked
    /\ unacked' = {} /\ in_use' = {} /\ acked' = {}
    /\ UNCHANGED <<log, sent, last_rx_ack, tx_window, rxVars, pkts, acks>>

(***************************************************************************)
(* The receiver takes in the next n packets (n > 1 when packets that       *)
(* arrived early had been kept).  An ACK names a sequence number it has    *)
(* reached and its window; not every packet is acknowledged.               *)
(***************************************************************************)
AcceptGap(n, A) ==
    /\ \E p \in pkts : p.seq = rx_seq_no + n - 1 /\ delivered' = Append(delivered, p.data)
    /\ rx_seq_no' = rx_seq_no + n
    /\ rx_window' = rx_window
    /\ A \subseteq {Ack(rx_seq_no + n, rx_window)}
    /\ acks' = acks \cup A
    /\ UNCHANGED <<txVars, pkts>>
Accept(n, A) ==
    /\ \A k \in 0 .. n - 1 : \E p \in pkts : p.seq = rx_seq_no + k
    /\ rx_seq_no' = rx_seq_no + n
    /\ delivered' = delivered \o
          [k \in 1 .. n |-> (CHOOSE p \in pkts : p.seq = rx_seq_no + k - 1).data]
    /\ rx_window' \in {rx_window, Window}
    /\ A \subseteq {Ack(s, w) : s \in rx_seq_no .. rx_seq_no + n, w \in {rx_window, Window}}
    /\ acks' = acks \cup A
    /\ UNCHANGED <<txVars, pkts>>

\* A packet that is not the next one is answered with what is expected; so is
\* one for which there is no rx entry, and that closes the window.
Refuse(p) ==
    /\ p \in pkts
    /\ \/ p.seq # rx_seq_no /\ rx_window' = rx_window
       \/ p.seq = rx_seq_no /\ rx_window' = 0
    /\ acks' = acks \cup {Ack(rx_seq_no, rx_window')}
    /\ UNCHANGED <<txVars, rx_seq_no, delivered, pkts>>

\* A receive posted for a message that had been waiting may send an ACK.
AckAgain ==
    /\ acks' = acks \cup {Ack(rx_seq_no, rx_window)}
    /\ UNCHANGED <<txVars, rxVars, pkts>>

\* Datagrams disappear.
Lose(P, A) ==
    /\ pkts' = pkts \ P
    /\ acks' = acks \ A
    /\ UNCHANGED <<txVars, rxVars>>

Fits(data) == Len(log) + Len(data) <= MaxLog

Next ==
    \/ \E data \in Transfers : Fits(data) /\
          \E T \in SUBSET (0 .. Len(log) + Len(data) - 1) :
             \/ Post(data, T)
             \/ \E a \in acks, R \in SUBSET unacked : HandleAck(a, R, data, T)
             \/ \E s \in in_use : SendComp(s, data, T)
    \/ \E S \in SUBSET unacked : Resend(S)
    \/ Abandon
    \/ \E n \in 1 .. Len(log) : \E A \in SUBSET {Ack(s, w) : s \in rx_seq_no .. rx_seq_no + n,
                                                          w \in {rx_window, Window}} :
          Accept(n, A)
    \/ \E p \in pkts : Refuse(p)
    \/ AckAgain
    \/ \E P \in SUBSET pkts, A \in SUBSET acks : Lose(P, A)

Spec == Init /\ [][Next]_vars

-----------------------------------------------------------------------------
(***************************************************************************)
(* Properties.                                                             *)
(***************************************************************************)
\* Type invariant: sequence numbers stay within what was numbered, the sets of packets
\* within their universes, and the windows are open or closed.
TypeOK ==
    /\ log \in Seq(Payload)
    /\ sent \subseteq Nat /\ unacked \subseteq Nat /\ in_use \subseteq Nat
    /\ acked \subseteq Nat /\ abandoned \subseteq Nat
    /\ last_rx_ack \in Nat /\ tx_window \in {0, Window}
    /\ rx_seq_no \in Nat /\ rx_window \in {0, Window}
    /\ delivered \in Seq(Payload)
    /\ pkts \subseteq [seq : Nat, data : Payload]
    /\ acks \subseteq [seq : Nat, window : {0, Window}]

\* The receiver hands up exactly the payloads that were numbered, in that
\* order, none twice and none missing, whatever the network does: the
\* rx_seq_no test of rxd_handle_op and rxd_handle_data.
InOrderDelivery ==
    delivered = [i \in 1 .. rx_seq_no |-> log[i]] /\ rx_seq_no <= Len(log)

\* A packet that was sent and is no longer kept for retransmission has been
\* accepted by the receiver, unless the peer timed out: rxd_handle_ack and
\* rxd_handle_send_comp release nothing the receiver still needs, even when
\* ACKs are late, repeated or overtaken.
KeptUntilAccepted ==
    \A s \in sent : s \in unacked \cup abandoned \/ s < rx_seq_no

\* At most a window of packets is outstanding, though the window opens and
\* closes with ACKs that arrive in any order: the unacked_cnt tests of
\* rxd_start_xfer and rxd_ep_post_data_pkts.
WindowRespected == Cardinality(unacked) <= Window

\* Outside a peer timeout, rxd_handle_ack and rxd_handle_send_comp free no buffer
\* the datagram endpoint still reads: a packet in use stays on peer->unacked, and
\* one marked as acknowledged is waiting only for its send completion.
BufferOwnership == acked \subseteq in_use /\ in_use \subseteq unacked

(***************************************************************************)
(* The inductive invariant: what is in flight is genuine, and nothing is   *)
(* acknowledged that has not been accepted.                                *)
(***************************************************************************)
Bookkeeping == sent \subseteq SeqNos /\ unacked \subseteq sent /\ IsFiniteSet(unacked)
PktsGenuine == \A p \in pkts : p.seq \in SeqNos /\ p.data = log[p.seq + 1]
AcksGenuine == (\A a \in acks : a.seq <= rx_seq_no) /\ (\A s \in acked : s < rx_seq_no)

IInv ==
    /\ TypeOK /\ Bookkeeping /\ PktsGenuine /\ AcksGenuine
    /\ InOrderDelivery /\ KeptUntilAccepted /\ BufferOwnership /\ WindowRespected
=============================================================================
