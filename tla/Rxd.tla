--------------------------------- MODULE Rxd ---------------------------------
(***************************************************************************)
(* Two RXD endpoints (prov/rxd: reliable datagrams over an unreliable      *)
(* datagram endpoint), one peer structure at each, and the datagrams       *)
(* between them.  The module follows the handlers of rxd_cq.c and          *)
(* rxd_ep.c: the RTS/CTS handshake, the list of transfers and the window,  *)
(* segments, ACKs, retransmission, the peer timeout, unexpected messages,  *)
(* and reads and fetching atomics, whose data flows back.                  *)
(*                                                                         *)
(* A handler is a function from a peer record to a peer record: it         *)
(* collects what it sends in field out, and the action that calls it puts  *)
(* that on the network.  Handlers run under the endpoint's lock;           *)
(* rxd_ep_progress holds it from its first completion (busy) to the end    *)
(* of its retry pass.  Which receive a message goes to is module RxdRecv's *)
(* subject; here a message finds a receive or does not.                    *)
(*                                                                         *)
(* Not modelled: rxd_get_tx_pkt and calloc returning NULL, a full          *)
(* completion queue, a remote key that does not verify, the wrap of the    *)
(* 64-bit sequence numbers, fetches with FI_ATOMIC_READ, rxd_handle_error, *)
(* closing an endpoint, more than one peer.  fi_send failing at the        *)
(* datagram endpoint is a lost datagram whose buffer comes back at once.   *)
(* Definitions whose name extends that of the next one (FullLate for Full) *)
(* are mistakes the properties below are there to catch; none is used.     *)
(***************************************************************************)
EXTENDS Integers, Sequences, SequencesExt, FiniteSets

CONSTANTS
    EP,         \* the two endpoints
    Envs,       \* what a behaviour is about, records with fields
                \*   prog: prog[e] are the operations the application of e posts, in
                \*     order: [op, segs, pre]; pre: a message finds a receive posted;
                \*     for FETCH segs is what the entry's last user left in num_segs,
                \*     which rxd_tx_entry_init_atomic does not set
                \*   retry: rxd_env.retry
                \*   lossy: datagrams may be lost
                \*   keep: a received datagram stays receivable: arbitrary duplication
    Window,     \* rxd_env.max_unacked
    MaxRetry,   \* RXD_MAX_PKT_RETRY
    RetryBound, \* bound: consecutive retries explored; above MaxRetry peers time out
    TxAvail,    \* tx_size: tx entries for messages, and as many for RMA and atomics
    RxAvail     \* rx entries for RMA requests (rx_rma_avail)

ASSUME EPAssumption == Cardinality(EP) = 2
ASSUME EnvsAssumption ==
    \A x \in Envs :
        /\ x.retry \in BOOLEAN /\ x.lossy \in BOOLEAN /\ x.keep \in BOOLEAN
        /\ \A e \in EP : \A i \in DOMAIN x.prog[e] : LET o == x.prog[e][i] IN
              /\ o.op \in {"MSG", "WRITE", "READ_REQ", "FETCH"} /\ o.pre \in BOOLEAN
              /\ o.segs \in Nat /\ (o.op # "FETCH" => o.segs > 0)
ASSUME BoundAssumption ==
    /\ Window \in Nat \ {0} /\ MaxRetry \in Nat /\ RetryBound \in Nat
    /\ TxAvail \in Nat /\ RxAvail \in Nat

VARIABLES
    peer,       \* peer[e]: e's struct rxd_peer for the other endpoint, and the
                \* counters of e the handlers use
    env,        \* the member of Envs this behaviour is about
    posted,     \* posted[e]: how many operations of env.prog[e] have been posted
    busy,       \* busy[e]: rxd_ep_progress holds e's lock
    net         \* net[e]: datagrams in flight to e

vars == <<peer, env, posted, busy, net>>

Other(e) == CHOOSE p \in EP : p # e

\* What curr_rx_id names when no rx entry is taking segments: none, or a freed one.
NoXfer == [id |-> <<>>, type |-> "none", num_segs |-> 0, next_seg_no |-> 0]

(***************************************************************************)
(* rxd_create_peer; log, sent, abandoned and delivered are history: the    *)
(* packet bound to each sequence number handed out, the numbers sent at    *)
(* least once, those given up, and the packets accepted.                   *)
(***************************************************************************)
NewPeer ==
    [peer_addr |-> FALSE, active |-> FALSE, list |-> "none", retry_cnt |-> 0,
     tx_seq_no |-> 0, last_rx_ack |-> 0, tx_window |-> Window,
     unacked |-> <<>>, unacked_cnt |-> 0, ctrl_rts |-> 0, stale |-> 0,
     tx_list |-> <<>>, rma_rx_list |-> {}, cq |-> <<>>,
     tx_avail |-> [msg |-> TxAvail, rma |-> TxAvail],
     rx_seq_no |-> 0, rx_window |-> Window, curr |-> NoXfer, curr_unexp |-> <<>>, unexp |-> {},
     rx_avail |-> RxAvail, buf_pkts |-> <<>>, crash |-> "no",
     log |-> <<>>, sent |-> {}, abandoned |-> {}, delivered |-> <<>>,
     out |-> {}, stop |-> FALSE]

Init ==
    /\ peer = [e \in EP |-> NewPeer]
    /\ env \in Envs
    /\ posted = [e \in EP |-> 0]
    /\ busy = [e \in EP |-> FALSE]
    /\ net = [e \in EP |-> {}]

-----------------------------------------------------------------------------
(***************************************************************************)
(* Transmit side.                                                          *)
(***************************************************************************)
Full(st) == st.unacked_cnt >= st.tx_window
Room(st) == IF Full(st) THEN 0 ELSE st.tx_window - st.unacked_cnt

Pkt(type, t, seg) == [type |-> type, id |-> t.id, seg |-> seg, num_segs |-> t.num_segs]
OpPkt(t) == Pkt(t.op, t, 0)
DataType(t) == IF t.op = "DATA_READ" THEN "DATA_READ" ELSE "DATA"
\* The packets rxd_start_xfer sets numbers aside for.  A fetching atomic has one
\* packet: further numbers are never used.
XferPkts(t) ==
    <<OpPkt(t)>> \o [n \in 1 .. (IF t.op = "READ_REQ" \/ t.num_segs = 0 THEN 0 ELSE t.num_segs - 1) |->
                       IF t.op \in {"MSG", "WRITE"} THEN Pkt("DATA", t, n - 1) ELSE Pkt("HOLE", t, n)]

\* rxd_get_tx_entry counts messages and other operations apart.
Pool(op) == IF op = "MSG" THEN "msg" ELSE "rma"

Has(st, id) == \E i \in DOMAIN st.tx_list : st.tx_list[i].id = id
Entry(st, id) == st.tx_list[CHOOSE i \in DOMAIN st.tx_list : st.tx_list[i].id = id]
SetEntry(list, new) == [i \in DOMAIN list |-> IF list[i].id = new.id THEN new ELSE list[i]]
Drop(list, id) == SelectSeq(list, LAMBDA t : t.id # id)

\* Where a new entry and a packet sent for the first time go: the ends of the lists.
QueueTxFront(st, t) == [st EXCEPT !.tx_list = <<t>> \o @]
QueueTx(st, t) == [st EXCEPT !.tx_list = Append(@, t)]
InsertUnacked(list, new) == list \o new

\* The first transmission of packets ps, numbered from s: rxd_ep_send_pkt and
\* rxd_insert_unacked for each.
SendPkts(st, s, ps) ==
    [st EXCEPT
        !.out = @ \cup {[type |-> "PKT", seq |-> s + i - 1, data |-> ps[i]] : i \in DOMAIN ps},
        !.sent = @ \cup {s + i - 1 : i \in DOMAIN ps},
        !.unacked = InsertUnacked(@, [i \in DOMAIN ps |->
                        [type |-> "PKT", seq |-> s + i - 1, data |-> ps[i],
                         in_use |-> TRUE, acked |-> FALSE]]),
        !.unacked_cnt = @ + Len(ps)]

\* rxd_start_xfer for an entry of tx_list that still has its packet.  A request whose
\* answer brings data moves to rma_rx_list.
Relist(st, t) ==
    IF t.op \in {"READ_REQ", "FETCH"}
    THEN [st EXCEPT !.tx_list = Drop(@, t.id), !.rma_rx_list = @ \cup {t}]
    ELSE [st EXCEPT !.tx_list = SetEntry(@, t)]
Number(st, ps) == [st EXCEPT !.tx_seq_no = @ + Len(ps), !.log = @ \o ps]
Start(st, t) ==
    Relist(SendPkts(Number(st, XferPkts(t)), st.tx_seq_no, <<OpPkt(t)>>),
           [t EXCEPT !.pkt = FALSE, !.start_seq = st.tx_seq_no])
StartXfer(st, id) == IF Full(st) THEN st ELSE Start(st, Entry(st, id))

\* bytes_done = cq_entry.len: every segment has been put in a packet.
AllSentShort(t) ==
    CASE t.op \in {"MSG", "WRITE", "DATA_READ"} -> t.next_seg_no = t.num_segs - 1
      [] t.op = "READ_REQ" -> FALSE
      [] t.op = "FETCH" -> TRUE
AllSent(t) ==
    CASE t.op \in {"MSG", "WRITE"} -> t.next_seg_no = t.num_segs - 1
      [] t.op = "DATA_READ" -> t.next_seg_no = t.num_segs
      [] t.op = "READ_REQ" -> FALSE
      [] t.op = "FETCH" -> TRUE

\* rxd_ep_post_data_pkts: as many further segments as the window allows.
PostSegs(st, t, n) ==
    SendPkts([st EXCEPT !.tx_list = SetEntry(@, [t EXCEPT !.next_seg_no = @ + n])],
             t.start_seq + t.next_seg_no + (IF t.op = "DATA_READ" THEN 0 ELSE 1),
             [i \in 1 .. n |-> Pkt(DataType(t), t, t.next_seg_no + i - 1)])
SegsLeft(t) == (IF t.op = "DATA_READ" THEN t.num_segs ELSE t.num_segs - 1) - t.next_seg_no
PostData(st, id) ==
    LET t == Entry(st, id)
    IN  PostSegs(st, t, IF SegsLeft(t) <= Room(st) THEN SegsLeft(t) ELSE Room(st))

\* rxd_complete_tx, and rxd_complete_rx for the entry that answered a read.
CompleteTx(st, t) ==
    IF t.op = "DATA_READ"
    THEN [st EXCEPT !.tx_list = Drop(@, t.id), !.rx_avail = @ + 1]
    ELSE [st EXCEPT !.tx_list = Drop(@, t.id), !.rma_rx_list = @ \ {t},
                    !.tx_avail[Pool(t.op)] = @ + 1,
                    !.cq = Append(@, [id |-> t.id, ok |-> TRUE])]

\* The last packet of t lies before the oldest one not acknowledged.
AcknowledgedEarly(t, head_seq) == t.start_seq + t.num_segs - 1 <= head_seq
Acknowledged(t, head_seq) == t.start_seq + t.num_segs - 1 < head_seq

\* One round of the loop in rxd_progress_tx_list, for an entry that has been started.
\* The numbers for the answer to a read are taken when it is first sent.
FirstOfAnswer(t) == t.op = "DATA_READ" /\ t.next_seg_no = 0
NumberAnswer(st, t) ==
    IF ~FirstOfAnswer(t) THEN st
    ELSE Number([st EXCEPT !.tx_list = SetEntry(@, [t EXCEPT !.start_seq = st.tx_seq_no])],
                [n \in 1 .. t.num_segs |-> Pkt("DATA_READ", t, n - 1)])
Stop(st) == [st EXCEPT !.stop = TRUE]
StopIfFull(st, id) == IF AllSent(Entry(st, id)) /\ Full(st) THEN Stop(st) ELSE st
ProgressStarted(st, t, head_seq) ==
    IF AllSent(t)
    THEN IF Acknowledged(t, head_seq) THEN CompleteTx(st, t) ELSE st
    ELSE IF FirstOfAnswer(t) /\ Full(st) THEN Stop(st)
    ELSE StopIfFull(PostData(NumberAnswer(st, t), t.id), t.id)

\* The loop: an entry that still has its packet is started first.
ProgressTxEntry(st, id, head_seq) ==
    LET t == Entry(st, id)
        started(st1) ==
            IF Full(st) \/ Full(st1) \/ t.op = "READ_REQ" THEN Stop(st1)
            ELSE ProgressStarted(st1, IF Has(st1, id) THEN Entry(st1, id)
                                      ELSE CHOOSE r \in st1.rma_rx_list : r.id = id, head_seq)
    IN  IF st.stop THEN st
        ELSE IF t.pkt THEN started(StartXfer(st, id))
        ELSE ProgressStarted(st, t, head_seq)

HeadSeq(st) == IF st.unacked = <<>> THEN st.last_rx_ack ELSE st.unacked[1].seq
LoopDone(st) == [st EXCEPT !.stop = FALSE, !.retry_cnt = IF st.tx_list = <<>> THEN 0 ELSE @]
ProgressTxList(st) ==
    IF ~st.peer_addr THEN st
    ELSE LoopDone(FoldLeft(LAMBDA x, id : ProgressTxEntry(x, id, HeadSeq(st)), st,
                           [i \in DOMAIN st.tx_list |-> st.tx_list[i].id]))

\* rxd_send_rts_if_needed
SendRtsUnlisted(st) ==
    IF st.peer_addr \/ st.unacked # <<>> THEN st
    ELSE [st EXCEPT !.out = @ \cup {[type |-> "RTS"]},
                    !.unacked = <<[type |-> "RTS", seq |-> 0, in_use |-> TRUE, acked |-> FALSE]>>,
                    !.unacked_cnt = @ + 1]
SendRtsIfNeeded(st) ==
    IF st.peer_addr \/ st.unacked # <<>> THEN st
    ELSE [st EXCEPT !.out = @ \cup {[type |-> "RTS"]}, !.list = "rts_sent",
                    !.unacked = <<[type |-> "RTS", seq |-> 0, in_use |-> TRUE, acked |-> FALSE]>>,
                    !.unacked_cnt = @ + 1]

\* rxd_verify_active and rxd_progress_tx_list.  The RTS on unacked is done with:
\* it is freed, or left with the datagram endpoint and still counted.
UpdatePeer(st) ==
    LET rts == st.unacked # <<>> /\ st.unacked[1].type = "RTS"
        held == rts /\ st.unacked[1].in_use
        st1 == [st EXCEPT !.peer_addr = TRUE,
                          !.unacked = IF rts THEN Tail(@) ELSE @,
                          !.ctrl_rts = IF held THEN @ + 1 ELSE @,
                          !.unacked_cnt = IF rts /\ ~held THEN @ - 1 ELSE @,
                          !.list = IF rts THEN "none" ELSE @]
        st2 == IF st.active THEN st1
               ELSE [st1 EXCEPT !.list = "active", !.retry_cnt = 0, !.active = TRUE]
    IN  ProgressTxList(st2)

HandleRts(st) == [UpdatePeer(st) EXCEPT !.out = @ \cup {[type |-> "CTS"]}]
HandleCts(st) == UpdatePeer(st)

\* What ACK m releases.
BeforeOrAt(u, m) == u.seq <= m.seq
Before(u, m) == u.seq < m.seq

\* rxd_handle_ack: the walk over unacked stops at the first packet that is not
\* before the ACK.
HandleAck(st, m) ==
    LET n == CHOOSE k \in 0 .. Len(st.unacked) :
                /\ \A i \in 1 .. k : Before(st.unacked[i], m)
                /\ k < Len(st.unacked) => ~Before(st.unacked[k + 1], m)
        front == SubSeq(st.unacked, 1, n)
        held == SelectSeq(front, LAMBDA u : u.in_use)
        st0 == [st EXCEPT !.tx_window = m.window]
        st1 == [st0 EXCEPT !.last_rx_ack = m.seq]
        st2 == [st1 EXCEPT
                  !.unacked = [i \in DOMAIN held |-> [held[i] EXCEPT !.acked = TRUE]]
                              \o SubSeq(@, n + 1, Len(@)),
                  !.unacked_cnt = @ - (n - Len(held)),
                  !.retry_cnt = IF Len(held) < n THEN 0 ELSE @]
    IN  IF st.last_rx_ack = m.seq THEN st0
        ELSE IF st.unacked = <<>> THEN st1
        ELSE ProgressTxList(st2)

\* rxd_handle_send_comp for the i-th packet of unacked, and for an RTS that the
\* handshake has already moved to ctrl_pkts.
SendComp(st, i) ==
    IF st.unacked[i].acked
    THEN ProgressTxList([st EXCEPT !.unacked = RemoveAt(@, i), !.unacked_cnt = @ - 1])
    ELSE [st EXCEPT !.unacked[i].in_use = FALSE]
RtsComp(st) == ProgressTxList([st EXCEPT !.ctrl_rts = @ - 1, !.unacked_cnt = @ - 1])

\* rxd_peer_timeout: the transfers fail and every packet is freed, also those the
\* datagram endpoint has not returned (stale).  An entry that answers a read came
\* from the rx entries; it is given back as a tx entry, and reported, like the rest.
PeerTimeoutKeep(st) ==
    [st EXCEPT
        !.unacked = <<>>, !.unacked_cnt = @ - Len(st.unacked),
        !.cq = @ \o [i \in DOMAIN st.tx_list |-> [id |-> st.tx_list[i].id, ok |-> FALSE]]]
PeerTimeout(st) ==
    [st EXCEPT
        !.tx_list = <<>>,
        !.tx_avail = [p \in DOMAIN @ |-> @[p] + Len(SelectSeq(st.tx_list, LAMBDA t : Pool(t.op) = p))],
        !.cq = @ \o [i \in DOMAIN st.tx_list |-> [id |-> st.tx_list[i].id, ok |-> FALSE]],
        !.unacked = <<>>, !.unacked_cnt = @ - Len(st.unacked),
        !.stale = @ + Len(SelectSeq(st.unacked, LAMBDA u : u.in_use)),
        !.abandoned = @ \cup {u.seq : u \in {v \in ToSet(st.unacked) : v.type = "PKT"}},
        !.list = "none"]

\* rxd_progress_pkt_list sends the first k packets of unacked again.
ResendPkts(st, k) ==
    LET again == {st.unacked[i] : i \in 1 .. k}
    IN  [st EXCEPT
           !.out = @ \cup {[type |-> "PKT", seq |-> u.seq, data |-> u.data] :
                              u \in {v \in again : v.type = "PKT"}}
                     \cup {[type |-> "RTS"] : u \in {v \in again : v.type = "RTS"}},
           !.unacked = [i \in DOMAIN @ |-> IF i <= k THEN [@[i] EXCEPT !.in_use = TRUE] ELSE @[i]],
           !.retry_cnt = IF k > 0 THEN @ + 1 ELSE @]

-----------------------------------------------------------------------------
(***************************************************************************)
(* Receive side.                                                           *)
(***************************************************************************)
AckPkt(st) == [type |-> "ACK", seq |-> st.rx_seq_no, window |-> st.rx_window]
SendAck(st) == [st EXCEPT !.out = @ \cup {AckPkt(st)}]

\* The test of rxd_handle_op, rxd_handle_data and rxd_progress_buf_pkts.
IsNextOrLater(st, m) == m.seq >= st.rx_seq_no
IsNext(st, m) == m.seq = st.rx_seq_no
Bump(st, p) == [st EXCEPT !.rx_seq_no = @ + 1, !.delivered = Append(@, p)]

\* A segment that is not the last is acknowledged when rx_seq_no % rx_window is 0.
AckDue(st) == st.rx_window # 0 /\ st.rx_seq_no % st.rx_window = 0
SegAck(st) ==
    IF st.rx_window = 0 THEN [st EXCEPT !.crash = "division by zero"]
    ELSE IF AckDue(st) THEN SendAck(st) ELSE st

\* rxd_ep_recv_data: DATA goes to the entry of curr_rx_id, DATA_READ to the tx
\* entry whose id the packet carries.
RecvData(st, p) ==
    LET reads == {t \in st.rma_rx_list : t.id = p.id}
        t == CHOOSE r \in reads : TRUE
        t1 == [t EXCEPT !.next_seg_no = @ + 1]
        n == st.curr.next_seg_no + 1
    IN  IF p.type = "DATA"
        THEN IF st.curr.id # p.id THEN [st EXCEPT !.crash = "segment for another entry"]
             ELSE IF n < st.curr.num_segs
             THEN SegAck([st EXCEPT !.curr.next_seg_no = n])
             ELSE LET st1 == SendAck(st)
                  IN  [st1 EXCEPT !.curr = NoXfer,
                          !.rx_avail = IF st.curr.type = "WRITE" THEN @ + 1 ELSE @]
        ELSE IF reads = {} THEN [st EXCEPT !.crash = "data for a freed entry"]
        ELSE IF t1.next_seg_no < t.num_segs
             THEN SegAck([st EXCEPT !.rma_rx_list = (@ \ {t}) \cup {t1}])
             ELSE CompleteTx(SendAck(st), t)

\* rxd_unpack_init_rx for an RMA request: the rx entry, and for a read or a
\* fetching atomic the entry that answers it, queued and progressed at once.
InitRx(st, p) ==
    LET t == [id |-> p.id, op |-> "DATA_READ", start_seq |-> 0,
              num_segs |-> IF p.type = "FETCH" THEN 1 ELSE p.num_segs,
              pkt |-> p.type = "FETCH",
              next_seg_no |-> IF p.type = "FETCH" THEN 1 ELSE 0]
        st1 == [st EXCEPT !.rx_avail = @ - 1]
        st2 == QueueTx(st1, t)
    IN  CASE p.type = "MSG" -> st
          [] p.type = "WRITE" -> st1
          [] p.type \in {"READ_REQ", "FETCH"} ->
                ProgressTxList(IF p.type = "FETCH" THEN SendAck(st2) ELSE st2)

\* rxd_progress_op: curr_rx_id names the entry.  An entry that answers a fetching
\* atomic is on tx_list; if the request's num_segs is not 1 it is put on rx_list as
\* well, which breaks both.
ProgressOp(st, p) ==
    LET st1 == [st EXCEPT !.curr = NoXfer]
    IN  CASE p.type = "FETCH" ->
                IF p.num_segs = 1 THEN st1 ELSE [st1 EXCEPT !.crash = "entry on two lists"]
          [] p.type = "READ_REQ" -> st1
          [] p.type \in {"MSG", "WRITE"} ->
                IF p.num_segs = 1
                THEN [st1 EXCEPT !.rx_avail = IF p.type = "WRITE" THEN @ + 1 ELSE @]
                ELSE [st EXCEPT !.curr = [id |-> p.id, type |-> p.type,
                                          num_segs |-> p.num_segs, next_seg_no |-> 1]]

Pre(p) == p.type # "MSG" \/ env.prog[p.id[1]][p.id[2]].pre
NoEntry(st, p) == p.type # "MSG" /\ st.rx_avail = 0

\* rxd_match_rx without a match; it asserts that no other message is being queued.
Unexpected(st, p) ==
    [st EXCEPT !.crash = IF st.curr_unexp # <<>> THEN "assert" ELSE @,
               !.unexp = @ \cup {[id |-> p.id, num_segs |-> p.num_segs, q |-> 0]},
               !.curr_unexp = p.id]

\* One round of rxd_progress_buf_pkts.  The packet of an unexpected message stays
\* at the head of the list.
BufPkt(st, m) ==
    LET p == m.data
        st1 == [st EXCEPT !.buf_pkts = Tail(@)]
    IN  IF st.stop \/ ~IsNext(st, m) THEN [st EXCEPT !.stop = TRUE]
        ELSE IF p.type \in {"DATA", "DATA_READ"} THEN Bump(RecvData(st1, p), p)
        ELSE IF NoEntry(st, p) THEN [st EXCEPT !.stop = TRUE]
        ELSE IF Pre(p) THEN Bump(ProgressOp(InitRx(st1, p), p), p)
        ELSE [Bump(Unexpected(st, p), p) EXCEPT !.stop = TRUE]
ProgressBufPkts(st) ==
    [FoldLeft(BufPkt, st, st.buf_pkts) EXCEPT !.stop = FALSE]

\* dlist_insert_order puts the packet before the first one with a smaller number.
InsertOrder(list, m) ==
    LET n == CHOOSE k \in 0 .. Len(list) :
                /\ \A i \in 1 .. k : ~(m.seq > list[i].seq)
                /\ k < Len(list) => m.seq > list[k + 1].seq
    IN  SubSeq(list, 1, n) \o <<m>> \o SubSeq(list, n + 1, Len(list))

\* rxd_handle_data.  A segment of the message being queued is queued behind it.
QueueSeg(st, p) ==
    LET us == {x \in st.unexp : x.id = st.curr_unexp}
        u == CHOOSE x \in us : TRUE
        st1 == [st EXCEPT !.unexp = (@ \ {u}) \cup {[u EXCEPT !.q = @ + 1]}]
    IN  IF us = {} THEN [st EXCEPT !.crash = "segment for a freed message"]
        ELSE IF u.id # p.id THEN [st EXCEPT !.crash = "segment for another message"]
        ELSE IF p.seg + 1 = u.num_segs - 1 THEN SendAck([st1 EXCEPT !.curr_unexp = <<>>])
        ELSE st1

HandleData(st, m) ==
    LET p == m.data
        st1 == Bump(st, p)
    IN  IF IsNext(st, m)
        THEN IF p.type = "DATA" /\ st.curr_unexp # <<>>
             THEN QueueSeg(st1, p)
             ELSE ProgressBufPkts(RecvData(st1, p))
        ELSE IF ~env.retry THEN [st EXCEPT !.buf_pkts = InsertOrder(@, m)]
        ELSE IF st.peer_addr THEN SendAck(st) ELSE st

HandleOp(st, m) ==
    LET p == m.data
        st1 == Bump(Unexpected(st, p), p)
        st2 == [Bump(InitRx(st, p), p) EXCEPT !.rx_window = Window]
    IN  IF ~IsNext(st, m)
        THEN IF ~env.retry THEN [st EXCEPT !.buf_pkts = InsertOrder(@, m)]
             ELSE IF st.peer_addr THEN SendAck(st) ELSE st
        ELSE IF ~st.peer_addr THEN st
        ELSE IF NoEntry(st, p) THEN SendAck([st EXCEPT !.rx_window = 0])
        ELSE IF Pre(p) THEN SendAck(ProgressBufPkts(ProgressOp(st2, p)))
        ELSE SendAck(IF p.num_segs = 1 THEN [st1 EXCEPT !.curr_unexp = <<>>] ELSE st1)

\* A receive is posted for unexpected message u: rxd_progress_unexp_msg.  What
\* curr_rx_id named before is put back only if some message is being queued.
ClaimUnexp(st, u) ==
    LET done == u.q + 1 = u.num_segs
        mid == IF done THEN u.q - 1 ELSE u.q    \* queued segments that are not the last
        st1 == [st EXCEPT !.unexp = @ \ {u}]
        st2 == IF mid > 0 THEN SegAck(st1) ELSE st1
        st3 == IF done /\ u.q > 0 THEN SendAck(st2) ELSE st2
    IN  IF done THEN [st3 EXCEPT !.curr = IF st.curr_unexp # <<>> THEN @ ELSE NoXfer]
        ELSE [st3 EXCEPT !.curr_unexp = <<>>,
                         !.curr = [id |-> u.id, type |-> "MSG", num_segs |-> u.num_segs,
                                   next_seg_no |-> u.q + 1]]

-----------------------------------------------------------------------------
(***************************************************************************)
(* Actions.                                                                *)
(***************************************************************************)
Alive(e) == peer[e].crash = "no"
Exchange(e, st, taken) ==
    /\ peer' = [peer EXCEPT ![e] = [st EXCEPT !.out = {}]]
    /\ net' = [net EXCEPT ![e] = @ \ taken, ![Other(e)] = @ \cup st.out]
    /\ UNCHANGED env
Commit(e, st) == Exchange(e, st, {})

\* rxd_ep_generic_sendmsg, rxd_generic_rma and rxd_generic_atomic.  Without a
\* tx entry RMA calls return -FI_EAGAIN; the others return what
\* rxd_send_rts_if_needed returned, success.
NewEntry(e, i, o) ==
    [id |-> <<e, i>>, op |-> o.op, num_segs |-> o.segs, pkt |-> TRUE, start_seq |-> 0, next_seg_no |-> 0]
Begin(st, o, id) ==
    LET more(st1) == IF o.op \in {"MSG", "WRITE"} /\ o.segs > 1 /\ ~Full(st) /\ ~Full(st1)
                     THEN PostData(st1, id) ELSE st1
    IN  IF st.peer_addr THEN more(StartXfer(st, id)) ELSE st
Post(e) ==
    LET i == posted[e] + 1
        o == env.prog[e][i]
        st == SendRtsIfNeeded(peer[e])
        none == st.tx_avail[Pool(o.op)] = 0
    IN  /\ Alive(e) /\ ~busy[e] /\ posted[e] < Len(env.prog[e])
        /\ posted' = [posted EXCEPT ![e] = IF none /\ o.op \in {"WRITE", "READ_REQ"} THEN @ ELSE i]
        /\ Commit(e, IF none THEN st
                     ELSE Begin([QueueTx(st, NewEntry(e, i, o)) EXCEPT !.tx_avail[Pool(o.op)] = @ - 1],
                                o, <<e, i>>))
        /\ UNCHANGED busy

\* rxd_ep_generic_recvmsg finds a message on the unexpected list.
PostRecv(e) ==
    /\ Alive(e) /\ ~busy[e]
    /\ \E u \in peer[e].unexp : Commit(e, ClaimUnexp(peer[e], u))
    /\ UNCHANGED <<posted, busy>>

\* rxd_handle_recv_comp
Handle(st, m) ==
    CASE m.type = "RTS" -> HandleRts(st)
      [] m.type = "CTS" -> HandleCts(st)
      [] m.type = "ACK" -> HandleAck(st, m)
      [] m.type = "PKT" -> IF m.data.type \in {"DATA", "DATA_READ"}
                           THEN HandleData(st, m) ELSE HandleOp(st, m)
Recv(e, m) ==
    /\ Alive(e) /\ m \in net[e]
    /\ Exchange(e, Handle(peer[e], m), IF env.keep THEN {} ELSE {m})
    /\ busy' = [busy EXCEPT ![e] = TRUE]
    /\ UNCHANGED posted

\* A completion of the datagram endpoint for a packet, for an RTS the handshake
\* is done with, or for a buffer rxd_peer_timeout freed: that one may meanwhile
\* be another packet's.
Completion(e) ==
    LET st == peer[e] IN
    /\ Alive(e)
    /\ \/ \E i \in DOMAIN st.unacked : st.unacked[i].in_use /\ Commit(e, SendComp(st, i))
       \/ st.ctrl_rts > 0 /\ Commit(e, RtsComp(st))
       \/ st.stale > 0 /\ Commit(e, [st EXCEPT !.stale = @ - 1])
    /\ busy' = [busy EXCEPT ![e] = TRUE]
    /\ UNCHANGED posted

\* The end of rxd_ep_progress: k packets are due again.
Due(e, k) ==
    LET st == peer[e] IN
    /\ k <= Len(st.unacked)
    /\ \A i \in 1 .. k : ~st.unacked[i].in_use /\ ~st.unacked[i].acked
    /\ k > 0 => /\ env.retry /\ st.list # "none"
                /\ st.retry_cnt <= MaxRetry /\ st.retry_cnt < RetryBound
AfterRetry(e, k) ==
    LET st == peer[e]
        idle(st1) == IF st.list = "active" /\ st1.unacked = <<>> THEN ProgressTxList(st1) ELSE st1
    IN  IF ~env.retry THEN st
        ELSE idle(IF st.list = "none" THEN st
                  ELSE IF st.retry_cnt > MaxRetry THEN PeerTimeout(st) ELSE ResendPkts(st, k))
RetryPass(e, k) ==
    /\ Alive(e) /\ Due(e, k)
    /\ Commit(e, AfterRetry(e, k))
    /\ busy' = [busy EXCEPT ![e] = FALSE]
    /\ UNCHANGED posted

Lose(e) ==
    /\ env.lossy
    /\ \E m \in net[e] : net' = [net EXCEPT ![e] = @ \ {m}]
    /\ UNCHANGED <<peer, env, posted, busy>>

Next ==
    \E e \in EP :
        \/ Post(e) \/ PostRecv(e)
        \/ \E m \in net[e] : Recv(e, m)
        \/ Completion(e)
        \/ \E k \in 0 .. Len(peer[e].unacked) : RetryPass(e, k)
        \/ Lose(e)

Spec == Init /\ [][Next]_vars

(***************************************************************************)
(* The applications keep calling: operations and receives are posted and   *)
(* progress is made (the provider is FI_PROGRESS_MANUAL); the datagram     *)
(* endpoint returns every buffer, what it did not lose arrives, and time   *)
(* passes, so that what stays unacknowledged becomes due again.            *)
(***************************************************************************)
CanPost(e) ==
    /\ Alive(e) /\ ~busy[e] /\ posted[e] < Len(env.prog[e])
    /\ LET op == env.prog[e][posted[e] + 1].op
       IN  op \in {"WRITE", "READ_REQ"} => peer[e].tx_avail[Pool(op)] > 0
PostOne(e) == CanPost(e) /\ posted' = [posted EXCEPT ![e] = @ + 1]
EndPass(e) == Alive(e) /\ busy[e] /\ busy' = [busy EXCEPT ![e] = FALSE]
CanComplete(e) ==
    peer[e].ctrl_rts + peer[e].stale > 0 \/ \E u \in ToSet(peer[e].unacked) : u.in_use

\* The steps that advance posted are those of Post, and those that end a pass are those
\* of RetryPass.  The disjunctions are WF_vars of the action they end with, its ENABLED
\* written out as the guard that stands before it.
Fairness ==
    \A e \in EP :
        /\ WF_posted(PostOne(e))
        /\ WF_busy(EndPass(e))
        /\ []<>~(Alive(e) /\ ~busy[e] /\ peer[e].unexp # {}) \/ []<><<PostRecv(e)>>_vars
        /\ []<>~(Alive(e) /\ net[e] # {}) \/ []<><<\E m \in net[e] : Recv(e, m)>>_vars
        /\ []<>~(Alive(e) /\ CanComplete(e)) \/ []<><<Completion(e)>>_vars
        /\ []<>~(Alive(e) /\ AfterRetry(e, 0) # peer[e]) \/ []<><<RetryPass(e, 0)>>_vars
        /\ []<>~(Alive(e) /\ Len(peer[e].unacked) > 0 /\ Due(e, 1))
             \/ []<><<\E k \in 1 .. Len(peer[e].unacked) : RetryPass(e, k)>>_vars

FairSpec == Spec /\ Fairness

-----------------------------------------------------------------------------
(***************************************************************************)
(* Properties.                                                             *)
(***************************************************************************)
OpOf(id) == env.prog[id[1]][id[2]].op
SegsOf(id) == IF OpOf(id) = "FETCH" THEN 1 ELSE env.prog[id[1]][id[2]].segs
Done(e, i) == \E c \in ToSet(peer[e].cq) : c.id = <<e, i>>

\* Type invariant: the peer structure's fields keep their ranges, windows are open or
\* closed and nothing in between, and the scratch fields are empty between handlers.
TypeOK ==
    /\ env \in Envs
    /\ \A e \in EP : LET st == peer[e] IN
        /\ posted[e] \in 0 .. Len(env.prog[e]) /\ busy[e] \in BOOLEAN
        /\ st.peer_addr \in BOOLEAN /\ st.active \in BOOLEAN
        /\ st.list \in {"none", "rts_sent", "active"}
        /\ st.retry_cnt \in 0 .. MaxRetry + 1
        /\ st.tx_window \in {0, Window} /\ st.rx_window \in {0, Window}
        /\ st.tx_seq_no = Len(st.log) /\ st.rx_seq_no = Len(st.delivered)
        /\ st.out = {} /\ ~st.stop

\* No handler runs into an assertion, divides by a closed window, or gives a segment
\* to an entry or a message that is not, or no longer, the one it belongs to
\* (rxd_get_data_x_entry and curr_unexp trust that segments arrive in order).
NoCrash == \A e \in EP : Alive(e)

\* A successful completion means the data is where it belongs: all packets of a
\* message or write have been accepted by the peer, all data of a read or fetching
\* atomic by the endpoint that asked for it (rxd_progress_tx_list, rxd_ep_recv_data).
NoEarlyCompletion ==
    \A e \in EP : \A c \in ToSet(peer[e].cq) :
        c.ok => LET at == IF OpOf(c.id) \in {"MSG", "WRITE"} THEN Other(e) ELSE e
                IN  Cardinality({p \in ToSet(peer[at].delivered) :
                                    /\ p.id = c.id
                                    /\ p.type \in {"MSG", "WRITE", "DATA", "DATA_READ"}}) = SegsOf(c.id)

\* No operation is reported twice, though its last ACK, the data that answers it and
\* a timeout can all end it.
CompletedOnce ==
    \A e \in EP : \A i, j \in DOMAIN peer[e].cq :
        peer[e].cq[i].id = peer[e].cq[j].id => i = j

\* Messages and writes reach the peer in the order they were posted: what
\* RXD_MSG_ORDER claims with FI_ORDER_SAS, SAW, WAS and WAW, whether an operation was
\* queued for the handshake or the window, or sent at once.
MessageOrder ==
    \A e \in EP :
        LET d == SelectSeq(peer[e].delivered, LAMBDA p : p.type \in {"MSG", "WRITE"})
        IN  \A i, j \in DOMAIN d : i < j => d[i].id[2] < d[j].id[2]

\* An operation whose call returned success is queued, awaits its answer, or has been
\* reported: none is forgotten.
NothingLost ==
    \A e \in EP : \A i \in 1 .. posted[e] :
        \/ Has(peer[e], <<e, i>>)
        \/ \E t \in peer[e].rma_rx_list : t.id = <<e, i>>
        \/ Done(e, i)

\* While a packet is unacknowledged its peer is on one of the lists the retry pass of
\* rxd_ep_progress goes through; otherwise a lost packet is never sent again.
RetryCovers ==
    \A e \in EP : peer[e].unacked # <<>> => peer[e].list # "none"

\* peer->unacked is ordered by sequence number, which the walk of rxd_handle_ack and
\* head_seq of rxd_progress_tx_list rely on.
UnackedSorted ==
    \A e \in EP : LET u == peer[e].unacked IN
        \A i, j \in DOMAIN u : i < j => u[i].seq < u[j].seq

\* unacked_cnt counts the list and the RTS buffers still with the datagram endpoint,
\* and never exceeds the window.
UnackedCounted ==
    \A e \in EP : /\ peer[e].unacked_cnt = Len(peer[e].unacked) + peer[e].ctrl_rts
                  /\ peer[e].unacked_cnt <= Window

\* Every tx and rx entry is free or in use by exactly one transfer: the avail counters
\* of rxd_get_tx_entry and rxd_get_rx_entry neither leak nor grow.
EntriesConserved ==
    \A e \in EP : LET st == peer[e]
                      own == SelectSeq(st.tx_list, LAMBDA t : t.op # "DATA_READ")
                      answers == Len(st.tx_list) - Len(own)
                  IN
        /\ \A pool \in {"msg", "rma"} :
              st.tx_avail[pool] + Len(SelectSeq(own, LAMBDA t : Pool(t.op) = pool))
                + Cardinality({t \in st.rma_rx_list : Pool(t.op) = pool}) = TxAvail
        /\ st.rx_avail + answers + (IF st.curr.type = "WRITE" THEN 1 ELSE 0) = RxAvail

\* Every operation is kept until it is reported, is reported once, and is reported
\* as it went (rxd_cq_report_tx_comp, rxd_cq_report_error).
ReportedRight == NothingLost /\ NoEarlyCompletion /\ CompletedOnce

\* The lists, counters and flags of a peer agree with each other: rxd_cq.c and
\* rxd_ep.c change them in different handlers, and each trusts the others.
ListsAgree == TypeOK /\ RetryCovers /\ UnackedSorted /\ UnackedCounted /\ EntriesConserved

\* Every posted operation is eventually reported, with success or an error.
EventuallyDone == \A e \in EP : <>[](\A i \in 1 .. posted[e] : Done(e, i))

\* Every packet that was numbered is eventually accepted: what is lost is sent again,
\* and what arrives early is put in order.
EventuallyReassembled == \A e \in EP : <>[](peer[Other(e)].rx_seq_no = peer[e].tx_seq_no)
=============================================================================
