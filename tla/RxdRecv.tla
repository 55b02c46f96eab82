------------------------------ MODULE RxdRecv --------------------------------
(***************************************************************************)
(* How an RXD endpoint matches incoming messages with receives: the lists  *)
(* of posted receives and of unexpected messages, tags and source          *)
(* addresses, messages of several segments, multi-receive buffers, peek,   *)
(* claim and discard, and cancel (rxd_msg.c, and the matching of rxd_cq.c).*)
(* The packets of a peer arrive in order, each once: what module           *)
(* RxdChannel proves of them.  ACKs are module Rxd's subject.              *)
(*                                                                         *)
(* A segment carries one unit of data.  Not modelled: a full completion    *)
(* queue, calloc returning NULL, immediate data, closing the endpoint.     *)
(* As in Rxd, a definition that no other uses and that stands before the   *)
(* one it resembles is a mistake the properties are there to catch.        *)
(***************************************************************************)
EXTENDS Integers, Sequences, SequencesExt, FiniteSets, Dlist

CONSTANTS
    Peers,
    Envs,       \* what a behaviour is about, records with fields
                \*   stream: what the peers send: [Peers -> sequences of [tag, segs]];
                \*     tag is a set of bits, or Untagged
                \*   calls: what the application may call, each once: records [kind,
                \*     ctx, q, peer, tag, ignore, len, multi]
    RxAvail,    \* rx_size: rx entries for messages (rx_msg_avail)
    MinMulti,   \* min_multi_recv_size
    SizeMod     \* values of size_t

Untagged == {"untagged"}
AnyAddr == "RXD_ADDR_INVALID"
None == <<>>

ASSUME CallsAssumption ==
    \A c \in UNION {x.calls : x \in Envs} :
        /\ c.kind \in {"recv", "peek", "peek_claim", "peek_discard", "claim", "claim_discard", "cancel"}
        /\ c.q \in {"msg", "tag"} /\ c.peer \in Peers \cup {AnyAddr} /\ c.len \in 0 .. SizeMod - 1
ASSUME StreamsAssumption ==
    \A x \in Envs : \A p \in Peers : \A m \in DOMAIN x.stream[p] : x.stream[p][m].segs \in 1 .. SizeMod - 1

VARIABLES
    env,        \* the member of Envs this behaviour is about
    made,       \* the calls made
    ep          \* the endpoint

vars == <<env, made, ep>>

(***************************************************************************)
(* rxd_endpoint.  matched is history: which receive took which message, in *)
(* that order; posts: the receives in the order they were posted.          *)
(***************************************************************************)
NewEp ==
    [rx |-> [msg |-> <<>>, tag |-> <<>>],           \* rx_list, rx_tag_list
     links |-> [msg |-> Empty, tag |-> Empty],      \* unexp_list, unexp_tag_list
     unexp |-> {},                                  \* unexpected messages not freed
     claimed |-> {},                                \* <<context, message>>
     filling |-> {},                                \* entries taking segments
     rx_seq_no |-> [p \in Peers |-> 0],
     curr |-> [p \in Peers |-> None],               \* curr_rx_id
     curr_unexp |-> [p \in Peers |-> None],
     avail |-> RxAvail, cq |-> <<>>, crash |-> "no", matched |-> <<>>, posts |-> <<>>]

Init ==
    /\ env \in Envs
    /\ made = {}
    /\ ep = NewEp

-----------------------------------------------------------------------------
(***************************************************************************)
(* Messages are named <<peer, place in its stream>>.                       *)
(***************************************************************************)
Msg(id) == env.stream[id[1]][id[2]]
Segs(id) == Msg(id).segs
Queue(id) == IF Msg(id).tag = Untagged THEN "msg" ELSE "tag"

\* The packets of p: message and segment of each sequence number.
Packets(p) ==
    FlattenSeq([m \in DOMAIN env.stream[p] |->
                  [s \in 1 .. env.stream[p][m].segs |-> [id |-> <<p, m>>, seg |-> s - 1]]])
StartSeq(id) ==
    (CHOOSE i \in DOMAIN Packets(id[1]) : Packets(id[1])[i] = [id |-> id, seg |-> 0]) - 1

MatchAddr(addr, p) == addr = AnyAddr \/ addr = p
MatchTag(tag, ignore, m) == tag \cup ignore = m \cup ignore
\* Receive or peek r, on queue q, is one for message id.
Matches(r, q, id) ==
    /\ q = Queue(id)
    /\ MatchAddr(r.peer, id[1])
    /\ q = "tag" => MatchTag(r.tag, r.ignore, Msg(id).tag)

MinOf(x, y) == IF x < y THEN x ELSE y

\* dlist_find_first_match, given the places of a list that match; 0 if there is none.
FirstMatch(found) == IF found = {} THEN 0 ELSE CHOOSE i \in found : \A j \in found : i <= j

Crash(st, why) == [st EXCEPT !.crash = IF @ = "no" THEN why ELSE @]

-----------------------------------------------------------------------------
(***************************************************************************)
(* An rx entry takes a message.                                            *)
(***************************************************************************)
\* rxd_complete_rx and rxd_rx_entry_free
CompleteRx(st, r) ==
    [st EXCEPT !.filling = @ \ {x \in @ : x.id = r.id},
               !.avail = @ + 1,
               !.cq = Append(@, [kind |-> "recv", ctx |-> r.ctx, id |-> r.id, ok |-> r.done = r.len,
                                 base |-> r.base, bytes |-> r.done, released |-> r.released])]

\* rxd_ep_recv_data: the copy stops at the end of the buffer.
RecvData(st, r) ==
    LET r1 == [r EXCEPT !.done = MinOf(@ + 1, r.iov), !.next_seg_no = @ + 1]
        st1 == [st EXCEPT !.filling = (@ \ {r}) \cup {r1}]
    IN  IF r1.next_seg_no < Segs(r.id) THEN st1 ELSE CompleteRx(st1, r1)

\* rxd_progress_op, with the first segment of message id.
ProgressOp(st, r, id) ==
    LET r1 == [r EXCEPT !.id = id, !.done = MinOf(1, r.iov), !.next_seg_no = 1]
        st1 == [st EXCEPT !.curr[id[1]] = id, !.matched = Append(@, <<r.ctx, id>>)]
    IN  IF Segs(id) = 1 THEN CompleteRx(st1, r1)
        ELSE [st1 EXCEPT !.filling = @ \cup {r1}]

\* rxd_progress_multi_recv: a duplicate takes the message, the entry keeps the rest of
\* the buffer; or the entry itself takes it and the buffer is released.
Left(r, total) == (r.iov - total) % SizeMod
NoDup(r, total) == Left(r, total) < MinMulti
Dup(r, total) == [r EXCEPT !.iov = total, !.len = total]
RestInPlace(r, total) == [r EXCEPT !.iov = Left(r, total), !.len = Left(r, total)]
Rest(r, total) ==
    [r EXCEPT !.base = @ + total, !.iov = Left(r, total), !.len = Left(r, total)]

-----------------------------------------------------------------------------
(***************************************************************************)
(* Unexpected messages.                                                    *)
(***************************************************************************)
UnexpIds(st) == {u.id : u \in st.unexp}
Unexp(st, id) == CHOOSE u \in st.unexp : u.id = id

\* rxd_free_unexp_msg: the message is taken off its list, where it may no longer be.
FreeUnexp(st, id) ==
    LET l == st.links[Queue(id)]
        near == {l[id].prev, l[id].next} \ {ListHead}
        st1 == [st EXCEPT !.links[Queue(id)] = Unlink(l, id), !.unexp = @ \ {Unexp(st, id)}]
    IN  IF near \subseteq UnexpIds(st) THEN st1 ELSE Crash(st1, "write to a freed message")

\* rxd_progress_unexp_msg
ProgressUnexpMsg(st, r, id) ==
    LET p == id[1]
        n == Unexp(st, id).queued
        feed(s, i) == RecvData(s, CHOOSE x \in s.filling : x.id = id)
        st1 == FoldLeft(feed, ProgressOp(st, r, id), [i \in 1 .. n |-> i])
        st2 == IF st1.curr_unexp[p] = None THEN st1
               ELSE IF n = Segs(id) - 1 THEN [st1 EXCEPT !.curr[p] = st.curr[p]]
               ELSE [st1 EXCEPT !.curr_unexp[p] = None]
    IN  FreeUnexp(st2, id)

\* rxd_ep_check_unexp_list
CheckUnexpListHead(st, r, q) ==
    LET list == Walk(st.links[q])
    IN  IF list # <<>> /\ Matches(r, q, list[1]) THEN list[1] ELSE None
CheckUnexpList(st, r, q) ==
    LET list == Walk(st.links[q])
        i == FirstMatch({k \in DOMAIN list : Matches(r, q, list[k])})
    IN  IF i = 0 THEN None ELSE list[i]

\* A receive goes behind those posted before it.
QueueRxFront(list, r) == <<r>> \o list
QueueRx(list, r) == Append(list, r)

\* rxd_progress_unexp_list, and the end of rxd_ep_generic_recvmsg.
RECURSIVE ProgressUnexpList(_, _, _)
ProgressUnexpList(st, r, q) ==
    LET id == CheckUnexpList(st, r, q)
        total == Segs(id)
        st1 == [st EXCEPT !.avail = @ - 1]
    IN  IF id = None THEN [st EXCEPT !.rx[q] = QueueRx(@, r)]
        ELSE IF ~r.multi
        THEN ProgressUnexpMsg(st, [r EXCEPT !.len = MinOf(@, total)], id)
        ELSE IF NoDup(r, total) \/ st.avail = 0
        THEN ProgressUnexpMsg(st, [r EXCEPT !.len = MinOf(@, total), !.released = NoDup(r, total)], id)
        ELSE LET rest == Rest(r, total)
             IN  ProgressUnexpList(
                    ProgressUnexpMsg(st1, [Dup(r, total) EXCEPT !.len = MinOf(rest.len, total)], id),
                    rest, q)

\* rxd_ep_discard_recv
Discard(st, ctx, id) ==
    LET next == StartSeq(id) + Segs(id)
        st1 == [st EXCEPT
                  !.rx_seq_no[id[1]] = IF next > @ THEN next ELSE @,
                  !.cq = Append(@, [kind |-> "discard", ctx |-> ctx, id |-> id])]
    IN  FreeUnexp(st1, id)

-----------------------------------------------------------------------------
(***************************************************************************)
(* A packet arrives.                                                       *)
(***************************************************************************)
\* rxd_match_rx and the rest of rxd_handle_op.
HandleOp(st, id) ==
    LET p == id[1]
        q == Queue(id)
        total == Segs(id)
        i == FirstMatch({k \in DOMAIN st.rx[q] : Matches(st.rx[q][k], q, id)})
        r == st.rx[q][i]
        unexp == [st EXCEPT
                    !.unexp = @ \cup {[id |-> id, queued |-> 0]},
                    !.links[q] = InsertTail(@, id),
                    !.curr_unexp[p] = IF total = 1 THEN None ELSE id]
        taken == [st EXCEPT !.rx[q] = RemoveAt(@, i)]
        whole == [r EXCEPT !.len = MinOf(@, total), !.released = r.multi /\ NoDup(r, total)]
    IN  IF i = 0
        THEN IF st.curr_unexp[p] # None THEN Crash(unexp, "assert") ELSE unexp
        ELSE IF ~r.multi \/ NoDup(r, total) \/ st.avail = 0
        THEN ProgressOp(taken, whole, id)
        ELSE ProgressOp([st EXCEPT !.rx[q][i] = Rest(r, total), !.avail = @ - 1], Dup(r, total), id)

\* The segment that ends a message: seg_no + 1 == num_segs - 1, and seg is seg_no + 1.
IsLastSeg(id, seg) == seg = Segs(id) - 1

\* rxd_handle_data
HandleData(st, id, seg) ==
    LET p == id[1]
        u == st.curr_unexp[p]
        r == CHOOSE x \in st.filling : x.id = st.curr[p]
        rec == Unexp(st, u)
    IN  IF u # None
        THEN IF u \notin UnexpIds(st) THEN Crash(st, "segment for a freed message")
             ELSE IF u # id THEN Crash(st, "segment for another message")
             ELSE [st EXCEPT !.unexp = (@ \ {rec}) \cup {[rec EXCEPT !.queued = @ + 1]},
                             !.curr_unexp[p] = IF IsLastSeg(u, seg) THEN None ELSE @]
        ELSE IF st.curr[p] # id THEN Crash(st, "segment for another entry")
        ELSE RecvData(st, r)

Arrive(p) ==
    LET st == [ep EXCEPT !.rx_seq_no[p] = @ + 1]
        pkt == Packets(p)[ep.rx_seq_no[p] + 1]
    IN  /\ ep.crash = "no" /\ ep.rx_seq_no[p] < Len(Packets(p))
        /\ ep' = IF pkt.seg = 0 THEN HandleOp(st, pkt.id) ELSE HandleData(st, pkt.id, pkt.seg)
        /\ UNCHANGED <<env, made>>

-----------------------------------------------------------------------------
(***************************************************************************)
(* The application calls: rxd_ep_generic_recvmsg and rxd_ep_cancel.        *)
(***************************************************************************)
\* rxd_rx_entry_init
RxEntry(c) ==
    [ctx |-> c.ctx, peer |-> c.peer, tag |-> c.tag, ignore |-> c.ignore, multi |-> c.multi,
     base |-> 0, iov |-> c.len, len |-> c.len, id |-> None, done |-> 0, next_seg_no |-> 0,
     released |-> FALSE]

Call(c, kinds) == ep.crash = "no" /\ c.kind \in kinds /\ made' = made \cup {c} /\ UNCHANGED env

Recv(c) ==
    /\ Call(c, {"recv"})
    /\ ep.avail > 0                 \* otherwise -FI_EAGAIN, and the call is made again
    /\ ep' = ProgressUnexpList([ep EXCEPT !.avail = @ - 1, !.posts = Append(@, c)], RxEntry(c), c.q)

\* rxd_peek_recv.  It drops the lock to make progress and takes it again before it looks:
\* what arrives meanwhile are steps of Arrive.
Peek(c) ==
    LET id == CheckUnexpList(ep, c, c.q)
        st == [ep EXCEPT !.cq = Append(@, [kind |-> IF id = None THEN "no message" ELSE "peek",
                                           ctx |-> c.ctx, id |-> id])]
    IN  /\ Call(c, {"peek", "peek_claim", "peek_discard"})
        /\ ep' = CASE id = None \/ c.kind = "peek" -> st
                   [] id # None /\ c.kind = "peek_claim" ->
                        [st EXCEPT !.claimed = @ \cup {<<c.ctx, id>>},
                                   !.links[c.q] = Unlink(@, id)]
                   [] id # None /\ c.kind = "peek_discard" -> Discard(ep, c.ctx, id)

\* A claimed message is received or discarded.
Claim(c) ==
    /\ Call(c, {"claim", "claim_discard"})
    /\ c.kind = "claim" => ep.avail > 0
    /\ \E x \in ep.claimed :
          /\ x[1] = c.ctx
          /\ LET st == [ep EXCEPT !.claimed = @ \ {x}]
                 r == RxEntry(c)
             IN  ep' = IF c.kind = "claim"
                       THEN ProgressUnexpMsg([st EXCEPT !.avail = @ - 1], r, x[2])
                       ELSE Discard(st, c.ctx, x[2])

\* rxd_ep_cancel: the tagged receives are looked through first.
Cancel(c) ==
    LET q == IF (\E r \in ToSet(ep.rx.tag) : r.ctx = c.ctx) THEN "tag" ELSE "msg"
        i == FirstMatch({k \in DOMAIN ep.rx[q] : ep.rx[q][k].ctx = c.ctx})
    IN  /\ Call(c, {"cancel"})
        /\ ep' = IF i = 0 THEN ep
                 ELSE [ep EXCEPT !.rx[q] = RemoveAt(@, i), !.avail = @ + 1,
                                 !.cq = Append(@, [kind |-> "cancel", ctx |-> c.ctx])]

Next ==
    \/ \E p \in Peers : Arrive(p)
    \/ \E c \in env.calls \ made : Recv(c) \/ Peek(c) \/ Claim(c) \/ Cancel(c)

Spec == Init /\ [][Next]_vars

-----------------------------------------------------------------------------
(***************************************************************************)
(* Properties.                                                             *)
(***************************************************************************)
Accepted == UNION {{Packets(p)[i].id : i \in 1 .. ep.rx_seq_no[p]} : p \in Peers}
Received == {c \in ToSet(ep.cq) : c.kind = "recv"}
Waiting(q) == ToSet(Walk(ep.links[q]))
Matched == {x[2] : x \in ToSet(ep.matched)}
Discarded == {c.id : c \in {x \in ToSet(ep.cq) : x.kind = "discard"}}
CallOf(ctx) == CHOOSE c \in ToSet(ep.posts) : c.ctx = ctx
Posted(ctx) == \E c \in ToSet(ep.posts) : c.ctx = ctx

\* Type invariant: rx_seq_no never runs past what a peer sent, the entries in use stay
\* within rx_size, and each unexpected list holds accepted messages of its own kind.
RecvTypeOK ==
    /\ env \in Envs /\ made \subseteq env.calls
    /\ \A p \in Peers : ep.rx_seq_no[p] \in 0 .. Len(Packets(p))
    /\ ep.avail \in 0 .. RxAvail
    /\ \A q \in {"msg", "tag"} : Waiting(q) \subseteq {id \in Accepted : Queue(id) = q}

\* The matching code runs into no assertion, hands no segment to another message's
\* entry, and follows or writes no pointer to a message it has freed (curr_unexp,
\* curr_rx_id, the links of the unexpected lists).
RecvNoCrash ==
    ep.crash = "no" /\ \A q \in {"msg", "tag"} : Waiting(q) \subseteq UnexpIds(ep)

\* A message the endpoint accepted, and so acknowledged, is never lost: it waits on the
\* unexpected list or is claimed, a receive has it, or it was discarded on request.
MessageKept ==
    \A id \in Accepted :
        \/ id \in Waiting(Queue(id)) \cup Matched \cup Discarded
        \/ \E x \in ep.claimed : x[2] = id

\* A receive and a message it matches never wait for each other: every receive looks
\* through the unexpected list before it is posted, every message through the receives
\* before it becomes unexpected, and a multi-receive buffer looks again after each
\* message it takes.
NoMissedMatch ==
    \A q \in {"msg", "tag"} : \A r \in ToSet(ep.rx[q]) : \A id \in Waiting(q) : ~Matches(r, q, id)

\* Messages of a peer are received in the order they were sent: when a posted receive
\* took a message, no earlier message of that peer that it matches was still waiting.
MatchOrder ==
    \A i \in DOMAIN ep.matched : LET ctx == ep.matched[i][1]
                                     id == ep.matched[i][2] IN
        Posted(ctx) =>
            \A m \in 1 .. id[2] - 1 : LET id1 == <<id[1], m>> IN
                Matches(CallOf(ctx), CallOf(ctx).q, id1) =>
                    \/ \E j \in 1 .. i - 1 : ep.matched[j][2] = id1
                    \/ id1 \in Discarded \/ \E x \in ep.claimed : x[2] = id1
                    \/ \E c \in made : c.kind = "claim" /\ <<c.ctx, id1>> \in ToSet(ep.matched)

\* Receives are used in the order they were posted: when a receive took a message, no
\* receive posted before it that also matches was left waiting.
PostOrder ==
    \A i \in DOMAIN ep.matched : \A q \in {"msg", "tag"} : \A r \in ToSet(ep.rx[q]) :
        LET ctx == ep.matched[i][1] IN
        Posted(ctx) /\ r.ctx # ctx /\ Matches(r, q, ep.matched[i][2]) =>
            \E j, k \in DOMAIN ep.posts : ep.posts[j].ctx = ctx /\ ep.posts[k].ctx = r.ctx /\ j < k

\* The messages received into one buffer lie inside it and apart from each other.
BufferRespected ==
    \A c \in Received : Posted(c.ctx) =>
        /\ c.base + c.bytes <= CallOf(c.ctx).len
        /\ \A d \in Received \ {c} :
              d.ctx = c.ctx => c.base + c.bytes <= d.base \/ d.base + d.bytes <= c.base

\* A message that fits into what is left of the buffer is received without error and
\* whole.
FitsWhole ==
    \A c \in Received : Posted(c.ctx) /\ Segs(c.id) <= CallOf(c.ctx).len - c.base =>
        c.ok /\ c.bytes = Segs(c.id)

\* The application is told exactly once that a multi-receive buffer is its own again:
\* with the completion of the last message in it, or by the cancellation.
Live(ctx) ==
    \/ \E q \in {"msg", "tag"} : \E r \in ToSet(ep.rx[q]) : r.ctx = ctx
    \/ \E r \in ep.filling : r.ctx = ctx
Told(ctx) ==
    {i \in DOMAIN ep.cq : /\ ep.cq[i].ctx = ctx
                          /\ \/ ep.cq[i].kind = "cancel"
                             \/ ep.cq[i].kind = "recv" /\ ep.cq[i].released}
ReleasedOnce ==
    \A c \in ToSet(ep.posts) : c.multi =>
        Cardinality(Told(c.ctx)) <= 1 /\ (~Live(c.ctx) => Told(c.ctx) # {})

\* Every rx entry is free, posted or taking segments.
RxEntriesConserved ==
    ep.avail + Len(ep.rx.msg) + Len(ep.rx.tag) + Cardinality(ep.filling) = RxAvail

\* Messages are taken in the order they were sent and receives in the order they
\* were posted (dlist_find_first_match on both sides).
MatchedInTurn == MatchOrder /\ PostOrder

\* The rx entries, their buffers and the pointers to them stay right, whatever
\* calls come between the segments of a message: none is lost, overrun or followed
\* to something freed, and what a receive reports of its buffer is true.
EntriesRight ==
    /\ RecvTypeOK /\ RecvNoCrash /\ RxEntriesConserved
    /\ BufferRespected /\ FitsWhole /\ ReleasedOnce
=============================================================================
