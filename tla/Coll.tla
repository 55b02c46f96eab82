-------------------------------- MODULE Coll --------------------------------
(***************************************************************************)
(* The collective operations of prov/coll, over the tagged messages of a   *)
(* peer endpoint.  A call turns into a queue of work items: sends,         *)
(* receives, reductions, copies and a completion.  An item that is fenced  *)
(* by the one before it waits for everything before it; the others are     *)
(* started in order.                                                       *)
(*                                                                         *)
(* The steps of an endpoint are a call, a turn of the loop of              *)
(* coll_ep_progress and the report of a transfer; they may come in any     *)
(* order, and none runs at the same time as another.  The peer endpoint is *)
(* reliable; it may read the buffer of a send at any time until it reports *)
(* the send.                                                               *)
(*                                                                         *)
(* An element of data is written out as the expression that computes it: a *)
(* sequence of contributions, with brackets.  A bitmask of group ids is    *)
(* one element, a set.                                                     *)
(***************************************************************************)
EXTENDS Integers, FiniteSets, SequencesExt

CONSTANTS
    Envs,      \* the programs: sets of members, and the calls on them
    MaxId      \* OFI_MAX_GROUP_ID

\* A program is [n, sets, calls, joined, waits, directed]: the number of
\* endpoints, the address sets, the calls every member makes in this order,
\* whether the first set has been joined before, whether a join is only called
\* when all earlier calls are done, and whether the peer endpoint has
\* FI_DIRECTED_RECV.
VARIABLES
    env,       \* the program
    ep,        \* the endpoints
    wire,      \* wire[s][d]: the messages s has sent to d, not yet received
    done       \* history: the result of a call when it completes
vars == <<env, ep, wire, done>>

None == << >>
Ep == 1 .. env.n
Calls == 1 .. Len(env.calls)

\* A set of addresses has a coll_mc of its own, with group id 0, and one that
\* is made by joining it.
G == Len(env.sets)
Mcs == 1 .. 2 * G
Joined(g) == G + g
Members(m) == env.sets[((m - 1) % G) + 1]
Part(k) == Range(Members(env.calls[k].mc))
CallsOf(e) == SelectSeq([k \in Calls |-> k], LAMBDA k : e \in Part(k))

\* coll_find_local_rank
Rank(e, m) == (CHOOSE i \in 1 .. Len(Members(m)) : Members(m)[i] = e) - 1

Contribution(k, e, i) == << <<k, e, i>> >>
Open == <<0, 0, 0>>
Shut == <<0, 0, 1>>
Junk == << <<0, 0, 2>> >>

(***************************************************************************)
(* Buffers of an operation.                                                *)
(***************************************************************************)
Filled(n, v) == [i \in 0 .. n - 1 |-> v]
\* A place in a buffer: its name and an offset.
At(b, i) == [buf |-> b, off |-> i]
Get(bufs, p, n) ==
    [i \in 0 .. n - 1 |-> IF p.off + i \in DOMAIN bufs[p.buf] THEN bufs[p.buf][p.off + i] ELSE Junk]
Put(bufs, p, data) ==
    [bufs EXCEPT ![p.buf] =
        [i \in DOMAIN @ |-> IF i - p.off \in DOMAIN data THEN data[i - p.off] ELSE @[i]]]

(***************************************************************************)
(* Work items.  from and to are the buffers of a reduction or a copy; a    *)
(* transfer uses one of them.                                              *)
(***************************************************************************)
Item(type, peer, from, to, n, fence) ==
    [type |-> type, state |-> "waiting", peer |-> peer, from |-> from, to |-> to,
     cnt |-> n, fence |-> fence]
NoPlace == At("none", 0)
SchedSend(dest, b, n, fence) == Item("send", dest, b, NoPlace, n, fence)
SchedRecv(src, b, n, fence) == Item("recv", src, NoPlace, b, n, fence)
SchedReduce(in, inout, n) == Item("reduce", 0, in, inout, n, TRUE)
SchedCopy(in, out, n) == Item("copy", 0, in, out, n, TRUE)
SchedComp == Item("comp", 0, NoPlace, NoPlace, 0, TRUE)

Only(cond, items) == IF cond THEN items ELSE << >>
Pow2(n) == {m \in {2^i : i \in 0 .. 4} : m < n}
RoundDown(n) == CHOOSE m \in Pow2(n + 1) : \A o \in Pow2(n + 1) : o <= m
Lsb(n) == CHOOSE m \in Pow2(n + 1) : n % m = 0 /\ \A o \in Pow2(n + 1) : n % o = 0 => o <= m
Flip(id, mask) == IF (id \div mask) % 2 = 0 THEN id + mask ELSE id - mask

\* coll_do_allreduce, for rank l of n
\* A plausible mistake: what is received is always reduced into the result.
RoundInPlace(remote, l, cnt) ==
    <<SchedRecv(remote, At("tmp", 0), cnt, FALSE), SchedSend(remote, At("result", 0), cnt, TRUE),
      SchedReduce(At("tmp", 0), At("result", 0), cnt)>>
ReduceRound(remote, l, cnt) ==
    LET tmp == At("tmp", 0)
        result == At("result", 0)
    IN  <<SchedRecv(remote, tmp, cnt, FALSE), SchedSend(remote, result, cnt, TRUE)>>
        \o IF remote < l
           THEN <<SchedReduce(tmp, result, cnt)>>
           ELSE <<SchedReduce(result, tmp, cnt), SchedCopy(tmp, result, cnt)>>
Allreduce(n, l, cnt) ==
    LET pof2 == RoundDown(n)
        rem == n - pof2
        odd == l % 2 = 1
        result == At("result", 0)
        my_new_id == IF l < 2 * rem THEN l \div 2 ELSE l - rem
        Remote(mask) ==
            LET id == Flip(my_new_id, mask) IN IF id < rem THEN id * 2 + 1 ELSE id + rem
        masks == SetToSortSeq(Pow2(pof2), <)
    IN  Only(l < 2 * rem /\ ~odd, <<SchedSend(l + 1, result, cnt, TRUE)>>)
        \o Only(l < 2 * rem /\ odd,
                <<SchedRecv(l - 1, At("tmp", 0), cnt, TRUE), SchedReduce(At("tmp", 0), result, cnt)>>)
        \o Only(l >= 2 * rem \/ odd,
                FlattenSeq([i \in DOMAIN masks |-> ReduceRound(Remote(masks[i]), l, cnt)]))
        \o Only(l < 2 * rem /\ odd, <<SchedSend(l - 1, result, cnt, TRUE)>>)
        \o Only(l < 2 * rem /\ ~odd, <<SchedRecv(l + 1, result, cnt, TRUE)>>)

\* coll_do_allgather: what was received last is sent on to the right
Allgather(n, l, in, out, cnt) ==
    LET Offset(i) == ((n + l - i) % n) * cnt
    IN  <<SchedCopy(At(in, 0), At(out, l * cnt), cnt)>>
        \o FlattenSeq([i \in 1 .. n - 1 |->
             <<SchedSend((l + 1) % n, At(out, Offset(i - 1)), cnt, FALSE),
               SchedRecv((n + l - 1) % n, At(out, Offset(i)), cnt, TRUE)>>])

\* coll_do_scatter.  A branch receives, and forwards, what is for the ranks
\* below it in the tree; mask goes down from the bit it was reached by.
Relative(n, l, root) == IF l >= root THEN l - root ELSE l - root + n
ValuesToRecv(rank, n) == IF n < rank + Lsb(rank) THEN n - rank ELSE Lsb(rank)
Forwarded(n, l, root, cnt) ==
    LET rel == Relative(n, l, root)
    IN  IF rel = 0 THEN cnt * n ELSE IF rel % 2 = 0 THEN cnt * ValuesToRecv(rel, n) ELSE 0
Scatter(n, l, root, in, out, cnt) ==
    LET rel == Relative(n, l, root)
        cur == Forwarded(n, l, root, cnt)
        reorder == rel = 0 /\ root # 0
        leaf == rel % 2 = 1
        send_data == IF l = root /\ root = 0 THEN in ELSE "tmp"
        below == {m \in IF rel = 0 THEN Pow2(n) ELSE Pow2(Lsb(rel)) : rel + m < n}
        masks == SetToSortSeq(below, >)
        Send(mask) ==
            LET left == IF 2 * mask \in below THEN cnt * 2 * mask ELSE cur
            IN  SchedSend((l + mask) % n, At(send_data, cnt * mask), left - cnt * mask, TRUE)
    IN  Only(reorder,
             <<SchedCopy(At(in, cnt * l), At("tmp", 0), (n - l) * cnt),
               SchedCopy(At(in, 0), At("tmp", (n - l) * cnt), l * cnt)>>)
        \o Only(rel # 0,
             <<SchedRecv((n + l - Lsb(rel)) % n, At(IF leaf THEN out ELSE "tmp", 0),
                         IF leaf THEN cnt ELSE cur, TRUE)>>)
        \o [i \in DOMAIN masks |-> Send(masks[i])]
        \o Only(~leaf, <<SchedCopy(At(send_data, 0), At(out, 0), cnt)>>)

\* The part of a broadcast that a rank scatters and gathers
ChunkCnt(n, l, cnt) ==
    LET c == (cnt + n - 1) \div n
    IN  IF c * l > cnt /\ c * l - cnt > c THEN 0 ELSE c

(***************************************************************************)
(* What call k makes of its arguments at endpoint e: the buffers it uses   *)
(* and its work.                                                           *)
(***************************************************************************)
Given(k, e, n) == [i \in 0 .. n - 1 |-> Contribution(k, e, i)]
TmpSize(n, l, root, cnt) ==
    IF Relative(n, l, root) = 0 /\ root = 0 THEN 0 ELSE Forwarded(n, l, root, cnt)

Buffers(k, e, mask) ==
    LET c == env.calls[k]
        n == Len(Members(c.mc))
        l == Rank(e, c.mc)
        chunk == ChunkCnt(n, l, c.cnt)
        none == Filled(0, Junk)
        B(buf, result, tmp, ch) ==
            [buf |-> buf, result |-> result, tmp |-> tmp, chunk |-> ch, none |-> none]
    IN  CASE c.op = "join" ->
               B(none, Filled(1, mask), Filled(1, {}), none)
          [] c.op \in {"barrier", "allreduce"} ->
               B(none, Given(k, e, c.cnt), Filled(c.cnt, Junk), none)
          [] c.op = "allgather" ->
               B(Given(k, e, c.cnt), Filled(n * c.cnt, Junk), none, none)
          [] c.op = "scatter" ->
               B(IF l = c.root THEN Given(k, e, n * c.cnt) ELSE none, Filled(c.cnt, Junk),
                 Filled(TmpSize(n, l, c.root, c.cnt), Junk), none)
          [] c.op = "broadcast" ->
               B(none, IF l = c.root THEN Given(k, e, c.cnt) ELSE Filled(c.cnt, Junk),
                 Filled(TmpSize(n, l, c.root, chunk), Junk), Filled(chunk, Junk))

Schedule(k, e) ==
    LET c == env.calls[k]
        n == Len(Members(c.mc))
        l == Rank(e, c.mc)
        chunk == ChunkCnt(n, l, c.cnt)
    IN  Append(
          CASE c.op \in {"join", "barrier", "allreduce"} -> Allreduce(n, l, c.cnt)
            [] c.op = "allgather" -> Allgather(n, l, "buf", "result", c.cnt)
            [] c.op = "scatter" ->
                 Only(c.cnt # 0, Scatter(n, l, c.root, "buf", "result", c.cnt))
            [] c.op = "broadcast" ->
                 Only(chunk # 0, Scatter(n, l, c.root, "result", "chunk", chunk))
                 \o Allgather(n, l, "chunk", "result", chunk),
          SchedComp)

\* Items are numbered in the order they are scheduled.
Numbered(items) == [i \in DOMAIN items |-> [id |-> i] @@ items[i]]

\* coll_get_next_id, coll_form_tag: an operation's id and the sender's rank
NextId(p, m) == <<p.gid[m], p.seq[m]>>
Tag(cid, rank) == <<cid, rank>>

NoOp == [cid |-> None, work |-> << >>, bufs |-> None]
\* util_coll_init_cid_mask: group id 0 is kept for the coll_mc of a set.
FirstIds == 1 .. MaxId - 1
NewEp ==
    [ops |-> [k \in Calls |-> NoOp],
     next |-> 1,                             \* the next call of the program
     ready |-> << >>,                        \* coll_ready_queue
     posted |-> << >>,                       \* receives the peer endpoint has
     sending |-> {},                         \* sends it has not reported
     mask |-> IF env.joined THEN FirstIds \ {1} ELSE FirstIds,     \* coll_cid_mask
     gid |-> [m \in Mcs |-> IF m <= G THEN 0 ELSE IF m = Joined(1) /\ env.joined THEN 1 ELSE -1],
     seq |-> [m \in Mcs |-> IF m = 1 /\ env.joined THEN 1 ELSE 0]]

Init ==
    /\ env \in Envs
    /\ ep = [e \in Ep |-> NewEp]
    /\ wire = [s \in Ep |-> [d \in Ep |-> << >>]]
    /\ done = [e \in Ep |-> [k \in Calls |-> None]]

(***************************************************************************)
(* coll_progress_work: completed items are removed, and the first one that *)
(* is ready is queued.  When nothing is left the operation is freed.       *)
(***************************************************************************)
\* A plausible mistake: prior work that is fencing is overlooked.
BlockedNever(kept) == FALSE
Blocked(kept) == kept # << >> /\ Last(kept).fence
\* A plausible mistake: an item that is queued can be queued again.
StartedNot(item) == item
Started(item) == [item EXCEPT !.state = "processing"]
Visit(acc, item) ==
    LET kept == [acc EXCEPT !.kept = Append(@, item)]
    IN  IF acc.stop THEN kept
        ELSE IF item.state = "complete" THEN IF item.fence /\ acc.kept # << >> THEN kept ELSE acc
        ELSE IF Blocked(acc.kept) THEN [kept EXCEPT !.stop = TRUE]
        ELSE IF item.state # "waiting" THEN kept
        ELSE [kept |-> Append(acc.kept, Started(item)), stop |-> TRUE, ready |-> <<item.id>>]
ProgressWork(p, k) ==
    LET r == FoldLeft(Visit, [kept |-> << >>, stop |-> FALSE, ready |-> << >>], p.ops[k].work)
    IN  [p EXCEPT !.ops[k] = IF r.kept = << >> THEN NoOp ELSE [@ EXCEPT !.work = r.kept],
                  !.ready = @ \o [i \in DOMAIN r.ready |-> <<k, r.ready[i]>>]]

ItemOf(p, w) == CHOOSE x \in Range(p.ops[w[1]].work) : x.id = w[2]
SetState(p, w, s) ==
    [p EXCEPT !.ops[w[1]].work =
        [i \in DOMAIN @ |-> IF @[i].id = w[2] THEN [@[i] EXCEPT !.state = s] ELSE @[i]]]
Completed(p, w) == ProgressWork(SetState(p, w, "complete"), w[1])

(***************************************************************************)
(* Calls: coll_join_collective and the operations.  They are made in the   *)
(* order of the program; a group can be used once joined, and joins are    *)
(* made one after another if the program waits for them.                   *)
(***************************************************************************)
MayCall(e, k) ==
    /\ ep[e].gid[env.calls[k].mc] # -1
    /\ env.calls[k].op = "join" /\ env.waits => \A j \in Calls : ep[e].ops[j] = NoOp
Call(e) ==
    LET k == CallsOf(e)[ep[e].next]
        m == env.calls[k].mc
        op == [cid |-> NextId(ep[e], m), work |-> Numbered(Schedule(k, e)),
               bufs |-> Buffers(k, e, ep[e].mask)]
    IN  /\ ep[e].next <= Len(CallsOf(e))
        /\ MayCall(e, k)
        /\ ep' = [ep EXCEPT ![e] =
                    ProgressWork([@ EXCEPT !.next = @ + 1, !.seq[m] = @ + 1, !.ops[k] = op], k)]
        /\ UNCHANGED <<env, wire, done>>

(***************************************************************************)
(* The peer endpoint: a receive takes the first message that has its tag,  *)
(* and, if the peer endpoint has FI_DIRECTED_RECV, comes from its source.  *)
(***************************************************************************)
Source(p, w) == Members(env.calls[w[1]].mc)[ItemOf(p, w).peer + 1]
RecvTag(p, w) == Tag(p.ops[w[1]].cid, ItemOf(p, w).peer)
Fits(p, w, s, msg) == msg.tag = RecvTag(p, w) /\ (env.directed => s = Source(p, w))
Matching(e, p, w, s) ==
    LET msgs == wire[s][e]
        at == SelectInSeq(p.posted, LAMBDA v : v = w)
    IN  {i \in DOMAIN msgs :
            /\ Fits(p, w, s, msgs[i])
            /\ \A j \in 1 .. i - 1 : ~Fits(p, w, s, msgs[j])
            /\ \A j \in 1 .. at - 1 : ~Fits(p, p.posted[j], s, msgs[i])}
SentData(s, w) ==
    LET x == ItemOf(ep[s], w) IN Get(ep[s].ops[w[1]].bufs, x.from, x.cnt)
DataOf(s, msg) == IF msg.data = None THEN SentData(s, msg.item) ELSE msg.data

\* Receive w of endpoint e, in state p, is done with a message from s: the
\* state of e after coll_peer_xfer_complete.
Received(p, w, data) ==
    Completed([p EXCEPT !.posted = SelectSeq(@, LAMBDA v : v # w),
                        !.ops[w[1]].bufs = Put(@, ItemOf(p, w).to, data)], w)
RecvDone(e) ==
    \E w \in Range(ep[e].posted), s \in Ep : \E i \in Matching(e, ep[e], w, s) :
        /\ wire' = [wire EXCEPT ![s][e] = RemoveAt(@, i)]
        /\ ep' = [ep EXCEPT ![e] = Received(@, w, DataOf(s, wire[s][e][i]))]
        /\ UNCHANGED <<env, done>>

\* What a send that is reported still has in flight has been copied.
Copied(e, w) ==
    [d \in Ep |-> [i \in DOMAIN wire[e][d] |->
        IF wire[e][d][i].item = w
        THEN [wire[e][d][i] EXCEPT !.data = SentData(e, w)] ELSE wire[e][d][i]]]
SendDone(e) ==
    \E w \in ep[e].sending :
        /\ wire' = [wire EXCEPT ![e] = Copied(e, w)]
        /\ ep' = [ep EXCEPT ![e] = Completed([@ EXCEPT !.sending = @ \ {w}], w)]
        /\ UNCHANGED <<env, done>>

(***************************************************************************)
(* A turn of coll_ep_progress, for the head of coll_ready_queue.  The peer *)
(* endpoint may report a transfer before the call that starts it returns.  *)
(***************************************************************************)
First(e) == Head(ep[e].ready)
Taken(e) == [ep[e] EXCEPT !.ready = Tail(@)]
Turn(e, type) == ep[e].ready # << >> /\ ItemOf(ep[e], First(e)).type = type

\* -FI_EAGAIN: the send is tried again later.
\* A plausible mistake: the send is not put back.
TurnAgainDropped(e) ==
    /\ Turn(e, "send")
    /\ ep' = [ep EXCEPT ![e].ready = Tail(@)]
    /\ UNCHANGED <<env, wire, done>>
TurnAgain(e) ==
    /\ Turn(e, "send")
    /\ ep' = [ep EXCEPT ![e].ready = Append(Tail(@), First(e))]
    /\ UNCHANGED <<env, wire, done>>
TurnSend(e) ==
    LET w == First(e)
        m == env.calls[w[1]].mc
        x == ItemOf(ep[e], w)
        d == Members(m)[x.peer + 1]
        Msg(data) == [tag |-> Tag(ep[e].ops[w[1]].cid, Rank(e, m)), item |-> w, data |-> data]
    IN  /\ Turn(e, "send")
        /\ \/ /\ wire' = [wire EXCEPT ![e][d] = Append(@, Msg(None))]
              /\ ep' = [ep EXCEPT ![e] = ProgressWork([Taken(e) EXCEPT !.sending = @ \cup {w}], w[1])]
           \/ /\ wire' = [wire EXCEPT ![e][d] = Append(@, Msg(SentData(e, w)))]
              /\ ep' = [ep EXCEPT ![e] = ProgressWork(Completed(Taken(e), w), w[1])]
        /\ UNCHANGED <<env, done>>
TurnRecv(e) ==
    LET w == First(e)
        p == [Taken(e) EXCEPT !.posted = Append(@, w)]
    IN  /\ Turn(e, "recv")
        /\ \/ ep' = [ep EXCEPT ![e] = ProgressWork(p, w[1])] /\ UNCHANGED wire
           \/ \E s \in Ep : \E i \in Matching(e, p, w, s) :
                /\ wire' = [wire EXCEPT ![s][e] = RemoveAt(@, i)]
                /\ ep' = [ep EXCEPT ![e] =
                            ProgressWork(Received(p, w, DataOf(s, wire[s][e][i])), w[1])]
        /\ UNCHANGED <<env, done>>

\* ofi_atomic_write_handler: inout becomes inout op in, element by element
Combine(op, in, inout) ==
    [i \in DOMAIN in |-> IF op = "join" THEN inout[i] \cap in[i]
                         ELSE <<Open>> \o inout[i] \o in[i] \o <<Shut>>]
TurnCompute(e) ==
    LET w == First(e)
        x == ItemOf(ep[e], w)
        bufs == ep[e].ops[w[1]].bufs
        in == Get(bufs, x.from, x.cnt)
        out == IF x.type = "copy" THEN in
               ELSE Combine(env.calls[w[1]].op, in, Get(bufs, x.to, x.cnt))
    IN  /\ Turn(e, "reduce") \/ Turn(e, "copy")
        /\ ep' = [ep EXCEPT ![e] =
                    Completed([Taken(e) EXCEPT !.ops[w[1]].bufs = Put(@, x.to, out)], w)]
        /\ UNCHANGED <<env, wire, done>>

\* coll_join_comp and coll_collective_comp
\* A plausible mistake: the id stays free.
JoinCompUnmarked(p, set, ids) ==
    [p EXCEPT !.gid[Joined(set)] = CHOOSE i \in ids : \A j \in ids : i <= j,
              !.seq[Joined(set)] = 0]
JoinComp(p, set, ids) ==
    LET id == IF ids = {} THEN MaxId ELSE CHOOSE i \in ids : \A j \in ids : i <= j
    IN  [p EXCEPT !.gid[Joined(set)] = id, !.seq[Joined(set)] = 0, !.mask = @ \ {id}]
TurnComp(e) ==
    LET w == First(e)
        k == w[1]
        c == env.calls[k]
        result == ep[e].ops[k].bufs.result
    IN  /\ Turn(e, "comp")
        /\ done' = [done EXCEPT ![e][k] = result]
        /\ ep' = [ep EXCEPT ![e] =
             Completed(IF c.op = "join" THEN JoinComp(Taken(e), c.set, result[0]) ELSE Taken(e), w)]
        /\ UNCHANGED <<env, wire>>

Progress(e) == TurnAgain(e) \/ TurnSend(e) \/ TurnRecv(e) \/ TurnCompute(e) \/ TurnComp(e)
Next == \E e \in Ep : Call(e) \/ Progress(e) \/ RecvDone(e) \/ SendDone(e)
Spec == Init /\ [][Next]_vars
-----------------------------------------------------------------------------
\* The endpoints where call k has completed.
DoneAt(k) == {e \in Ep : done[e][k] # None}
HasCalled(e, k) == \E i \in 1 .. ep[e].next - 1 : CallsOf(e)[i] = k
Joins == {k \in Calls : env.calls[k].op = "join"}

\* The result of an allreduce has the contribution of every rank, once.
Leaves(v) == SelectSeq(v, LAMBDA x : x \notin {Open, Shut})
Reduced(k, v, i) ==
    /\ Len(Leaves(v)) = Cardinality(Part(k))
    /\ Range(Leaves(v)) = {<<k, e, i>> : e \in Part(k)}
Expected(k, e, r) ==
    LET c == env.calls[k]
        all == Members(c.mc)
    IN  \A i \in DOMAIN r :
          CASE c.op = "join" -> TRUE
            [] c.op \in {"barrier", "allreduce"} -> Reduced(k, r[i], i)
            [] c.op = "allgather" -> r[i] = Contribution(k, all[i \div c.cnt + 1], i % c.cnt)
            [] c.op = "scatter" -> r[i] = Contribution(k, all[c.root + 1], Rank(e, c.mc) * c.cnt + i)
            [] c.op = "broadcast" -> r[i] = Contribution(k, all[c.root + 1], i)

\* What a call has in its result buffer when it is reported
\* (coll_collective_comp) is what the operation is defined to give, also when
\* several operations of a group are under way and endpoints are at different
\* ones: every contribution once, each element from its own rank, and nothing
\* of another operation or of a buffer not yet written.
ResultRight == \A k \in Calls : \A e \in DoneAt(k) : Expected(k, e, done[e][k])

\* All ranks of an allreduce compute the same expression, operands in the same
\* order, so that they agree also for an operation that does not commute or
\* associate (floating-point sums): coll_do_allreduce reduces into the received
\* data or into its own by the order of the ranks.
SameResult ==
    \A k \in Calls : env.calls[k].op = "allreduce" =>
        \A e, f \in DoneAt(k) : done[e][k] = done[f][k]

\* No member completes a join, barrier, allreduce, allgather or broadcast before
\* every member has called it.  (The members near the root of a scatter may.)
NobodyEarly ==
    \A k \in Calls :
        env.calls[k].op # "scatter" /\ DoneAt(k) # {} => \A e \in Part(k) : HasCalled(e, k)

\* coll_join_comp gives a new group the same id at all its members, and at none
\* of them the id of another group it is in; the ids go into the tags.
GroupsApart ==
    \A k \in Joins : \A e, f \in DoneAt(k) :
        LET g == Joined(env.calls[k].set)
        IN  /\ ep[e].gid[g] = ep[f].gid[g]
            /\ \A m \in Mcs \ {g} : ep[e].gid[m] # ep[e].gid[g]

\* An item that is in coll_ready_queue, or is the context of a transfer the peer
\* endpoint has, has not been freed by coll_progress_work, nor completed, and is
\* queued or under way once.
NoDangling ==
    \A e \in Ep :
        LET p == ep[e]
            Live(w) == \E x \in Range(p.ops[w[1]].work) : x.id = w[2] /\ x.state = "processing"
            held == Range(p.ready) \cup Range(p.posted) \cup p.sending
        IN  /\ \A w \in held : Live(w)
            /\ Len(p.ready) + Len(p.posted) + Cardinality(p.sending) = Cardinality(held)

\* Every item stays inside its buffers, and a message has the size of the
\* receive that takes it, though sender and receiver work out the sizes of a
\* tree on their own (util_binomial_tree_values_to_recv, coll_do_scatter).
CountRespected ==
    /\ \A e \in Ep : \A w \in Range(ep[e].posted), s \in Ep : \A i \in Matching(e, ep[e], w, s) :
         Cardinality(DOMAIN DataOf(s, wire[s][e][i])) = ItemOf(ep[e], w).cnt
    /\ \A e \in Ep, k \in Calls : \A x \in Range(ep[e].ops[k].work) : \A p \in {x.from, x.to} :
         p.buf # "none" => p.off + x.cnt <= Cardinality(DOMAIN ep[e].ops[k].bufs[p.buf])

\* Every member gets the result the operation defines, and the ranks of an
\* allreduce the same one.
ResultsRight == ResultRight /\ SameResult

\* No item is used after it was freed, and none goes past its buffers.
MemoryRespected == NoDangling /\ CountRespected

\* The endpoints never all wait for each other: as long as a call is not
\* complete somewhere, some endpoint has a call to make, an item queued, a send
\* under way or a message for a receive.  When all are complete no message and
\* no operation is left over.
NeverStuck ==
    \/ \E e \in Ep :
         LET calls == CallsOf(e)
         IN  \/ ep[e].next <= Len(calls) /\ MayCall(e, calls[ep[e].next])
             \/ ep[e].ready # << >> \/ ep[e].sending # {}
             \/ \E w \in Range(ep[e].posted), s \in Ep : Matching(e, ep[e], w, s) # {}
    \/ /\ \A k \in Calls : DoneAt(k) = Part(k)
       /\ \A e \in Ep : (\A k \in Calls : ep[e].ops[k] = NoOp) /\ \A d \in Ep : wire[e][d] = << >>
=============================================================================
