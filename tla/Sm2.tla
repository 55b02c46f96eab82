-------------------------------- MODULE Sm2 --------------------------------
(***************************************************************************)
(* The sm2 provider: endpoints of different processes that exchange        *)
(* transfer entries over the queues of Sm2Fifo.  An endpoint sends with an *)
(* entry from its own free stack; whoever has the entry last sends it      *)
(* back.  A message too large for an entry (CMA, IPC) is copied by the     *)
(* receiver from the sender's memory, or by the sender when the receiver's *)
(* buffer is on a device, and its sender completes only then.  A message   *)
(* that finds no receive is set aside in a context and its entry returned, *)
(* and the receiver later uses an entry of its own to notify the sender.   *)
(*                                                                         *)
(* A handler runs under its endpoint's lock and, the queues being what     *)
(* WriteQueue says, takes effect at once when it writes its entry to a     *)
(* queue.  sm2_progress_recv handles up to eight entries under the lock;   *)
(* here an application call may come after each.  The shared receive       *)
(* context, of util_srx.c, matches any message with the oldest receive.    *)
(* A definition whose name continues another's (HandleUnsigned)            *)
(* is that one with a plausible mistake.                                   *)
(***************************************************************************)
EXTENDS Naturals, Sequences, FiniteSets, Functions

CONSTANTS
    Ep,
    Pool,         \* how many entries each free stack has
    Kinds,        \* what applications send: a subset of AllKinds
    Senders,      \* who sends
    Receivers,    \* who is sent to
    Mems,         \* where receive buffers are: a subset of {"host", "dev"}
    RxSlots,      \* receives the shared receive context has room for
    MaxSends,     \* bound: sends of an endpoint
    MaxRecvs,     \* bound: receives of an endpoint
    Closers,      \* endpoints the application may close
    MemcpyFails   \* whether a copy to a device may fail

AllKinds == {"inject", "cma", "atomic", "fetch"}
ASSUME SendAssumption == Kinds \subseteq AllKinds /\ Senders \cup Receivers \cup Closers \subseteq Ep
ASSUME MemAssumption == Mems \subseteq {"host", "dev"} /\ MemcpyFails \in BOOLEAN
ASSUME BoundAssumption == Pool \in [Ep -> Nat \ {0}] /\ MaxSends \in Nat /\ MaxRecvs \in Nat

VARIABLES
    free,       \* the free stacks
    hdr,        \* the header of each entry
    queue,      \* the queues
    posted,     \* receives with no message: a slot and where the buffer is
    unexp,      \* messages with no receive: a copy of the entry
    rxctx,      \* the context in each slot of the shared receive context
    life,       \* "up", "drain", "redrain", "freed" or "zombie"
    nrecv,      \* receives posted so far
    issued,     \* history: messages sent, in order
    matched,    \* history: messages and the receives they matched, in order
    placed,     \* history: messages whose data is in the receiver's buffer
    applied,    \* history: the atomics performed at an endpoint, in order
    txdone,     \* history: send completions, in order
    rxdone,     \* history: receive completions, message and context
    result,     \* history: what fetching atomics returned
    failed,     \* history: messages whose copy to a device failed
    starved     \* history: messages whose receiver had no entry to notify with
history == <<issued, matched, placed, applied, txdone, rxdone, result, failed, starved>>
vars == <<free, hdr, queue, posted, unexp, rxctx, life, nrecv, history>>

Ent == UNION {{e} \X (1 .. Pool[e]) : e \in Ep}
Owner(x) == x[1]
Slots == 1 .. RxSlots
Flags == {"RETURN", "UNEXP", "GENERATE", "TO_DEV", "ACK"}
NoHdr == [flags |-> {}]

Init ==
    /\ free = [e \in Ep |-> {x \in Ent : Owner(x) = e}]
    /\ hdr = [x \in Ent |-> NoHdr]
    /\ queue = [e \in Ep |-> << >>]
    /\ posted = [e \in Ep |-> << >>] /\ unexp = [e \in Ep |-> << >>]
    /\ rxctx = [e \in Ep |-> [s \in Slots |-> 0]]
    /\ life = [e \in Ep |-> "up"]
    /\ nrecv = [e \in Ep |-> 0] /\ issued = [e \in Ep |-> << >>]
    /\ matched = [e \in Ep |-> << >>] /\ applied = [e \in Ep |-> << >>]
    /\ txdone = [e \in Ep |-> << >>] /\ rxdone = [e \in Ep |-> << >>]
    /\ placed = {} /\ result = {} /\ failed = {} /\ starved = {}

\* sm2_proto_imm_send_comp, and the atomics that complete at once.
Immediate(kind) == kind \in {"inject", "atomic"}

Add(f, e, v) == [f EXCEPT ![e] = Append(@, v)]
Drop(q, e) == [q EXCEPT ![e] = Tail(@)]

(***************************************************************************)
(* Sending: sm2_generic_sendmsg and sm2_generic_atomic.  With an empty     *)
(* free stack nothing happens and the caller is told to try again.         *)
(***************************************************************************)
Send(e, d, kind) ==
    /\ life[e] = "up" /\ Len(issued[e]) < MaxSends /\ e # d
    /\ \E x \in free[e] :
        /\ free' = [free EXCEPT ![e] = @ \ {x}]
        /\ hdr' = [hdr EXCEPT ![x] =
                    [flags |-> {}, sender |-> e, rx |-> 0, res |-> 0,
                     msg |-> [from |-> e, to |-> d, n |-> Len(issued[e]) + 1, kind |-> kind]]]
        /\ queue' = Add(queue, d, x)
        /\ issued' = Add(issued, e, hdr'[x].msg)
        /\ txdone' = IF Immediate(kind) THEN Add(txdone, e, hdr'[x].msg) ELSE txdone
    /\ UNCHANGED <<posted, unexp, rxctx, life, nrecv, matched, placed, applied,
                   rxdone, result, failed, starved>>

(***************************************************************************)
(* What a handler does with the entry x at the head of e's queue: write it *)
(* with header h to the queue of d, or push it on the free stack, where    *)
(* what it holds no longer matters.                                        *)
(***************************************************************************)
Pass(e, x, h, d) ==
    /\ hdr' = [hdr EXCEPT ![x] = h]
    /\ queue' = Add(Drop(queue, e), d, x)
    /\ UNCHANGED free

Push(e, x) ==
    /\ free' = [free EXCEPT ![e] = @ \cup {x}]
    /\ hdr' = [hdr EXCEPT ![x] = NoHdr]
    /\ queue' = Drop(queue, e)

\* sm2_fifo_write_back
WriteBack(e, x, flags) ==
    Pass(e, x, [hdr[x] EXCEPT !.flags = flags \cup {"RETURN"}], hdr[x].sender)

\* sm2_progress_return: the entry is the endpoint's own, or it notifies of
\* a message that was set aside and goes back.
ReturnOrPush(e, x) ==
    IF {"GENERATE", "UNEXP"} \subseteq hdr[x].flags
    THEN WriteBack(e, x, hdr[x].flags \ {"GENERATE"})
    ELSE Push(e, x)

ProgressReturn(e, x) ==
    /\ "RETURN" \in hdr[x].flags
    /\ txdone' = IF "GENERATE" \in hdr[x].flags THEN Add(txdone, e, hdr[x].msg) ELSE txdone
    /\ result' = IF hdr[x].msg.kind = "fetch"
                 THEN result \cup {[msg |-> hdr[x].msg, res |-> hdr[x].res]} ELSE result
    /\ ReturnOrPush(e, x)
    /\ UNCHANGED <<posted, unexp, rxctx, life, nrecv, issued, matched, placed, applied,
                   rxdone, failed, starved>>

\* sm2_progress_atomic: what the target held is how many came before.
HeldBefore(e) == Len(applied[e])

ProgressAtomic(e, x) ==
    /\ hdr[x].msg.kind \in {"atomic", "fetch"}
    /\ applied' = Add(applied, e, hdr[x].msg)
    /\ Pass(e, x,
            [hdr[x] EXCEPT
                !.flags = @ \cup {"RETURN"} \cup IF hdr[x].msg.kind = "fetch" THEN {"GENERATE"} ELSE {},
                !.res = HeldBefore(e)],
            hdr[x].sender)
    /\ UNCHANGED <<posted, unexp, rxctx, life, nrecv, issued, matched, placed, txdone,
                   rxdone, result, failed, starved>>

(***************************************************************************)
(* Receiving.  A message and a receive that match are processed by         *)
(* sm2_start_common, which frees the receive's slot at once.               *)
(***************************************************************************)
Matched(e, m, ctx) == matched' = Add(matched, e, [msg |-> m, ctx |-> ctx])
Received(e, m, ctx, ok) == rxdone' = Add(rxdone, e, [msg |-> m, ctx |-> ctx, ok |-> ok])

\* Whether the buffer is one the receiver cannot copy a CMA message to.
ByDevice(h, mem) == h.msg.kind = "cma" /\ mem = "dev"

\* sm2_cma_send_ipc_handle: the entry asks the sender to copy.
HandleUnsigned(e, h, slot) ==
    [h EXCEPT !.flags = @ \cup {"TO_DEV"}, !.rx = slot]
Handle(e, h, slot) ==
    [h EXCEPT !.flags = @ \cup {"TO_DEV"}, !.sender = e, !.rx = slot]

\* What the entry of a message goes back with, once received.
DoneFlagsSilent(h) == h.flags
DoneFlags(h) == h.flags \cup IF Immediate(h.msg.kind) THEN {} ELSE {"GENERATE"}

\* The message is in a queue entry, and a receive is posted.
StartExpected(e, x) ==
    LET h == hdr[x]
        r == Head(posted[e])
    IN
    /\ posted[e] # << >>
    /\ posted' = Drop(posted, e)
    /\ Matched(e, h.msg, rxctx[e][r.slot])
    /\ IF ByDevice(h, r.mem)
       THEN /\ Pass(e, x, Handle(e, h, r.slot), h.sender)
            /\ UNCHANGED <<placed, rxdone>>
       ELSE /\ placed' = placed \cup {h.msg}
            /\ Received(e, h.msg, rxctx[e][r.slot], TRUE)
            /\ WriteBack(e, x, DoneFlags(h))
    /\ UNCHANGED <<unexp, rxctx, life, nrecv, issued, applied, txdone, result, failed, starved>>

FreeSlots(e) ==
    Slots \ (Range([i \in DOMAIN posted[e] |-> posted[e][i].slot])
             \cup Range([i \in DOMAIN unexp[e] |-> unexp[e][i].slot]))

\* What the entry of a message set aside goes back with.
AsideFlags(h) == h.flags \cup {"UNEXP"}

\* util_srx.c: messages that wait for a receive are kept in order.
QueueUnexpFirst(e, m) == unexp' = [unexp EXCEPT ![e] = <<m>> \o @]
QueueUnexp(e, m) == unexp' = Add(unexp, e, m)

\* No receive is posted: the message is copied to a context, and its entry
\* goes back.
SetAside(e, x) ==
    /\ posted[e] = << >>
    /\ \E s \in FreeSlots(e) :
        QueueUnexp(e, [h |-> [hdr[x] EXCEPT !.flags = @ \cup {"UNEXP"}], slot |-> s])
    /\ WriteBack(e, x, AsideFlags(hdr[x]))
    /\ UNCHANGED <<posted, rxctx, life, nrecv, history>>

\* sm2_progress_cma_host_to_dev, at the sender
ProgressHostToDev(e, x) ==
    /\ "TO_DEV" \in hdr[x].flags
    /\ \/ /\ placed' = placed \cup {hdr[x].msg}
          /\ txdone' = Add(txdone, e, hdr[x].msg)
          /\ Pass(e, x, [hdr[x] EXCEPT !.flags = (@ \ {"TO_DEV"}) \cup {"ACK"}, !.sender = e],
                  hdr[x].sender)
          /\ UNCHANGED failed
       \/ /\ MemcpyFails
          /\ failed' = failed \cup {hdr[x].msg}
          /\ IF "UNEXP" \in hdr[x].flags
             THEN WriteBack(e, x, hdr[x].flags \ {"GENERATE"})
             ELSE Push(e, x)
          /\ UNCHANGED <<placed, txdone>>
    /\ UNCHANGED <<posted, unexp, rxctx, life, nrecv, issued, matched, applied, rxdone,
                   result, starved>>

\* sm2_progress_cma_host_to_dev_ack, at the receiver: the context is the one
\* now in the slot.
AfterAckDone(e, x) ==
    IF "UNEXP" \in hdr[x].flags THEN Push(e, x)
    ELSE WriteBack(e, x, DoneFlags(hdr[x]))
AfterAck(e, x) ==
    IF "UNEXP" \in hdr[x].flags THEN Push(e, x)
    ELSE WriteBack(e, x, hdr[x].flags \ {"GENERATE"})

ProgressAck(e, x) ==
    /\ "ACK" \in hdr[x].flags
    /\ Received(e, hdr[x].msg, rxctx[e][hdr[x].rx], TRUE)
    /\ AfterAck(e, x)
    /\ UNCHANGED <<posted, unexp, rxctx, life, nrecv, issued, matched, placed, applied,
                   txdone, result, failed, starved>>

\* sm2_progress_recv_msg
ProgressMsg(e, x) ==
    /\ hdr[x].msg.kind \in {"inject", "cma"}
    /\ \/ ProgressHostToDev(e, x)
       \/ ProgressAck(e, x)
       \/ {"TO_DEV", "ACK"} \cap hdr[x].flags = {} /\ (StartExpected(e, x) \/ SetAside(e, x))

\* An entry of sm2_progress_recv
ProgressOne(e, x) ==
    \/ ProgressReturn(e, x)
    \/ "RETURN" \notin hdr[x].flags /\ (ProgressMsg(e, x) \/ ProgressAtomic(e, x))

Progress(e) == life[e] = "up" /\ queue[e] # << >> /\ ProgressOne(e, Head(queue[e]))

(***************************************************************************)
(* A receive of the application.  One that matches a message set aside is  *)
(* started by sm2_unexp_start; an entry of the receiver's own takes the    *)
(* message back to its sender, when it has one.                            *)
(***************************************************************************)
NotifyPeeked(e, h, d) ==
    \E y \in free[e] :
        /\ hdr' = [hdr EXCEPT ![y] = h]
        /\ queue' = Add(queue, d, y)
        /\ UNCHANGED <<free, starved>>
Notify(e, h, d) ==
    \E y \in free[e] :
        /\ free' = [free EXCEPT ![e] = @ \ {y}]
        /\ hdr' = [hdr EXCEPT ![y] = h]
        /\ queue' = Add(queue, d, y)
        /\ UNCHANGED starved

CannotNotify(e, h) ==
    /\ free[e] = {}
    /\ starved' = starved \cup {h.msg}
    /\ UNCHANGED <<free, hdr, queue>>

StartUnexpected(e, mem) ==
    LET h == Head(unexp[e]).h
        slot == Head(unexp[e]).slot
        ctx == nrecv[e] + 1
    IN
    /\ unexp[e] # << >>
    /\ unexp' = Drop(unexp, e)
    /\ rxctx' = [rxctx EXCEPT ![e][slot] = ctx]
    /\ Matched(e, h.msg, ctx)
    /\ IF ByDevice(h, mem)
       THEN \/ Notify(e, Handle(e, h, slot), h.sender) /\ UNCHANGED <<placed, rxdone>>
            \/ CannotNotify(e, h) /\ Received(e, h.msg, ctx, FALSE) /\ UNCHANGED placed
       ELSE /\ placed' = placed \cup {h.msg}
            /\ Received(e, h.msg, ctx, TRUE)
            /\ IF Immediate(h.msg.kind)
               THEN UNCHANGED <<free, hdr, queue, starved>>
               ELSE \/ Notify(e, [h EXCEPT !.flags = @ \cup {"GENERATE", "RETURN"}, !.sender = e],
                              h.sender)
                    \/ CannotNotify(e, h)
    /\ UNCHANGED posted

NoneWaiting(e) == unexp[e] = << >>

PostRecv(e, mem) ==
    /\ life[e] = "up" /\ nrecv[e] < MaxRecvs
    /\ nrecv' = [nrecv EXCEPT ![e] = @ + 1]
    /\ \/ StartUnexpected(e, mem)
       \/ /\ NoneWaiting(e)
          /\ \E s \in FreeSlots(e) :
                /\ posted' = Add(posted, e, [slot |-> s, mem |-> mem])
                /\ rxctx' = [rxctx EXCEPT ![e][s] = nrecv[e] + 1]
          /\ UNCHANGED <<free, hdr, queue, unexp, matched, placed, rxdone, starved>>
    /\ UNCHANGED <<life, issued, applied, txdone, result, failed>>

(***************************************************************************)
(* Closing: sm2_ep_close and cleanup_shm_resources.  The queue is emptied, *)
(* twice when entries are missing; with a full stack the region is given   *)
(* up for reuse, otherwise never again.                                    *)
(***************************************************************************)
IsFull(e) == Cardinality(free[e]) = Pool[e]
Keep == UNCHANGED <<posted, unexp, rxctx, nrecv, history>>

Close(e) ==
    /\ life[e] = "up"
    /\ life' = [life EXCEPT ![e] = "drain"]
    /\ Keep /\ UNCHANGED <<free, hdr, queue>>

Drain(e) ==
    /\ life[e] \in {"drain", "redrain"} /\ queue[e] # << >>
    /\ LET x == Head(queue[e]) IN
        IF "RETURN" \in hdr[x].flags THEN Push(e, x)
        ELSE WriteBack(e, x, hdr[x].flags \ {"GENERATE"})
    /\ Keep /\ UNCHANGED life

DrainEnd(e) ==
    /\ life[e] \in {"drain", "redrain"} /\ queue[e] = << >>
    /\ life' = [life EXCEPT ![e] =
                IF IsFull(e) THEN "freed" ELSE IF @ = "drain" THEN "redrain" ELSE "zombie"]
    /\ Keep /\ UNCHANGED <<free, hdr, queue>>

Next ==
    \/ \E e \in Senders, d \in Receivers, kind \in Kinds : Send(e, d, kind)
    \/ \E e \in Receivers, mem \in Mems : PostRecv(e, mem)
    \/ \E e \in Ep : Progress(e)
    \/ \E e \in Closers : Close(e)
    \/ \E e \in Ep : Drain(e) \/ DrainEnd(e)

Spec == Init /\ [][Next]_vars

\* Endpoints keep being progressed, and an application with messages waiting
\* for receives posts them.
FairSpec ==
    /\ Spec
    /\ \A e \in Ep : WF_vars(Progress(e)) /\ WF_vars(Drain(e) \/ DrainEnd(e))
    /\ \A e \in Receivers : WF_vars(unexp[e] # << >> /\ \E mem \in Mems : PostRecv(e, mem))
----------------------------------------------------------------------------
NeverClosed == \A e \in Ep : life[e] = "up"
Messages == {"inject", "cma"}
Atomics == {"atomic", "fetch"}
Msgs(s) == [i \in DOMAIN s |-> s[i].msg]

Message == [from : Ep, to : Ep, n : Nat, kind : AllKinds]
Header == [flags : SUBSET Flags, sender : Ep, rx : Slots \cup {0}, res : Nat, msg : Message]

\* The variables have their types (sm2_xfer_hdr, sm2_xfer_ctx, and the histories).
TypeOK ==
    /\ free \in [Ep -> SUBSET Ent]
    /\ hdr \in [Ent -> Header \cup {NoHdr}]
    /\ queue \in [Ep -> Seq(Ent)]
    /\ posted \in [Ep -> Seq([slot : Slots, mem : Mems])]
    /\ unexp \in [Ep -> Seq([h : Header, slot : Slots])]
    /\ rxctx \in [Ep -> [Slots -> Nat]]
    /\ life \in [Ep -> {"up", "drain", "redrain", "freed", "zombie"}]
    /\ nrecv \in [Ep -> Nat]
    /\ issued \in [Ep -> Seq(Message)] /\ applied \in [Ep -> Seq(Message)]
    /\ txdone \in [Ep -> Seq(Message)]
    /\ rxdone \in [Ep -> Seq([msg : Message, ctx : Nat, ok : BOOLEAN])]
    /\ placed \subseteq Message

\* An entry is on one free stack or once in one queue, whatever path it
\* takes: an entry that is in use is never handed out again.
Keepers(x) ==
    {<<e, 0>> : e \in {f \in Ep : x \in free[f]}}
    \cup UNION {{<<e, i>> : i \in {j \in DOMAIN queue[e] : queue[e][j] = x}} : e \in Ep}
OneKeeper == \A x \in Ent : \E k \in Keepers(x) : Keepers(x) = {k}

\* Until an endpoint is closed every entry comes back to the stack it was
\* taken from: also the ones receivers use to notify senders.
HomeStacks == NeverClosed => \A e \in Ep : \A x \in free[e] : Owner(x) = e

\* The assertions of sm2_progress_recv and sm2_fifo_write_back: an entry
\* that is not a return asks for no completion, and none that is to be
\* written back would go to the endpoint that has it.
NoBadReturn ==
    \A e \in Ep : \A i \in DOMAIN queue[e] :
        LET h == hdr[queue[e][i]] IN
        /\ "RETURN" \notin h.flags => "GENERATE" \notin h.flags /\ h.sender # e
        /\ {"RETURN", "GENERATE", "UNEXP"} \subseteq h.flags => h.sender # e

\* What e takes from the endpoints that send to it, s, in the order of log,
\* which has what each of them sent: a message of the kinds K is taken once,
\* after all that its sender sent before it.
Logged(log, m) == m.n \in DOMAIN log[m.from] /\ log[m.from][m.n] = m
After(log, m, K, S) ==
    \A k \in 1 .. m.n - 1 :
        LET w == log[m.from][k] IN w.to = m.to /\ w.kind \in K => w \in S
TakenInOrder(log, e, s, K) ==
    /\ IsInjective(s)
    /\ \A j \in DOMAIN s :
        /\ Logged(log, s[j]) /\ s[j].to = e /\ s[j].kind \in K
        /\ After(log, s[j], K, {s[i] : i \in 1 .. j - 1})

\* Messages match receives in the order in which they were sent, and
\* receives in the order in which they were posted, whether a message was
\* expected or set aside.
MatchInOrder ==
    \A e \in Ep :
        /\ \A i \in DOMAIN matched[e] : matched[e][i].ctx = i
        /\ TakenInOrder(issued, e, Msgs(matched[e]), Messages)

\* A send and a receive complete at most once.
CompleteOnce == \A e \in Ep : IsInjective(txdone[e]) /\ IsInjective(Msgs(rxdone[e]))

\* A send that promises delivery completes only when its data is in the
\* receiver's buffer, and a receive that succeeds only then too, wherever
\* the buffer is and whoever copied.
DeliveredFirst ==
    \A e \in Ep :
        /\ \A m \in Range(txdone[e]) :
            Immediate(m.kind) \/ m \in placed \/ m \in Range(applied[m.to])
        /\ \A r \in Range(rxdone[e]) : r.ok => r.msg \in placed

\* Atomics are performed once and in the order sent, and one that fetches
\* and completes has returned what its target held when its turn came.
Performed(m, res) == res < Len(applied[m.to]) /\ applied[m.to][res + 1] = m
AtomicTurns ==
    /\ \A e \in Ep : TakenInOrder(issued, e, applied[e], Atomics)
    /\ \A r \in result : r.msg \in Range(txdone[r.msg.from]) => Performed(r.msg, r.res)

\* Entries go back to where they belong, and are asserted to.
ComesHome == HomeStacks /\ NoBadReturn

\* Messages match, and atomics are performed, in the order sent.
InTurn == MatchInOrder /\ AtomicTurns

\* What completes has happened, and completes once.
CompletionsRight == CompleteOnce /\ DeliveredFirst

\* Every send completes, and every entry comes home, unless a copy failed,
\* the receiver had no entry to notify the sender with, or an endpoint was
\* closed.
Settled(e) ==
    /\ IsFull(e)
    /\ Range(issued[e]) \subseteq Range(txdone[e]) \cup failed \cup starved
EverySendCompletes == <>[](NeverClosed => \A e \in Ep : Settled(e))

\* The region of a closed endpoint is given up for reuse only when all of
\* its entries are back on its stack.
CleanShutdown == \A e \in Ep : life[e] = "freed" => {x \in Ent : Owner(x) = e} \subseteq free[e]

\* A receive completes with its own context.
RecvContext ==
    \A e \in Ep : \A r \in Range(rxdone[e]) : [msg |-> r.msg, ctx |-> r.ctx] \in Range(matched[e])

(***************************************************************************)
(* Why it works.                                                           *)
(***************************************************************************)
In(e, x) == x \in Range(queue[e])

\* Nothing is in two places, and nothing is nowhere.
Apart ==
    /\ \A e \in Ep : IsInjective(queue[e])
    /\ \A e, f \in Ep : \A x \in Ent :
        /\ In(e, x) /\ In(f, x) => e = f
        /\ x \in free[e] /\ x \in free[f] => e = f
        /\ ~(x \in free[e] /\ In(f, x))
    /\ \A x \in Ent : \E e \in Ep : x \in free[e] \/ In(e, x)

\* An entry that only goes back; any other in a queue is still to do something
\* for its message.
Returning(h) == "RETURN" \in h.flags /\ "GENERATE" \notin h.flags

\* What an entry in the queue of e may be: a message that arrives, a request to
\* copy to a device, the answer to it, the notice that a message set aside was
\* received, a message or atomic that was performed, or one that goes back.
Shape(e, h) ==
    LET m == h.msg IN
    /\ m.from # m.to
    /\ \/ h.flags = {} /\ h.sender = m.from /\ e = m.to
       \/ /\ h.flags \in {{"TO_DEV"}, {"TO_DEV", "UNEXP"}} /\ h.sender = m.to /\ e = m.from
          /\ m.kind = "cma" /\ h.rx \in Slots
       \/ /\ h.flags \in {{"ACK"}, {"ACK", "UNEXP"}} /\ h.sender = m.from /\ e = m.to
          /\ m.kind = "cma" /\ m \in placed /\ h.rx \in Slots
       \/ /\ h.flags = {"RETURN", "GENERATE", "UNEXP"} /\ h.sender = m.to /\ e = m.from
          /\ m.kind = "cma" /\ m \in placed
       \/ /\ h.flags = {"RETURN", "GENERATE"} /\ e = m.from
          /\ \/ m.kind = "cma" /\ m \in placed
             \/ m.kind = "fetch" /\ m \in Range(applied[m.to])
       \/ Returning(h)
\* What a message set aside at e looks like.
Aside(e, h) ==
    /\ h.flags = {"UNEXP"} /\ h.sender = h.msg.from /\ e = h.msg.to /\ h.msg.from # h.msg.to
    /\ h.msg.kind \in {"inject", "cma"}
Shapes ==
    /\ \A e \in Ep : \A x \in Ent : In(e, x) => hdr[x] \in Header /\ Shape(e, hdr[x])
    /\ \A e \in Ep : \A i \in DOMAIN unexp[e] : Aside(e, unexp[e][i].h)

\* Where an entry that e has belongs: to its sender, or, if it only speaks of a
\* message set aside, to its receiver.
HomeOf(e, h) ==
    IF Returning(h) THEN e ELSE IF "UNEXP" \in h.flags THEN h.msg.to ELSE h.msg.from
Homes ==
    NeverClosed =>
        /\ \A e \in Ep : \A x \in free[e] : Owner(x) = e
        /\ \A e \in Ep : \A x \in Ent : In(e, x) => Owner(x) = HomeOf(e, hdr[x])

\* A message is under way once: in an entry, or set aside.
Issued(m) == m.n <= Len(issued[m.from])
Busy(x) == (\E e \in Ep : In(e, x)) /\ ~Returning(hdr[x])
Once ==
    /\ \A x, y \in Ent : Busy(x) /\ Busy(y) /\ hdr[x].msg = hdr[y].msg => x = y
    /\ \A x \in Ent : \A e \in Ep : \A i \in DOMAIN unexp[e] :
        Busy(x) => hdr[x].msg # unexp[e][i].h.msg
    /\ \A e \in Ep : \A i, j \in DOMAIN unexp[e] :
        unexp[e][i].h.msg = unexp[e][j].h.msg => i = j
    /\ \A x \in Ent : Busy(x) => Issued(hdr[x].msg)
    /\ \A e \in Ep : \A i \in DOMAIN unexp[e] : Issued(unexp[e][i].h.msg)

\* While it is under way its sender is not done, unless it was at once or the
\* sender has copied it; and its receiver is not, unless the entry says so.
Sent(m) == m \in Range(txdone[m.from])
Got(m) == m \in Range(Msgs(rxdone[m.to]))
Outstanding ==
    /\ \A x \in Ent : Busy(x) =>
        /\ Sent(hdr[x].msg) => Immediate(hdr[x].msg.kind) \/ "ACK" \in hdr[x].flags
        /\ Got(hdr[x].msg) => "RETURN" \in hdr[x].flags
    /\ \A e \in Ep : \A i \in DOMAIN unexp[e] :
        /\ Sent(unexp[e][i].h.msg) => Immediate(unexp[e][i].h.msg.kind)
        /\ ~Got(unexp[e][i].h.msg)

\* What is done was issued, and is recorded where it belongs.
Recorded ==
    \A e \in Ep :
        /\ \A m \in Range(txdone[e]) : m.from = e /\ Issued(m)
        /\ \A m \in Range(Msgs(rxdone[e])) : m.to = e /\ Issued(m)

IInv ==
    /\ TypeOK /\ Apart /\ Shapes /\ Homes
    /\ Once /\ Outstanding /\ Recorded /\ CompleteOnce /\ DeliveredFirst

(***************************************************************************)
(* Why the order is kept: what e has yet to take is in line, set aside or  *)
(* in its queue, behind what was sent before it.                           *)
(***************************************************************************)
FreshAt(e, i) == hdr[queue[e][i]].flags = {}
MsgAt(e, i) == hdr[queue[e][i]].msg
AsideMsgs(s) == [i \in DOMAIN s |-> s[i].h.msg]
Line(e) == Msgs(matched[e]) \o AsideMsgs(unexp[e])
Taken(e) == Range(Line(e)) \cup Range(applied[e])
Arriving(e, i) == {MsgAt(e, k) : k \in {j \in 1 .. i - 1 : FreshAt(e, j)}}
AllArriving(e) == Arriving(e, Len(queue[e]) + 1)

\* What arrives was sent and not taken.
Untaken(e) ==
    \A i \in DOMAIN queue[e] : FreshAt(e, i) =>
        Logged(issued, MsgAt(e, i)) /\ MsgAt(e, i) \notin Taken(e)
\* Until e closes it arrives in order, and nothing sent to e is lost.
ArrivesInOrder(e) ==
    /\ \A i \in DOMAIN queue[e] : FreshAt(e, i) =>
        After(issued, MsgAt(e, i), AllKinds, Taken(e) \cup Arriving(e, i))
    /\ \A f \in Ep : \A k \in DOMAIN issued[f] :
        issued[f][k].to = e => issued[f][k] \in Taken(e) \cup AllArriving(e)
Ordered(e) ==
    /\ TakenInOrder(issued, e, Line(e), Messages) /\ TakenInOrder(issued, e, applied[e], Atomics)
    /\ Untaken(e) /\ (life[e] = "up" => ArrivesInOrder(e))

\* Receives: those matched and then those posted, each with its context.
Receives(e) ==
    /\ \A i \in DOMAIN matched[e] : matched[e][i].ctx = i
    /\ \A k \in DOMAIN posted[e] : rxctx[e][posted[e][k].slot] = Len(matched[e]) + k
    /\ nrecv[e] = Len(matched[e]) + Len(posted[e])
    /\ \A i, k \in DOMAIN posted[e] : posted[e][i].slot = posted[e][k].slot => i = k
    /\ posted[e] # << >> => unexp[e] = << >>

\* A fetching atomic has one entry and no result until it is back.
Fetching(x) ==
    LET m == hdr[x].msg IN
    /\ Issued(m) /\ ~Sent(m)
    /\ "GENERATE" \in hdr[x].flags => Performed(m, hdr[x].res)
    /\ \A r \in result : r.msg # m
    /\ \A f \in Ep : \A y \in Ent : In(f, y) /\ hdr[y].msg = m => y = x
Fetches ==
    /\ \A e \in Ep : \A x \in Ent : In(e, x) /\ hdr[x].msg.kind = "fetch" => Fetching(x)
    /\ \A r \in result :
        /\ r.msg \in Message /\ r.msg.kind = "fetch" /\ r.res \in Nat
        /\ Issued(r.msg) /\ (Sent(r.msg) => Performed(r.msg, r.res))

InLine ==
    /\ matched \in [Ep -> Seq([msg : Message, ctx : Nat])]
    /\ \A e \in Ep : \A i \in DOMAIN issued[e] : issued[e][i].from = e /\ issued[e][i].n = i
    /\ \A e \in Ep : Ordered(e) /\ Receives(e)
    /\ Fetches
=============================================================================
