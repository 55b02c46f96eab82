------------------------------ MODULE Sm2Fifo ------------------------------
(***************************************************************************)
(* The multi-writer, single-reader queues of prov/sm2/src/sm2_fifo.h.      *)
(* Every endpoint has a queue in the shared file, a list of transfer       *)
(* entries linked by hdr.next; the endpoints are threads of different      *)
(* processes, each holding its own lock while it is in the provider.  An   *)
(* endpoint writes an entry it took from its free stack or read from its   *)
(* queue, and reads its own queue.  Every access to a word that another    *)
(* endpoint may be accessing is a step of its own.                         *)
(*                                                                         *)
(* The barriers of the code order its accesses, and here the steps are     *)
(* taken in the order of the code.                                         *)
(***************************************************************************)
EXTENDS Naturals, Sequences

CONSTANTS
    Ep,      \* the endpoints
    Ent,     \* the transfer entries
    Home,    \* the endpoint in whose free stack an entry starts
    Free     \* SM2_FIFO_FREE

ASSUME HomeAssumption == Home \in [Ent -> Ep]
ASSUME FreeAssumption == Free \notin Ent

VARIABLES
    head, tail,    \* the sm2_fifo of each endpoint
    next,          \* hdr.next of each entry
    held,          \* the entries an endpoint is free to use
    pc,            \* where the endpoint is in sm2_fifo_write or sm2_fifo_read
    ent,           \* xfer_entry of the call
    dst, prev,     \* peer_gid and prev of sm2_fifo_write
    queue          \* history: the entries swapped into a tail and not read yet
vars == <<head, tail, next, held, pc, ent, dst, prev, queue>>

PCs == {"idle", "swap", "link", "next", "cas", "spin"}

\* sm2_fifo_init
Init ==
    /\ head = [e \in Ep |-> Free] /\ tail = [e \in Ep |-> Free]
    /\ next = [x \in Ent |-> Free]
    /\ held = [e \in Ep |-> {x \in Ent : Home[x] = e}]
    /\ pc = [e \in Ep |-> "idle"]
    /\ ent = [e \in Ep |-> Free]
    /\ dst = [e \in Ep |-> e]
    /\ prev = [e \in Ep |-> Free]
    /\ queue = [e \in Ep |-> << >>]

(***************************************************************************)
(* sm2_fifo_write                                                          *)
(***************************************************************************)
\* The entry is the caller's own until it is swapped in.
Write(e, d, x) ==
    /\ pc[e] = "idle" /\ x \in held[e]
    /\ next' = [next EXCEPT ![x] = Free]
    /\ pc' = [pc EXCEPT ![e] = "swap"]
    /\ ent' = [ent EXCEPT ![e] = x]
    /\ dst' = [dst EXCEPT ![e] = d]
    /\ UNCHANGED <<head, tail, held, prev, queue>>

Swap(e) ==
    /\ pc[e] = "swap"
    /\ prev' = [prev EXCEPT ![e] = tail[dst[e]]]
    /\ tail' = [tail EXCEPT ![dst[e]] = ent[e]]
    /\ held' = [held EXCEPT ![e] = @ \ {ent[e]}]
    /\ queue' = [queue EXCEPT ![dst[e]] = Append(@, ent[e])]
    /\ pc' = [pc EXCEPT ![e] = "link"]
    /\ UNCHANGED <<head, next, ent, dst>>

\* The call returns: its variables have no value that matters any more.
Return(e) ==
    /\ pc' = [pc EXCEPT ![e] = "idle"]
    /\ ent' = [ent EXCEPT ![e] = Free]
    /\ dst' = [dst EXCEPT ![e] = e]
    /\ prev' = [prev EXCEPT ![e] = Free]

Link(e) ==
    /\ pc[e] = "link"
    /\ \/ /\ prev[e] # Free
          /\ next' = [next EXCEPT ![prev[e]] = ent[e]]
          /\ UNCHANGED head
       \/ /\ prev[e] = Free
          /\ head' = [head EXCEPT ![dst[e]] = ent[e]]
          /\ UNCHANGED next
    /\ Return(e)
    /\ UNCHANGED <<tail, held, queue>>

(***************************************************************************)
(* sm2_fifo_read.  While head is an entry no writer stores into head: a    *)
(* writer does so only when it found the tail free.  So the test of head   *)
(* and the store of SM2_FIFO_FREE are one step.                            *)
(***************************************************************************)
ReadHead(e) ==
    /\ pc[e] = "idle" /\ head[e] # Free
    /\ ent' = [ent EXCEPT ![e] = head[e]]
    /\ head' = [head EXCEPT ![e] = Free]
    /\ queue' = [queue EXCEPT ![e] = Tail(@)]
    /\ held' = [held EXCEPT ![e] = @ \cup {head[e]}]
    /\ pc' = [pc EXCEPT ![e] = "next"]
    /\ UNCHANGED <<tail, next, dst, prev>>

\* Returns the entry, with what follows it at the head of the queue.
Advance(e) ==
    /\ next[ent[e]] # Free
    /\ head' = [head EXCEPT ![e] = next[ent[e]]]
    /\ Return(e)
    /\ UNCHANGED <<tail, next, held, queue>>

ReadNext(e) ==
    /\ pc[e] = "next"
    /\ \/ Advance(e)
       \/ /\ next[ent[e]] = Free
          /\ pc' = [pc EXCEPT ![e] = "cas"]
          /\ UNCHANGED <<head, tail, next, held, ent, dst, prev, queue>>

\* The entry was the last one if it still is the tail.
ReadCasBlind(e) ==
    /\ pc[e] = "cas"
    /\ tail' = [tail EXCEPT ![e] = Free]
    /\ Return(e)
    /\ UNCHANGED <<head, next, held, queue>>
ReadCas(e) ==
    /\ pc[e] = "cas"
    /\ \/ /\ tail[e] = ent[e]
          /\ tail' = [tail EXCEPT ![e] = Free]
          /\ Return(e)
          /\ UNCHANGED <<head, next, held, queue>>
       \/ /\ tail[e] # ent[e]
          /\ pc' = [pc EXCEPT ![e] = "spin"]
          /\ UNCHANGED <<head, tail, next, held, ent, dst, prev, queue>>

\* The loop that waits for a writer to link its entry.
ReadSpinTail(e) ==
    /\ pc[e] = "spin"
    /\ pc' = [pc EXCEPT ![e] = "cas"]
    /\ UNCHANGED <<head, tail, next, held, ent, dst, prev, queue>>
ReadSpin(e) == pc[e] = "spin" /\ Advance(e)

Read(e) == ReadHead(e) \/ ReadNext(e) \/ ReadCas(e) \/ ReadSpin(e)

Next ==
    \E e \in Ep :
        \/ \E d \in Ep, x \in Ent : Write(e, d, x)
        \/ Swap(e) \/ Link(e)
        \/ Read(e)

Spec == Init /\ [][Next]_vars

\* A call in progress goes on, and an endpoint keeps being progressed.
FairSpec == Spec /\ \A e \in Ep : WF_vars(Swap(e) \/ Link(e) \/ Read(e))
----------------------------------------------------------------------------
TypeOK ==
    /\ head \in [Ep -> Ent \cup {Free}] /\ tail \in [Ep -> Ent \cup {Free}]
    /\ next \in [Ent -> Ent \cup {Free}]
    /\ held \in [Ep -> SUBSET Ent]
    /\ pc \in [Ep -> PCs]
    /\ ent \in [Ep -> Ent \cup {Free}]
    /\ dst \in [Ep -> Ep]
    /\ prev \in [Ep -> Ent \cup {Free}]
    /\ queue \in [Ep -> Seq(Ent)]

Reading(d) == pc[d] \in {"next", "cas", "spin"}

\* What comes before place i of d's queue: the entry its reader is removing,
\* or nothing, before the first one.
Before(d, i) ==
    IF i > 1 THEN queue[d][i - 1] ELSE IF Reading(d) THEN ent[d] ELSE Free

\* The word that leads to what follows p in d's queue.
LinkOf(d, p) == IF p = Free THEN head[d] ELSE next[p]

\* e is about to link place i of d's queue.
Linking(e, d, i) ==
    pc[e] = "link" /\ dst[e] = d /\ ent[e] = queue[d][i] /\ prev[e] = Before(d, i)

\* Each entry is reached from the one before it, or its writer is about to
\* make it so and until then the word is SM2_FIFO_FREE.
Chained(d) ==
    \A i \in 1 .. Len(queue[d]) :
        \/ /\ LinkOf(d, Before(d, i)) = queue[d][i]
           /\ \A e \in Ep : ~ (pc[e] = "link" /\ ent[e] = queue[d][i])
        \/ /\ LinkOf(d, Before(d, i)) = Free
           /\ \E e \in Ep : Linking(e, d, i)

Ends(d) ==
    /\ tail[d] = Before(d, Len(queue[d]) + 1)
    /\ tail[d] # Free => next[tail[d]] = Free
    /\ queue[d] = << >> \/ Reading(d) => head[d] = Free
    /\ pc[d] = "spin" => queue[d] # << >>

CallOK(e) ==
    /\ Reading(e) => ent[e] \in held[e]
    /\ pc[e] = "swap" => ent[e] \in held[e] /\ next[ent[e]] = Free
    /\ pc[e] = "link" => \E i \in 1 .. Len(queue[dst[e]]) : Linking(e, dst[e], i)

\* An entry is held by one endpoint, or in one place of one queue.
Placed ==
    /\ \A d1, d2 \in Ep : \A x \in held[d1] : x \in held[d2] => d1 = d2
    /\ \A d1, d2 \in Ep : \A i \in 1 .. Len(queue[d1]), j \in 1 .. Len(queue[d2]) :
            queue[d1][i] = queue[d2][j] => d1 = d2 /\ i = j
    /\ \A d1, d2 \in Ep : \A i \in 1 .. Len(queue[d1]) : queue[d1][i] \notin held[d2]

\* Two writers never link the same entry.
LinkOnce ==
    \A e1, e2 \in Ep :
        pc[e1] = "link" /\ pc[e2] = "link" /\ ent[e1] = ent[e2] => e1 = e2

\* The inductive invariant of the queues: the links of sm2_fifo.h, with the
\* ones its writers still owe, spell out every queue, and no entry is in two
\* places.
IInv ==
    /\ TypeOK /\ Placed /\ LinkOnce
    /\ \A d \in Ep : Chained(d) /\ Ends(d) /\ CallOK(d)

\* Every execution of sm2_fifo_write and sm2_fifo_read is one of a queue
\* whose writes are atomic: nothing is lost, doubled or overtaken however
\* the swap, the link and the reads of several endpoints interleave.
WQ == INSTANCE WriteQueue
ImplementsQueue == WQ!Spec

\* sm2_fifo_read returns NULL with entries in the queue only while the
\* writer of the first of them is between its swap of the tail and its store
\* to the head; the entries behind it wait for that writer, linked or not.
NullOnlyBehindWriter ==
    \A d \in Ep :
        ~ Reading(d) /\ head[d] = Free /\ queue[d] # << >> =>
            \E e \in Ep : pc[e] = "link" /\ dst[e] = d /\ ent[e] = Head(queue[d])

\* An entry written to a queue is read from it, and so the loop that waits
\* for hdr.next ends, when the processes keep running.
EveryEntryRead ==
    \A d \in Ep, x \in Ent :
        (\E i \in 1 .. Len(queue[d]) : queue[d][i] = x) ~> x \in held[d]
=============================================================================
