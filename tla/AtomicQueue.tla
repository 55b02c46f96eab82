---------------------------- MODULE AtomicQueue ----------------------------
(***************************************************************************)
(* The multi-producer, multi-consumer ring of include/ofi_atomic_queue.h,  *)
(* the command queue between the processes of the shm provider.  Every     *)
(* load, store and compare-and-swap of shared memory is a step of its own. *)
(* A weak compare-and-swap may fail when the values are equal; after a     *)
(* failure the caller has the value read.  The stores that hand an entry   *)
(* over are release stores and the loads that find it acquire loads, so    *)
(* what an entry held when it was handed over is what the other side sees. *)
(*                                                                         *)
(* Positions are 64 bits in the code and do not wrap here.  Size is a      *)
(* power of two there, so that pos & size_mask is pos % size; nothing else *)
(* depends on it.                                                          *)
(***************************************************************************)
EXTENDS Integers

CONSTANTS
    Producers, Consumers,
    Size,      \* aq->size
    Value,     \* what an entry's buf may hold
    None,      \* a buf nothing was written to
    MaxPos     \* bound: _next is called while write_pos is below it

ASSUME SizeAssumption == Size \in Nat \ {0}
ASSUME ThreadsAssumption == Producers \cap Consumers = {}
ASSUME NoneAssumption == None \notin Value /\ None \notin Nat
ASSUME MaxPosAssumption == MaxPos \in Nat

VARIABLES
    write_pos, read_pos,
    seq, noop, buf,    \* the entries
    pc,                \* where a thread is in _next, _head or between the calls
    pos                \* the caller's *pos
vars == <<write_pos, read_pos, seq, noop, buf, pc, pos>>
entries == <<seq, noop, buf>>

Threads == Producers \cup Consumers
Slots == 0 .. Size - 1
Slot(p) == p % Size
PCs == {"idle", "load", "seq", "cas", "own", "filled", "voided", "got", "cleared", "reading"}

\* Between the calls pos, a local variable, has no value that matters.
Goto(t, l) ==
    /\ pc' = [pc EXCEPT ![t] = l]
    /\ pos' = [pos EXCEPT ![t] = IF l \in {"idle", "load"} THEN 0 ELSE @]
GotoAt(t, l, p) ==
    /\ pc' = [pc EXCEPT ![t] = l]
    /\ pos' = [pos EXCEPT ![t] = p]

\* _init
Init ==
    /\ write_pos = 0 /\ read_pos = 0
    /\ seq = [i \in Slots |-> i]
    /\ noop = [i \in Slots |-> FALSE]
    /\ buf = [i \in Slots |-> None]
    /\ pc = [t \in Threads |-> "idle"]
    /\ pos = [t \in Threads |-> 0]

(***************************************************************************)
(* _next, as a producer calls it before it fills the entry.                *)
(***************************************************************************)
CallNext(t) ==
    /\ pc[t] = "idle" /\ write_pos < MaxPos
    /\ Goto(t, "load")
    /\ UNCHANGED <<write_pos, read_pos, entries>>

LoadWritePos(t) ==
    /\ pc[t] = "load"
    /\ GotoAt(t, "seq", write_pos)
    /\ UNCHANGED <<write_pos, read_pos, entries>>

\* seq is compared with want: equal, try to take the position; behind,
\* -FI_ENOENT; ahead, load the position again.
TestSeqNotBehind(t, want) ==
    /\ pc[t] = "seq"
    /\ \/ seq[Slot(pos[t])] - want = 0 /\ Goto(t, "cas")
       \/ seq[Slot(pos[t])] - want # 0 /\ Goto(t, "idle")
    /\ UNCHANGED <<write_pos, read_pos, entries>>
TestSeq(t, want) ==
    /\ pc[t] = "seq"
    /\ \/ seq[Slot(pos[t])] - want = 0 /\ Goto(t, "cas")
       \/ seq[Slot(pos[t])] - want < 0 /\ Goto(t, "idle")
       \/ seq[Slot(pos[t])] - want > 0 /\ Goto(t, "load")
    /\ UNCHANGED <<write_pos, read_pos, entries>>

NextSeq(t) == TestSeq(t, pos[t])

NextCasBlind(t) ==
    /\ pc[t] = "cas"
    /\ write_pos' = pos[t] + 1
    /\ Goto(t, "own")
    /\ UNCHANGED <<read_pos, entries>>
NextCas(t) ==
    /\ pc[t] = "cas" /\ write_pos = pos[t]
    /\ write_pos' = pos[t] + 1
    /\ Goto(t, "own")
    /\ UNCHANGED <<read_pos, entries>>

NextCasFails(t) ==
    /\ pc[t] = "cas"
    /\ GotoAt(t, "seq", write_pos)
    /\ UNCHANGED <<write_pos, read_pos, entries>>

(***************************************************************************)
(* The producer fills the entry and hands it over with _commit, or, when   *)
(* it cannot (before or after it has written to it), with _discard.        *)
(***************************************************************************)
Fill(t, v) ==
    /\ pc[t] = "own"
    /\ buf' = [buf EXCEPT ![Slot(pos[t])] = v]
    /\ Goto(t, "filled")
    /\ UNCHANGED <<write_pos, read_pos, seq, noop>>

Handover(t, from) ==
    /\ pc[t] = from
    /\ seq' = [seq EXCEPT ![Slot(pos[t])] = pos[t] + 1]
    /\ Goto(t, "idle")
    /\ UNCHANGED <<write_pos, read_pos, noop, buf>>
CommitEarly(t) == Handover(t, "own")
Commit(t) == Handover(t, "filled")

DiscardNoop(t) ==
    /\ pc[t] \in {"own", "filled"}
    /\ noop' = [noop EXCEPT ![Slot(pos[t])] = TRUE]
    /\ Goto(t, "voided")
    /\ UNCHANGED <<write_pos, read_pos, seq, buf>>
Discard(t) == Handover(t, "voided")

(***************************************************************************)
(* _head, and the consumer's use of the entry up to _release.              *)
(***************************************************************************)
CallHead(t) ==
    /\ pc[t] = "idle"
    /\ Goto(t, "load")
    /\ UNCHANGED <<write_pos, read_pos, entries>>

LoadReadPos(t) ==
    /\ pc[t] = "load"
    /\ GotoAt(t, "seq", read_pos)
    /\ UNCHANGED <<write_pos, read_pos, entries>>

HeadSeqOfWriter(t) == TestSeq(t, pos[t])
HeadSeq(t) == TestSeq(t, pos[t] + 1)

HeadCas(t) ==
    /\ pc[t] = "cas" /\ read_pos = pos[t]
    /\ read_pos' = pos[t] + 1
    /\ Goto(t, "got")
    /\ UNCHANGED <<write_pos, entries>>

HeadCasFails(t) ==
    /\ pc[t] = "cas"
    /\ GotoAt(t, "seq", read_pos)
    /\ UNCHANGED <<write_pos, read_pos, entries>>

HeadReturns(t) ==
    /\ pc[t] = "got" /\ ~noop[Slot(pos[t])]
    /\ Goto(t, "reading")
    /\ UNCHANGED <<write_pos, read_pos, entries>>

HeadClearsNoop(t) ==
    /\ pc[t] = "got" /\ noop[Slot(pos[t])]
    /\ noop' = [noop EXCEPT ![Slot(pos[t])] = FALSE]
    /\ Goto(t, "cleared")
    /\ UNCHANGED <<write_pos, read_pos, seq, buf>>

\* _release, called by _head for a no-op, which then starts again
ReleaseFrom(t, from, to) ==
    /\ pc[t] = from
    /\ seq' = [seq EXCEPT ![Slot(pos[t])] = pos[t] + Size]
    /\ Goto(t, to)
    /\ UNCHANGED <<write_pos, read_pos, noop, buf>>
HeadReleases(t) == ReleaseFrom(t, "cleared", "load")
Release(t) == ReleaseFrom(t, "reading", "idle")

ProducerStep(t) ==
    \/ CallNext(t) \/ LoadWritePos(t) \/ NextSeq(t) \/ NextCas(t) \/ NextCasFails(t)
    \/ \E v \in Value : Fill(t, v)
    \/ Commit(t) \/ DiscardNoop(t) \/ Discard(t)
ConsumerStep(t) ==
    \/ CallHead(t) \/ LoadReadPos(t) \/ HeadSeq(t) \/ HeadCas(t) \/ HeadCasFails(t)
    \/ HeadReturns(t) \/ HeadClearsNoop(t) \/ HeadReleases(t) \/ Release(t)

Next == (\E t \in Producers : ProducerStep(t)) \/ (\E t \in Consumers : ConsumerStep(t))

Spec == Init /\ [][Next]_vars

\* Callers keep calling _head and go on with what they have begun; a weak
\* compare-and-swap that could succeed again and again does so in the end.
FairSpec ==
    /\ Spec
    /\ \A t \in Producers : SF_vars(NextCas(t)) /\ WF_vars(pc[t] # "idle" /\ ProducerStep(t))
    /\ \A t \in Consumers : SF_vars(HeadCas(t)) /\ WF_vars(ConsumerStep(t))

-----------------------------------------------------------------------------
TypeOK ==
    /\ write_pos \in Nat /\ read_pos \in Nat
    /\ seq \in [Slots -> Nat] /\ noop \in [Slots -> BOOLEAN]
    /\ buf \in [Slots -> Value \cup {None}]
    /\ pc \in [Threads -> PCs] /\ pos \in [Threads -> Nat]

\* The producers and consumers that have an entry in their hands.
Writing == {t \in Producers : pc[t] \in {"own", "filled", "voided"}}
Reading == {t \in Consumers : pc[t] \in {"got", "cleared", "reading"}}

(***************************************************************************)
(* An entry is in the hands of one caller at a time: between _next and     *)
(* _commit or _discard, and between _head and _release, no other thread    *)
(* has it.                                                                 *)
(***************************************************************************)
OneHolder ==
    \A t, u \in Writing \cup Reading : t # u => Slot(pos[t]) # Slot(pos[u])

(***************************************************************************)
(* _next returns -FI_ENOENT only if, at the moment it reads the entry, the *)
(* queue is full: the position one lap before the one to be claimed next   *)
(* has not been released.  A caller that was overtaken does not report a   *)
(* queue full that is not.                                                 *)
(***************************************************************************)
Unreleased(p) == p >= 0 /\ seq[Slot(p)] \in {p, p + 1}
FullIsReal ==
    [][\A t \in Producers :
         pc[t] = "seq" /\ pc'[t] = "idle" => Unreleased(write_pos - Size)]_vars

(***************************************************************************)
(* _head returns -FI_ENOENT only if, at the moment it reads the entry,     *)
(* there is nothing to take: the next position to be read is unclaimed, or *)
(* its producer has not handed it over.  The positions after it may be     *)
(* handed over already.                                                    *)
(***************************************************************************)
EmptyIsReal ==
    [][\A t \in Consumers :
         pc[t] = "seq" /\ pc'[t] = "idle" =>
           read_pos = write_pos \/ seq[Slot(read_pos)] = read_pos]_vars

(***************************************************************************)
(* -FI_ENOENT is the truth: _next and _head decide it from a position and  *)
(* a seq they load at different times.                                     *)
(***************************************************************************)
RefusalsReal == FullIsReal /\ EmptyIsReal

(***************************************************************************)
(* What the positions below write_pos stand for.  An entry's seq tells     *)
(* whether its position is claimed, handed over or, when it has moved on,  *)
(* released.                                                               *)
(***************************************************************************)
Voided(p) == noop[Slot(p)] \/ \E t \in Consumers : pc[t] = "cleared" /\ pos[t] = p
StatusOf(p) ==
    CASE p >= read_pos /\ seq[Slot(p)] = p -> "claimed"
      [] p >= read_pos /\ seq[Slot(p)] # p -> IF Voided(p) THEN "void" ELSE "ready"
      [] p < read_pos /\ seq[Slot(p)] = p + 1 -> IF Voided(p) THEN "skip" ELSE "read"
      [] p < read_pos /\ seq[Slot(p)] # p + 1 -> "done"
AbsStatus == [p \in 0 .. write_pos - 1 |-> StatusOf(p)]
AbsVal == [p \in 0 .. write_pos - 1 |->
             IF StatusOf(p) \in {"ready", "read"} THEN buf[Slot(p)] ELSE None]
AbsHold == [t \in Threads |-> IF t \in Writing \cup Reading THEN pos[t] ELSE None]

Abs == INSTANCE ClaimQueue WITH
    tail <- write_pos, head <- read_pos, status <- AbsStatus, val <- AbsVal, hold <- AbsHold

(***************************************************************************)
(* The ring implements the queue of claims: what a producer handed over is *)
(* what the consumer of the same position finds, positions are taken in    *)
(* order and once, no-ops are never returned, nothing is overwritten       *)
(* before it is released.                                                  *)
(***************************************************************************)
ImplementsQueue == Abs!Spec

(***************************************************************************)
(* While callers keep calling _head, positions keep being taken for as     *)
(* long as some are claimed: no interleaving of stale reads, failed        *)
(* compare-and-swaps and no-ops leaves a command in the queue.             *)
(***************************************************************************)
KeepsDraining ==
    []<><<read_pos' > read_pos>>_read_pos \/ <>[](read_pos = write_pos)

(***************************************************************************)
(* Why it works.  A slot's seq speaks of one position of the slot: seq     *)
(* itself, when the slot waits for that position to be claimed or for its  *)
(* producer, or seq - 1, when that position has been handed over.  It      *)
(* moves on to the next position of the slot, one lap later, on release.   *)
(***************************************************************************)
Waits(i) == Slot(seq[i]) = i /\ read_pos <= seq[i] /\ seq[i] < read_pos + Size
HandedOver(i) ==
    /\ seq[i] >= 1 /\ Slot(seq[i] - 1) = i
    /\ seq[i] <= write_pos /\ write_pos < seq[i] + Size

SlotInv(i) ==
    /\ Waits(i) \/ HandedOver(i)
    /\ Waits(i) /\ seq[i] >= write_pos => ~noop[i]
ProducerInv(t) ==
    /\ pc[t] \in {"idle", "load", "seq", "cas", "own", "filled", "voided"}
    /\ pc[t] \in {"seq", "cas"} => pos[t] <= write_pos
    /\ pc[t] = "cas" => seq[Slot(pos[t])] >= pos[t]
    /\ pc[t] \in {"own", "filled", "voided"} =>
         /\ pos[t] < write_pos /\ seq[Slot(pos[t])] = pos[t]
         /\ noop[Slot(pos[t])] <=> pc[t] = "voided"
    /\ pc[t] = "filled" => buf[Slot(pos[t])] \in Value
ConsumerInv(t) ==
    /\ pc[t] \in {"idle", "load", "seq", "cas", "got", "cleared", "reading"}
    /\ pc[t] \in {"seq", "cas"} => pos[t] <= read_pos
    /\ pc[t] = "cas" => seq[Slot(pos[t])] >= pos[t] + 1
    /\ pc[t] \in {"got", "cleared", "reading"} =>
         /\ pos[t] < read_pos /\ seq[Slot(pos[t])] = pos[t] + 1
         /\ pc[t] # "got" => ~noop[Slot(pos[t])]
IInv ==
    /\ TypeOK
    /\ read_pos <= write_pos /\ write_pos <= read_pos + Size
    /\ \A i \in Slots : SlotInv(i)
    /\ \A t \in Producers : ProducerInv(t)
    /\ \A t \in Consumers : ConsumerInv(t)
    /\ \A t, u \in Writing : pos[t] = pos[u] => t = u
    /\ \A t, u \in Reading : pos[t] = pos[u] => t = u
=============================================================================
