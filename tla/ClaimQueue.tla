----------------------------- MODULE ClaimQueue -----------------------------
(***************************************************************************)
(* What the atomic queue of include/ofi_atomic_queue.h promises: a queue   *)
(* of positions.  A producer claims the next position, later publishes it  *)
(* with a value or makes it void; consumers take positions in order, the   *)
(* value of each intact, and later free them.  A position can be claimed   *)
(* only when the one Size before it has been freed, wherever the consumers *)
(* are otherwise.                                                          *)
(***************************************************************************)
EXTENDS Naturals

CONSTANTS Producers, Consumers, Size, Value, None

VARIABLES
    tail,     \* the next position to claim
    head,     \* the next position to take
    status,   \* of the positions below tail
    val,      \* the value of each of them, None when there is nothing to read
    hold      \* the position each thread works on, or None
vars == <<tail, head, status, val, hold>>

Status == {"claimed", "ready", "void", "read", "skip", "done"}

Init ==
    /\ tail = 0 /\ head = 0
    /\ status = [p \in {} |-> "done"] /\ val = [p \in {} |-> None]
    /\ hold = [t \in Producers \cup Consumers |-> None]

\* The position one lap before p has been freed, or there is none.
Freed(p) == p < Size \/ status[p - Size] = "done"

Claim(t) ==
    /\ hold[t] = None /\ Freed(tail)
    /\ tail' = tail + 1
    /\ status' = [p \in 0 .. tail |-> IF p = tail THEN "claimed" ELSE status[p]]
    /\ val' = [p \in 0 .. tail |-> IF p = tail THEN None ELSE val[p]]
    /\ hold' = [hold EXCEPT ![t] = tail]
    /\ UNCHANGED head

\* The producer lets go of its position, with a value or without.
LetGo(t, s, v) ==
    /\ hold[t] # None /\ status[hold[t]] = "claimed"
    /\ status' = [status EXCEPT ![hold[t]] = s]
    /\ val' = [val EXCEPT ![hold[t]] = v]
    /\ hold' = [hold EXCEPT ![t] = None]
    /\ UNCHANGED <<tail, head>>
Publish(t) == \E v \in Value : LetGo(t, "ready", v)
Discard(t) == LetGo(t, "void", None)

Take(t) ==
    /\ hold[t] = None /\ head < tail /\ status[head] \in {"ready", "void"}
    /\ head' = head + 1
    /\ status' = [status EXCEPT ![head] = IF @ = "ready" THEN "read" ELSE "skip"]
    /\ hold' = [hold EXCEPT ![t] = head]
    /\ UNCHANGED <<tail, val>>

Free(t) ==
    /\ hold[t] # None /\ status[hold[t]] \in {"read", "skip"}
    /\ status' = [status EXCEPT ![hold[t]] = "done"]
    /\ val' = [val EXCEPT ![hold[t]] = None]
    /\ hold' = [hold EXCEPT ![t] = None]
    /\ UNCHANGED <<tail, head>>

Next ==
    \/ \E t \in Producers : Claim(t) \/ Publish(t) \/ Discard(t)
    \/ \E t \in Consumers : Take(t) \/ Free(t)

Spec == Init /\ [][Next]_vars
=============================================================================
