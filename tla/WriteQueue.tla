----------------------------- MODULE WriteQueue -----------------------------
(***************************************************************************)
(* What the queues of prov/sm2/src/sm2_fifo.h promise: each endpoint has a *)
(* queue that every endpoint may add an entry it holds to and that only    *)
(* its owner takes from.  An entry is in one place at a time, and the      *)
(* entries leave a queue in the order in which they entered it.            *)
(***************************************************************************)
EXTENDS Sequences

CONSTANTS Ep, Ent, Home

VARIABLES
    held,    \* the entries each endpoint may use
    queue    \* the entries on their way to each endpoint
vars == <<held, queue>>

Init ==
    /\ held = [e \in Ep |-> {x \in Ent : Home[x] = e}]
    /\ queue = [e \in Ep |-> << >>]

Write(e, d, x) ==
    /\ x \in held[e]
    /\ held' = [held EXCEPT ![e] = @ \ {x}]
    /\ queue' = [queue EXCEPT ![d] = Append(@, x)]

Read(e) ==
    /\ queue[e] # << >>
    /\ held' = [held EXCEPT ![e] = @ \cup {Head(queue[e])}]
    /\ queue' = [queue EXCEPT ![e] = Tail(@)]

Next ==
    \E e \in Ep :
        \/ Read(e)
        \/ \E d \in Ep, x \in Ent : Write(e, d, x)

Spec == Init /\ [][Next]_vars
=============================================================================
