-------------------------------- MODULE Dlist --------------------------------
(***************************************************************************)
(* The doubly linked lists of include/ofi_list.h: a list is its links, a   *)
(* function from nodes, the list head among them, to records of prev and   *)
(* next.  A node keeps its links when it is removed; removing it again     *)
(* writes them into whatever are its old neighbours.                       *)
(***************************************************************************)
EXTENDS Naturals, Sequences, FiniteSets

ListHead == <<>>

\* dlist_init
Empty == [x \in {ListHead} |-> [prev |-> ListHead, next |-> ListHead]]

\* dlist_insert_before(item, head), which is dlist_insert_tail
InsertTailHalf(l, item) ==
    [x \in DOMAIN l \cup {item} |-> IF x = item THEN [prev |-> l[ListHead].prev, next |-> ListHead] ELSE l[x]]
InsertTail(l, item) ==
    LET last == l[ListHead].prev
        all == [x \in DOMAIN l \cup {item} |->
                  IF x = item THEN [prev |-> last, next |-> ListHead] ELSE l[x]]
    IN  [all EXCEPT ![last].next = item, ![ListHead].prev = item]

\* dlist_remove
Unlink(l, item) ==
    [l EXCEPT ![l[item].prev].next = l[item].next, ![l[item].next].prev = l[item].prev]

\* The nodes a walk along next meets, up to the list head: dlist_foreach.
Walk(l) ==
    LET at[k \in 0 .. Cardinality(DOMAIN l)] == IF k = 0 THEN ListHead ELSE l[at[k - 1]].next
        back == {k \in 1 .. Cardinality(DOMAIN l) : at[k] = ListHead}
        n == CHOOSE k \in back : \A j \in back : k <= j
    IN  [k \in 1 .. n - 1 |-> at[k]]
=============================================================================
