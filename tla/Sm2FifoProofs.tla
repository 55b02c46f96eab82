--------------------------- MODULE Sm2FifoProofs ---------------------------
(***************************************************************************)
(* The queues of sm2_fifo.h, for any endpoints and any entries: IInv is    *)
(* inductive, and the queues implement WriteQueue.                         *)
(***************************************************************************)
EXTENDS Sm2Fifo, TLAPS

USE HomeAssumption, FreeAssumption

Places(d) == 1 .. Len(queue[d])

\* An entry is at one place of one queue.
LEMMA PlacedOnce ==
    ASSUME Placed
    PROVE  \A d1, d2 \in Ep : \A i \in Places(d1), j \in Places(d2) :
               queue[d1][i] = queue[d2][j] => d1 = d2 /\ i = j
  BY Zenon DEF Placed, Places

\* What the places of a queue and what comes before them are.
LEMMA BeforeType ==
    ASSUME IInv, NEW d \in Ep, NEW i \in 1 .. Len(queue[d]) + 1
    PROVE  /\ i \in Places(d) => queue[d][i] \in Ent
           /\ Before(d, i) \in Ent \cup {Free}
           /\ Before(d, i) = Free => i = 1 /\ ~ Reading(d)
           /\ Before(d, i) # Free =>
                \/ i > 1 /\ i - 1 \in Places(d) /\ Before(d, i) = queue[d][i - 1]
                \/ i = 1 /\ Reading(d) /\ Before(d, i) = ent[d] /\ ent[d] \in held[d]
  <1>1. /\ queue[d] \in Seq(Ent) /\ ent[d] \in Ent \cup {Free} /\ held[d] \subseteq Ent
        /\ Reading(d) => ent[d] \in held[d]
    BY Zenon DEF IInv, TypeOK, CallOK
  <1>2. \A j \in Places(d) : queue[d][j] \in Ent
    BY <1>1 DEF Places
  <1>3. CASE i > 1
    <2>1. i - 1 \in Places(d)
      BY <1>1, <1>3 DEF Places
    <2> QED  BY <1>2, <1>3, <2>1, Zenon DEF Before
  <1>4. CASE i = 1
    BY <1>1, <1>2, <1>4 DEF Before
  <1> QED  BY <1>1, <1>3, <1>4

\* No entry comes before two places.
LEMMA Predecessors ==
    ASSUME IInv, NEW d1 \in Ep, NEW d2 \in Ep,
           NEW i \in 1 .. Len(queue[d1]) + 1, NEW j \in 1 .. Len(queue[d2]) + 1,
           Before(d1, i) = Before(d2, j), Before(d1, i) # Free
    PROVE  d1 = d2 /\ i = j
  <1>1. /\ \/ i > 1 /\ i - 1 \in Places(d1) /\ Before(d1, i) = queue[d1][i - 1]
           \/ i = 1 /\ Before(d1, i) \in held[d1]
        /\ \/ j > 1 /\ j - 1 \in Places(d2) /\ Before(d2, j) = queue[d2][j - 1]
           \/ j = 1 /\ Before(d2, j) \in held[d2]
    BY BeforeType, Zenon
  <1>2. Placed
    BY Zenon DEF IInv
  <1>3. CASE i > 1 /\ j > 1
    <2>1. /\ i - 1 \in 1 .. Len(queue[d1]) /\ j - 1 \in 1 .. Len(queue[d2])
          /\ queue[d1][i - 1] = queue[d2][j - 1]
      BY <1>1, <1>3 DEF Places
    <2>2. d1 = d2 /\ i - 1 = j - 1
      BY <1>2, <2>1 DEF Placed
    <2> QED  BY <2>2
  <1>4. CASE ~ (i > 1 /\ j > 1)
    BY <1>1, <1>2, <1>4 DEF Placed, Places
  <1> QED  BY <1>3, <1>4, Zenon

\* What an endpoint is about to write comes before no place.
LEMMA OwnEntry ==
    ASSUME IInv, NEW e \in Ep, NEW x \in held[e], ~ Reading(e),
           NEW d \in Ep, NEW i \in 1 .. Len(queue[d]) + 1
    PROVE  /\ Before(d, i) # x
           /\ i \in Places(d) => queue[d][i] # x
  <1>1. Placed /\ x \in Ent
    BY Zenon DEF IInv, TypeOK
  <1>2. i \in Places(d) => queue[d][i] # x
    BY <1>1 DEF Placed, Places
  <1>3. Before(d, i) # x
    <2>1. SUFFICES ASSUME Before(d, i) = x PROVE FALSE
      BY Zenon
    <2>2. \/ i - 1 \in 1 .. Len(queue[d]) /\ queue[d][i - 1] = x
          \/ x \in held[d] /\ Reading(d)
      BY <1>1, <2>1, BeforeType, Zenon DEF Places
    <2> QED  BY <1>1, <2>2 DEF Placed
  <1> QED  BY <1>2, <1>3, Zenon

\* A queue whose places, predecessors, links and linking writers are what
\* they were is still chained.
LEMMA ChainedFrame ==
    ASSUME IInv, NEW d \in Ep,
           queue'[d] = queue[d],
           \A i \in Places(d) : (Before(d, i))' = Before(d, i),
           \A i \in Places(d) : (LinkOf(d, Before(d, i)))' = LinkOf(d, Before(d, i)),
           \A e \in Ep : (pc'[e] = "link") <=> (pc[e] = "link"),
           \A e \in Ep : pc[e] = "link" =>
                ent'[e] = ent[e] /\ dst'[e] = dst[e] /\ prev'[e] = prev[e]
    PROVE  Chained(d)'
  <1>1. Chained(d)
    BY Zenon DEF IInv
  <1>2. \A e \in Ep, i \in Places(d) : Linking(e, d, i)' <=> Linking(e, d, i)
    BY Zenon DEF Linking
  <1>3. \A i \in Places(d) :
            \/ /\ (LinkOf(d, Before(d, i)))' = queue[d][i]
               /\ \A e \in Ep : ~ (pc[e] = "link" /\ ent[e] = queue[d][i])
            \/ /\ (LinkOf(d, Before(d, i)))' = Free
               /\ \E e \in Ep : Linking(e, d, i)
    BY <1>1, Zenon DEF Chained, Places
  <1> QED  BY <1>2, <1>3, Zenon DEF Chained, Places

\* A writer about to link its entry stays so when its queue is what it was.
LEMMA LinkerFrame ==
    ASSUME IInv, NEW e \in Ep, pc[e] = "link", pc'[e] = "link",
           ent'[e] = ent[e], dst'[e] = dst[e], prev'[e] = prev[e],
           NEW d \in Ep, d = dst[e], queue'[d] = queue[d],
           \A i \in Places(d) : (Before(d, i))' = Before(d, i)
    PROVE  \E i \in 1 .. Len(queue'[dst'[e]]) : Linking(e, dst[e], i)'
  <1>1. PICK i \in Places(d) : Linking(e, d, i)
    BY Zenon DEF IInv, CallOK, Places
  <1>2. Linking(e, d, i)'
    BY <1>1, Zenon DEF Linking
  <1> QED  BY <1>2, Zenon DEF Linking, Places

LEMMA InitHolds == Init => IInv
  <1> SUFFICES ASSUME Init PROVE IInv
    BY Zenon
  <1>1. TypeOK
    BY DEF Init, TypeOK, PCs
  <1>2. \A d \in Ep : Len(queue[d]) = 0 /\ ~ Reading(d) /\ pc[d] = "idle"
    BY Zenon DEF Init, Reading
  <1>3. Placed /\ LinkOnce
    BY <1>2 DEF Placed, LinkOnce, Init
  <1>4. ASSUME NEW d \in Ep PROVE Chained(d) /\ Ends(d) /\ CallOK(d)
    <2>1. Chained(d) /\ CallOK(d)
      BY <1>2 DEF Chained, CallOK
    <2>2. Before(d, Len(queue[d]) + 1) = Free /\ tail[d] = Free /\ head[d] = Free
      BY <1>2 DEF Before, Init
    <2> QED  BY <1>2, <2>1, <2>2, Zenon DEF Ends
  <1> QED  BY <1>1, <1>3, <1>4, Zenon DEF IInv

LEMMA WriteKeeps ==
    ASSUME IInv, NEW e \in Ep, NEW d0 \in Ep, NEW x \in Ent, Write(e, d0, x)
    PROVE  IInv'
  <1>1. /\ pc[e] = "idle" /\ x \in held[e]
        /\ next' = [next EXCEPT ![x] = Free]
        /\ pc' = [pc EXCEPT ![e] = "swap"]
        /\ ent' = [ent EXCEPT ![e] = x]
        /\ dst' = [dst EXCEPT ![e] = d0]
        /\ UNCHANGED <<head, tail, held, prev, queue>>
    BY Zenon DEF Write
  <1>2. TypeOK' /\ TypeOK
    BY <1>1, Zenon DEF IInv, TypeOK, PCs
  <1>3. /\ \A d \in Ep : d # e => pc'[d] = pc[d] /\ ent'[d] = ent[d] /\ dst'[d] = dst[d]
        /\ pc'[e] = "swap" /\ ent'[e] = x /\ dst'[e] = d0
        /\ next'[x] = Free /\ \A y \in Ent : y # x => next'[y] = next[y]
    BY <1>1, <1>2 DEF TypeOK
  <1>4. ~ Reading(e) /\ \A d \in Ep : Reading(d)' <=> Reading(d)
    BY <1>1, <1>3, Zenon DEF Reading
  <1>5. \A d \in Ep : \A i \in 1 .. Len(queue[d]) + 1 :
            (Before(d, i))' = Before(d, i) /\ Before(d, i) # x
    <2> TAKE d \in Ep
    <2> TAKE i \in 1 .. Len(queue[d]) + 1
    <2>1. Before(d, i) # x
      BY <1>1, <1>4, OwnEntry, Zenon
    <2>2. d # e \/ ~ Reading(d)
      BY <1>4, Zenon
    <2> QED  BY <1>1, <1>3, <1>4, <2>1, <2>2, Zenon DEF Before
  <1>6. \A d \in Ep : \A i \in 1 .. Len(queue[d]) + 1 :
            (LinkOf(d, Before(d, i)))' = LinkOf(d, Before(d, i))
    BY <1>1, <1>3, <1>5, BeforeType DEF LinkOf
  <1>7. ASSUME NEW d \in Ep PROVE Chained(d)'
    <2>1. \A i \in Places(d) : i \in 1 .. Len(queue[d]) + 1
      BY <1>2 DEF Places, TypeOK
    <2>2. /\ \A i \in Places(d) : (Before(d, i))' = Before(d, i)
          /\ \A i \in Places(d) : (LinkOf(d, Before(d, i)))' = LinkOf(d, Before(d, i))
      BY <1>5, <1>6, <2>1, Zenon
    <2>3. /\ \A f \in Ep : (pc'[f] = "link") <=> (pc[f] = "link")
          /\ \A f \in Ep : pc[f] = "link" =>
                ent'[f] = ent[f] /\ dst'[f] = dst[f] /\ prev'[f] = prev[f]
      BY <1>1, <1>3, Zenon
    <2> QED  BY <1>1, <2>2, <2>3, ChainedFrame, Zenon
  <1>8. ASSUME NEW d \in Ep PROVE Ends(d)'
    <2>1. Ends(d) /\ Len(queue[d]) + 1 \in 1 .. Len(queue[d]) + 1
      BY <1>2 DEF IInv, TypeOK
    <2>2. (Before(d, Len(queue[d]) + 1))' = tail'[d] /\ tail[d] # x
      BY <1>1, <1>5, <2>1, Zenon DEF Ends
    <2>3. tail'[d] # Free => next'[tail'[d]] = Free
      BY <1>1, <1>2, <1>3, <2>1, <2>2 DEF Ends, TypeOK
    <2> QED  BY <1>1, <1>3, <1>4, <2>1, <2>2, <2>3, Zenon DEF Ends
  <1>9. ASSUME NEW d \in Ep PROVE CallOK(d)'
    <2>1. CallOK(d) /\ Placed
      BY Zenon DEF IInv
    <2>2. CASE d = e
      BY <1>1, <1>3, <1>4, <2>2, Zenon DEF CallOK
    <2>3. CASE d # e
      <3>1. pc'[d] = "swap" => next'[ent'[d]] = Free /\ ent'[d] \in held'[d]
        BY <1>1, <1>2, <1>3, <2>1, <2>3, Zenon DEF CallOK, Placed, TypeOK
      <3>2. ASSUME pc'[d] = "link"
            PROVE  \E i \in 1 .. Len(queue'[dst'[d]]) : Linking(d, dst[d], i)'
        <4>1. PICK t \in Ep : t = dst[d]
          BY <1>2, Zenon DEF TypeOK
        <4>2. \A i \in Places(t) : (Before(t, i))' = Before(t, i)
          BY <1>2, <1>5 DEF Places, TypeOK
        <4> QED  BY <1>1, <1>3, <2>3, <3>2, <4>1, <4>2, LinkerFrame, Zenon
      <3> QED  BY <1>1, <1>3, <1>4, <2>1, <2>3, <3>1, <3>2, Zenon DEF CallOK
    <2> QED  BY <2>2, <2>3, Zenon
  <1>10. Placed' /\ LinkOnce'
    BY <1>1, <1>3 DEF IInv, Placed, LinkOnce
  <1> QED  BY <1>2, <1>7, <1>8, <1>9, <1>10, Zenon DEF IInv

LEMMA SwapKeeps ==
    ASSUME IInv, NEW e \in Ep, Swap(e)
    PROVE  IInv'
  <1>1. PICK t \in Ep, x \in Ent : t = dst[e] /\ x = ent[e] /\ x \in held[e] /\ next[x] = Free
    BY Zenon DEF IInv, TypeOK, CallOK, Swap
  <1>2. /\ pc[e] = "swap"
        /\ prev' = [prev EXCEPT ![e] = tail[t]]
        /\ tail' = [tail EXCEPT ![t] = x]
        /\ held' = [held EXCEPT ![e] = @ \ {x}]
        /\ queue' = [queue EXCEPT ![t] = Append(@, x)]
        /\ pc' = [pc EXCEPT ![e] = "link"]
        /\ UNCHANGED <<head, next, ent, dst>>
    BY <1>1, Zenon DEF Swap
  <1>3. TypeOK' /\ TypeOK
    <2>1. TypeOK /\ queue[t] \in Seq(Ent)
      BY Zenon DEF IInv, TypeOK
    <2>2. Append(queue[t], x) \in Seq(Ent)
      BY <2>1
    <2> QED  BY <1>2, <2>1, <2>2, Zenon DEF TypeOK, PCs
  <1>4. /\ \A d \in Ep : d # e => pc'[d] = pc[d] /\ prev'[d] = prev[d] /\ held'[d] = held[d]
        /\ pc'[e] = "link" /\ prev'[e] = tail[t] /\ held'[e] = held[e] \ {x}
        /\ \A d \in Ep : d # t => tail'[d] = tail[d] /\ queue'[d] = queue[d]
        /\ tail'[t] = x /\ queue'[t] = Append(queue[t], x)
    BY <1>2, <1>3 DEF TypeOK
  <1>5. PICK n \in Nat : n = Len(queue[t])
    BY <1>3 DEF TypeOK
  <1>6. /\ Len(queue'[t]) = n + 1 /\ queue'[t][n + 1] = x
        /\ \A i \in 1 .. n : queue'[t][i] = queue[t][i]
    BY <1>3, <1>4, <1>5 DEF TypeOK
  <1>7. ASSUME NEW d \in Ep
         PROVE  /\ Len(queue[d]) \in Nat
                /\ \A i \in Places(d) : /\ i \in 1 .. Len(queue[d]) + 1
                                        /\ i \in 1 .. Len(queue'[d])
                                        /\ queue'[d][i] = queue[d][i]
    <2>1. Len(queue[d]) \in Nat
      BY <1>3 DEF TypeOK
    <2>2. CASE d = t
      BY <1>6, <1>5, <2>1, <2>2 DEF Places
    <2>3. CASE d # t
      BY <1>4, <2>1, <2>3 DEF Places
    <2> QED  BY <2>1, <2>2, <2>3, Zenon
  <1>8. /\ ~ Reading(e)
        /\ \A d \in Ep : Reading(d)' <=> Reading(d)
        /\ \A d \in Ep : \A i \in 1 .. Len(queue[d]) + 1 :
                Before(d, i) # x /\ (i \in Places(d) => queue[d][i] # x)
    <2>1. ~ Reading(e) /\ \A d \in Ep : Reading(d)' <=> Reading(d)
      BY <1>2, <1>4, Zenon DEF Reading
    <2> QED  BY <1>1, <2>1, OwnEntry, Zenon
  <1>9. /\ \A d \in Ep : \A i \in 1 .. Len(queue[d]) + 1 : (Before(d, i))' = Before(d, i)
        /\ (Before(t, n + 2))' = x
    <2>1. ASSUME NEW d \in Ep, NEW i \in 1 .. Len(queue[d]) + 1
          PROVE  (Before(d, i))' = Before(d, i)
      <3>1. i > 1 => i - 1 \in Places(d)
        BY <1>7 DEF Places
      <3>2. i > 1 => queue'[d][i - 1] = queue[d][i - 1]
        BY <1>7, <3>1, Zenon
      <3> QED  BY <1>2, <1>8, <3>2, Zenon DEF Before
    <2>2. (Before(t, n + 2))' = x
      BY <1>6 DEF Before
    <2> QED  BY <2>1, <2>2, Zenon
  <1>10. \A d \in Ep : \A i \in 1 .. Len(queue[d]) + 1 :
            (LinkOf(d, Before(d, i)))' = LinkOf(d, Before(d, i))
    BY <1>2, <1>9, Zenon DEF LinkOf
  <1>11. LinkOf(t, Before(t, n + 1)) = Free /\ tail[t] = Before(t, n + 1)
    <2>1. Ends(t) /\ n + 1 \in 1 .. Len(queue[t]) + 1
      BY <1>5 DEF IInv
    <2>2. tail[t] = Before(t, n + 1)
      BY <1>5, <2>1, Zenon DEF Ends
    <2>3. CASE tail[t] = Free
      <3>1. n = 0 /\ ~ Reading(t)
        BY <1>5, <2>1, <2>2, <2>3, BeforeType
      <3>2. queue[t] = << >>
        <4>1. queue[t] \in Seq(Ent) /\ Len(queue[t]) = 0
          BY <1>3, <1>5, <3>1, Zenon DEF TypeOK
        <4> QED  BY <4>1
      <3> QED  BY <2>1, <2>2, <2>3, <3>2, Zenon DEF Ends, LinkOf
    <2>4. CASE tail[t] # Free
      BY <2>1, <2>2, <2>4, Zenon DEF Ends, LinkOf
    <2> QED  BY <2>2, <2>3, <2>4, Zenon
  <1>12. \A f \in Ep : pc[f] = "link" => f # e /\ ent[f] # x
    <2> SUFFICES ASSUME NEW f \in Ep, pc[f] = "link" PROVE ent[f] # x
      BY <1>2, Zenon
    <2>1. PICK d \in Ep : \E i \in Places(d) : ent[f] = queue[d][i]
      BY <1>3 DEF IInv, CallOK, Linking, Places, TypeOK
    <2> PICK i \in Places(d) : ent[f] = queue[d][i]
      BY <2>1, Zenon
    <2>2. i \in 1 .. Len(queue[d]) + 1
      BY <1>3 DEF Places, TypeOK
    <2> QED  BY <1>8, <2>1, <2>2, Zenon
  <1>13. ASSUME NEW d \in Ep, NEW i \in Places(d)
         PROVE  \/ /\ (LinkOf(d, Before(d, i)))' = queue'[d][i]
                   /\ \A f \in Ep : ~ (pc'[f] = "link" /\ ent'[f] = queue'[d][i])
                \/ /\ (LinkOf(d, Before(d, i)))' = Free
                   /\ \E f \in Ep : Linking(f, d, i)'
    <2>1. i \in 1 .. Len(queue[d]) + 1 /\ queue'[d][i] = queue[d][i] /\ queue[d][i] # x
      BY <1>8, <1>7, Zenon
    <2>2. \A f \in Ep : Linking(f, d, i) => Linking(f, d, i)'
      BY <1>2, <1>4, <1>9, <1>12, <2>1, Zenon DEF Linking
    <2>3. \A f \in Ep : pc'[f] = "link" /\ ent'[f] = queue[d][i] => pc[f] = "link"
      BY <1>1, <1>2, <1>4, <2>1, Zenon
    <2> QED  BY <1>2, <1>10, <2>1, <2>2, <2>3, Zenon DEF IInv, Chained, Places
  <1>14. ASSUME NEW d \in Ep PROVE Chained(d)'
    <2>1. CASE d # t
      BY <1>4, <1>13, <2>1, Zenon DEF Chained, Places
    <2>2. CASE d = t
      <3>1. (LinkOf(t, Before(t, n + 1)))' = Free /\ Linking(e, t, n + 1)'
        BY <1>1, <1>2, <1>4, <1>6, <1>9, <1>10, <1>5, <1>11 DEF Linking
      <3>2. \A i \in 1 .. Len(queue'[t]) : i \in Places(t) \/ i = n + 1
        BY <1>6, <1>5 DEF Places
      <3> QED  BY <1>13, <2>2, <3>1, <3>2, Zenon DEF Chained
    <2> QED  BY <2>1, <2>2, Zenon
  <1>15. ASSUME NEW d \in Ep PROVE Ends(d)'
    <2>1. Ends(d) /\ Len(queue[d]) + 1 \in 1 .. Len(queue[d]) + 1
      BY <1>3 DEF IInv, TypeOK
    <2>2. CASE d # t
      <3>1. PICK m \in Nat : m = Len(queue[d])
        BY <1>3 DEF TypeOK
      <3>2. (Before(d, m + 1))' = Before(d, m + 1)
        BY <1>9, <3>1
      <3>3. tail'[d] = (Before(d, Len(queue[d]) + 1))'
        BY <1>4, <2>1, <2>2, <3>1, <3>2, Zenon DEF Ends
      <3> QED  BY <1>2, <1>4, <1>8, <2>1, <2>2, <3>3, Zenon DEF Ends, Reading
    <2>3. CASE d = t
      <3>1. tail'[t] = (Before(t, n + 2))' /\ Len(queue'[t]) + 1 = n + 2
        BY <1>4, <1>6, <1>9, <1>5
      <3>2. tail'[t] = (Before(t, Len(queue[t]) + 1))'
        BY <3>1, Zenon
      <3>3. queue'[t] # << >>
        BY <1>3, <1>6 DEF TypeOK
      <3> QED  BY <1>1, <1>2, <1>4, <1>8, <2>1, <2>3, <3>2, <3>3, Zenon DEF Ends
    <2> QED  BY <2>2, <2>3, Zenon
  <1>16. ASSUME NEW d \in Ep PROVE CallOK(d)'
    <2>1. CallOK(d) /\ Placed
      BY Zenon DEF IInv
    <2>2. /\ Reading(d)' => ent'[d] \in held'[d]
          /\ pc'[d] = "swap" => ent'[d] \in held'[d] /\ next'[ent'[d]] = Free
      BY <1>2, <1>4, <1>8, <2>1, Zenon DEF CallOK
    <2>3. ASSUME pc'[d] = "link"
          PROVE  \E i \in 1 .. Len(queue'[dst'[d]]) : Linking(d, dst[d], i)'
      <3>1. CASE d = e
        <4>1. Linking(e, t, n + 1)' /\ n + 1 \in 1 .. Len(queue'[t])
          BY <1>1, <1>2, <1>4, <1>6, <1>9, <1>5, <1>11 DEF Linking
        <4> QED  BY <1>1, <1>2, <3>1, <4>1, Zenon DEF Linking
      <3>2. CASE d # e
        <4> PICK u \in Ep : u = dst[d]
          BY <1>3, Zenon DEF TypeOK
        <4>1. PICK i \in Places(u) : Linking(d, u, i)
          BY <1>4, <2>1, <2>3, <3>2, Zenon DEF CallOK, Places
        <4>2. i \in 1 .. Len(queue[u]) + 1 /\ i \in 1 .. Len(queue'[u]) /\ queue'[u][i] = queue[u][i]
          BY <1>7, Zenon
        <4>3. Linking(d, u, i)'
          BY <1>2, <1>4, <1>9, <3>2, <4>1, <4>2, Zenon DEF Linking
        <4> QED  BY <1>2, <4>1, <4>2, <4>3, Zenon DEF Linking
      <3> QED  BY <3>1, <3>2, Zenon
    <2> QED  BY <2>2, <2>3, Zenon DEF CallOK
  <1>17. Placed'
    <2>1. Placed
      BY Zenon DEF IInv
    <2>2. \A d1, d2 \in Ep : \A y \in held'[d1] : y \in held'[d2] => d1 = d2
      BY <1>4, <2>1, Zenon DEF Placed
    <2>3. \A d \in Ep : \A i \in 1 .. Len(queue'[d]) :
            \/ i \in Places(d) /\ queue'[d][i] = queue[d][i] /\ queue[d][i] # x
            \/ d = t /\ i = n + 1 /\ queue'[d][i] = x
      <3> TAKE d \in Ep
      <3> TAKE i \in 1 .. Len(queue'[d])
      <3>1. i \in Places(d) \/ (d = t /\ i = n + 1)
        <4>1. CASE d = t
          BY <1>5, <1>6, <4>1 DEF Places
        <4>2. CASE d # t
          BY <1>4, <4>2, Zenon DEF Places
        <4> QED  BY <4>1, <4>2, Zenon
      <3> QED  BY <1>6, <1>7, <1>8, <3>1, Zenon
    <2>4. \A d1, d2 \in Ep : \A i \in 1 .. Len(queue'[d1]), j \in 1 .. Len(queue'[d2]) :
            queue'[d1][i] = queue'[d2][j] => d1 = d2 /\ i = j
      <3> TAKE d1, d2 \in Ep
      <3> TAKE i \in 1 .. Len(queue'[d1]), j \in 1 .. Len(queue'[d2])
      <3>1. /\ \/ i \in Places(d1) /\ queue'[d1][i] = queue[d1][i] /\ queue[d1][i] # x
               \/ d1 = t /\ i = n + 1 /\ queue'[d1][i] = x
            /\ \/ j \in Places(d2) /\ queue'[d2][j] = queue[d2][j] /\ queue[d2][j] # x
               \/ d2 = t /\ j = n + 1 /\ queue'[d2][j] = x
        BY <2>3, Zenon
      <3> QED  BY <2>1, <3>1, PlacedOnce
    <2>5. \A d1, d2 \in Ep : \A i \in 1 .. Len(queue'[d1]) : queue'[d1][i] \notin held'[d2]
      BY <1>1, <1>4, <2>1, <2>3 DEF Placed, Places
    <2> QED  BY <2>2, <2>4, <2>5, Zenon DEF Placed
  <1>18. LinkOnce'
    BY <1>1, <1>2, <1>4, <1>12 DEF IInv, LinkOnce
  <1> QED  BY <1>3, <1>14, <1>15, <1>16, <1>17, <1>18, Zenon DEF IInv

LEMMA LinkKeeps ==
    ASSUME IInv, NEW e \in Ep, Link(e)
    PROVE  IInv'
  <1>1. PICK t \in Ep, x \in Ent \cup {Free}, p \in Ent \cup {Free} :
            t = dst[e] /\ x = ent[e] /\ p = prev[e]
    BY Zenon DEF IInv, TypeOK
  <1>2. PICK k \in Places(t) : Linking(e, t, k)
    BY <1>1, Zenon DEF IInv, CallOK, Link, Places
  <1>3. /\ pc[e] = "link"
        /\ \/ p # Free /\ next' = [next EXCEPT ![p] = x] /\ head' = head
           \/ p = Free /\ head' = [head EXCEPT ![t] = x] /\ next' = next
        /\ pc' = [pc EXCEPT ![e] = "idle"]
        /\ ent' = [ent EXCEPT ![e] = Free]
        /\ dst' = [dst EXCEPT ![e] = e]
        /\ prev' = [prev EXCEPT ![e] = Free]
        /\ UNCHANGED <<tail, held, queue>>
    BY <1>1, Zenon DEF Link, Return
  <1>4. TypeOK' /\ TypeOK
    <2>1. TypeOK
      BY Zenon DEF IInv
    <2>2. CASE p # Free
      <3>1. next' = [next EXCEPT ![p] = x] /\ head' = head
        BY <1>3, <2>2, Zenon
      <3> QED  BY <1>3, <2>1, <3>1, Zenon DEF TypeOK, PCs
    <2>3. CASE p = Free
      <3>1. head' = [head EXCEPT ![t] = x] /\ next' = next
        BY <1>3, <2>3, Zenon
      <3> QED  BY <1>3, <2>1, <3>1, Zenon DEF TypeOK, PCs
    <2> QED  BY <2>1, <2>2, <2>3, Zenon
  <1>5. /\ \A d \in Ep : d # e => /\ pc'[d] = pc[d] /\ ent'[d] = ent[d]
                                  /\ dst'[d] = dst[d] /\ prev'[d] = prev[d]
        /\ pc'[e] = "idle"
    BY <1>3, <1>4 DEF TypeOK
  <1>6. ~ Reading(e) /\ \A d \in Ep : Reading(d)' <=> Reading(d)
    BY <1>3, <1>5, Zenon DEF Reading
  <1>7. \A d \in Ep : \A i \in 1 .. Len(queue[d]) + 1 : (Before(d, i))' = Before(d, i)
    BY <1>3, <1>5, <1>6, Zenon DEF Before
  <1>8. /\ x = queue[t][k] /\ p = Before(t, k) /\ x \in Ent
        /\ \A d \in Ep : Len(queue[d]) \in Nat
        /\ \A d \in Ep : \A i \in Places(d) : i \in 1 .. Len(queue[d]) + 1
    <2>1. x = queue[t][k] /\ p = Before(t, k)
      BY <1>1, <1>2, <1>4, Zenon DEF Linking
    <2>2. k \in Places(t) /\ t \in Ep /\ \A d \in Ep : queue[d] \in Seq(Ent)
      BY <1>1, <1>2, <1>4, Zenon DEF Linking, TypeOK
    <2>3. /\ \A d \in Ep : Len(queue[d]) \in Nat
          /\ \A d \in Ep : \A i \in Places(d) : i \in 1 .. Len(queue[d]) + 1 /\ queue[d][i] \in Ent
      BY <2>2 DEF Places
    <2> QED  BY <2>1, <2>2, <2>3, Zenon
  <1>9. \A d \in Ep : \A i \in 1 .. Len(queue[d]) + 1 :
            d # t \/ i # k => (LinkOf(d, Before(d, i)))' = LinkOf(d, Before(d, i))
    <2> TAKE d \in Ep
    <2> TAKE i \in 1 .. Len(queue[d]) + 1
    <2> HAVE d # t \/ i # k
    <2>1. Before(d, i) # Free => Before(d, i) # p
      BY <1>8, Predecessors
    <2>2. Before(d, i) = Free => i = 1
      BY BeforeType, Zenon
    <2>3. p = Free => k = 1
      BY <1>8, BeforeType, Zenon
    <2>4. Before(d, i) \in Ent \cup {Free}
      BY BeforeType, Zenon
    <2>5. CASE Before(d, i) = Free
      BY <1>3, <1>4, <1>7, <2>2, <2>3, <2>5 DEF LinkOf, TypeOK
    <2>6. CASE Before(d, i) # Free
      BY <1>3, <1>4, <1>7, <2>1, <2>4, <2>6 DEF LinkOf, TypeOK
    <2> QED  BY <2>5, <2>6, Zenon
  <1>10. (LinkOf(t, Before(t, k)))' = x
    BY <1>3, <1>4, <1>7, <1>8 DEF LinkOf, TypeOK
  <1>11. ASSUME NEW d \in Ep PROVE Chained(d)'
    <2> SUFFICES ASSUME NEW i \in Places(d)
                 PROVE  \/ /\ (LinkOf(d, Before(d, i)))' = queue[d][i]
                           /\ \A f \in Ep : ~ (pc'[f] = "link" /\ ent'[f] = queue[d][i])
                        \/ /\ (LinkOf(d, Before(d, i)))' = Free
                           /\ \E f \in Ep : Linking(f, d, i)'
      BY <1>3, Zenon DEF Chained, Places
    <2>1. \A f \in Ep : pc'[f] = "link" => f # e /\ pc[f] = "link" /\ ent'[f] = ent[f]
      BY <1>5, Zenon
    <2>2. CASE d = t /\ i = k
      <3>1. \A f \in Ep : ~ (pc'[f] = "link" /\ ent'[f] = x)
        BY <1>1, <1>3, <2>1, Zenon DEF IInv, LinkOnce
      <3> QED  BY <1>8, <1>10, <2>2, <3>1, Zenon
    <2>3. CASE ~ (d = t /\ i = k)
      <3>1. queue[d][i] # x
        BY <1>8, <2>3, Zenon DEF IInv, Placed, Places
      <3>2. \A f \in Ep : Linking(f, d, i) => Linking(f, d, i)'
        BY <1>1, <1>3, <1>5, <1>7, <1>8, <3>1, Zenon DEF Linking
      <3> QED  BY <1>8, <1>9, <2>1, <2>3, <3>2 DEF IInv, Chained, Places
    <2> QED  BY <2>2, <2>3, Zenon
  <1>12. ASSUME NEW d \in Ep PROVE Ends(d)'
    <2>1. Ends(d)
      BY Zenon DEF IInv
    <2>2. PICK m \in Nat : m = Len(queue[d])
      BY <1>8, Zenon
    <2>3. tail[d] = Before(d, m + 1) /\ m + 1 \in 1 .. Len(queue[d]) + 1
      BY <2>1, <2>2 DEF Ends
    <2>4. (Before(d, m + 1))' = Before(d, m + 1)
      BY <1>7, <2>2, <2>3, Zenon
    <2>5. d # t \/ m + 1 # k
      BY <2>2 DEF Places
    <2>6. tail[d] # Free => next'[tail[d]] = Free
      BY <1>7, <1>9, <2>1, <2>3, <2>4, <2>5 DEF Ends, LinkOf
    <2>7. queue[d] = << >> \/ Reading(d) => head'[d] = Free
      <3>1. p = Free => ~ Reading(t)
        BY <1>8, BeforeType, Zenon
      <3>2. queue[t] # << >>
        BY <1>4, <1>8 DEF Places, TypeOK
      <3> QED  BY <1>3, <1>4, <2>1, <3>1, <3>2 DEF Ends, TypeOK
    <2> QED  BY <1>3, <1>5, <1>6, <2>1, <2>2, <2>3, <2>4, <2>6, <2>7, Zenon DEF Ends, Reading
  <1>13. ASSUME NEW d \in Ep PROVE CallOK(d)'
    <2>1. CallOK(d) /\ Placed
      BY Zenon DEF IInv
    <2>2. CASE d = e
      BY <1>5, <1>6, <2>2, Zenon DEF CallOK
    <2>3. CASE d # e
      <3>1. ASSUME pc[d] = "swap" PROVE ent[d] \in held[d] /\ next'[ent[d]] = Free
        <4>1. ent[d] \in held[d] /\ next[ent[d]] = Free /\ ~ Reading(d)
          BY <2>1, <3>1, Zenon DEF CallOK, Reading
        <4>2. ent[d] # p
          BY <1>8, <4>1, OwnEntry, Zenon
        <4> QED  BY <1>3, <1>4, <4>1, <4>2, Zenon DEF TypeOK
      <3>2. ASSUME pc'[d] = "link"
            PROVE  \E i \in 1 .. Len(queue'[dst'[d]]) : Linking(d, dst[d], i)'
        <4>1. PICK u \in Ep : u = dst[d]
          BY <1>4, Zenon DEF TypeOK
        <4>2. \A i \in Places(u) : (Before(u, i))' = Before(u, i)
          BY <1>7, <1>8, Zenon
        <4> QED  BY <1>3, <1>5, <2>3, <3>2, <4>1, <4>2, LinkerFrame, Zenon
      <3> QED  BY <1>3, <1>5, <1>6, <2>1, <2>3, <3>1, <3>2, Zenon DEF CallOK
    <2> QED  BY <2>2, <2>3, Zenon
  <1>14. Placed' /\ LinkOnce'
    BY <1>3, <1>5 DEF IInv, Placed, LinkOnce
  <1> QED  BY <1>4, <1>11, <1>12, <1>13, <1>14, Zenon DEF IInv

\* What a reader finds at the head of its queue.
LEMMA HeadIsFirst ==
    ASSUME IInv, NEW e \in Ep, ~ Reading(e), head[e] # Free
    PROVE  /\ queue[e] # << >> /\ Len(queue[e]) \in Nat /\ Len(queue[e]) > 0
           /\ head[e] = queue[e][1] /\ head[e] = Head(queue[e]) /\ head[e] \in Ent
           /\ \A f \in Ep : ~ (pc[f] = "link" /\ ent[f] = queue[e][1])
  <1>1. queue[e] # << >> /\ queue[e] \in Seq(Ent)
    BY Zenon DEF IInv, Ends, TypeOK
  <1>2. Len(queue[e]) \in Nat /\ Len(queue[e]) > 0 /\ queue[e][1] = Head(queue[e]) /\ queue[e][1] \in Ent
    BY <1>1
  <1>3. LinkOf(e, Before(e, 1)) = head[e]
    BY DEF LinkOf, Before
  <1>4. 1 \in 1 .. Len(queue[e])
    BY <1>2
  <1> QED  BY <1>1, <1>2, <1>3, <1>4, Zenon DEF IInv, Chained

LEMMA ReadHeadKeeps ==
    ASSUME IInv, NEW e \in Ep, ReadHead(e)
    PROVE  IInv'
  <1>1. PICK x \in Ent : x = head[e]
    BY Zenon DEF IInv, TypeOK, ReadHead
  <1>2. /\ pc[e] = "idle" /\ head[e] # Free
        /\ ent' = [ent EXCEPT ![e] = x]
        /\ head' = [head EXCEPT ![e] = Free]
        /\ queue' = [queue EXCEPT ![e] = Tail(@)]
        /\ held' = [held EXCEPT ![e] = @ \cup {x}]
        /\ pc' = [pc EXCEPT ![e] = "next"]
        /\ UNCHANGED <<tail, next, dst, prev>>
    BY <1>1, Zenon DEF ReadHead
  <1>3. ~ Reading(e)
    BY <1>2, Zenon DEF Reading
  <1>4. /\ queue[e] # << >> /\ Len(queue[e]) \in Nat /\ Len(queue[e]) > 0
        /\ x = queue[e][1]
        /\ \A f \in Ep : ~ (pc[f] = "link" /\ ent[f] = x)
    BY <1>1, <1>2, <1>3, HeadIsFirst, Zenon
  <1>5. TypeOK /\ TypeOK'
    <2>1. TypeOK /\ queue[e] \in Seq(Ent)
      BY Zenon DEF IInv, TypeOK
    <2>2. Tail(queue[e]) \in Seq(Ent)
      BY <1>4, <2>1
    <2> QED  BY <1>2, <2>1, <2>2, Zenon DEF TypeOK, PCs
  <1>6. /\ \A d \in Ep : d # e => /\ pc'[d] = pc[d] /\ ent'[d] = ent[d] /\ head'[d] = head[d]
                                  /\ queue'[d] = queue[d] /\ held'[d] = held[d]
        /\ pc'[e] = "next" /\ ent'[e] = x /\ head'[e] = Free
        /\ queue'[e] = Tail(queue[e]) /\ held'[e] = held[e] \cup {x}
    BY <1>2, <1>5 DEF TypeOK
  <1>7. PICK n \in Nat : Len(queue[e]) = n + 1
    <2>1. Len(queue[e]) - 1 \in Nat /\ Len(queue[e]) = (Len(queue[e]) - 1) + 1
      BY <1>4
    <2> QED  BY <2>1, Zenon
  <1>8. /\ Len(queue'[e]) = n
        /\ \A i \in 1 .. n : queue'[e][i] = queue[e][i + 1]
    BY <1>4, <1>5, <1>6, <1>7 DEF TypeOK
  <1>9. \A d \in Ep : d # e => (Reading(d)' <=> Reading(d))
    BY <1>6, Zenon DEF Reading
  <1>10. /\ Reading(e)'
         /\ \A i \in 1 .. n + 1 :
                /\ i + 1 \in 1 .. Len(queue[e]) + 1
                /\ (Before(e, i))' = Before(e, i + 1) /\ Before(e, i + 1) \in Ent
                /\ (LinkOf(e, Before(e, i)))' = LinkOf(e, Before(e, i + 1))
    <2>1. Reading(e)'
      BY <1>6, Zenon DEF Reading
    <2> SUFFICES ASSUME NEW i \in 1 .. n + 1
                 PROVE  /\ i + 1 \in 1 .. Len(queue[e]) + 1
                        /\ (Before(e, i))' = Before(e, i + 1) /\ Before(e, i + 1) \in Ent
                        /\ (LinkOf(e, Before(e, i)))' = LinkOf(e, Before(e, i + 1))
      BY <2>1, Zenon
    <2>2. i + 1 \in 1 .. Len(queue[e]) + 1 /\ i + 1 > 1 /\ (i + 1) - 1 = i
      BY <1>7
    <2>3. Before(e, i + 1) = queue[e][i] /\ Before(e, i + 1) \in Ent
      <3>1. Before(e, i + 1) = queue[e][i]
        BY <2>2, Zenon DEF Before
      <3>2. Before(e, i + 1) # Free /\ Before(e, i + 1) \in Ent \cup {Free}
        BY <2>2, BeforeType
      <3> QED  BY <3>1, <3>2, Zenon
    <2>4. (Before(e, i))' = Before(e, i + 1)
      <3>1. CASE i = 1
        BY <1>4, <1>6, <2>1, <2>3, <3>1 DEF Before
      <3>2. CASE i > 1
        <4>1. i - 1 \in 1 .. n /\ (i - 1) + 1 = i
          BY <3>2
        <4>2. queue'[e][i - 1] = queue[e][i]
          BY <1>8, <4>1, Zenon
        <4> QED  BY <2>3, <3>2, <4>2, Zenon DEF Before
      <3> QED  BY <3>1, <3>2
    <2> QED  BY <1>2, <2>2, <2>3, <2>4, Zenon DEF LinkOf
  <1>11. \A d \in Ep : d # e => \A i \in 1 .. Len(queue[d]) + 1 :
             /\ (Before(d, i))' = Before(d, i)
             /\ (LinkOf(d, Before(d, i)))' = LinkOf(d, Before(d, i))
    BY <1>2, <1>6, <1>9 DEF Before, LinkOf
  <1>12. /\ \A f \in Ep : (pc'[f] = "link") <=> (pc[f] = "link")
         /\ \A f \in Ep : pc[f] = "link" =>
                ent'[f] = ent[f] /\ dst'[f] = dst[f] /\ prev'[f] = prev[f]
    BY <1>2, <1>6, Zenon
  <1>13. \A f \in Ep, i \in 1 .. n : Linking(f, e, i)' <=> Linking(f, e, i + 1)
    <2> TAKE f \in Ep, i \in 1 .. n
    <2>1. (Before(e, i))' = Before(e, i + 1) /\ queue'[e][i] = queue[e][i + 1]
      BY <1>8, <1>10
    <2> QED  BY <1>12, <2>1, Zenon DEF Linking
  <1>14. ASSUME NEW d \in Ep PROVE Chained(d)'
    <2>1. CASE d # e
      <3>1. \A i \in Places(d) : i \in 1 .. Len(queue[d]) + 1
        BY <1>5 DEF Places, TypeOK
      <3>2. /\ queue'[d] = queue[d]
            /\ \A i \in Places(d) : (Before(d, i))' = Before(d, i)
            /\ \A i \in Places(d) : (LinkOf(d, Before(d, i)))' = LinkOf(d, Before(d, i))
        BY <1>6, <1>11, <2>1, <3>1, Zenon
      <3> QED  BY <1>12, <3>2, ChainedFrame, Zenon
    <2>2. CASE d = e
      <3> SUFFICES ASSUME NEW i \in 1 .. n
                   PROVE  \/ /\ (LinkOf(e, Before(e, i)))' = queue'[e][i]
                             /\ \A f \in Ep : ~ (pc'[f] = "link" /\ ent'[f] = queue'[e][i])
                          \/ /\ (LinkOf(e, Before(e, i)))' = Free
                             /\ \E f \in Ep : Linking(f, e, i)'
        BY <1>8, <2>2, Zenon DEF Chained
      <3>1. /\ (LinkOf(e, Before(e, i)))' = LinkOf(e, Before(e, i + 1))
            /\ queue'[e][i] = queue[e][i + 1] /\ i + 1 \in 1 .. Len(queue[e])
        BY <1>7, <1>8, <1>10
      <3>2. \/ /\ LinkOf(e, Before(e, i + 1)) = queue[e][i + 1]
               /\ \A f \in Ep : ~ (pc[f] = "link" /\ ent[f] = queue[e][i + 1])
            \/ /\ LinkOf(e, Before(e, i + 1)) = Free
               /\ \E f \in Ep : Linking(f, e, i + 1)
        BY <3>1, Zenon DEF IInv, Chained
      <3> QED  BY <1>12, <1>13, <3>1, <3>2, Zenon
    <2> QED  BY <2>1, <2>2, Zenon
  <1>15. ASSUME NEW d \in Ep PROVE Ends(d)'
    <2>1. Ends(d)
      BY Zenon DEF IInv
    <2>2. CASE d # e
      <3>1. PICK m \in Nat : m = Len(queue[d])
        BY <1>5 DEF TypeOK
      <3>2. (Before(d, m + 1))' = Before(d, m + 1)
        BY <1>11, <2>2, <3>1
      <3>3. tail'[d] = (Before(d, Len(queue[d]) + 1))'
        BY <1>2, <1>6, <2>1, <2>2, <3>1, <3>2, Zenon DEF Ends
      <3> QED  BY <1>2, <1>6, <1>9, <2>1, <2>2, <3>3, Zenon DEF Ends
    <2>3. CASE d = e
      <3>1. (Before(e, n + 1))' = Before(e, (n + 1) + 1)
        BY <1>10
      <3>2. tail'[e] = (Before(e, Len(queue[e]) + 1))'
        BY <1>2, <1>7, <1>8, <2>1, <2>3, <3>1, Zenon DEF Ends
      <3> QED  BY <1>2, <1>6, <2>1, <2>3, <3>2, Zenon DEF Ends
    <2> QED  BY <2>2, <2>3, Zenon
  <1>16. ASSUME NEW d \in Ep PROVE CallOK(d)'
    <2>1. CallOK(d)
      BY Zenon DEF IInv
    <2>2. /\ Reading(d)' => ent'[d] \in held'[d]
          /\ pc'[d] = "swap" => ent'[d] \in held'[d] /\ next'[ent'[d]] = Free
      BY <1>2, <1>6, <1>9, <2>1, Zenon DEF CallOK
    <2>3. ASSUME pc'[d] = "link"
          PROVE  \E i \in 1 .. Len(queue'[dst'[d]]) : Linking(d, dst[d], i)'
      <3>1. PICK u \in Ep : u = dst[d]
        BY <1>5, Zenon DEF TypeOK
      <3>2. d # e /\ pc[d] = "link"
        BY <1>6, <2>3, Zenon
      <3>3. CASE u # e
        <4>1. \A i \in Places(u) : (Before(u, i))' = Before(u, i)
          BY <1>5, <1>11, <3>3 DEF Places, TypeOK
        <4> QED  BY <1>2, <1>6, <2>3, <3>1, <3>2, <3>3, <4>1, LinkerFrame, Zenon
      <3>4. CASE u = e
        <4>1. PICK j \in 1 .. Len(queue[e]) : Linking(d, e, j)
          BY <2>1, <3>1, <3>2, <3>4, Zenon DEF CallOK
        <4>2. j # 1
          BY <1>4, <3>2, <4>1, Zenon DEF Linking
        <4>3. PICK i \in 1 .. n : j = i + 1
          <5>1. j - 1 \in 1 .. n /\ j = (j - 1) + 1
            BY <1>7, <4>2
          <5> QED  BY <5>1, Zenon
        <4>4. Linking(d, e, i)'
          BY <1>13, <4>1, <4>3, Zenon
        <4> QED  BY <1>2, <1>8, <3>1, <3>4, <4>4, Zenon DEF Linking
      <3> QED  BY <3>3, <3>4, Zenon
    <2> QED  BY <2>2, <2>3, Zenon DEF CallOK
  <1>17. Placed'
    <2>1. Placed /\ 1 \in Places(e)
      BY <1>4 DEF IInv, Places
    <2>2. \A d \in Ep : x \notin held[d]
      BY <1>4, <2>1, Zenon DEF Placed, Places
    <2>3. \A d1, d2 \in Ep : \A y \in held'[d1] : y \in held'[d2] => d1 = d2
      BY <1>6, <2>1, <2>2 DEF Placed
    <2>4. \A d \in Ep : \A i \in 1 .. Len(queue'[d]) :
            /\ d # e => i \in Places(d) /\ queue'[d][i] = queue[d][i] /\ queue[d][i] # x
            /\ d = e => i + 1 \in Places(d) /\ queue'[d][i] = queue[d][i + 1] /\ queue[d][i + 1] # x
      <3> TAKE d \in Ep
      <3> TAKE i \in 1 .. Len(queue'[d])
      <3>1. CASE d # e
        BY <1>4, <1>6, <2>1, <3>1 DEF Placed, Places
      <3>2. CASE d = e
        <4>1. i + 1 \in Places(e) /\ queue'[e][i] = queue[e][i + 1] /\ i + 1 # 1
          BY <1>7, <1>8, <3>2 DEF Places
        <4> QED  BY <1>4, <2>1, <3>2, <4>1 DEF Placed, Places
      <3> QED  BY <3>1, <3>2, Zenon
    <2>5. \A d1, d2 \in Ep : \A i \in 1 .. Len(queue'[d1]), j \in 1 .. Len(queue'[d2]) :
            queue'[d1][i] = queue'[d2][j] => d1 = d2 /\ i = j
      <3> TAKE d1, d2 \in Ep
      <3> TAKE i \in 1 .. Len(queue'[d1]), j \in 1 .. Len(queue'[d2])
      <3>1. CASE d1 # e /\ d2 # e
        <4>1. /\ i \in Places(d1) /\ queue'[d1][i] = queue[d1][i]
              /\ j \in Places(d2) /\ queue'[d2][j] = queue[d2][j]
          BY <2>4, <3>1, Zenon
        <4>2. queue[d1][i] = queue[d2][j] => d1 = d2 /\ i = j
          <5>1. Placed
            BY <2>1, Zenon
          <5>2. \A k \in Places(d1), l \in Places(d2) : queue[d1][k] = queue[d2][l] => d1 = d2 /\ k = l
            BY <5>1, PlacedOnce, Zenon
          <5> QED  BY <4>1, <5>2, Zenon
        <4> QED  BY <4>1, <4>2, Zenon
      <3>2. CASE d1 = e /\ d2 = e
        <4>1. /\ i + 1 \in Places(e) /\ queue'[e][i] = queue[e][i + 1]
              /\ j + 1 \in Places(e) /\ queue'[e][j] = queue[e][j + 1]
          BY <2>4, <3>2, Zenon
        <4>2. queue[e][i + 1] = queue[e][j + 1] => i + 1 = j + 1
          BY <2>1, <4>1, PlacedOnce
        <4>3. i \in Nat /\ j \in Nat
          OBVIOUS
        <4> QED  BY <3>2, <4>1, <4>2, <4>3
      <3>3. CASE d1 # e /\ d2 = e
        <4>1. /\ i \in Places(d1) /\ queue'[d1][i] = queue[d1][i]
              /\ j + 1 \in Places(e) /\ queue'[e][j] = queue[e][j + 1]
          BY <2>4, <3>3, Zenon
        <4>2. queue[d1][i] # queue[e][j + 1]
          BY <2>1, <3>3, <4>1, Zenon DEF Placed, Places
        <4> QED  BY <3>3, <4>1, <4>2, Zenon
      <3>4. CASE d1 = e /\ d2 # e
        <4>1. /\ j \in Places(d2) /\ queue'[d2][j] = queue[d2][j]
              /\ i + 1 \in Places(e) /\ queue'[e][i] = queue[e][i + 1]
          BY <2>4, <3>4, Zenon
        <4> QED  BY <2>1, <3>4, <4>1, PlacedOnce
      <3> QED  BY <3>1, <3>2, <3>3, <3>4, Zenon
    <2>6. \A d1, d2 \in Ep : \A i \in 1 .. Len(queue'[d1]) : queue'[d1][i] \notin held'[d2]
      BY <1>6, <2>1, <2>4 DEF Placed, Places
    <2> QED  BY <2>3, <2>5, <2>6, Zenon DEF Placed
  <1>18. LinkOnce'
    BY <1>12, Zenon DEF IInv, LinkOnce
  <1> QED  BY <1>5, <1>14, <1>15, <1>16, <1>17, <1>18, Zenon DEF IInv

\* A step that moves no entry leaves every entry in its one place.
LEMMA PlacedKept ==
    ASSUME Placed, held' = held, queue' = queue
    PROVE  Placed'
  <1>1. \A d1, d2 \in Ep : \A z \in held'[d1] : z \in held'[d2] => d1 = d2
    BY Zenon DEF Placed
  <1>2. \A d1, d2 \in Ep :
           \A i \in 1 .. Len(queue'[d1]), j \in 1 .. Len(queue'[d2]) :
               queue'[d1][i] = queue'[d2][j] => d1 = d2 /\ i = j
    BY DEF Placed
  <1>3. \A d1, d2 \in Ep : \A i \in 1 .. Len(queue'[d1]) : queue'[d1][i] \notin held'[d2]
    BY Zenon DEF Placed
  <1> QED  BY <1>1, <1>2, <1>3, Zenon DEF Placed

\* Where a reader that finds an entry behind its own goes on.
LEMMA AdvanceKeeps ==
    ASSUME IInv, NEW e \in Ep, Reading(e), Advance(e)
    PROVE  IInv'
  <1>1. PICK y \in Ent, x \in Ent : y = ent[e] /\ x = next[y] /\ y \in held[e]
    BY Zenon DEF IInv, TypeOK, Advance, CallOK
  <1>2. /\ head' = [head EXCEPT ![e] = x]
        /\ pc' = [pc EXCEPT ![e] = "idle"]
        /\ ent' = [ent EXCEPT ![e] = Free]
        /\ dst' = [dst EXCEPT ![e] = e]
        /\ prev' = [prev EXCEPT ![e] = Free]
        /\ UNCHANGED <<tail, next, held, queue>>
    BY <1>1, Zenon DEF Advance, Return
  <1>3. TypeOK /\ TypeOK'
    BY <1>2, Zenon DEF IInv, TypeOK, PCs
  <1>4. /\ \A d \in Ep : d # e => /\ pc'[d] = pc[d] /\ ent'[d] = ent[d] /\ head'[d] = head[d]
                                  /\ dst'[d] = dst[d] /\ prev'[d] = prev[d]
        /\ pc'[e] = "idle" /\ head'[e] = x
    BY <1>2, <1>3 DEF TypeOK
  <1>5. /\ Len(queue[e]) \in Nat /\ Len(queue[e]) > 0 /\ queue[e] # << >>
        /\ x = queue[e][1]
        /\ \A f \in Ep : ~ (pc[f] = "link" /\ ent[f] = x)
    <2>1. Ends(e) /\ Chained(e) /\ queue[e] \in Seq(Ent)
      BY <1>3, Zenon DEF IInv, TypeOK
    <2>2. queue[e] # << >>
      <3> SUFFICES ASSUME Len(queue[e]) = 0 PROVE FALSE
        BY <2>1, Zenon
      <3>1. tail[e] = y
        BY <1>1, <2>1 DEF Ends, Before
      <3> QED  BY <1>1, <2>1, <3>1, Zenon DEF Ends
    <2>3. Len(queue[e]) \in Nat /\ Len(queue[e]) > 0 /\ 1 \in 1 .. Len(queue[e])
      BY <2>1, <2>2
    <2>4. LinkOf(e, Before(e, 1)) = x
      BY <1>1 DEF LinkOf, Before
    <2> QED  BY <1>1, <2>1, <2>2, <2>3, <2>4, Zenon DEF Chained
  <1>6. ~ Reading(e)' /\ \A d \in Ep : d # e => (Reading(d)' <=> Reading(d))
    BY <1>4, Zenon DEF Reading
  <1>7. /\ \A d \in Ep : \A i \in 1 .. Len(queue[d]) + 1 :
                d # e \/ i # 1 =>
                    /\ (Before(d, i))' = Before(d, i)
                    /\ (LinkOf(d, Before(d, i)))' = LinkOf(d, Before(d, i))
        /\ (Before(e, 1))' = Free /\ (LinkOf(e, Before(e, 1)))' = x
    <2>1. (Before(e, 1))' = Free /\ (LinkOf(e, Before(e, 1)))' = x
      BY <1>4, <1>6 DEF Before, LinkOf
    <2>2. ASSUME NEW d \in Ep, NEW i \in 1 .. Len(queue[d]) + 1, d # e \/ i # 1
          PROVE  /\ (Before(d, i))' = Before(d, i)
                 /\ (LinkOf(d, Before(d, i)))' = LinkOf(d, Before(d, i))
      <3>1. (Before(d, i))' = Before(d, i)
        BY <1>2, <1>4, <1>6, <2>2 DEF Before
      <3>2. Before(d, i) = Free => d # e
        BY <2>2, BeforeType, Zenon
      <3> QED  BY <1>2, <1>4, <3>1, <3>2, Zenon DEF LinkOf
    <2> QED  BY <2>1, <2>2, Zenon
  <1>8. /\ \A f \in Ep : (pc'[f] = "link") <=> (pc[f] = "link")
        /\ \A f \in Ep : pc[f] = "link" => /\ f # e
                                           /\ ent'[f] = ent[f] /\ dst'[f] = dst[f] /\ prev'[f] = prev[f]
    BY <1>4, Zenon DEF Reading
  <1>9. \A d \in Ep : \A i \in Places(d) : i \in 1 .. Len(queue[d]) + 1
    BY <1>3 DEF Places, TypeOK
  <1>10. ASSUME NEW d \in Ep PROVE Chained(d)'
    <2> SUFFICES ASSUME NEW i \in Places(d)
                 PROVE  \/ /\ (LinkOf(d, Before(d, i)))' = queue[d][i]
                           /\ \A f \in Ep : ~ (pc'[f] = "link" /\ ent'[f] = queue[d][i])
                        \/ /\ (LinkOf(d, Before(d, i)))' = Free
                           /\ \E f \in Ep : Linking(f, d, i)'
      BY <1>2, Zenon DEF Chained, Places
    <2>1. CASE d = e /\ i = 1
      BY <1>5, <1>7, <1>8, <2>1, Zenon
    <2>2. CASE d # e \/ i # 1
      <3>1. \A f \in Ep : Linking(f, d, i) => Linking(f, d, i)'
        BY <1>2, <1>7, <1>8, <1>9, <2>2, Zenon DEF Linking
      <3> QED  BY <1>7, <1>8, <1>9, <2>2, <3>1 DEF IInv, Chained, Places
    <2> QED  BY <2>1, <2>2, Zenon
  <1>11. ASSUME NEW d \in Ep PROVE Ends(d)'
    <2>1. Ends(d)
      BY Zenon DEF IInv
    <2>2. PICK m \in Nat : m = Len(queue[d])
      BY <1>3 DEF TypeOK
    <2>3. d # e \/ m + 1 # 1
      BY <1>5, <2>2
    <2>4. (Before(d, m + 1))' = Before(d, m + 1)
      BY <1>7, <2>2, <2>3
    <2>5. tail'[d] = (Before(d, Len(queue[d]) + 1))'
      BY <1>2, <2>1, <2>2, <2>4, Zenon DEF Ends
    <2> QED  BY <1>2, <1>4, <1>5, <1>6, <2>1, <2>5, Zenon DEF Ends
  <1>12. ASSUME NEW d \in Ep PROVE CallOK(d)'
    <2>1. CallOK(d)
      BY Zenon DEF IInv
    <2>2. /\ Reading(d)' => ent'[d] \in held'[d]
          /\ pc'[d] = "swap" => ent'[d] \in held'[d] /\ next'[ent'[d]] = Free
      BY <1>2, <1>4, <1>6, <2>1, Zenon DEF CallOK
    <2>3. ASSUME pc'[d] = "link"
          PROVE  \E i \in 1 .. Len(queue'[dst'[d]]) : Linking(d, dst[d], i)'
      <3>1. PICK u \in Ep : u = dst[d]
        BY <1>3, Zenon DEF TypeOK
      <3>2. PICK i \in Places(u) : Linking(d, u, i)
        BY <1>8, <2>1, <2>3, <3>1, Zenon DEF CallOK, Places
      <3>3. u # e \/ i # 1
        BY <1>5, <1>8, <2>3, <3>2, Zenon DEF Linking
      <3>4. Linking(d, u, i)'
        BY <1>2, <1>7, <1>8, <1>9, <2>3, <3>2, <3>3, Zenon DEF Linking
      <3> QED  BY <1>2, <1>8, <2>3, <3>1, <3>4, Zenon DEF Linking, Places
    <2> QED  BY <2>2, <2>3, Zenon DEF CallOK
  <1>13. Placed' /\ LinkOnce'
    <2>0. Placed /\ LinkOnce
      BY Zenon DEF IInv
    <2>1. Placed'
      <3>1. held' = held /\ queue' = queue
        BY <1>2, <1>8, Zenon
      <3> QED  BY <2>0, <3>1, PlacedKept, Zenon
    <2>2. LinkOnce'
      BY <1>2, <1>8 DEF IInv, LinkOnce
    <2> QED  BY <2>1, <2>2, Zenon
  <1> QED  BY <1>3, <1>10, <1>11, <1>12, <1>13, Zenon DEF IInv

\* The reader removes the last entry of its queue.
LEMMA CasLastKeeps ==
    ASSUME IInv, NEW e \in Ep, pc[e] = "cas", tail[e] = ent[e],
           tail' = [tail EXCEPT ![e] = Free], Return(e),
           UNCHANGED <<head, next, held, queue>>
    PROVE  IInv'
  <1>1. TypeOK /\ TypeOK'
    BY Zenon DEF IInv, TypeOK, PCs, Return
  <1>2. /\ \A d \in Ep : d # e => /\ pc'[d] = pc[d] /\ ent'[d] = ent[d] /\ tail'[d] = tail[d]
                                  /\ dst'[d] = dst[d] /\ prev'[d] = prev[d]
        /\ pc'[e] = "idle" /\ tail'[e] = Free
    BY <1>1 DEF TypeOK, Return
  <1>3. Reading(e) /\ ent[e] \in held[e] /\ ent[e] # Free /\ head[e] = Free
    <2>1. Reading(e) /\ CallOK(e) /\ Ends(e)
      BY Zenon DEF Reading, IInv
    <2> QED  BY <1>1, <2>1 DEF CallOK, Ends, TypeOK
  <1>4. Len(queue[e]) = 0 /\ queue[e] = << >>
    <2>1. queue[e] \in Seq(Ent) /\ tail[e] = Before(e, Len(queue[e]) + 1)
      BY <1>1, Zenon DEF IInv, Ends, TypeOK
    <2>2. Len(queue[e]) + 1 \in 1 .. Len(queue[e]) + 1 /\ 1 \in 1 .. Len(queue[e]) + 1
      BY <2>1
    <2>3. Before(e, 1) = ent[e]
      BY <1>3 DEF Before
    <2>4. Len(queue[e]) + 1 = 1
      BY <1>3, <2>1, <2>2, <2>3, Predecessors, Zenon
    <2> QED  BY <2>1, <2>4
  <1>5. ~ Reading(e)' /\ \A d \in Ep : d # e => (Reading(d)' <=> Reading(d))
    BY <1>2, Zenon DEF Reading
  <1>6. \A d \in Ep : \A i \in 1 .. Len(queue[d]) + 1 :
            d # e => /\ (Before(d, i))' = Before(d, i)
                     /\ (LinkOf(d, Before(d, i)))' = LinkOf(d, Before(d, i))
    BY <1>2, <1>5, Zenon DEF Before, LinkOf
  <1>7. /\ \A f \in Ep : (pc'[f] = "link") <=> (pc[f] = "link")
        /\ \A f \in Ep : pc[f] = "link" => /\ f # e
                                           /\ ent'[f] = ent[f] /\ dst'[f] = dst[f] /\ prev'[f] = prev[f]
    BY <1>2, Zenon
  <1>8. \A d \in Ep : \A i \in Places(d) : i \in 1 .. Len(queue[d]) + 1
    BY <1>1 DEF Places, TypeOK
  <1>9. ASSUME NEW d \in Ep PROVE Chained(d)'
    <2>1. CASE d = e
      BY <1>4, <2>1 DEF Chained
    <2>2. CASE d # e
      <3>1. /\ \A i \in Places(d) : (Before(d, i))' = Before(d, i)
            /\ \A i \in Places(d) : (LinkOf(d, Before(d, i)))' = LinkOf(d, Before(d, i))
        BY <1>6, <1>8, <2>2, Zenon
      <3> QED  BY <1>7, <3>1, ChainedFrame, Zenon
    <2> QED  BY <2>1, <2>2, Zenon
  <1>10. ASSUME NEW d \in Ep PROVE Ends(d)'
    <2>1. Ends(d)
      BY Zenon DEF IInv
    <2>2. CASE d = e
      <3>1. (Before(e, 1))' = Free
        BY <1>5 DEF Before
      <3>2. tail'[e] = (Before(e, Len(queue[e]) + 1))'
        BY <1>2, <1>4, <3>1
      <3> QED  BY <1>2, <1>3, <1>5, <2>2, <3>2, Zenon DEF Ends
    <2>3. CASE d # e
      <3>1. PICK m \in Nat : m = Len(queue[d])
        BY <1>1 DEF TypeOK
      <3>2. (Before(d, m + 1))' = Before(d, m + 1)
        BY <1>6, <2>3, <3>1
      <3>3. tail'[d] = (Before(d, Len(queue[d]) + 1))'
        BY <1>2, <2>1, <2>3, <3>1, <3>2, Zenon DEF Ends
      <3> QED  BY <1>2, <1>5, <2>1, <2>3, <3>3, Zenon DEF Ends
    <2> QED  BY <2>2, <2>3, Zenon
  <1>11. ASSUME NEW d \in Ep PROVE CallOK(d)'
    <2>1. CallOK(d)
      BY Zenon DEF IInv
    <2>2. /\ Reading(d)' => ent'[d] \in held'[d]
          /\ pc'[d] = "swap" => ent'[d] \in held'[d] /\ next'[ent'[d]] = Free
      BY <1>2, <1>5, <2>1, Zenon DEF CallOK
    <2>3. ASSUME pc'[d] = "link"
          PROVE  \E i \in 1 .. Len(queue'[dst'[d]]) : Linking(d, dst[d], i)'
      <3>1. PICK u \in Ep : u = dst[d]
        BY <1>1, Zenon DEF TypeOK
      <3>2. PICK i \in 1 .. Len(queue[u]) : Linking(d, u, i)
        BY <1>7, <2>1, <2>3, <3>1, Zenon DEF CallOK
      <3>3. u # e
        BY <1>4, <3>2
      <3>4. \A j \in Places(u) : (Before(u, j))' = Before(u, j)
        BY <1>6, <1>8, <3>3, Zenon
      <3> QED  BY <1>7, <2>3, <3>1, <3>4, LinkerFrame, Zenon
    <2> QED  BY <2>2, <2>3, Zenon DEF CallOK
  <1>12. Placed' /\ LinkOnce'
    BY <1>7 DEF IInv, Placed, LinkOnce
  <1> QED  BY <1>1, <1>9, <1>10, <1>11, <1>12, Zenon DEF IInv

\* The reader goes on to another of its tests.
LEMMA TestKeeps ==
    ASSUME IInv, NEW e \in Ep, Reading(e), NEW l \in {"cas", "spin"},
           l = "spin" => tail[e] # ent[e],
           pc' = [pc EXCEPT ![e] = l],
           UNCHANGED <<head, tail, next, held, ent, dst, prev, queue>>
    PROVE  IInv'
  <1>1. TypeOK /\ TypeOK'
    BY Zenon DEF IInv, TypeOK, PCs
  <1>2. /\ \A d \in Ep : d # e => pc'[d] = pc[d]
        /\ pc'[e] = l
    BY <1>1, Zenon DEF TypeOK
  <1>3. \A d \in Ep : /\ Reading(d)' <=> Reading(d)
                      /\ (pc'[d] = "link") <=> (pc[d] = "link")
                      /\ (pc'[d] = "swap") <=> (pc[d] = "swap")
    BY <1>2, Zenon DEF Reading
  <1>4. l = "spin" => queue[e] # << >>
    <2>1. tail[e] = Before(e, Len(queue[e]) + 1)
      BY Zenon DEF IInv, Ends
    <2> QED  BY <2>1 DEF Before
  <1>5. \A d \in Ep : Len(queue[d]) \in Nat
    BY <1>1 DEF TypeOK
  <1>6. ASSUME NEW d \in Ep PROVE Chained(d)'
    <2>1. /\ \A i \in Places(d) : (Before(d, i))' = Before(d, i)
          /\ \A i \in Places(d) : (LinkOf(d, Before(d, i)))' = LinkOf(d, Before(d, i))
      BY <1>3, Zenon DEF Before, LinkOf
    <2> QED  BY <1>3, <2>1, ChainedFrame, Zenon
  <1>7. ASSUME NEW d \in Ep PROVE Ends(d)'
    <2>1. (Before(d, Len(queue[d]) + 1))' = Before(d, Len(queue[d]) + 1)
      BY <1>3, Zenon DEF Before
    <2> QED  BY <1>2, <1>3, <1>4, <2>1, Zenon DEF IInv, Ends
  <1>8. ASSUME NEW d \in Ep PROVE CallOK(d)'
    <2>1. CallOK(d)
      BY Zenon DEF IInv
    <2>2. ASSUME pc'[d] = "link"
          PROVE  \E i \in 1 .. Len(queue'[dst'[d]]) : Linking(d, dst[d], i)'
      <3>1. PICK u \in Ep : u = dst[d]
        BY <1>1, Zenon DEF TypeOK
      <3>2. \A i \in Places(u) : (Before(u, i))' = Before(u, i)
        BY <1>3, Zenon DEF Before
      <3> QED  BY <1>3, <2>2, <3>1, <3>2, LinkerFrame, Zenon
    <2> QED  BY <1>3, <2>1, <2>2, Zenon DEF CallOK
  <1>9. Placed' /\ LinkOnce'
    BY <1>3 DEF IInv, Placed, LinkOnce
  <1> QED  BY <1>1, <1>6, <1>7, <1>8, <1>9, Zenon DEF IInv

LEMMA NextKeeps == IInv /\ [Next]_vars => IInv'
  <1> SUFFICES ASSUME IInv, [Next]_vars PROVE IInv'
    BY Zenon
  <1>1. CASE UNCHANGED vars
    <2>1. TypeOK'
      BY <1>1, Zenon DEF vars, IInv, TypeOK
    <2>5. Placed'
      <3>1. Placed
        BY Zenon DEF IInv
      <3>2. held' = held /\ queue' = queue
        BY <1>1, Zenon DEF vars
      <3> QED  BY <3>1, <3>2, PlacedKept, Zenon
    <2>6. LinkOnce'
      BY <1>1, Zenon DEF vars, IInv, LinkOnce
    <2>2. ASSUME NEW d \in Ep PROVE Chained(d)'
      <3>1. ASSUME NEW i PROVE Before(d, i)' = Before(d, i)
        BY <1>1, Zenon DEF vars, Before, Reading
      <3>2. ASSUME NEW y PROVE LinkOf(d, y)' = LinkOf(d, y)
        BY <1>1, Zenon DEF vars, LinkOf
      <3>3. ASSUME NEW i, NEW e \in Ep PROVE Linking(e, d, i)' = Linking(e, d, i)
        BY <1>1, <3>1, Zenon DEF vars, Linking
      <3>4. queue' = queue /\ pc' = pc /\ ent' = ent
        BY <1>1, Zenon DEF vars
      <3> QED  BY <3>1, <3>2, <3>3, <3>4 DEF IInv, Chained
    <2>3. ASSUME NEW d \in Ep PROVE Ends(d)'
      BY <1>1, Zenon DEF vars, IInv, Ends, Before, Reading
    <2>4. ASSUME NEW d \in Ep PROVE CallOK(d)'
      BY <1>1, Zenon DEF vars, IInv, CallOK, Linking, Before, Reading
    <2> QED  BY <2>1, <2>2, <2>3, <2>4, <2>5, <2>6, Zenon DEF IInv
  <1>2. ASSUME NEW e \in Ep, NEW d \in Ep, NEW x \in Ent, Write(e, d, x) PROVE IInv'
    BY <1>2, WriteKeeps, Zenon
  <1>3. ASSUME NEW e \in Ep, Swap(e) PROVE IInv'
    BY <1>3, SwapKeeps, Zenon
  <1>4. ASSUME NEW e \in Ep, Link(e) PROVE IInv'
    BY <1>4, LinkKeeps, Zenon
  <1>5. ASSUME NEW e \in Ep, Read(e) PROVE IInv'
    <2>1. CASE ReadHead(e)
      BY <2>1, ReadHeadKeeps, Zenon
    <2>2. CASE ReadNext(e)
      <3>1. Reading(e)
        BY <2>2, Zenon DEF ReadNext, Reading
      <3>2. CASE Advance(e)
        BY <3>1, <3>2, AdvanceKeeps, Zenon
      <3>3. CASE pc' = [pc EXCEPT ![e] = "cas"] /\ UNCHANGED <<head, tail, next, held, ent, dst, prev, queue>>
        BY <3>1, <3>3, TestKeeps, Zenon
      <3> QED  BY <2>2, <3>2, <3>3, Zenon DEF ReadNext
    <2>3. CASE ReadCas(e)
      <3>1. Reading(e) /\ pc[e] = "cas"
        BY <2>3, Zenon DEF ReadCas, Reading
      <3>2. CASE /\ tail[e] = ent[e] /\ tail' = [tail EXCEPT ![e] = Free]
                 /\ Return(e) /\ UNCHANGED <<head, next, held, queue>>
        BY <3>1, <3>2, CasLastKeeps, Zenon
      <3>3. CASE /\ tail[e] # ent[e] /\ pc' = [pc EXCEPT ![e] = "spin"]
                 /\ UNCHANGED <<head, tail, next, held, ent, dst, prev, queue>>
        BY <3>1, <3>3, TestKeeps, Zenon
      <3> QED  BY <2>3, <3>2, <3>3, Zenon DEF ReadCas
    <2>4. CASE ReadSpin(e)
      BY <2>4, AdvanceKeeps, Zenon DEF ReadSpin, Reading
    <2> QED  BY <1>5, <2>1, <2>2, <2>3, <2>4, Zenon DEF Read
  <1> QED  BY <1>1, <1>2, <1>3, <1>4, <1>5, Zenon DEF Next

\* The links of sm2_fifo.h and the ones its writers owe always spell out
\* the queues, and an entry is never in two places.
THEOREM Invariant == Spec => []IInv
  <1> QED  BY InitHolds, NextKeeps, PTL DEF Spec

\* sm2_fifo_read returns NULL although entries are queued only while the
\* writer of the first is between its swap and its store to the head.
THEOREM NullReads == Spec => []NullOnlyBehindWriter
  <1>1. IInv => NullOnlyBehindWriter
    <2> SUFFICES ASSUME IInv, NEW d \in Ep, ~ Reading(d), head[d] = Free, queue[d] # << >>
                 PROVE  \E e \in Ep : pc[e] = "link" /\ dst[e] = d /\ ent[e] = Head(queue[d])
      BY Zenon DEF NullOnlyBehindWriter
    <2>1. queue[d] \in Seq(Ent) /\ Chained(d)
      BY Zenon DEF IInv, TypeOK
    <2>2. 1 \in 1 .. Len(queue[d]) /\ queue[d][1] = Head(queue[d]) /\ queue[d][1] \in Ent
      BY <2>1
    <2>3. LinkOf(d, Before(d, 1)) = Free
      BY DEF LinkOf, Before
    <2>4. \E e \in Ep : Linking(e, d, 1)
      BY <2>1, <2>2, <2>3, Zenon DEF Chained
    <2> QED  BY <2>2, <2>4, Zenon DEF Linking
  <1> QED  BY <1>1, Invariant, PTL

LEMMA StepRefines == IInv /\ [Next]_vars => [WQ!Next]_(WQ!vars)
  <1> SUFFICES ASSUME IInv, [Next]_vars PROVE WQ!Next \/ UNCHANGED <<held, queue>>
    BY Zenon DEF WQ!vars
  <1>1. CASE UNCHANGED vars
    BY <1>1, Zenon DEF vars
  <1>2. ASSUME NEW e \in Ep, NEW d \in Ep, NEW x \in Ent, Write(e, d, x)
        PROVE  UNCHANGED <<held, queue>>
    BY <1>2, Zenon DEF Write
  <1>3. ASSUME NEW e \in Ep, Swap(e) PROVE WQ!Next
    <2>1. dst[e] \in Ep /\ ent[e] \in held[e] /\ ent[e] \in Ent
      BY <1>3, Zenon DEF IInv, TypeOK, CallOK, Swap
    <2>2. WQ!Write(e, dst[e], ent[e])
      BY <1>3, <2>1, Zenon DEF Swap, WQ!Write
    <2> QED  BY <2>1, <2>2, Zenon DEF WQ!Next
  <1>4. ASSUME NEW e \in Ep, Link(e) PROVE UNCHANGED <<held, queue>>
    BY <1>4, Zenon DEF Link
  <1>5. ASSUME NEW e \in Ep, Read(e) PROVE WQ!Next \/ UNCHANGED <<held, queue>>
    <2>1. CASE ReadHead(e)
      <3>1. queue[e] # << >> /\ head[e] = Head(queue[e])
        BY <2>1, HeadIsFirst, Zenon DEF ReadHead, Reading
      <3>2. WQ!Read(e)
        BY <2>1, <3>1, Zenon DEF ReadHead, WQ!Read
      <3> QED  BY <3>2, Zenon DEF WQ!Next
    <2>2. CASE ReadNext(e) \/ ReadCas(e) \/ ReadSpin(e)
      BY <2>2, Zenon DEF ReadNext, ReadCas, ReadSpin, Advance
    <2> QED  BY <1>5, <2>1, <2>2, Zenon DEF Read
  <1> QED  BY <1>1, <1>2, <1>3, <1>4, <1>5, Zenon DEF Next

\* The queues implement ones whose writes are atomic: each entry written is
\* read once, by the endpoint it was written to, in the order of the swaps.
THEOREM FifoImplementsQueue == Spec => ImplementsQueue
  <1>1. Init => WQ!Init
    BY Zenon DEF Init, WQ!Init
  <1> QED  BY <1>1, Invariant, StepRefines, PTL DEF Spec, ImplementsQueue, WQ!Spec
=============================================================================
