------------------------------ MODULE Sm2Steps ------------------------------
(***************************************************************************)
(* The sm2 protocol, for any endpoints, entries, messages and receives,    *)
(* and endpoints that close at any time: IInv of Sm2 is inductive.         *)
(*                                                                         *)
(* First what the steps have in common: an entry changes hands or a message*)
(* is set aside and started later, a send or a receive completes, and the  *)
(* rest stays. Each of these lemmas says which conjunct of IInv that keeps.*)
(* Then the actions, one lemma each.                                       *)
(***************************************************************************)
EXTENDS Sm2, TLAPS

(***************************************************************************)
(* Sequences: what Add and Drop do to what a sequence holds.               *)
(***************************************************************************)
LEMMA Item ==
    ASSUME NEW S, NEW s \in Seq(S), NEW i \in DOMAIN s
    PROVE  s[i] \in S
  OBVIOUS

LEMMA Appended ==
    ASSUME NEW S, NEW s \in Seq(S), NEW v \in S
    PROVE  /\ Append(s, v) \in Seq(S)
           /\ Range(Append(s, v)) = Range(s) \cup {v}
           /\ IsInjective(s) /\ v \notin Range(s) => IsInjective(Append(s, v))
  <1>1. /\ Append(s, v) \in Seq(S) /\ Len(s) \in Nat
        /\ DOMAIN s = 1 .. Len(s) /\ DOMAIN Append(s, v) = 1 .. Len(s) + 1
        /\ \A i \in 1 .. Len(s) : Append(s, v)[i] = s[i]
        /\ Append(s, v)[Len(s) + 1] = v
    OBVIOUS
  <1>2. 1 .. Len(s) + 1 = (1 .. Len(s)) \cup {Len(s) + 1} /\ Len(s) + 1 \notin 1 .. Len(s)
    BY <1>1
  <1>3. Range(Append(s, v)) = Range(s) \cup {v}
    BY <1>1, <1>2 DEF Range
  <1>4. ASSUME IsInjective(s), v \notin Range(s)
        PROVE  IsInjective(Append(s, v))
    BY <1>1, <1>2, <1>4 DEF Range, IsInjective
  <1> QED  BY <1>1, <1>3, <1>4, Zenon

LEMMA Removed ==
    ASSUME NEW S, NEW s \in Seq(S), s # << >>
    PROVE  /\ Head(s) \in S /\ Head(s) \in Range(s) /\ Tail(s) \in Seq(S)
           /\ Range(s) = Range(Tail(s)) \cup {Head(s)}
           /\ IsInjective(s) => IsInjective(Tail(s)) /\ Head(s) \notin Range(Tail(s))
  <1>1. /\ Tail(s) \in Seq(S) /\ Len(s) \in Nat /\ Len(s) >= 1 /\ Head(s) = s[1] /\ Head(s) \in S
        /\ DOMAIN s = 1 .. Len(s) /\ DOMAIN Tail(s) = 1 .. Len(s) - 1
        /\ \A i \in 1 .. Len(s) - 1 : Tail(s)[i] = s[i + 1] /\ i + 1 \in 1 .. Len(s)
        /\ 1 \in 1 .. Len(s)
    OBVIOUS
  <1>2. \A i \in 1 .. Len(s) : i = 1 \/ (i - 1 \in 1 .. Len(s) - 1 /\ Tail(s)[i - 1] = s[i])
    BY <1>1
  <1>3. Range(s) = Range(Tail(s)) \cup {Head(s)}
    <2>1. ASSUME NEW v \in Range(s) PROVE v \in Range(Tail(s)) \cup {Head(s)}
      <3>1. PICK i \in 1 .. Len(s) : v = s[i]
        BY <1>1, Zenon DEF Range
      <3>2. CASE i = 1
        BY <1>1, <3>1, <3>2, Zenon
      <3>3. CASE i - 1 \in 1 .. Len(s) - 1 /\ Tail(s)[i - 1] = s[i]
        BY <1>1, <3>1, <3>3, Zenon DEF Range
      <3> QED  BY <1>2, <3>2, <3>3, Zenon
    <2>2. ASSUME NEW v \in Range(Tail(s)) PROVE v \in Range(s)
      BY <1>1 DEF Range
    <2> QED  BY <1>1, <2>1, <2>2 DEF Range
  <1>4. ASSUME IsInjective(s)
        PROVE  IsInjective(Tail(s)) /\ Head(s) \notin Range(Tail(s))
    <2>1. \A i, j \in 1 .. Len(s) - 1 : s[i + 1] = s[j + 1] => i = j
      BY <1>1, <1>4 DEF IsInjective
    <2>2. \A i \in 1 .. Len(s) - 1 : s[i + 1] # s[1]
      BY <1>1, <1>4 DEF IsInjective
    <2> QED  BY <1>1, <2>1, <2>2 DEF Range, IsInjective
  <1> QED  BY <1>1, <1>3, <1>4, Zenon

(***************************************************************************)
(* The three ways in which an entry changes hands.  Moved says where it is *)
(* afterwards, if it is in a queue.                                        *)
(***************************************************************************)
Moved(x, h, D) ==
    /\ hdr' = [hdr EXCEPT ![x] = h]
    /\ \A f \in Ep : \A y \in Ent : In(f, y)' <=> IF y = x THEN f \in D ELSE In(f, y)

PlacesOK ==
    /\ free \in [Ep -> SUBSET Ent]
    /\ hdr \in [Ent -> Header \cup {NoHdr}]
    /\ queue \in [Ep -> Seq(Ent)]

\* An entry is taken from a free stack and written to a queue.
LEMMA TakeStep ==
    ASSUME PlacesOK, Apart, NEW e \in Ep, NEW d \in Ep, NEW x \in free[e], NEW h \in Header,
           free' = [free EXCEPT ![e] = @ \ {x}],
           hdr' = [hdr EXCEPT ![x] = h],
           queue' = Add(queue, d, x)
    PROVE  x \in Ent /\ PlacesOK' /\ Apart' /\ Moved(x, h, {d})
  <1>1. x \in Ent
    BY Zenon DEF PlacesOK
  <1>2. /\ queue' = [queue EXCEPT ![d] = Append(@, x)]
        /\ \A f \in Ep : queue'[f] = IF f = d THEN Append(queue[f], x) ELSE queue[f]
        /\ \A f \in Ep : free'[f] = IF f = e THEN free[f] \ {x} ELSE free[f]
    BY Zenon DEF Add, PlacesOK
  <1>3. PlacesOK'
    BY <1>1, <1>2 DEF PlacesOK
  <1>4. \A f \in Ep : x \notin Range(queue[f])
    BY <1>1, Zenon DEF Apart, In
  <1>5. /\ \A f \in Ep : Range(queue'[f]) = IF f = d THEN Range(queue[f]) \cup {x} ELSE Range(queue[f])
        /\ \A f \in Ep : IsInjective(queue'[f])
    <2> SUFFICES ASSUME NEW f \in Ep
                 PROVE  /\ Range(queue'[f]) = IF f = d THEN Range(queue[f]) \cup {x} ELSE Range(queue[f])
                        /\ IsInjective(queue'[f])
      BY Zenon
    <2>1. queue[f] \in Seq(Ent) /\ IsInjective(queue[f])
      BY Zenon DEF PlacesOK, Apart
    <2>2. /\ Range(Append(queue[f], x)) = Range(queue[f]) \cup {x}
          /\ IsInjective(Append(queue[f], x))
      BY <1>1, <1>4, <2>1, Appended
    <2> QED  BY <1>2, <2>1, <2>2, Zenon
  <1>6. \A f \in Ep : \A y \in Ent : In(f, y)' <=> IF y = x THEN f \in {d} ELSE In(f, y)
    BY <1>4, <1>5, Zenon DEF In
  <1>7. \A f \in Ep : \A y \in Ent : y \in free'[f] <=> y # x /\ y \in free[f]
    BY <1>1, <1>2 DEF Apart
  <1>8. Apart'
    <2>1. \A f, g \in Ep : \A y \in Ent :
             /\ In(f, y)' /\ In(g, y)' => f = g
             /\ y \in free'[f] /\ y \in free'[g] => f = g
             /\ ~(y \in free'[f] /\ In(g, y)')
      BY <1>6, <1>7 DEF Apart
    <2>2. \A y \in Ent : \E f \in Ep : y \in free'[f] \/ In(f, y)'
      BY <1>6, <1>7, Zenon DEF Apart
    <2> QED  BY <1>5, <2>1, <2>2, Zenon DEF Apart
  <1> QED  BY <1>1, <1>3, <1>6, <1>8, Zenon DEF Moved

\* The entry at the head of a queue is written to another queue: Pass.
LEMMA PassStep ==
    ASSUME PlacesOK, Apart, NEW e \in Ep, NEW d \in Ep, queue[e] # << >>, NEW x,
           x = Head(queue[e]), NEW h \in Header, Pass(e, x, h, d)
    PROVE  x \in Ent /\ In(e, x) /\ PlacesOK' /\ Apart' /\ Moved(x, h, {d})
  <1>1. /\ queue[e] \in Seq(Ent) /\ IsInjective(queue[e])
        /\ x \in Ent /\ x \in Range(queue[e]) /\ Tail(queue[e]) \in Seq(Ent)
        /\ Range(queue[e]) = Range(Tail(queue[e])) \cup {x}
        /\ IsInjective(Tail(queue[e])) /\ x \notin Range(Tail(queue[e]))
    BY Removed, Zenon DEF PlacesOK, Apart
  <1>2. /\ \A f \in Ep : Drop(queue, e)[f] = IF f = e THEN Tail(queue[f]) ELSE queue[f]
        /\ \A f \in Ep : queue'[f] = IF f = d THEN Append(Drop(queue, e)[f], x) ELSE Drop(queue, e)[f]
        /\ Drop(queue, e) \in [Ep -> Seq(Ent)]
        /\ queue' \in [Ep -> Seq(Ent)]
    <2>1. /\ \A f \in Ep : Drop(queue, e)[f] = IF f = e THEN Tail(queue[f]) ELSE queue[f]
          /\ Drop(queue, e) \in [Ep -> Seq(Ent)]
      BY <1>1, Zenon DEF Drop, PlacesOK
    <2>2. queue' = [Drop(queue, e) EXCEPT ![d] = Append(@, x)]
      BY Zenon DEF Pass, Add
    <2> QED  BY <1>1, <2>1, <2>2
  <1>3. PlacesOK'
    BY <1>1, <1>2, Zenon DEF PlacesOK, Pass
  <1>4. \A f \in Ep : /\ Range(Drop(queue, e)[f]) = Range(queue[f]) \ {x}
                      /\ IsInjective(Drop(queue, e)[f])
    <2> SUFFICES ASSUME NEW f \in Ep
                 PROVE  /\ Range(Drop(queue, e)[f]) = Range(queue[f]) \ {x}
                        /\ IsInjective(Drop(queue, e)[f])
      BY Zenon
    <2>1. CASE f = e
      BY <1>1, <1>2, <2>1, Zenon
    <2>2. CASE f # e
      <3>1. x \notin Range(queue[f]) /\ IsInjective(queue[f])
        BY <1>1, <2>2, Zenon DEF Apart, In
      <3> QED  BY <1>2, <2>2, <3>1, Zenon
    <2> QED  BY <2>1, <2>2, Zenon
  <1>5. \A f \in Ep : /\ Range(queue'[f]) = (Range(queue[f]) \ {x}) \cup (IF f = d THEN {x} ELSE {})
                      /\ IsInjective(queue'[f])
    <2> SUFFICES ASSUME NEW f \in Ep
                 PROVE  /\ Range(queue'[f]) = (Range(queue[f]) \ {x}) \cup (IF f = d THEN {x} ELSE {})
                        /\ IsInjective(queue'[f])
      BY Zenon
    <2>1. CASE f = d
      <3>1. Drop(queue, e)[f] \in Seq(Ent)
        BY <1>2, Zenon
      <3>2. /\ Range(Append(Drop(queue, e)[f], x)) = (Range(queue[f]) \ {x}) \cup {x}
            /\ IsInjective(Append(Drop(queue, e)[f], x))
        BY <1>1, <1>4, <3>1, Appended
      <3> QED  BY <1>2, <2>1, <3>2, Zenon
    <2>2. CASE f # d
      BY <1>2, <1>4, <2>2, Zenon
    <2> QED  BY <2>1, <2>2, Zenon
  <1>6. \A f \in Ep : \A y \in Ent : In(f, y)' <=> IF y = x THEN f \in {d} ELSE In(f, y)
    BY <1>5, Zenon DEF In
  <1>7. In(e, x) /\ free' = free
    BY <1>1, Zenon DEF In, Pass
  <1>8. Apart'
    <2>1. \A f, g \in Ep : \A y \in Ent :
             /\ In(f, y)' /\ In(g, y)' => f = g
             /\ y \in free'[f] /\ y \in free'[g] => f = g
             /\ ~(y \in free'[f] /\ In(g, y)')
      BY <1>6, <1>7 DEF Apart
    <2>2. \A y \in Ent : \E f \in Ep : y \in free'[f] \/ In(f, y)'
      BY <1>6, <1>7, Zenon DEF Apart
    <2> QED  BY <1>5, <2>1, <2>2, Zenon DEF Apart
  <1> QED  BY <1>1, <1>3, <1>6, <1>7, <1>8, Zenon DEF Moved, Pass

\* The entry at the head of a queue is pushed on the free stack.
LEMMA PushStep ==
    ASSUME PlacesOK, Apart, NEW e \in Ep, queue[e] # << >>, NEW x,
           x = Head(queue[e]), Push(e, x)
    PROVE  /\ x \in Ent /\ In(e, x) /\ PlacesOK' /\ Apart' /\ Moved(x, NoHdr, {})
           /\ \A f \in Ep : free'[f] \subseteq free[f] \cup (IF f = e THEN {x} ELSE {})
  <1>1. /\ queue[e] \in Seq(Ent) /\ IsInjective(queue[e])
        /\ x \in Ent /\ x \in Range(queue[e]) /\ Tail(queue[e]) \in Seq(Ent)
        /\ Range(queue[e]) = Range(Tail(queue[e])) \cup {x}
        /\ IsInjective(Tail(queue[e])) /\ x \notin Range(Tail(queue[e]))
    BY Removed, Zenon DEF PlacesOK, Apart
  <1>2. /\ \A f \in Ep : queue'[f] = IF f = e THEN Tail(queue[f]) ELSE queue[f]
        /\ queue' \in [Ep -> Seq(Ent)]
        /\ \A f \in Ep : free'[f] = IF f = e THEN free[f] \cup {x} ELSE free[f]
    BY <1>1, Zenon DEF Push, Drop, PlacesOK
  <1>3. PlacesOK'
    BY <1>1, <1>2, Zenon DEF PlacesOK, Push
  <1>4. \A f \in Ep : /\ Range(queue'[f]) = Range(queue[f]) \ {x}
                      /\ IsInjective(queue'[f])
    <2> SUFFICES ASSUME NEW f \in Ep
                 PROVE  /\ Range(queue'[f]) = Range(queue[f]) \ {x}
                        /\ IsInjective(queue'[f])
      BY Zenon
    <2>1. CASE f = e
      BY <1>1, <1>2, <2>1, Zenon
    <2>2. CASE f # e
      <3>1. x \notin Range(queue[f]) /\ IsInjective(queue[f])
        BY <1>1, <2>2, Zenon DEF Apart, In
      <3> QED  BY <1>2, <2>2, <3>1, Zenon
    <2> QED  BY <2>1, <2>2, Zenon
  <1>5. \A f \in Ep : \A y \in Ent : In(f, y)' <=> y # x /\ In(f, y)
    BY <1>4, Zenon DEF In
  <1>6. In(e, x) /\ \A f \in Ep : x \notin free[f]
    BY <1>1, Zenon DEF In, Apart
  <1>7. \A f \in Ep : \A y \in Ent : y \in free'[f] <=> y \in free[f] \/ (y = x /\ f = e)
    BY <1>2, Zenon
  <1>8. Apart'
    <2>1. \A f, g \in Ep : \A y \in Ent :
             /\ In(f, y)' /\ In(g, y)' => f = g
             /\ y \in free'[f] /\ y \in free'[g] => f = g
             /\ ~(y \in free'[f] /\ In(g, y)')
      BY <1>5, <1>6, <1>7 DEF Apart
    <2>2. \A y \in Ent : \E f \in Ep : y \in free'[f] \/ In(f, y)'
      <3> SUFFICES ASSUME NEW y \in Ent PROVE \E f \in Ep : y \in free'[f] \/ In(f, y)'
        BY Zenon
      <3>1. PICK f \in Ep : y \in free[f] \/ In(f, y)
        BY Zenon DEF Apart
      <3> QED  BY <1>5, <1>7, <3>1, Zenon
    <2> QED  BY <1>4, <2>1, <2>2, Zenon DEF Apart
  <1>9. Moved(x, NoHdr, {})
    BY <1>5, Zenon DEF Moved, Push
  <1> QED  BY <1>1, <1>2, <1>3, <1>6, <1>8, <1>9, Zenon

(***************************************************************************)
(* Completions.                                                            *)
(***************************************************************************)
LEMMA TxRecord ==
    ASSUME txdone \in [Ep -> Seq(Message)], NEW e \in Ep, NEW m \in Message,
           NEW tx \in BOOLEAN, tx => m.from = e, txdone' = IF tx THEN Add(txdone, e, m) ELSE txdone
    PROVE  /\ txdone' \in [Ep -> Seq(Message)]
           /\ \A f \in Ep : Range(txdone'[f]) = Range(txdone[f]) \cup (IF tx /\ f = e THEN {m} ELSE {})
           /\ \A k \in Message : Sent(k)' <=> Sent(k) \/ (tx /\ k = m)
           /\ \A f \in Ep : IsInjective(txdone[f]) /\ (tx => ~Sent(m)) => IsInjective(txdone'[f])
  <1>1. CASE ~tx
    BY <1>1, Zenon DEF Sent, Message
  <1>2. CASE tx
    <2>1. /\ txdone' = [txdone EXCEPT ![e] = Append(@, m)]
          /\ \A f \in Ep : txdone'[f] = IF f = e THEN Append(txdone[f], m) ELSE txdone[f]
          /\ txdone' \in [Ep -> Seq(Message)]
      BY <1>2 DEF Add
    <2>2. /\ Range(Append(txdone[e], m)) = Range(txdone[e]) \cup {m}
          /\ IsInjective(txdone[e]) /\ m \notin Range(txdone[e]) => IsInjective(Append(txdone[e], m))
      BY Appended
    <2>3. \A f \in Ep : Range(txdone'[f]) = Range(txdone[f]) \cup (IF tx /\ f = e THEN {m} ELSE {})
      BY <1>2, <2>1, <2>2, Zenon
    <2>4. \A k \in Message : Sent(k)' <=> Sent(k) \/ (tx /\ k = m)
      BY <1>2, <2>3, Zenon DEF Sent, Message
    <2>5. \A f \in Ep : IsInjective(txdone[f]) /\ (tx => ~Sent(m)) => IsInjective(txdone'[f])
      BY <1>2, <2>1, <2>2, Zenon DEF Sent
    <2> QED  BY <2>1, <2>3, <2>4, <2>5, Zenon
  <1> QED  BY <1>1, <1>2, Zenon

RxDone == [msg : Message, ctx : Nat, ok : BOOLEAN]

LEMMA RxRecord ==
    ASSUME rxdone \in [Ep -> Seq(RxDone)], NEW e \in Ep, NEW m \in Message,
           NEW r \in RxDone, r.msg = m, NEW rx \in BOOLEAN, rx => m.to = e,
           rxdone' = IF rx THEN Add(rxdone, e, r) ELSE rxdone
    PROVE  /\ rxdone' \in [Ep -> Seq(RxDone)]
           /\ \A f \in Ep : Range(Msgs(rxdone'[f])) =
                   Range(Msgs(rxdone[f])) \cup (IF rx /\ f = e THEN {m} ELSE {})
           /\ \A f \in Ep : Range(rxdone'[f]) =
                   Range(rxdone[f]) \cup (IF rx /\ f = e THEN {r} ELSE {})
           /\ \A k \in Message : Got(k)' <=> Got(k) \/ (rx /\ k = m)
           /\ \A f \in Ep : IsInjective(Msgs(rxdone[f])) /\ (rx => ~Got(m)) => IsInjective(Msgs(rxdone'[f]))
  <1>1. CASE ~rx
    BY <1>1, Zenon DEF Got, Message
  <1>2. CASE rx
    <2>1. /\ rxdone' = [rxdone EXCEPT ![e] = Append(@, r)]
          /\ \A f \in Ep : rxdone'[f] = IF f = e THEN Append(rxdone[f], r) ELSE rxdone[f]
          /\ rxdone' \in [Ep -> Seq(RxDone)]
      BY <1>2 DEF Add
    <2>2. /\ Msgs(rxdone[e]) \in Seq(Message)
          /\ Msgs(Append(rxdone[e], r)) = Append(Msgs(rxdone[e]), m)
      <3>1. /\ rxdone[e] \in Seq(RxDone) /\ Len(rxdone[e]) \in Nat
            /\ DOMAIN rxdone[e] = 1 .. Len(rxdone[e])
            /\ DOMAIN Append(rxdone[e], r) = 1 .. Len(rxdone[e]) + 1
            /\ \A i \in 1 .. Len(rxdone[e]) : Append(rxdone[e], r)[i] = rxdone[e][i] /\ rxdone[e][i] \in RxDone
            /\ Append(rxdone[e], r)[Len(rxdone[e]) + 1] = r
        OBVIOUS
      <3>2. /\ Msgs(rxdone[e]) \in [1 .. Len(rxdone[e]) -> Message]
            /\ \A i \in 1 .. Len(rxdone[e]) : Msgs(rxdone[e])[i] = rxdone[e][i].msg
        BY <3>1, Zenon DEF Msgs, RxDone
      <3>3. Msgs(rxdone[e]) \in Seq(Message) /\ Len(Msgs(rxdone[e])) = Len(rxdone[e])
        BY <3>1, <3>2
      <3>4. Msgs(Append(rxdone[e], r)) =
              [i \in 1 .. Len(rxdone[e]) + 1 |-> IF i = Len(rxdone[e]) + 1 THEN m ELSE rxdone[e][i].msg]
        BY <3>1 DEF Msgs
      <3>5. Append(Msgs(rxdone[e]), m) =
              [i \in 1 .. Len(rxdone[e]) + 1 |-> IF i = Len(rxdone[e]) + 1 THEN m ELSE rxdone[e][i].msg]
        BY <3>1, <3>2, <3>3
      <3> QED  BY <3>3, <3>4, <3>5, Zenon
    <2>3. /\ Range(Append(Msgs(rxdone[e]), m)) = Range(Msgs(rxdone[e])) \cup {m}
          /\ IsInjective(Msgs(rxdone[e])) /\ m \notin Range(Msgs(rxdone[e])) =>
                IsInjective(Append(Msgs(rxdone[e]), m))
      BY <2>2, Appended
    <2>4. Range(Append(rxdone[e], r)) = Range(rxdone[e]) \cup {r}
      BY Appended
    <2>5. \A f \in Ep : Range(Msgs(rxdone'[f])) = Range(Msgs(rxdone[f])) \cup (IF rx /\ f = e THEN {m} ELSE {})
      BY <1>2, <2>1, <2>2, <2>3, Zenon
    <2>6. \A f \in Ep : Range(rxdone'[f]) = Range(rxdone[f]) \cup (IF rx /\ f = e THEN {r} ELSE {})
      BY <1>2, <2>1, <2>4, Zenon
    <2>7. \A k \in Message : Got(k)' <=> Got(k) \/ (rx /\ k = m)
      BY <1>2, <2>5 DEF Got, Message
    <2>8. \A f \in Ep : IsInjective(Msgs(rxdone[f])) /\ (rx => ~Got(m)) => IsInjective(Msgs(rxdone'[f]))
      BY <1>2, <2>1, <2>2, <2>3, Zenon DEF Got
    <2> QED  BY <2>1, <2>5, <2>6, <2>7, <2>8, Zenon
  <1> QED  BY <1>1, <1>2, Zenon

(***************************************************************************)
(* An entry moves.  What it becomes has one of the shapes, comes from the  *)
(* same stack, speaks of the same message.                                 *)
(***************************************************************************)
Grown ==
    /\ placed \subseteq placed'
    /\ \A e \in Ep : Range(applied[e]) \subseteq Range(applied'[e])

LEMMA ShapeKept ==
    ASSUME NEW e \in Ep, NEW h \in Header, Shape(e, h), Grown
    PROVE  Shape(e, h)'
  <1>1. h.msg.to \in Ep
    BY Zenon DEF Header, Message
  <1>2. Range(applied[h.msg.to]) \subseteq Range(applied'[h.msg.to]) /\ placed \subseteq placed'
    BY <1>1, Zenon DEF Grown
  <1> QED  BY <1>2, Zenon DEF Shape, Returning

LEMMA ShapesMove ==
    ASSUME TypeOK, Shapes, Grown, NEW x \in Ent, NEW h, NEW D \in SUBSET Ep, Moved(x, h, D),
           \A f \in D : h \in Header /\ Shape(f, h)',
           \A e \in Ep : \A i \in DOMAIN unexp'[e] : Aside(e, unexp'[e][i].h)
    PROVE  Shapes'
  <1>1. \A y \in Ent : hdr'[y] = IF y = x THEN h ELSE hdr[y]
    BY Zenon DEF Moved, TypeOK
  <1>2. ASSUME NEW f \in Ep, NEW y \in Ent, In(f, y)'
        PROVE  hdr'[y] \in Header /\ Shape(f, hdr[y])'
    <2>1. CASE y = x
      <3>1. f \in D
        BY <1>2, <2>1, Zenon DEF Moved
      <3> QED  BY <1>1, <2>1, <3>1 DEF Shape, Returning
    <2>2. CASE y # x
      <3>1. In(f, y)
        BY <1>2, <2>2, Zenon DEF Moved
      <3>2. PICK k \in Header : k = hdr[y] /\ Shape(f, k)
        BY <3>1, Zenon DEF Shapes
      <3>3. Shape(f, k)'
        BY <3>2, ShapeKept, Zenon
      <3>4. hdr'[y] = k
        BY <1>1, <2>2, <3>2, Zenon
      <3> QED  BY <3>2, <3>3, <3>4, Zenon DEF Shape, Returning
    <2> QED  BY <2>1, <2>2, Zenon
  <1>3. \A e \in Ep : \A i \in DOMAIN unexp'[e] : Aside(e, unexp[e][i].h)'
    BY Zenon DEF Aside
  <1> QED  BY <1>2, <1>3, Zenon DEF Shapes

LEMMA HomesMove ==
    ASSUME TypeOK, Homes, life' = life, NEW x \in Ent, NEW h, NEW D \in SUBSET Ep, Moved(x, h, D),
           \A f \in Ep : \A y \in free'[f] :
               y \in free[f] \/ (NeverClosed => Owner(y) = f),
           \A f \in D : NeverClosed => Owner(x) = HomeOf(f, h)
    PROVE  Homes'
  <1>1. \A y \in Ent : hdr'[y] = IF y = x THEN h ELSE hdr[y]
    BY Zenon DEF Moved, TypeOK
  <1> SUFFICES ASSUME NeverClosed
               PROVE  /\ \A e \in Ep : \A y \in free'[e] : Owner(y) = e
                      /\ \A e \in Ep : \A y \in Ent : In(e, y)' => Owner(y) = HomeOf(e, hdr'[y])
    BY Zenon DEF Homes, NeverClosed, HomeOf, Returning, Owner
  <1>2. \A e \in Ep : \A y \in free'[e] : Owner(y) = e
    BY Zenon DEF Homes
  <1>3. ASSUME NEW e \in Ep, NEW y \in Ent, In(e, y)'
        PROVE  Owner(y) = HomeOf(e, hdr'[y])
    <2>1. CASE y = x
      BY <1>1, <1>3, <2>1, Zenon DEF Moved
    <2>2. CASE y # x
      BY <1>1, <1>3, <2>2, Zenon DEF Moved, Homes
    <2> QED  BY <2>1, <2>2, Zenon
  <1> QED  BY <1>2, <1>3, Zenon

LEMMA BusyMove ==
    ASSUME TypeOK, NEW x \in Ent, NEW h, NEW D \in SUBSET Ep, Moved(x, h, D)
    PROVE  /\ hdr'[x] = h /\ (Busy(x)' <=> D # {} /\ ~Returning(h))
           /\ \A y \in Ent : y # x => hdr'[y] = hdr[y] /\ (Busy(y)' <=> Busy(y))
  <1>1. \A y \in Ent : hdr'[y] = IF y = x THEN h ELSE hdr[y]
    BY Zenon DEF Moved, TypeOK
  <1>2. \A y \in Ent : Busy(y)' <=> (\E f \in Ep : In(f, y)') /\ ~Returning(hdr'[y])
    BY Zenon DEF Busy, Returning
  <1>3. (\E f \in Ep : In(f, x)') <=> D # {}
    BY Zenon DEF Moved
  <1>4. \A y \in Ent : y # x => ((\E f \in Ep : In(f, y)') <=> \E f \in Ep : In(f, y))
    BY Zenon DEF Moved
  <1>5. Busy(x)' <=> D # {} /\ ~Returning(h)
    BY <1>1, <1>2, <1>3, Zenon
  <1>6. ASSUME NEW y \in Ent, y # x PROVE hdr'[y] = hdr[y] /\ (Busy(y)' <=> Busy(y))
    BY <1>1, <1>2, <1>4, <1>6, Zenon DEF Busy
  <1> QED  BY <1>1, <1>5, <1>6, Zenon

\* The message of an entry, and of what was set aside, is a message.
LEMMA MessagesOf ==
    ASSUME TypeOK, Shapes
    PROVE  /\ \A x \in Ent : Busy(x) => hdr[x] \in Header /\ hdr[x].msg \in Message
           /\ \A e \in Ep : \A i \in DOMAIN unexp[e] :
                  unexp[e][i].h \in Header /\ unexp[e][i].h.msg \in Message
  <1>1. \A k \in Header : k.msg \in Message
    BY Zenon DEF Header
  <1>2. \A x \in Ent : Busy(x) => hdr[x] \in Header
    BY Zenon DEF Busy, Shapes
  <1>3. ASSUME NEW e \in Ep, NEW i \in DOMAIN unexp[e] PROVE unexp[e][i].h \in Header
    <2>1. unexp[e] \in Seq([h : Header, slot : Slots])
      BY Zenon DEF TypeOK
    <2>2. unexp[e][i] \in [h : Header, slot : Slots]
      BY <2>1, Item, Zenon
    <2> QED  BY <2>2, Zenon
  <1> QED  BY <1>1, <1>2, <1>3, Zenon

LEMMA OnceMove ==
    ASSUME TypeOK, Once, issued' = issued, unexp' = unexp,
           NEW x \in Ent, NEW h, NEW D \in SUBSET Ep, Moved(x, h, D),
           D # {} /\ ~Returning(h) => Busy(x) /\ h.msg = hdr[x].msg
    PROVE  Once'
  <1>1. \A y \in Ent : Busy(y)' => Busy(y) /\ hdr'[y].msg = hdr[y].msg
    BY BusyMove, Zenon
  <1>2. \A m : Issued(m)' <=> Issued(m)
    BY Zenon DEF Issued
  <1>3. \A y, z \in Ent : Busy(y)' /\ Busy(z)' /\ hdr'[y].msg = hdr'[z].msg => y = z
    BY <1>1, Zenon DEF Once
  <1>4. \A y \in Ent : \A e \in Ep : \A i \in DOMAIN unexp'[e] : Busy(y)' => hdr'[y].msg # unexp'[e][i].h.msg
    BY <1>1 DEF Once
  <1>5. \A e \in Ep : \A i, j \in DOMAIN unexp'[e] : unexp'[e][i].h.msg = unexp'[e][j].h.msg => i = j
    BY Zenon DEF Once
  <1>6. \A y \in Ent : Busy(y)' => Issued(hdr[y].msg)'
    BY <1>1, Zenon DEF Once, Issued
  <1>7. \A e \in Ep : \A i \in DOMAIN unexp'[e] : Issued(unexp[e][i].h.msg)'
    BY Zenon DEF Once, Issued
  <1> QED  BY <1>3, <1>4, <1>5, <1>6, <1>7, Zenon DEF Once

\* The entry x becomes h, and m, if its send or receive completes, is its message.
Speaks(x, h, D, m, tx, rx) ==
    /\ tx \in BOOLEAN /\ rx \in BOOLEAN /\ m \in Message
    /\ \A k \in Message : Sent(k)' <=> Sent(k) \/ (tx /\ k = m)
    /\ \A k \in Message : Got(k)' <=> Got(k) \/ (rx /\ k = m)
    /\ tx \/ rx => Busy(x) /\ m = hdr[x].msg
    /\ D # {} /\ ~Returning(h) =>
          /\ Busy(x) /\ h.msg = hdr[x].msg
          /\ tx \/ "ACK" \in hdr[x].flags => Immediate(h.msg.kind) \/ "ACK" \in h.flags
          /\ rx \/ "RETURN" \in hdr[x].flags => "RETURN" \in h.flags

LEMMA OutstandingMove ==
    ASSUME TypeOK, Shapes, Once, Outstanding, unexp' = unexp,
           NEW x \in Ent, NEW h, NEW D \in SUBSET Ep, Moved(x, h, D),
           NEW m, NEW tx, NEW rx, Speaks(x, h, D, m, tx, rx)
    PROVE  Outstanding'
  <1> /\ tx \in BOOLEAN /\ rx \in BOOLEAN /\ m \in Message
      /\ \A k \in Message : Sent(k)' <=> Sent(k) \/ (tx /\ k = m)
      /\ \A k \in Message : Got(k)' <=> Got(k) \/ (rx /\ k = m)
    BY Zenon DEF Speaks
  <1> tx \/ rx => Busy(x) /\ m = hdr[x].msg
    BY Zenon DEF Speaks
  <1> D # {} /\ ~Returning(h) =>
            /\ Busy(x) /\ h.msg = hdr[x].msg
            /\ tx \/ "ACK" \in hdr[x].flags => Immediate(h.msg.kind) \/ "ACK" \in h.flags
            /\ rx \/ "RETURN" \in hdr[x].flags => "RETURN" \in h.flags
    BY Zenon DEF Speaks
  <1>1. \A y \in Ent : Busy(y)' => Busy(y) /\ hdr'[y].msg = hdr[y].msg /\ hdr[y].msg \in Message
    BY BusyMove, MessagesOf, Zenon
  <1>2. ASSUME NEW y \in Ent, Busy(y)'
        PROVE  /\ Sent(hdr[y].msg)' => Immediate(hdr'[y].msg.kind) \/ "ACK" \in hdr'[y].flags
               /\ Got(hdr[y].msg)' => "RETURN" \in hdr'[y].flags
    <2>0. PICK k \in Message : k = hdr[y].msg /\ k = hdr'[y].msg
      BY <1>1, <1>2, Zenon
    <2>1. Busy(y)
      BY <1>1, <1>2, Zenon
    <2>2. /\ Sent(k) => Immediate(k.kind) \/ "ACK" \in hdr[y].flags
          /\ Got(k) => "RETURN" \in hdr[y].flags
      BY <2>0, <2>1, Zenon DEF Outstanding
    <2>3. (Sent(hdr[y].msg)' <=> Sent(k)') /\ (Got(hdr[y].msg)' <=> Got(k)')
      BY <2>0, Zenon DEF Sent, Got
    <2>4. CASE y = x
      <3>1. D # {} /\ ~Returning(h) /\ hdr'[x] = h
        BY <1>2, <2>4, BusyMove, Zenon
      <3>2. Sent(k)' => Sent(k) \/ tx
        BY Zenon
      <3>3. Got(k)' => Got(k) \/ rx
        BY Zenon
      <3> QED  BY <2>0, <2>2, <2>3, <2>4, <3>1, <3>2, <3>3, Zenon
    <2>5. CASE y # x
      <3>1. hdr'[y] = hdr[y]
        BY <2>5, BusyMove, Zenon
      <3>2. tx \/ rx => k # m
        BY <2>0, <2>1, <2>5, Zenon DEF Once
      <3>3. (Sent(k)' <=> Sent(k)) /\ (Got(k)' <=> Got(k))
        BY <3>2, Zenon
      <3> QED  BY <2>0, <2>2, <2>3, <3>1, <3>3, Zenon
    <2> QED  BY <2>4, <2>5, Zenon
  <1>3. ASSUME NEW e \in Ep, NEW i \in DOMAIN unexp[e]
        PROVE  /\ Sent(unexp[e][i].h.msg)' => Immediate(unexp[e][i].h.msg.kind)
               /\ ~Got(unexp[e][i].h.msg)'
    <2>0. PICK k \in Message : k = unexp[e][i].h.msg
      BY MessagesOf, Zenon
    <2>1. tx \/ rx => k # m
      BY <2>0, Zenon DEF Once
    <2>2. (Sent(k)' <=> Sent(k)) /\ (Got(k)' <=> Got(k))
      BY <2>1, Zenon
    <2>3. (Sent(k) => Immediate(k.kind)) /\ ~Got(k)
      BY <2>0, Zenon DEF Outstanding
    <2>4. k = unexp'[e][i].h.msg
      BY <2>0, Zenon
    <2>5. (Sent(unexp[e][i].h.msg)' <=> Sent(k)') /\ (Got(unexp[e][i].h.msg)' <=> Got(k)')
      BY <2>0, <2>4, Zenon DEF Sent, Got
    <2> QED  BY <2>0, <2>2, <2>3, <2>5, Zenon
  <1> QED  BY <1>2, <1>3, Zenon DEF Outstanding

(***************************************************************************)
(* What is recorded, when at most the send or receive of m completes at e. *)
(***************************************************************************)
\* If tx, the send of m completes at e; if rx, its receive does, with the record r.
Records(e, m, tx, rx, r) ==
    /\ e \in Ep /\ m \in Message /\ tx \in BOOLEAN /\ rx \in BOOLEAN /\ r \in RxDone /\ r.msg = m
    /\ tx => m.from = e
    /\ rx => m.to = e
    /\ txdone' = IF tx THEN Add(txdone, e, m) ELSE txdone
    /\ rxdone' = IF rx THEN Add(rxdone, e, r) ELSE rxdone
    /\ tx => ~Sent(m) /\ (Immediate(m.kind) \/ m \in placed' \/ m \in Range(applied'[m.to]))
    /\ rx => ~Got(m) /\ (r.ok => m \in placed')
    /\ tx \/ rx => Issued(m)'

LEMMA RecordsMove ==
    ASSUME TypeOK, Recorded, CompleteOnce, DeliveredFirst, Grown,
           \A k \in Message : Issued(k) => Issued(k)',
           NEW e, NEW m, NEW tx, NEW rx, NEW r, Records(e, m, tx, rx, r)
    PROVE  /\ txdone' \in [Ep -> Seq(Message)] /\ rxdone' \in [Ep -> Seq(RxDone)]
           /\ Recorded' /\ CompleteOnce' /\ DeliveredFirst'
           /\ \A k \in Message : Sent(k)' <=> Sent(k) \/ (tx /\ k = m)
           /\ \A k \in Message : Got(k)' <=> Got(k) \/ (rx /\ k = m)
  <1> /\ e \in Ep /\ m \in Message /\ tx \in BOOLEAN /\ rx \in BOOLEAN /\ r \in RxDone /\ r.msg = m
      /\ tx => m.from = e
      /\ rx => m.to = e
      /\ txdone' = IF tx THEN Add(txdone, e, m) ELSE txdone
      /\ rxdone' = IF rx THEN Add(rxdone, e, r) ELSE rxdone
    BY Zenon DEF Records
  <1> /\ tx => ~Sent(m) /\ (Immediate(m.kind) \/ m \in placed' \/ m \in Range(applied'[m.to]))
      /\ rx => ~Got(m) /\ (r.ok => m \in placed')
      /\ tx \/ rx => Issued(m)'
    BY Zenon DEF Records
  <1>0. txdone \in [Ep -> Seq(Message)] /\ rxdone \in [Ep -> Seq(RxDone)]
    BY Zenon DEF TypeOK, RxDone
  <1>1. /\ txdone' \in [Ep -> Seq(Message)]
        /\ \A f \in Ep : Range(txdone'[f]) = Range(txdone[f]) \cup (IF tx /\ f = e THEN {m} ELSE {})
        /\ \A k \in Message : Sent(k)' <=> Sent(k) \/ (tx /\ k = m)
        /\ \A f \in Ep : IsInjective(txdone[f]) => IsInjective(txdone'[f])
    BY <1>0, TxRecord
  <1>2. /\ rxdone' \in [Ep -> Seq(RxDone)]
        /\ \A f \in Ep : Range(Msgs(rxdone'[f])) = Range(Msgs(rxdone[f])) \cup (IF rx /\ f = e THEN {m} ELSE {})
        /\ \A f \in Ep : Range(rxdone'[f]) =
                 Range(rxdone[f]) \cup (IF rx /\ f = e THEN {r} ELSE {})
        /\ \A k \in Message : Got(k)' <=> Got(k) \/ (rx /\ k = m)
        /\ \A f \in Ep : IsInjective(Msgs(rxdone[f])) => IsInjective(Msgs(rxdone'[f]))
    BY <1>0, RxRecord
  <1>3. /\ \A f \in Ep : Range(txdone[f]) \subseteq Message
        /\ \A f \in Ep : Range(Msgs(rxdone[f])) \subseteq Message
    <2>1. ASSUME NEW f \in Ep PROVE Range(txdone[f]) \subseteq Message
      <3>1. txdone[f] \in Seq(Message)
        BY <1>0, Zenon
      <3> QED  BY <3>1 DEF Range
    <2>2. ASSUME NEW f \in Ep PROVE Range(Msgs(rxdone[f])) \subseteq Message
      <3>1. rxdone[f] \in Seq(RxDone)
        BY <1>0, Zenon
      <3>2. \A i \in DOMAIN rxdone[f] : rxdone[f][i] \in RxDone
        BY <3>1
      <3>3. \A q \in RxDone : q.msg \in Message
        BY Zenon DEF RxDone
      <3> QED  BY <3>2, <3>3, Zenon DEF Range, Msgs
    <2> QED  BY <2>1, <2>2, Zenon
  <1>4. CompleteOnce'
    BY <1>1, <1>2, Zenon DEF CompleteOnce
  <1>5. Recorded'
    <2>1. ASSUME NEW f \in Ep, NEW k \in Range(txdone'[f]) PROVE k.from = f /\ Issued(k)'
      <3>1. CASE k \in Range(txdone[f])
        BY <1>3, <3>1, Zenon DEF Recorded
      <3>2. CASE tx /\ f = e /\ k = m
        BY <3>2, Zenon
      <3>3. k \in Range(txdone[f]) \cup (IF tx /\ f = e THEN {m} ELSE {})
        BY <1>1, Zenon
      <3> QED  BY <3>1, <3>2, <3>3, Zenon
    <2>2. ASSUME NEW f \in Ep, NEW k \in Range(Msgs(rxdone'[f])) PROVE k.to = f /\ Issued(k)'
      <3>1. CASE k \in Range(Msgs(rxdone[f]))
        BY <1>3, <3>1, Zenon DEF Recorded
      <3>2. CASE rx /\ f = e /\ k = m
        BY <3>2, Zenon
      <3>3. k \in Range(Msgs(rxdone[f])) \cup (IF rx /\ f = e THEN {m} ELSE {})
        BY <1>2, Zenon
      <3> QED  BY <3>1, <3>2, <3>3, Zenon
    <2> QED  BY <2>1, <2>2, Zenon DEF Recorded
  <1>6. DeliveredFirst'
    <2>1. ASSUME NEW f \in Ep, NEW k \in Range(txdone'[f])
          PROVE  Immediate(k.kind) \/ k \in placed' \/ k \in Range(applied'[k.to])
      <3>1. CASE k \in Range(txdone[f])
        <4>1. k.to \in Ep
          BY <1>3, <3>1, Zenon DEF Message
        <4> QED  BY <3>1, <4>1, Zenon DEF DeliveredFirst, Grown
      <3>2. CASE tx /\ k = m
        BY <3>2, Zenon
      <3>3. k \in Range(txdone[f]) \cup (IF tx /\ f = e THEN {m} ELSE {})
        BY <1>1, Zenon
      <3> QED  BY <3>1, <3>2, <3>3, Zenon
    <2>2. ASSUME NEW f \in Ep, NEW q \in Range(rxdone'[f]), q.ok PROVE q.msg \in placed'
      <3>1. CASE q \in Range(rxdone[f])
        BY <2>2, <3>1, Zenon DEF DeliveredFirst, Grown
      <3>2. CASE rx /\ q = r
        BY <2>2, <3>2, Zenon
      <3>3. q \in Range(rxdone[f]) \cup (IF rx /\ f = e THEN {r} ELSE {})
        BY <1>2, Zenon
      <3> QED  BY <3>1, <3>2, <3>3, Zenon
    <2> QED  BY <2>1, <2>2, Zenon DEF DeliveredFirst
  <1> QED  BY <1>1, <1>2, <1>4, <1>5, <1>6, Zenon

OthersOK ==
    /\ posted \in [Ep -> Seq([slot : Slots, mem : Mems])]
    /\ unexp \in [Ep -> Seq([h : Header, slot : Slots])]
    /\ rxctx \in [Ep -> [Slots -> Nat]]
    /\ life \in [Ep -> {"up", "drain", "redrain", "freed", "zombie"}]
    /\ nrecv \in [Ep -> Nat]
    /\ issued \in [Ep -> Seq(Message)] /\ applied \in [Ep -> Seq(Message)]
    /\ placed \subseteq Message

LEMMA TypeParts ==
    /\ TypeOK <=> /\ PlacesOK /\ OthersOK
                  /\ txdone \in [Ep -> Seq(Message)] /\ rxdone \in [Ep -> Seq(RxDone)]
    /\ TypeOK' <=> /\ PlacesOK' /\ OthersOK'
                   /\ txdone' \in [Ep -> Seq(Message)] /\ rxdone' \in [Ep -> Seq(RxDone)]
  BY Zenon DEF TypeOK, PlacesOK, OthersOK, RxDone

\* What is known of an entry in a queue.
LEMMA Queued ==
    ASSUME IInv, NEW e \in Ep, NEW x \in Ent, In(e, x)
    PROVE  /\ hdr[x] \in Header /\ hdr[x].msg \in Message /\ Shape(e, hdr[x])
           /\ Busy(x) <=> ~Returning(hdr[x])
           /\ NeverClosed => Owner(x) = HomeOf(e, hdr[x])
           /\ ~Returning(hdr[x]) =>
                /\ Issued(hdr[x].msg)
                /\ Sent(hdr[x].msg) => Immediate(hdr[x].msg.kind) \/ "ACK" \in hdr[x].flags
                /\ Got(hdr[x].msg) => "RETURN" \in hdr[x].flags
  <1>1. hdr[x] \in Header /\ Shape(e, hdr[x])
    BY Zenon DEF IInv, Shapes
  <1>2. hdr[x].msg \in Message
    BY <1>1, Zenon DEF Header
  <1>3. Busy(x) <=> ~Returning(hdr[x])
    BY Zenon DEF Busy
  <1>4. NeverClosed => Owner(x) = HomeOf(e, hdr[x])
    BY Zenon DEF IInv, Homes
  <1>5. Busy(x) => /\ Issued(hdr[x].msg)
                   /\ Sent(hdr[x].msg) => Immediate(hdr[x].msg.kind) \/ "ACK" \in hdr[x].flags
                   /\ Got(hdr[x].msg) => "RETURN" \in hdr[x].flags
    BY Zenon DEF IInv, Once, Outstanding
  <1> QED  BY <1>1, <1>2, <1>3, <1>4, <1>5, Zenon

(***************************************************************************)
(* A step that moves one entry of a queue, possibly to a free stack, and   *)
(* completes at most the send or the receive that the entry speaks of.     *)
(***************************************************************************)
Quiet == OthersOK' /\ Grown /\ unexp' = unexp /\ issued' = issued /\ life' = life

\* What the step completes at e, of the message of the entry x.
Completes(e, x, tx, rx, r) ==
    LET m == hdr[x].msg IN
    /\ r \in RxDone /\ r.msg = m /\ tx \in BOOLEAN /\ rx \in BOOLEAN
    /\ txdone' = IF tx THEN Add(txdone, e, m) ELSE txdone
    /\ rxdone' = IF rx THEN Add(rxdone, e, r) ELSE rxdone
    /\ tx => /\ m.from = e /\ ~Returning(hdr[x])
             /\ ~Immediate(m.kind) /\ "ACK" \notin hdr[x].flags
             /\ m \in placed' \/ m \in Range(applied'[m.to])
    /\ rx => /\ m.to = e /\ ~Returning(hdr[x])
             /\ "RETURN" \notin hdr[x].flags /\ m \in placed'

\* What the entry x of the queue of e may become in the queue of f.
Becomes(e, x, f, h, tx, rx) ==
    /\ h \in Header /\ Shape(f, h)'
    /\ NeverClosed => HomeOf(f, h) = HomeOf(e, hdr[x])
    /\ ~Returning(h) =>
         /\ ~Returning(hdr[x]) /\ h.msg = hdr[x].msg
         /\ tx \/ "ACK" \in hdr[x].flags => "ACK" \in h.flags
         /\ rx \/ "RETURN" \in hdr[x].flags => "RETURN" \in h.flags

\* The entry x of the queue of e changes hands as h: to the queues of D, or home.
Hands(e, x, h, D) ==
    /\ e \in Ep /\ x \in Ent /\ In(e, x) /\ D \in SUBSET Ep
    /\ Moved(x, h, D) /\ PlacesOK' /\ Apart' /\ Quiet
    /\ \A f \in Ep : \A y \in free'[f] :
          y \in free[f] \/ (y = x /\ (NeverClosed => f = HomeOf(e, hdr[x])))

LEMMA EntryStep ==
    ASSUME IInv, NEW e, NEW x, NEW h, NEW D, Hands(e, x, h, D),
           NEW tx, NEW rx, NEW r, Completes(e, x, tx, rx, r),
           \A f \in D : Becomes(e, x, f, h, tx, rx)
    PROVE  IInv'
  <1> /\ e \in Ep /\ x \in Ent /\ In(e, x) /\ D \in SUBSET Ep
      /\ Moved(x, h, D) /\ PlacesOK' /\ Apart' /\ Quiet
      /\ \A f \in Ep : \A y \in free'[f] :
            y \in free[f] \/ (y = x /\ (NeverClosed => f = HomeOf(e, hdr[x])))
    BY Zenon DEF Hands
  <1>0. PICK m \in Message : m = hdr[x].msg
    BY Queued, Zenon
  <1>1. Grown /\ unexp' = unexp /\ issued' = issued /\ life' = life /\ OthersOK'
    BY Zenon DEF Quiet
  <1>2. /\ r \in RxDone /\ r.msg = m /\ tx \in BOOLEAN /\ rx \in BOOLEAN
        /\ txdone' = IF tx THEN Add(txdone, e, m) ELSE txdone
        /\ rxdone' = IF rx THEN Add(rxdone, e, r) ELSE rxdone
        /\ tx => /\ m.from = e /\ ~Returning(hdr[x])
                 /\ ~Immediate(m.kind) /\ "ACK" \notin hdr[x].flags
                 /\ m \in placed' \/ m \in Range(applied'[m.to])
        /\ rx => /\ m.to = e /\ ~Returning(hdr[x])
                 /\ "RETURN" \notin hdr[x].flags /\ m \in placed'
    BY <1>0, Zenon DEF Completes
  <1>3. /\ \A f \in D : h \in Header /\ Shape(f, h)' /\ (NeverClosed => HomeOf(f, h) = HomeOf(e, hdr[x]))
        /\ D # {} /\ ~Returning(h) =>
               /\ ~Returning(hdr[x]) /\ h.msg = m
               /\ tx \/ "ACK" \in hdr[x].flags => "ACK" \in h.flags
               /\ rx \/ "RETURN" \in hdr[x].flags => "RETURN" \in h.flags
    BY <1>0, Zenon DEF Becomes
  <1>4. /\ TypeOK /\ Shapes /\ Homes /\ Once /\ Outstanding /\ Recorded
        /\ CompleteOnce /\ DeliveredFirst
    BY Zenon DEF IInv
  <1>5. /\ hdr[x] \in Header /\ (Busy(x) <=> ~Returning(hdr[x]))
        /\ NeverClosed => Owner(x) = HomeOf(e, hdr[x])
        /\ ~Returning(hdr[x]) =>
             /\ Issued(m)
             /\ Sent(m) => Immediate(m.kind) \/ "ACK" \in hdr[x].flags
             /\ Got(m) => "RETURN" \in hdr[x].flags
    BY <1>0, Queued, Zenon
  <1>6. Shapes'
    <2>1. \A f \in Ep : \A i \in DOMAIN unexp'[f] : Aside(f, unexp'[f][i].h)
      BY <1>4, <1>1, Zenon DEF Shapes
    <2>2. \A f \in D : h \in Header /\ Shape(f, h)'
      BY <1>3, Zenon
    <2> QED  BY <1>4, <1>1, <2>1, <2>2, ShapesMove, Zenon
  <1>7. Homes'
    <2>1. \A f \in Ep : \A y \in free'[f] : y \in free[f] \/ (NeverClosed => Owner(y) = f)
      BY <1>5, Zenon
    <2>2. \A f \in D : NeverClosed => Owner(x) = HomeOf(f, h)
      BY <1>5, <1>3, Zenon
    <2> QED  BY <1>4, <1>1, <2>1, <2>2, HomesMove, Zenon
  <1>8. Once'
    <2>1. D # {} /\ ~Returning(h) => Busy(x) /\ h.msg = hdr[x].msg
      BY <1>0, <1>5, <1>3, Zenon
    <2> QED  BY <1>4, <1>1, <2>1, OnceMove, Zenon
  <1>9. \A k : Issued(k) => Issued(k)'
    BY <1>1, Zenon DEF Issued
  <1>10. /\ txdone' \in [Ep -> Seq(Message)] /\ rxdone' \in [Ep -> Seq(RxDone)]
         /\ Recorded' /\ CompleteOnce' /\ DeliveredFirst'
         /\ \A k \in Message : Sent(k)' <=> Sent(k) \/ (tx /\ k = m)
         /\ \A k \in Message : Got(k)' <=> Got(k) \/ (rx /\ k = m)
    <2>0. /\ r \in RxDone /\ r.msg = m /\ tx \in BOOLEAN /\ rx \in BOOLEAN /\ Grown
          /\ txdone' = IF tx THEN Add(txdone, e, m) ELSE txdone
          /\ rxdone' = IF rx THEN Add(rxdone, e, r) ELSE rxdone
      BY <1>1, <1>2, Zenon
    <2>1. (tx => m.from = e) /\ (rx => m.to = e)
      BY <1>2, Zenon
    <2>2. tx => ~Sent(m) /\ (Immediate(m.kind) \/ m \in placed' \/ m \in Range(applied'[m.to]))
      BY <1>5, <1>2, Zenon
    <2>3. rx => ~Got(m) /\ (r.ok => m \in placed')
      BY <1>5, <1>2, Zenon
    <2>4. tx \/ rx => Issued(m)'
      BY <1>5, <1>9, <1>2, Zenon
    <2>5. Records(e, m, tx, rx, r)
      BY <2>0, <2>1, <2>2, <2>3, <2>4, Zenon DEF Records
    <2> QED  BY <1>4, <1>9, <2>0, <2>5, RecordsMove
  <1>11. Outstanding'
    <2>1. tx \/ rx => Busy(x) /\ m = hdr[x].msg
      BY <1>0, <1>5, <1>2, Zenon
    <2>2. D # {} /\ ~Returning(h) =>
               /\ Busy(x) /\ h.msg = hdr[x].msg
               /\ tx \/ "ACK" \in hdr[x].flags => Immediate(h.msg.kind) \/ "ACK" \in h.flags
               /\ rx \/ "RETURN" \in hdr[x].flags => "RETURN" \in h.flags
      BY <1>0, <1>5, <1>3, Zenon
    <2>3. /\ \A k \in Message : Sent(k)' <=> Sent(k) \/ (tx /\ k = m)
          /\ \A k \in Message : Got(k)' <=> Got(k) \/ (rx /\ k = m)
      BY <1>10, Zenon
    <2>4. TypeOK /\ Shapes /\ Once /\ Outstanding
      BY <1>4, Zenon
    <2>5. tx \in BOOLEAN /\ rx \in BOOLEAN /\ unexp' = unexp
      BY <1>1, <1>2, Zenon
    <2>6. Speaks(x, h, D, m, tx, rx)
      BY <2>1, <2>2, <2>3, <2>5, Zenon DEF Speaks
    <2> QED  BY <2>4, <2>5, <2>6, OutstandingMove, Zenon
  <1>12. TypeOK'
    BY <1>10, <1>1, TypeParts, Zenon
  <1> QED  BY <1>6, <1>7, <1>8, <1>10, <1>11, <1>12, Zenon DEF IInv

(***************************************************************************)
(* Steps that move no entry.                                               *)
(***************************************************************************)
LEMMA Still ==
    ASSUME TypeOK, hdr' = hdr, queue' = queue, NEW x \in Ent
    PROVE  Moved(x, hdr[x], {f \in Ep : In(f, x)})
  BY Zenon DEF Moved, In, TypeOK

LEMMA StayStep ==
    ASSUME IInv, OthersOK', NeverClosed' => NeverClosed,
           UNCHANGED <<free, hdr, queue, unexp, issued, txdone, rxdone, placed, applied>>
    PROVE  IInv'
  <1>1. TypeOK'
    BY TypeParts, Zenon DEF IInv, PlacesOK
  <1>2. Apart'
    <2>1. Apart
      BY Zenon DEF IInv
    <2> QED  BY <2>1, Zenon DEF Apart, In
  <1>3. Shapes'
    <2>1. Shapes
      BY Zenon DEF IInv
    <2>2. Grown
      BY DEF Grown
    <2>3. ASSUME NEW f \in Ep, NEW y \in Ent, In(f, y)'
          PROVE  hdr'[y] \in Header /\ Shape(f, hdr[y])'
      <3>1. In(f, y)
        BY <2>3, Zenon DEF In
      <3>2. PICK k \in Header : k = hdr[y] /\ Shape(f, k)
        BY <2>1, <3>1, Zenon DEF Shapes
      <3>3. Shape(f, k)'
        BY <2>2, <3>2, ShapeKept, Zenon
      <3>4. hdr'[y] = k
        BY <3>2
      <3> QED  BY <3>2, <3>3, <3>4 DEF Shape, Returning
    <2>4. \A f \in Ep : \A i \in DOMAIN unexp'[f] : Aside(f, unexp[f][i].h)'
      BY <2>1 DEF Shapes, Aside
    <2> QED  BY <2>3, <2>4, Zenon DEF Shapes
  <1>4. Homes'
    <2>1. Homes
      BY Zenon DEF IInv
    <2>2. NeverClosed' =>
            /\ \A e \in Ep : \A x \in free[e] : Owner(x) = e
            /\ \A e \in Ep : \A x \in Ent : In(e, x) => Owner(x) = HomeOf(e, hdr[x])
      BY <2>1, Zenon DEF Homes
    <2> QED  BY <2>2, Zenon DEF Homes, In, HomeOf, Returning, Owner
  <1>5. Once'
    <2>1. Once
      BY Zenon DEF IInv
    <2> QED  BY <2>1 DEF Once, Busy, In, Returning, Issued
  <1>6. Outstanding'
    <2>1. Outstanding
      BY Zenon DEF IInv
    <2> QED  BY <2>1, Zenon DEF Outstanding, Busy, In, Returning, Sent, Got
  <1>7. Recorded' /\ CompleteOnce' /\ DeliveredFirst'
    <2>1. Recorded /\ CompleteOnce /\ DeliveredFirst
      BY Zenon DEF IInv
    <2> QED  BY <2>1, Zenon DEF Recorded, CompleteOnce, DeliveredFirst, Issued
  <1> QED  BY <1>1, <1>2, <1>3, <1>4, <1>5, <1>6, <1>7, Zenon DEF IInv

(***************************************************************************)
(* A message set aside is started, and perhaps an entry taken to tell its  *)
(* sender: at most the entries of Y are new to a queue.                    *)
(***************************************************************************)
LEMMA Started ==
    ASSUME TypeOK, Shapes, Once, NEW e \in Ep, unexp[e] # << >>, unexp' = Drop(unexp, e)
    PROVE  /\ unexp' \in [Ep -> Seq([h : Header, slot : Slots])]
           /\ 1 \in DOMAIN unexp[e] /\ Head(unexp[e]) = unexp[e][1]
           /\ \A f \in Ep : \A i \in DOMAIN unexp'[f] :
                LET j == IF f = e THEN i + 1 ELSE i IN
                /\ i \in Nat /\ j \in DOMAIN unexp[f] /\ unexp'[f][i] = unexp[f][j]
                /\ unexp[f][j].h.msg # unexp[e][1].h.msg
  <1>1. \A f \in Ep : unexp[f] \in Seq([h : Header, slot : Slots])
    BY Zenon DEF TypeOK
  <1> DEFINE S == [h : Header, slot : Slots]
  <1>2. \A f \in Ep : unexp[f] \in Seq(S)
    BY <1>1, Zenon
  <1> HIDE DEF S
  <1>3. \A f \in Ep : unexp'[f] = IF f = e THEN Tail(unexp[e]) ELSE unexp[f]
    BY Zenon DEF Drop, TypeOK
  <1>4. /\ Tail(unexp[e]) \in Seq(S) /\ Head(unexp[e]) = unexp[e][1] /\ 1 \in DOMAIN unexp[e]
        /\ \A i \in DOMAIN Tail(unexp[e]) :
             i \in Nat /\ i + 1 # 1 /\ i + 1 \in DOMAIN unexp[e] /\ Tail(unexp[e])[i] = unexp[e][i + 1]
    BY <1>2
  <1>5. unexp' \in [Ep -> Seq(S)]
    BY <1>2, <1>4, Zenon DEF Drop, TypeOK, S
  <1>6. \A i \in DOMAIN unexp[e] : i # 1 => unexp[e][i].h.msg # unexp[e][1].h.msg
    BY <1>4, Zenon DEF Once
  <1>7. \A f \in Ep : f # e => \A i \in DOMAIN unexp[f] : unexp[f][i].h.msg # unexp[e][1].h.msg
    BY <1>4 DEF Shapes, Aside
  <1>8. ASSUME NEW f \in Ep, NEW i \in DOMAIN unexp'[f]
        PROVE  LET j == IF f = e THEN i + 1 ELSE i IN
               /\ i \in Nat /\ j \in DOMAIN unexp[f] /\ unexp'[f][i] = unexp[f][j]
               /\ unexp[f][j].h.msg # unexp[e][1].h.msg
    <2>1. CASE f = e
      BY <1>3, <1>4, <1>6, <2>1, Zenon
    <2>2. CASE f # e
      <3>1. unexp[f] \in Seq(S) /\ i \in DOMAIN unexp[f] /\ unexp'[f] = unexp[f]
        BY <1>2, <1>3, <2>2, Zenon
      <3>2. i \in Nat
        BY <3>1
      <3> QED  BY <1>7, <2>2, <3>1, <3>2, Zenon
    <2> QED  BY <2>1, <2>2, Zenon
  <1> QED  BY <1>4, <1>5, <1>8, Zenon DEF S

LEMMA OnceStarted ==
    ASSUME TypeOK, Shapes, Once, NEW e \in Ep, unexp[e] # << >>, unexp' = Drop(unexp, e),
           issued' = issued, NEW m \in Message, m = unexp[e][1].h.msg,
           NEW Y \in SUBSET Ent, \A y, z \in Y : y = z,
           \A y \in Ent \ Y : Busy(y)' => Busy(y) /\ hdr'[y] = hdr[y],
           \A y \in Y : Busy(y)' => hdr'[y].msg = m
    PROVE  Once'
  <1>1. 1 \in DOMAIN unexp[e]
    BY Started, Zenon
  <1>2. \A f \in Ep : \A i \in DOMAIN unexp'[f] :
            LET j == IF f = e THEN i + 1 ELSE i IN
            i \in Nat /\ j \in DOMAIN unexp[f] /\ unexp'[f][i] = unexp[f][j] /\ unexp[f][j].h.msg # m
    BY Started
  <1>3. \A y \in Ent : Busy(y) => hdr[y].msg # m
    BY <1>1 DEF Once
  <1>4. \A y, z \in Ent : Busy(y)' /\ Busy(z)' /\ hdr'[y].msg = hdr'[z].msg => y = z
    BY <1>3, Zenon DEF Once
  <1>5. ASSUME NEW y \in Ent, NEW f \in Ep, NEW i \in DOMAIN unexp'[f], Busy(y)'
        PROVE  hdr'[y].msg # unexp'[f][i].h.msg
    <2>1. PICK j \in DOMAIN unexp[f] : unexp'[f][i] = unexp[f][j] /\ unexp[f][j].h.msg # m
      BY <1>2
    <2>2. CASE y \in Y
      BY <1>5, <2>1, <2>2, Zenon
    <2>3. CASE y \notin Y
      BY <1>5, <2>1, <2>3 DEF Once
    <2> QED  BY <2>2, <2>3, Zenon
  <1>6. ASSUME NEW f \in Ep, NEW i \in DOMAIN unexp'[f], NEW j \in DOMAIN unexp'[f],
               unexp'[f][i].h.msg = unexp'[f][j].h.msg
        PROVE  i = j
    <2>1. CASE f = e
      <3>1. /\ i \in Nat /\ i + 1 \in DOMAIN unexp[f] /\ unexp'[f][i] = unexp[f][i + 1]
            /\ j \in Nat /\ j + 1 \in DOMAIN unexp[f] /\ unexp'[f][j] = unexp[f][j + 1]
        BY <1>2, <2>1, Zenon
      <3>2. i + 1 = j + 1
        BY <1>6, <3>1 DEF Once
      <3> QED  BY <3>1, <3>2
    <2>2. CASE f # e
      <3>1. /\ i \in DOMAIN unexp[f] /\ unexp'[f][i] = unexp[f][i]
            /\ j \in DOMAIN unexp[f] /\ unexp'[f][j] = unexp[f][j]
        BY <1>2, <2>2, Zenon
      <3> QED  BY <1>6, <3>1 DEF Once
    <2> QED  BY <2>1, <2>2, Zenon
  <1>7. \A k : Issued(k)' <=> Issued(k)
    BY Zenon DEF Issued
  <1>8. ASSUME NEW y \in Ent, Busy(y)' PROVE Issued(hdr[y].msg)'
    <2>1. PICK k : k = hdr'[y].msg
      BY Zenon
    <2>2. Issued(k)
      BY <1>1, <1>8, <2>1, Zenon DEF Once
    <2> QED  BY <1>7, <2>1, <2>2, Zenon DEF Issued
  <1>9. ASSUME NEW f \in Ep, NEW i \in DOMAIN unexp'[f] PROVE Issued(unexp[f][i].h.msg)'
    <2>1. PICK j \in DOMAIN unexp[f] : unexp'[f][i] = unexp[f][j]
      BY <1>2, Zenon
    <2>2. Issued(unexp[f][j].h.msg)
      BY Zenon DEF Once
    <2> QED  BY <2>1, <2>2, Zenon DEF Issued
  <1> QED  BY <1>4, <1>5, <1>6, <1>8, <1>9, Zenon DEF Once

LEMMA OutstandingStarted ==
    ASSUME TypeOK, Shapes, Once, Outstanding, NEW e \in Ep, unexp[e] # << >>, unexp' = Drop(unexp, e),
           NEW m \in Message, m = unexp[e][1].h.msg, txdone' = txdone, NEW rx \in BOOLEAN,
           \A k \in Message : Got(k)' <=> Got(k) \/ (rx /\ k = m),
           NEW Y \in SUBSET Ent,
           \A y \in Ent \ Y : Busy(y)' => Busy(y) /\ hdr'[y] = hdr[y],
           \A y \in Y : Busy(y)' => hdr'[y].msg = m /\ (rx => "RETURN" \in hdr'[y].flags)
    PROVE  Outstanding'
  <1>1. 1 \in DOMAIN unexp[e]
    BY Started, Zenon
  <1>2. (Sent(m) => Immediate(m.kind)) /\ ~Got(m)
    BY <1>1, Zenon DEF Outstanding
  <1>3. \A k : Sent(k)' <=> Sent(k)
    BY Zenon DEF Sent
  <1>4. ASSUME NEW y \in Ent, Busy(y)'
        PROVE  /\ Sent(hdr[y].msg)' => Immediate(hdr'[y].msg.kind) \/ "ACK" \in hdr'[y].flags
               /\ Got(hdr[y].msg)' => "RETURN" \in hdr'[y].flags
    <2>1. CASE y \in Y
      <3>1. hdr'[y].msg = m /\ (rx => "RETURN" \in hdr'[y].flags)
        BY <1>4, <2>1, Zenon
      <3>2. (Sent(hdr[y].msg)' <=> Sent(m)') /\ (Got(hdr[y].msg)' <=> Got(m)')
        BY <3>1, Zenon DEF Sent, Got
      <3>3. (Sent(m)' <=> Sent(m)) /\ (Got(m)' => rx)
        BY <1>2, <1>3, Zenon
      <3> QED  BY <1>2, <3>1, <3>2, <3>3, Zenon
    <2>2. CASE y \notin Y
      <3>1. Busy(y) /\ hdr'[y] = hdr[y]
        BY <1>4, <2>2, Zenon
      <3>2. PICK k \in Message : k = hdr[y].msg
        BY <3>1, MessagesOf, Zenon
      <3>3. k # m
        <4>1. hdr[y].msg # unexp[e][1].h.msg
          BY <1>1, <3>1 DEF Once
        <4> QED  BY <3>2, <4>1, Zenon
      <3>4. (Sent(hdr[y].msg)' <=> Sent(k)') /\ (Got(hdr[y].msg)' <=> Got(k)')
        BY <3>1, <3>2, Zenon DEF Sent, Got
      <3>5. (Sent(k)' <=> Sent(k)) /\ (Got(k)' <=> Got(k))
        BY <1>3, <3>3, Zenon
      <3>6. /\ Sent(k) => Immediate(k.kind) \/ "ACK" \in hdr[y].flags
            /\ Got(k) => "RETURN" \in hdr[y].flags
        BY <3>1, <3>2, Zenon DEF Outstanding
      <3> QED  BY <3>1, <3>2, <3>4, <3>5, <3>6, Zenon
    <2> QED  BY <2>1, <2>2, Zenon
  <1>5. ASSUME NEW f \in Ep, NEW i \in DOMAIN unexp'[f]
        PROVE  /\ Sent(unexp[f][i].h.msg)' => Immediate(unexp'[f][i].h.msg.kind)
               /\ ~Got(unexp[f][i].h.msg)'
    <2>1. PICK j \in DOMAIN unexp[f] : unexp'[f][i] = unexp[f][j] /\ unexp[f][j].h.msg # m
      BY Started, ZenonT(60)
    <2>2. PICK k \in Message : k = unexp[f][j].h.msg
      BY MessagesOf, Zenon
    <2>3. (Sent(unexp[f][i].h.msg)' <=> Sent(k)') /\ (Got(unexp[f][i].h.msg)' <=> Got(k)')
      BY <2>1, <2>2, Zenon DEF Sent, Got
    <2>4. (Sent(k)' <=> Sent(k)) /\ (Got(k)' <=> Got(k))
      BY <1>3, <2>1, <2>2, Zenon
    <2>5. (Sent(k) => Immediate(k.kind)) /\ ~Got(k)
      BY <2>2, Zenon DEF Outstanding
    <2> QED  BY <2>1, <2>2, <2>3, <2>4, <2>5, Zenon
  <1> QED  BY <1>4, <1>5, Zenon DEF Outstanding

\* EntryStep, for the entry at the head of a queue.
LEMMA PassKeeps ==
    ASSUME IInv, NEW e \in Ep, queue[e] # << >>, NEW x, x = Head(queue[e]),
           NEW h, NEW d \in Ep, Pass(e, x, h, d), Quiet,
           NEW tx, NEW rx, NEW r, Completes(e, x, tx, rx, r), Becomes(e, x, d, h, tx, rx)
    PROVE  IInv'
  <1>1. PlacesOK /\ Apart /\ h \in Header
    BY TypeParts, Zenon DEF IInv, Becomes
  <1>2. x \in Ent /\ In(e, x) /\ PlacesOK' /\ Apart' /\ Moved(x, h, {d}) /\ free' = free
    BY <1>1, PassStep, Zenon DEF Pass
  <1>3. \A f \in Ep : \A y \in free'[f] :
            y \in free[f] \/ (y = x /\ (NeverClosed => f = HomeOf(e, hdr[x])))
    BY <1>2, Zenon
  <1>4. \A f \in {d} : Becomes(e, x, f, h, tx, rx)
    BY Zenon
  <1>5. Hands(e, x, h, {d})
    BY <1>2, <1>3, Zenon DEF Hands
  <1> QED  BY <1>4, <1>5, EntryStep

LEMMA PushKeeps ==
    ASSUME IInv, NEW e \in Ep, queue[e] # << >>, NEW x, x = Head(queue[e]),
           Push(e, x), Quiet, NeverClosed => HomeOf(e, hdr[x]) = e,
           NEW tx, NEW rx, NEW r, Completes(e, x, tx, rx, r)
    PROVE  IInv'
  <1>1. PlacesOK /\ Apart
    BY TypeParts, Zenon DEF IInv
  <1>2. x \in Ent /\ In(e, x) /\ PlacesOK' /\ Apart' /\ Moved(x, NoHdr, {})
    BY <1>1, PushStep, Zenon
  <1>3. \A f \in Ep : \A y \in free'[f] :
            y \in free[f] \/ (y = x /\ (NeverClosed => f = HomeOf(e, hdr[x])))
    BY <1>1, Zenon DEF Push, PlacesOK
  <1>4. \A f \in {} : Becomes(e, x, f, NoHdr, tx, rx)
    BY Zenon
  <1>5. Hands(e, x, NoHdr, {})
    BY <1>2, <1>3, Zenon DEF Hands
  <1> QED  BY <1>4, <1>5, EntryStep

\* The entry at the head of a queue.
LEMMA HeadOf ==
    ASSUME IInv, NEW e \in Ep, queue[e] # << >>, NEW x, x = Head(queue[e])
    PROVE  /\ x \in Ent /\ In(e, x)
           /\ hdr[x] \in Header /\ hdr[x].msg \in Message /\ Shape(e, hdr[x])
           /\ hdr[x].sender \in Ep /\ hdr[x].msg.from \in Ep /\ hdr[x].msg.to \in Ep
           /\ hdr[x].flags \in SUBSET Flags
  <1>1. queue[e] \in Seq(Ent)
    BY Zenon DEF IInv, TypeOK
  <1>2. x \in Ent /\ In(e, x)
    BY <1>1, Removed, Zenon DEF In
  <1>3. hdr[x] \in Header /\ hdr[x].msg \in Message /\ Shape(e, hdr[x])
    BY <1>2, Queued, Zenon
  <1> QED  BY <1>2, <1>3, Zenon DEF Header, Message

\* A message that arrives: what its entry is.
LEMMA Arrived ==
    ASSUME IInv, NEW e \in Ep, queue[e] # << >>, NEW x, x = Head(queue[e]),
           "RETURN" \notin hdr[x].flags, {"TO_DEV", "ACK"} \cap hdr[x].flags = {}
    PROVE  /\ hdr[x].flags = {} /\ hdr[x].sender = hdr[x].msg.from /\ e = hdr[x].msg.to
           /\ hdr[x].msg.from # hdr[x].msg.to
           /\ ~Returning(hdr[x]) /\ HomeOf(e, hdr[x]) = hdr[x].msg.from
  <1>1. Shape(e, hdr[x])
    BY HeadOf, Zenon
  <1>2. /\ hdr[x].flags = {} /\ hdr[x].sender = hdr[x].msg.from /\ e = hdr[x].msg.to
        /\ hdr[x].msg.from # hdr[x].msg.to
    BY <1>1, Zenon DEF Shape, Returning
  <1> QED  BY <1>2, Zenon DEF Returning, HomeOf

(***************************************************************************)
(* Sending: the message is one that nothing yet speaks of.                 *)
(***************************************************************************)
LEMMA SendKeeps ==
    ASSUME IInv, NEW e \in Ep, NEW d \in Ep, NEW kind \in AllKinds, Send(e, d, kind)
    PROVE  IInv'
  <1>1. /\ TypeOK /\ Apart /\ Shapes /\ Homes /\ Once /\ Outstanding /\ Recorded
        /\ CompleteOnce /\ DeliveredFirst
    BY Zenon DEF IInv
  <1>2. PICK x \in free[e] :
           /\ free' = [free EXCEPT ![e] = @ \ {x}]
           /\ hdr' = [hdr EXCEPT ![x] =
                        [flags |-> {}, sender |-> e, rx |-> 0, res |-> 0,
                         msg |-> [from |-> e, to |-> d, n |-> Len(issued[e]) + 1, kind |-> kind]]]
           /\ queue' = Add(queue, d, x)
           /\ issued' = Add(issued, e, hdr'[x].msg)
           /\ txdone' = IF Immediate(kind) THEN Add(txdone, e, hdr'[x].msg) ELSE txdone
    BY Zenon DEF Send
  <1>3. /\ e # d
        /\ UNCHANGED <<posted, unexp, rxctx, life, nrecv, matched, placed, applied,
                       rxdone, result, failed, starved>>
    BY Zenon DEF Send
  <1>4. Len(issued[e]) \in Nat
    BY <1>1 DEF TypeOK
  <1>5. PICK m \in Message : m = [from |-> e, to |-> d, n |-> Len(issued[e]) + 1, kind |-> kind]
    <2>1. Len(issued[e]) + 1 \in Nat
      BY <1>4
    <2>2. [from |-> e, to |-> d, n |-> Len(issued[e]) + 1, kind |-> kind] \in Message
      BY <2>1, Zenon DEF Message
    <2> QED  BY <2>2, Zenon
  <1>6. m.from = e /\ m.to = d /\ m.n = Len(issued[e]) + 1 /\ m.kind = kind
    BY <1>5, Zenon
  <1>7. PICK h \in Header : h = [flags |-> {}, sender |-> e, rx |-> 0, res |-> 0, msg |-> m]
    <2>1. {} \in SUBSET Flags /\ 0 \in Slots \cup {0} /\ 0 \in Nat
      BY Zenon
    <2> QED  BY <2>1, Zenon DEF Header
  <1>8. h.flags = {} /\ h.sender = e /\ h.msg = m
    BY <1>7, Zenon
  <1>9. PlacesOK /\ OthersOK
    BY <1>1, TypeParts, Zenon
  <1>10. x \in Ent
    BY <1>1, Zenon DEF TypeOK
  <1>11. hdr' = [hdr EXCEPT ![x] = h] /\ hdr'[x] = h
    BY <1>1, <1>2, <1>5, <1>7, <1>10, Zenon DEF TypeOK
  <1>12. PlacesOK' /\ Apart' /\ Moved(x, h, {d})
    BY <1>1, <1>2, <1>9, <1>11, TakeStep, Zenon
  <1>13. Grown
    BY <1>3, Zenon DEF Grown
  <1>14. /\ \A f \in Ep : issued'[f] = IF f = e THEN Append(issued[f], m) ELSE issued[f]
         /\ issued' \in [Ep -> Seq(Message)]
         /\ Len(issued'[e]) = Len(issued[e]) + 1
    <2>1. issued' = [issued EXCEPT ![e] = Append(@, m)]
      BY <1>2, <1>8, <1>11, Zenon DEF Add
    <2>2. issued \in [Ep -> Seq(Message)]
      BY <1>1, Zenon DEF TypeOK
    <2> QED  BY <2>1, <2>2
  <1>15. /\ ~Issued(m) /\ Issued(m)'
         /\ \A k \in Message : Issued(k) => Issued(k)'
    <2>1. ~Issued(m) /\ Issued(m)'
      BY <1>4, <1>6, <1>14 DEF Issued
    <2>2. ASSUME NEW k \in Message, Issued(k) PROVE Issued(k)'
      <3>1. k.from \in Ep /\ k.n \in Nat /\ Len(issued[k.from]) \in Nat
        BY <1>1 DEF Message, TypeOK
      <3>2. Len(issued'[k.from]) >= Len(issued[k.from]) /\ Len(issued'[k.from]) \in Nat
        <4>1. CASE k.from = e
          BY <1>4, <1>14, <4>1
        <4>2. CASE k.from # e
          BY <1>14, <3>1, <4>2
        <4> QED  BY <4>1, <4>2, Zenon
      <3>3. k.n <= Len(issued[k.from])
        BY <2>2, Zenon DEF Issued
      <3>4. k.n <= Len(issued'[k.from])
        BY <3>1, <3>2, <3>3
      <3> QED  BY <3>4, Zenon DEF Issued
    <2> QED  BY <2>1, <2>2, Zenon
  <1>16. Shapes'
    <2>1. \A f \in {d} : h \in Header /\ Shape(f, h)'
      BY <1>3, <1>6, <1>8, Zenon DEF Shape
    <2>2. \A f \in Ep : \A i \in DOMAIN unexp'[f] : Aside(f, unexp'[f][i].h)
      BY <1>1, <1>3, Zenon DEF Shapes
    <2> QED  BY <1>1, <1>10, <1>12, <1>13, <2>1, <2>2, ShapesMove, Zenon
  <1>17. Homes'
    <2>1. \A f \in Ep : \A y \in free'[f] : y \in free[f]
      BY <1>2, <1>9, Zenon DEF PlacesOK
    <2>2. HomeOf(d, h) = e
      BY <1>6, <1>8, Zenon DEF HomeOf, Returning
    <2>3. NeverClosed => Owner(x) = e
      BY <1>1, Zenon DEF Homes
    <2> QED  BY <1>1, <1>3, <1>10, <1>12, <2>1, <2>2, <2>3, HomesMove
  <1>18. /\ hdr'[x] = h /\ Busy(x)'
         /\ \A y \in Ent : y # x => hdr'[y] = hdr[y] /\ (Busy(y)' <=> Busy(y))
    BY <1>1, <1>8, <1>10, <1>12, BusyMove DEF Returning
  <1>19. /\ \A y \in Ent : Busy(y) => hdr[y].msg \in Message /\ hdr[y].msg # m /\ Issued(hdr[y].msg)
         /\ \A f \in Ep : \A i \in DOMAIN unexp[f] :
                unexp[f][i].h.msg \in Message /\ unexp[f][i].h.msg # m /\ Issued(unexp[f][i].h.msg)
    <2>1. /\ \A y \in Ent : Busy(y) => hdr[y].msg \in Message /\ Issued(hdr[y].msg)
          /\ \A f \in Ep : \A i \in DOMAIN unexp[f] :
                unexp[f][i].h.msg \in Message /\ Issued(unexp[f][i].h.msg)
      BY <1>1, MessagesOf, Zenon DEF Once
    <2> QED  BY <1>15, <2>1, Zenon
  <1>20. Once'
    <2>1. \A y, z \in Ent : Busy(y)' /\ Busy(z)' /\ hdr'[y].msg = hdr'[z].msg => y = z
      BY <1>1, <1>8, <1>18, <1>19 DEF Once
    <2>2. \A y \in Ent : \A f \in Ep : \A i \in DOMAIN unexp'[f] : Busy(y)' => hdr'[y].msg # unexp'[f][i].h.msg
      BY <1>1, <1>3, <1>8, <1>18, <1>19 DEF Once
    <2>3. \A f \in Ep : \A i, j \in DOMAIN unexp'[f] : unexp'[f][i].h.msg = unexp'[f][j].h.msg => i = j
      BY <1>1, <1>3, Zenon DEF Once
    <2>4. ASSUME NEW y \in Ent, Busy(y)' PROVE Issued(hdr[y].msg)'
      <3>1. PICK k \in Message : k = hdr'[y].msg /\ Issued(k)'
        BY <1>8, <1>15, <1>18, <1>19, <2>4, Zenon
      <3> QED  BY <3>1, Zenon DEF Issued
    <2>5. ASSUME NEW f \in Ep, NEW i \in DOMAIN unexp'[f] PROVE Issued(unexp[f][i].h.msg)'
      <3>1. PICK k \in Message : k = unexp'[f][i].h.msg /\ Issued(k)'
        BY <1>3, <1>15, <1>19, Zenon
      <3> QED  BY <3>1, Zenon DEF Issued
    <2> QED  BY <2>1, <2>2, <2>3, <2>4, <2>5, Zenon DEF Once
  <1>21. ~Sent(m) /\ ~Got(m)
    BY <1>1, <1>6, <1>15, Zenon DEF Sent, Got, Recorded
  <1>22. PICK tx \in BOOLEAN : tx <=> Immediate(kind)
    BY Zenon
  <1>23. /\ txdone' \in [Ep -> Seq(Message)] /\ rxdone' \in [Ep -> Seq(RxDone)]
         /\ Recorded' /\ CompleteOnce' /\ DeliveredFirst'
         /\ \A k \in Message : Sent(k)' <=> Sent(k) \/ (tx /\ k = m)
         /\ \A k \in Message : Got(k)' <=> Got(k)
    <2>1. PICK r \in RxDone : r.msg = m
      <3>1. [msg |-> m, ctx |-> 0, ok |-> TRUE] \in RxDone
        BY Zenon DEF RxDone
      <3> QED  BY <3>1, Zenon
    <2>2. PICK rx \in BOOLEAN : ~rx
      BY Zenon
    <2>3. /\ txdone' = IF tx THEN Add(txdone, e, m) ELSE txdone
          /\ rxdone' = IF rx THEN Add(rxdone, e, r) ELSE rxdone
      BY <1>2, <1>3, <1>8, <1>11, <1>22, <2>2, Zenon
    <2>4. /\ tx => m.from = e
          /\ tx => ~Sent(m) /\ (Immediate(m.kind) \/ m \in placed' \/ m \in Range(applied'[m.to]))
          /\ tx \/ rx => Issued(m)'
      BY <1>6, <1>15, <1>21, <1>22, Zenon
    <2>5. /\ rx => m.to = e
          /\ rx => ~Got(m) /\ (r.ok => m \in placed')
      BY <2>2, Zenon
    <2>6. Records(e, m, tx, rx, r)
      BY <1>15, <2>1, <2>2, <2>3, <2>4, <2>5, ZenonT(30) DEF Records
    <2>7. /\ txdone' \in [Ep -> Seq(Message)] /\ rxdone' \in [Ep -> Seq(RxDone)]
          /\ Recorded' /\ CompleteOnce' /\ DeliveredFirst'
          /\ \A k \in Message : Sent(k)' <=> Sent(k) \/ (tx /\ k = m)
          /\ \A k \in Message : Got(k)' <=> Got(k) \/ (rx /\ k = m)
      BY <1>1, <1>13, <1>15, <2>6, RecordsMove
    <2> QED  BY <2>2, <2>7, Zenon
  <1>24. Outstanding'
    <2>1. ASSUME NEW y \in Ent, Busy(y)'
          PROVE  /\ Sent(hdr[y].msg)' => Immediate(hdr'[y].msg.kind) \/ "ACK" \in hdr'[y].flags
                 /\ Got(hdr[y].msg)' => "RETURN" \in hdr'[y].flags
      <3>1. PICK k \in Message : k = hdr'[y].msg
        BY <1>8, <1>18, <1>19, <2>1, Zenon
      <3>2. (Sent(hdr[y].msg)' <=> Sent(k)') /\ (Got(hdr[y].msg)' <=> Got(k)')
        BY <3>1, Zenon DEF Sent, Got
      <3>3. CASE y = x
        <4>1. k = m
          BY <1>8, <1>18, <3>1, <3>3, Zenon
        <4>2. (Sent(k)' => Immediate(k.kind)) /\ ~Got(k)'
          BY <1>6, <1>21, <1>22, <1>23, <4>1, Zenon
        <4> QED  BY <3>1, <3>2, <4>2, Zenon
      <3>4. CASE y # x
        <4>1. Busy(y) /\ k = hdr[y].msg /\ hdr'[y] = hdr[y] /\ k # m
          BY <1>18, <1>19, <2>1, <3>1, <3>4, Zenon
        <4>2. (Sent(k)' <=> Sent(k)) /\ (Got(k)' <=> Got(k))
          BY <1>23, <4>1, Zenon
        <4>3. /\ Sent(k) => Immediate(k.kind) \/ "ACK" \in hdr[y].flags
              /\ Got(k) => "RETURN" \in hdr[y].flags
          BY <1>1, <4>1, Zenon DEF Outstanding
        <4> QED  BY <3>1, <3>2, <4>1, <4>2, <4>3, Zenon
      <3> QED  BY <3>3, <3>4, Zenon
    <2>2. ASSUME NEW f \in Ep, NEW i \in DOMAIN unexp'[f]
          PROVE  /\ Sent(unexp[f][i].h.msg)' => Immediate(unexp'[f][i].h.msg.kind)
                 /\ ~Got(unexp[f][i].h.msg)'
      <3>1. PICK k \in Message : k = unexp'[f][i].h.msg /\ k = unexp[f][i].h.msg /\ k # m
        BY <1>3, <1>19, Zenon
      <3>2. (Sent(unexp[f][i].h.msg)' <=> Sent(k)') /\ (Got(unexp[f][i].h.msg)' <=> Got(k)')
        BY <3>1, Zenon DEF Sent, Got
      <3>3. (Sent(k)' <=> Sent(k)) /\ (Got(k)' <=> Got(k))
        BY <1>23, <3>1, Zenon
      <3>4. (Sent(k) => Immediate(k.kind)) /\ ~Got(k)
        BY <1>1, <1>3, <3>1, Zenon DEF Outstanding
      <3> QED  BY <3>1, <3>2, <3>3, <3>4, Zenon
    <2> QED  BY <2>1, <2>2, Zenon DEF Outstanding
  <1>25. TypeOK'
    <2>1. OthersOK'
      BY <1>3, <1>9, <1>14, Zenon DEF OthersOK
    <2> QED  BY <1>12, <1>23, <2>1, TypeParts, Zenon
  <1> QED  BY <1>12, <1>16, <1>17, <1>20, <1>23, <1>24, <1>25, Zenon DEF IInv

(***************************************************************************)
(* The handlers of the entry at the head of a queue.                       *)
(***************************************************************************)
LEMMA NoneCompletes ==
    ASSUME NEW e, NEW x, hdr[x].msg \in Message, txdone' = txdone, rxdone' = rxdone
    PROVE  \E r : Completes(e, x, FALSE, FALSE, r)
  <1>1. PICK r : r = [msg |-> hdr[x].msg, ctx |-> 0, ok |-> TRUE]
    BY Zenon
  <1>2. r \in RxDone /\ r.msg = hdr[x].msg
    BY <1>1, Zenon DEF RxDone
  <1>3. Completes(e, x, FALSE, FALSE, r)
    BY <1>2, Zenon DEF Completes
  <1> QED  BY <1>3, Zenon

LEMMA TxCompletes ==
    ASSUME NEW e, NEW x, hdr[x].msg \in Message, rxdone' = rxdone,
           txdone' = Add(txdone, e, hdr[x].msg),
           hdr[x].msg.from = e, ~Returning(hdr[x]), ~Immediate(hdr[x].msg.kind), "ACK" \notin hdr[x].flags,
           hdr[x].msg \in placed' \/ hdr[x].msg \in Range(applied'[hdr[x].msg.to])
    PROVE  \E r : Completes(e, x, TRUE, FALSE, r)
  <1>1. PICK r : r = [msg |-> hdr[x].msg, ctx |-> 0, ok |-> TRUE]
    BY Zenon
  <1>2. r \in RxDone /\ r.msg = hdr[x].msg
    BY <1>1, Zenon DEF RxDone
  <1>3. Completes(e, x, TRUE, FALSE, r)
    BY <1>2, Zenon DEF Completes
  <1> QED  BY <1>3, Zenon

LEMMA RxCompletes ==
    ASSUME NEW e, NEW x, hdr[x].msg \in Message, txdone' = txdone, NEW ctx \in Nat,
           Received(e, hdr[x].msg, ctx, TRUE),
           hdr[x].msg.to = e, "RETURN" \notin hdr[x].flags, hdr[x].msg \in placed'
    PROVE  \E r : Completes(e, x, FALSE, TRUE, r)
  <1>1. PICK r : r = [msg |-> hdr[x].msg, ctx |-> ctx, ok |-> TRUE]
    BY Zenon
  <1>2. r \in RxDone /\ r.msg = hdr[x].msg
    BY <1>1, Zenon DEF RxDone
  <1>3. rxdone' = Add(rxdone, e, r) /\ ~Returning(hdr[x])
    BY <1>1, Zenon DEF Received, Returning
  <1>4. Completes(e, x, FALSE, TRUE, r)
    BY <1>2, <1>3, Zenon DEF Completes
  <1> QED  BY <1>4, Zenon

\* An entry that becomes one that only goes back, to where it belongs.
LEMMA BackKeeps ==
    ASSUME IInv, NEW e \in Ep, queue[e] # << >>, NEW x, x = Head(queue[e]),
           NEW F \in SUBSET Flags, "GENERATE" \notin F, WriteBack(e, x, F), Quiet,
           NeverClosed => HomeOf(e, hdr[x]) = hdr[x].sender,
           hdr[x].msg.from # hdr[x].msg.to,
           NEW tx, NEW rx, NEW r, Completes(e, x, tx, rx, r)
    PROVE  IInv'
  <1>1. x \in Ent /\ hdr[x] \in Header /\ hdr[x].sender \in Ep
    BY HeadOf, Zenon
  <1>2. F \cup {"RETURN"} \in SUBSET Flags
    BY Zenon DEF Flags
  <1>3. PICK h : h = [hdr[x] EXCEPT !.flags = F \cup {"RETURN"}]
    BY Zenon
  <1>4. h \in Header /\ h.flags = F \cup {"RETURN"} /\ h.msg = hdr[x].msg
    BY <1>1, <1>2, <1>3, Zenon DEF Header
  <1>5. PICK d \in Ep : d = hdr[x].sender
    BY <1>1, Zenon
  <1>6. Returning(h)
    BY <1>4, Zenon DEF Returning
  <1>7. Shape(d, h)'
    BY <1>4, <1>6, Zenon DEF Shape
  <1>8. NeverClosed => HomeOf(d, h) = HomeOf(e, hdr[x])
    BY <1>5, <1>6, Zenon DEF HomeOf
  <1>9. Becomes(e, x, d, h, tx, rx)
    BY <1>4, <1>6, <1>7, <1>8, Zenon DEF Becomes
  <1>10. Pass(e, x, h, d)
    BY <1>3, <1>5, Zenon DEF WriteBack
  <1> QED  BY <1>9, <1>10, PassKeeps, Zenon

LEMMA ReturnKeeps ==
    ASSUME IInv, NEW e \in Ep, queue[e] # << >>, NEW x, x = Head(queue[e]), ProgressReturn(e, x)
    PROVE  IInv'
  <1>1. /\ x \in Ent /\ hdr[x].msg \in Message /\ Shape(e, hdr[x]) /\ hdr[x].flags \in SUBSET Flags
        /\ hdr[x] \in Header
    BY HeadOf, Zenon
  <1>2. /\ "RETURN" \in hdr[x].flags
        /\ txdone' = IF "GENERATE" \in hdr[x].flags THEN Add(txdone, e, hdr[x].msg) ELSE txdone
        /\ ReturnOrPush(e, x)
        /\ UNCHANGED <<posted, unexp, rxctx, life, nrecv, issued, placed, applied, rxdone>>
    BY Zenon DEF ProgressReturn
  <1>3. Quiet
    BY <1>2, TypeParts, Zenon DEF IInv, Quiet, Grown, OthersOK
  <1>4. CASE "GENERATE" \notin hdr[x].flags
    <2>1. Push(e, x)
      BY <1>2, <1>4, Zenon DEF ReturnOrPush
    <2>2. HomeOf(e, hdr[x]) = e
      BY <1>2, <1>4, Zenon DEF HomeOf, Returning
    <2>3. PICK r : Completes(e, x, FALSE, FALSE, r)
      BY <1>1, <1>2, <1>4, NoneCompletes, Zenon
    <2> QED  BY <1>3, <2>1, <2>2, <2>3, PushKeeps, Zenon
  <1>5. CASE "GENERATE" \in hdr[x].flags
    <2>1. /\ hdr[x].flags \in {{"RETURN", "GENERATE", "UNEXP"}, {"RETURN", "GENERATE"}}
          /\ "UNEXP" \in hdr[x].flags => hdr[x].sender = hdr[x].msg.to
          /\ hdr[x].msg.from = e /\ hdr[x].msg.from # hdr[x].msg.to
          /\ hdr[x].msg.kind \in {"cma", "fetch"}
          /\ hdr[x].msg \in placed \/ hdr[x].msg \in Range(applied[hdr[x].msg.to])
      BY <1>1, <1>2, <1>5, Zenon DEF Shape, Returning
    <2>2. ~Returning(hdr[x]) /\ ~Immediate(hdr[x].msg.kind) /\ "ACK" \notin hdr[x].flags
      BY <1>5, <2>1, Zenon DEF Returning, Immediate
    <2>3. PICK r : Completes(e, x, TRUE, FALSE, r)
      BY <1>1, <1>2, <1>5, <2>1, <2>2, TxCompletes, Zenon
    <2>4. CASE "UNEXP" \in hdr[x].flags
      <3>1. WriteBack(e, x, hdr[x].flags \ {"GENERATE"})
        BY <1>2, <1>5, <2>4, Zenon DEF ReturnOrPush
      <3>2. HomeOf(e, hdr[x]) = hdr[x].sender
        BY <2>1, <2>2, <2>4, Zenon DEF HomeOf
      <3>3. hdr[x].flags \ {"GENERATE"} \in SUBSET Flags /\ "GENERATE" \notin hdr[x].flags \ {"GENERATE"}
        BY <1>1, Zenon
      <3> QED  BY <1>3, <2>1, <2>3, <3>1, <3>2, <3>3, BackKeeps, Zenon
    <2>5. CASE "UNEXP" \notin hdr[x].flags
      <3>1. Push(e, x)
        BY <1>2, <2>5, Zenon DEF ReturnOrPush
      <3>2. HomeOf(e, hdr[x]) = e
        BY <2>1, <2>2, <2>5, Zenon DEF HomeOf
      <3> QED  BY <1>3, <2>3, <3>1, <3>2, PushKeeps, Zenon
    <2> QED  BY <2>4, <2>5, Zenon
  <1> QED  BY <1>4, <1>5, Zenon

LEMMA AtomicKeeps ==
    ASSUME IInv, NEW e \in Ep, queue[e] # << >>, NEW x, x = Head(queue[e]),
           "RETURN" \notin hdr[x].flags, ProgressAtomic(e, x)
    PROVE  IInv'
  <1>1. /\ x \in Ent /\ hdr[x].msg \in Message /\ Shape(e, hdr[x]) /\ hdr[x].flags \in SUBSET Flags
        /\ hdr[x] \in Header
    BY HeadOf, Zenon
  <1>2. PICK F : F = hdr[x].flags \cup {"RETURN"} \cup IF hdr[x].msg.kind = "fetch" THEN {"GENERATE"} ELSE {}
    BY Zenon
  <1>3. /\ hdr[x].msg.kind \in {"atomic", "fetch"}
        /\ applied' = Add(applied, e, hdr[x].msg)
        /\ Pass(e, x, [hdr[x] EXCEPT !.flags = F, !.res = HeldBefore(e)], hdr[x].sender)
        /\ UNCHANGED <<posted, unexp, rxctx, life, nrecv, issued, placed, txdone, rxdone>>
    BY <1>2, Zenon DEF ProgressAtomic
  <1>4. /\ hdr[x].flags = {} /\ hdr[x].sender = hdr[x].msg.from /\ e = hdr[x].msg.to
        /\ hdr[x].msg.from # hdr[x].msg.to
    BY <1>1, <1>3, Zenon DEF Shape, Returning
  <1>5. TypeOK
    BY Zenon DEF IInv
  <1>6. /\ applied' \in [Ep -> Seq(Message)] /\ hdr[x].msg \in Range(applied'[e]) /\ HeldBefore(e) \in Nat
        /\ \A f \in Ep : Range(applied[f]) \subseteq Range(applied'[f])
    <2>1. applied \in [Ep -> Seq(Message)]
      BY <1>5, Zenon DEF TypeOK
    <2>2. /\ applied' \in [Ep -> Seq(Message)]
          /\ \A f \in Ep : applied'[f] = IF f = e THEN Append(applied[f], hdr[x].msg) ELSE applied[f]
      BY <1>1, <1>3, <2>1 DEF Add
    <2>3. Range(Append(applied[e], hdr[x].msg)) = Range(applied[e]) \cup {hdr[x].msg}
      BY <1>1, <2>1, Appended
    <2>4. HeldBefore(e) \in Nat
      BY <2>1 DEF HeldBefore
    <2> QED  BY <2>2, <2>3, <2>4, Zenon
  <1>7. Quiet
    <2>1. Grown
      BY <1>3, <1>6, Zenon DEF Grown
    <2>2. OthersOK
      BY <1>5, TypeParts, Zenon
    <2> QED  BY <1>3, <1>6, <2>1, <2>2, Zenon DEF Quiet, OthersOK
  <1>8. PICK h : h = [hdr[x] EXCEPT !.flags = F, !.res = HeldBefore(e)]
    BY Zenon
  <1>9. F \in SUBSET Flags
    BY <1>1, <1>2, Zenon DEF Flags
  <1>10. h \in Header /\ h.flags = F /\ h.msg = hdr[x].msg
    BY <1>1, <1>6, <1>8, <1>9, Zenon DEF Header
  <1>11. PICK d \in Ep : d = hdr[x].sender
    BY HeadOf, Zenon
  <1>12. IF hdr[x].msg.kind = "fetch" THEN F = {"RETURN", "GENERATE"} ELSE F = {"RETURN"}
    BY <1>2, <1>4, Zenon
  <1>13. ~Returning(hdr[x]) /\ HomeOf(e, hdr[x]) = hdr[x].msg.from
    BY <1>4, Zenon DEF Returning, HomeOf
  <1>14. HomeOf(d, h) = hdr[x].msg.from
    BY <1>4, <1>10, <1>11, <1>12, Zenon DEF Returning, HomeOf
  <1>15. Shape(d, h)'
    <2>1. CASE hdr[x].msg.kind = "fetch"
      BY <1>4, <1>6, <1>10, <1>11, <1>12, <2>1, Zenon DEF Shape
    <2>2. CASE hdr[x].msg.kind # "fetch"
      <3>1. Returning(h)
        BY <1>10, <1>12, <2>2 DEF Returning
      <3> QED  BY <1>4, <1>10, <3>1, Zenon DEF Shape
    <2> QED  BY <2>1, <2>2, Zenon
  <1>16. Becomes(e, x, d, h, FALSE, FALSE)
    BY <1>4, <1>10, <1>13, <1>14, <1>15, Zenon DEF Becomes
  <1>17. PICK r : Completes(e, x, FALSE, FALSE, r)
    BY <1>1, <1>3, NoneCompletes, Zenon
  <1>18. Pass(e, x, h, d)
    BY <1>3, <1>8, <1>11, Zenon
  <1> QED  BY <1>7, <1>16, <1>17, <1>18, PassKeeps, Zenon

LEMMA HostToDevKeeps ==
    ASSUME IInv, NEW e \in Ep, queue[e] # << >>, NEW x, x = Head(queue[e]),
           "RETURN" \notin hdr[x].flags, ProgressHostToDev(e, x)
    PROVE  IInv'
  <1>1. /\ x \in Ent /\ hdr[x].msg \in Message /\ Shape(e, hdr[x]) /\ hdr[x].flags \in SUBSET Flags
        /\ hdr[x] \in Header
    BY HeadOf, Zenon
  <1>2. /\ "TO_DEV" \in hdr[x].flags
        /\ UNCHANGED <<posted, unexp, rxctx, life, nrecv, issued, applied, rxdone>>
    BY Zenon DEF ProgressHostToDev
  <1>3. /\ hdr[x].flags \in {{"TO_DEV"}, {"TO_DEV", "UNEXP"}}
        /\ hdr[x].sender = hdr[x].msg.to /\ e = hdr[x].msg.from /\ hdr[x].msg.from # hdr[x].msg.to
        /\ hdr[x].msg.kind = "cma" /\ hdr[x].rx \in Slots
    BY <1>1, <1>2, Zenon DEF Shape, Returning
  <1>4. /\ ~Returning(hdr[x]) /\ ~Immediate(hdr[x].msg.kind) /\ "ACK" \notin hdr[x].flags
        /\ HomeOf(e, hdr[x]) = IF "UNEXP" \in hdr[x].flags THEN hdr[x].msg.to ELSE hdr[x].msg.from
    BY <1>3, Zenon DEF Returning, Immediate, HomeOf
  <1>5. OthersOK
    BY TypeParts, Zenon DEF IInv
  <1>6. CASE /\ placed' = placed \cup {hdr[x].msg}
             /\ txdone' = Add(txdone, e, hdr[x].msg)
             /\ Pass(e, x, [hdr[x] EXCEPT !.flags = (@ \ {"TO_DEV"}) \cup {"ACK"}, !.sender = e],
                     hdr[x].sender)
    <2>1. Quiet
      BY <1>1, <1>2, <1>5, <1>6, Zenon DEF Quiet, Grown, OthersOK
    <2>2. PICK F : F = (hdr[x].flags \ {"TO_DEV"}) \cup {"ACK"}
      BY Zenon
    <2>3. F \in SUBSET Flags
      BY <1>1, <2>2, Zenon DEF Flags
    <2>4. /\ F \in {{"ACK"}, {"ACK", "UNEXP"}}
          /\ "UNEXP" \in F <=> "UNEXP" \in hdr[x].flags
          /\ "ACK" \in F /\ "RETURN" \notin F
      BY <1>3, <2>2, Zenon
    <2>5. PICK h : h = [hdr[x] EXCEPT !.flags = F, !.sender = e]
      BY Zenon
    <2>6. h \in Header /\ h.flags = F /\ h.msg = hdr[x].msg /\ h.sender = e /\ h.rx = hdr[x].rx
      BY <1>1, <2>3, <2>5, Zenon DEF Header
    <2>7. PICK d \in Ep : d = hdr[x].sender
      BY HeadOf, Zenon
    <2>8. Shape(d, h)'
      BY <1>3, <1>6, <2>4, <2>6, <2>7, Zenon DEF Shape
    <2>9. ~Returning(h) /\ HomeOf(d, h) = HomeOf(e, hdr[x])
      BY <1>4, <2>4, <2>6, Zenon DEF Returning, HomeOf
    <2>10. Becomes(e, x, d, h, TRUE, FALSE)
      BY <1>4, <2>4, <2>6, <2>8, <2>9, Zenon DEF Becomes
    <2>11. hdr[x].msg \in placed'
      BY <1>6, Zenon
    <2>12. PICK r : Completes(e, x, TRUE, FALSE, r)
      BY <1>1, <1>2, <1>3, <1>4, <1>6, <2>11, TxCompletes, Zenon
    <2>13. Pass(e, x, h, d)
      BY <1>6, <2>2, <2>5, <2>7, Zenon
    <2> QED  BY <2>1, <2>10, <2>12, <2>13, PassKeeps, Zenon
  <1>7. CASE /\ IF "UNEXP" \in hdr[x].flags
                THEN WriteBack(e, x, hdr[x].flags \ {"GENERATE"})
                ELSE Push(e, x)
             /\ UNCHANGED <<placed, txdone>>
    <2>1. Quiet
      BY <1>2, <1>5, <1>7, Zenon DEF Quiet, Grown, OthersOK
    <2>2. PICK r : Completes(e, x, FALSE, FALSE, r)
      BY <1>1, <1>2, <1>7, NoneCompletes, Zenon
    <2>3. CASE "UNEXP" \in hdr[x].flags
      <3>1. WriteBack(e, x, hdr[x].flags \ {"GENERATE"}) /\ HomeOf(e, hdr[x]) = hdr[x].sender
        BY <1>3, <1>4, <1>7, <2>3, Zenon
      <3>2. hdr[x].flags \ {"GENERATE"} \in SUBSET Flags /\ "GENERATE" \notin hdr[x].flags \ {"GENERATE"}
        BY <1>1, Zenon
      <3> QED  BY <1>3, <2>1, <2>2, <3>1, <3>2, BackKeeps, Zenon
    <2>4. CASE "UNEXP" \notin hdr[x].flags
      <3>1. Push(e, x) /\ HomeOf(e, hdr[x]) = e
        BY <1>3, <1>4, <1>7, <2>4, Zenon
      <3> QED  BY <2>1, <2>2, <3>1, PushKeeps, Zenon
    <2> QED  BY <2>3, <2>4, Zenon
  <1> QED  BY <1>6, <1>7, Zenon DEF ProgressHostToDev

LEMMA AckKeeps ==
    ASSUME IInv, NEW e \in Ep, queue[e] # << >>, NEW x, x = Head(queue[e]),
           "RETURN" \notin hdr[x].flags, ProgressAck(e, x)
    PROVE  IInv'
  <1>1. /\ x \in Ent /\ hdr[x].msg \in Message /\ Shape(e, hdr[x]) /\ hdr[x].flags \in SUBSET Flags
        /\ hdr[x] \in Header
    BY HeadOf, Zenon
  <1>2. /\ "ACK" \in hdr[x].flags
        /\ Received(e, hdr[x].msg, rxctx[e][hdr[x].rx], TRUE) /\ AfterAck(e, x)
        /\ UNCHANGED <<posted, unexp, rxctx, life, nrecv, issued, placed, applied, txdone>>
    BY Zenon DEF ProgressAck
  <1>3. /\ hdr[x].flags \in {{"ACK"}, {"ACK", "UNEXP"}}
        /\ hdr[x].sender = hdr[x].msg.from /\ e = hdr[x].msg.to /\ hdr[x].msg.from # hdr[x].msg.to
        /\ hdr[x].msg \in placed /\ hdr[x].rx \in Slots
    BY <1>1, <1>2, Zenon DEF Shape, Returning
  <1>4. HomeOf(e, hdr[x]) = IF "UNEXP" \in hdr[x].flags THEN hdr[x].msg.to ELSE hdr[x].msg.from
    BY <1>3, Zenon DEF Returning, HomeOf
  <1>5. Quiet
    <2>1. OthersOK
      BY TypeParts, Zenon DEF IInv
    <2> QED  BY <1>2, <2>1, Zenon DEF Quiet, Grown, OthersOK
  <1>6. PICK r : Completes(e, x, FALSE, TRUE, r)
    <2>1. rxctx \in [Ep -> [Slots -> Nat]]
      BY Zenon DEF IInv, TypeOK
    <2>2. PICK ctx \in Nat : ctx = rxctx[e][hdr[x].rx]
      BY <1>3, <2>1, Zenon
    <2> QED  BY <1>1, <1>2, <1>3, <2>2, RxCompletes, Zenon
  <1>7. CASE "UNEXP" \in hdr[x].flags
    <2>1. Push(e, x) /\ HomeOf(e, hdr[x]) = e
      BY <1>2, <1>3, <1>4, <1>7, Zenon DEF AfterAck
    <2> QED  BY <1>5, <1>6, <2>1, PushKeeps, Zenon
  <1>8. CASE "UNEXP" \notin hdr[x].flags
    <2>1. WriteBack(e, x, hdr[x].flags \ {"GENERATE"}) /\ HomeOf(e, hdr[x]) = hdr[x].sender
      BY <1>2, <1>3, <1>4, <1>8, Zenon DEF AfterAck
    <2>2. hdr[x].flags \ {"GENERATE"} \in SUBSET Flags /\ "GENERATE" \notin hdr[x].flags \ {"GENERATE"}
      BY <1>1, Zenon
    <2> QED  BY <1>3, <1>5, <1>6, <2>1, <2>2, BackKeeps, Zenon
  <1> QED  BY <1>7, <1>8, Zenon

LEMMA ExpectedKeeps ==
    ASSUME IInv, NEW e \in Ep, queue[e] # << >>, NEW x, x = Head(queue[e]),
           "RETURN" \notin hdr[x].flags, {"TO_DEV", "ACK"} \cap hdr[x].flags = {},
           hdr[x].msg.kind \in {"inject", "cma"}, StartExpected(e, x)
    PROVE  IInv'
  <1>1. /\ x \in Ent /\ hdr[x].msg \in Message /\ hdr[x] \in Header
    BY HeadOf, Zenon
  <1>2. /\ hdr[x].flags = {} /\ hdr[x].sender = hdr[x].msg.from /\ e = hdr[x].msg.to
        /\ hdr[x].msg.from # hdr[x].msg.to
        /\ ~Returning(hdr[x]) /\ HomeOf(e, hdr[x]) = hdr[x].msg.from
    BY Arrived, Zenon
  <1>3. PICK q : q = Head(posted[e])
    BY Zenon
  <1>4. /\ posted[e] # << >> /\ posted' = Drop(posted, e)
        /\ UNCHANGED <<unexp, rxctx, life, nrecv, issued, applied, txdone>>
    BY Zenon DEF StartExpected
  <1>5. IF ByDevice(hdr[x], q.mem)
        THEN /\ Pass(e, x, Handle(e, hdr[x], q.slot), hdr[x].sender)
             /\ UNCHANGED <<placed, rxdone>>
        ELSE /\ placed' = placed \cup {hdr[x].msg}
             /\ Received(e, hdr[x].msg, rxctx[e][q.slot], TRUE)
             /\ WriteBack(e, x, DoneFlags(hdr[x]))
    BY <1>3, Zenon DEF StartExpected
  <1>6. OthersOK
    BY TypeParts, Zenon DEF IInv
  <1>7. q.slot \in Slots /\ posted' \in [Ep -> Seq([slot : Slots, mem : Mems])]
    <2>1. PICK S : S = [slot : Slots, mem : Mems]
      BY Zenon
    <2>2. posted \in [Ep -> Seq(S)]
      BY <1>6, <2>1, Zenon DEF OthersOK
    <2>3. q \in S /\ Tail(posted[e]) \in Seq(S)
      BY <1>3, <1>4, <2>2, Removed, Zenon
    <2>4. posted' \in [Ep -> Seq(S)]
      BY <1>4, <2>2, <2>3, Zenon DEF Drop
    <2> QED  BY <2>1, <2>3, <2>4, Zenon
  <1>8. PICK d \in Ep : d = hdr[x].sender
    BY HeadOf, Zenon
  <1>9. CASE ByDevice(hdr[x], q.mem)
    <2>1. Quiet
      BY <1>4, <1>5, <1>6, <1>7, <1>9, Zenon DEF Quiet, Grown, OthersOK
    <2>2. PICK h : h = Handle(e, hdr[x], q.slot)
      BY Zenon
    <2>3. PICK F : F = hdr[x].flags \cup {"TO_DEV"}
      BY Zenon
    <2>4. F \in SUBSET Flags /\ F = {"TO_DEV"}
      BY <1>2, <2>3, Zenon DEF Flags
    <2>5. h = [hdr[x] EXCEPT !.flags = F, !.sender = e, !.rx = q.slot]
      BY <2>2, <2>3, Zenon DEF Handle
    <2>6. h \in Header /\ h.flags = F /\ h.msg = hdr[x].msg /\ h.sender = e /\ h.rx = q.slot
      BY <1>1, <1>7, <2>4, <2>5, Zenon DEF Header
    <2>7. hdr[x].msg.kind = "cma"
      BY <1>9, Zenon DEF ByDevice
    <2>8. Shape(d, h)'
      BY <1>2, <1>7, <1>8, <2>4, <2>6, <2>7, Zenon DEF Shape
    <2>9. HomeOf(d, h) = HomeOf(e, hdr[x])
      <3>1. "RETURN" \notin h.flags /\ "UNEXP" \notin h.flags
        BY <2>4, <2>6
      <3>2. ~Returning(h)
        BY <3>1, Zenon DEF Returning
      <3>3. HomeOf(d, h) = h.msg.from
        BY <3>1, <3>2, Zenon DEF HomeOf
      <3> QED  BY <1>2, <2>6, <3>3, Zenon
    <2>10. Becomes(e, x, d, h, FALSE, FALSE)
      BY <1>2, <2>6, <2>8, <2>9, Zenon DEF Becomes
    <2>11. PICK r : Completes(e, x, FALSE, FALSE, r)
      BY <1>1, <1>4, <1>5, <1>9, NoneCompletes, Zenon
    <2>12. Pass(e, x, h, d)
      BY <1>5, <1>8, <1>9, <2>2, Zenon
    <2> QED  BY <2>1, <2>10, <2>11, <2>12, PassKeeps, Zenon
  <1>10. CASE ~ByDevice(hdr[x], q.mem)
    <2>1. Quiet
      BY <1>1, <1>4, <1>5, <1>6, <1>7, <1>10, Zenon DEF Quiet, Grown, OthersOK
    <2>2. hdr[x].msg \in placed'
      BY <1>5, <1>10, Zenon
    <2>3. PICK r : Completes(e, x, FALSE, TRUE, r)
      <3>1. PICK ctx \in Nat : ctx = rxctx[e][q.slot]
        <4>1. rxctx \in [Ep -> [Slots -> Nat]]
          BY <1>6, Zenon DEF OthersOK
        <4>2. rxctx[e] \in [Slots -> Nat]
          BY <4>1, Zenon
        <4> QED  BY <1>7, <4>2, Zenon
      <3> QED  BY <1>1, <1>2, <1>4, <1>5, <1>10, <2>2, <3>1, RxCompletes, Zenon
    <2>4. PICK F : F = DoneFlags(hdr[x]) \cup {"RETURN"}
      BY Zenon
    <2>5. /\ F \in SUBSET Flags /\ "RETURN" \in F
          /\ F = IF Immediate(hdr[x].msg.kind) THEN {"RETURN"} ELSE {"RETURN", "GENERATE"}
      BY <1>2, <2>4, Zenon DEF DoneFlags, Flags
    <2>6. PICK h : h = [hdr[x] EXCEPT !.flags = F]
      BY Zenon
    <2>7. h \in Header /\ h.flags = F /\ h.msg = hdr[x].msg
      BY <1>1, <2>5, <2>6, Zenon DEF Header
    <2>8. Shape(d, h)'
      <3>1. CASE Immediate(hdr[x].msg.kind)
        <4>1. Returning(h)
          BY <2>5, <2>7, <3>1 DEF Returning
        <4> QED  BY <1>2, <2>7, <4>1, Zenon DEF Shape
      <3>2. CASE ~Immediate(hdr[x].msg.kind)
        <4>1. hdr[x].msg.kind = "cma"
          BY <3>2, Zenon DEF Immediate
        <4> QED  BY <1>2, <1>8, <2>2, <2>5, <2>7, <3>2, <4>1, Zenon DEF Shape
      <3> QED  BY <3>1, <3>2, Zenon
    <2>9. HomeOf(d, h) = HomeOf(e, hdr[x])
      <3>1. CASE Immediate(hdr[x].msg.kind)
        <4>1. "RETURN" \in h.flags /\ "GENERATE" \notin h.flags
          BY <2>5, <2>7, <3>1
        <4>2. HomeOf(d, h) = d
          BY <4>1, Zenon DEF HomeOf, Returning
        <4> QED  BY <1>2, <1>8, <4>2, Zenon
      <3>2. CASE ~Immediate(hdr[x].msg.kind)
        <4>1. "GENERATE" \in h.flags /\ "UNEXP" \notin h.flags
          BY <2>5, <2>7, <3>2
        <4>2. HomeOf(d, h) = h.msg.from
          BY <4>1, Zenon DEF HomeOf, Returning
        <4> QED  BY <1>2, <2>7, <4>2, Zenon
      <3> QED  BY <3>1, <3>2, Zenon
    <2>10. Becomes(e, x, d, h, FALSE, TRUE)
      BY <1>2, <2>5, <2>7, <2>8, <2>9, Zenon DEF Becomes
    <2>11. Pass(e, x, h, d)
      BY <1>5, <1>8, <1>10, <2>4, <2>6, Zenon DEF WriteBack
    <2> QED  BY <2>1, <2>3, <2>10, <2>11, PassKeeps, Zenon
  <1> QED  BY <1>9, <1>10, Zenon

LEMMA DrainKeeps ==
    ASSUME IInv, NEW e \in Ep, Drain(e)
    PROVE  IInv'
  <1>1. PICK x : x = Head(queue[e])
    BY Zenon
  <1>2. /\ life[e] \in {"drain", "redrain"} /\ queue[e] # << >>
        /\ IF "RETURN" \in hdr[x].flags THEN Push(e, x)
           ELSE WriteBack(e, x, hdr[x].flags \ {"GENERATE"})
        /\ UNCHANGED <<posted, unexp, rxctx, life, nrecv, issued, placed, applied, txdone, rxdone>>
    BY <1>1, Zenon DEF Drain, Keep, history
  <1>3. /\ x \in Ent /\ hdr[x].msg \in Message /\ Shape(e, hdr[x]) /\ hdr[x].flags \in SUBSET Flags
    BY <1>1, <1>2, HeadOf, Zenon
  <1>4. Quiet
    <2>1. OthersOK
      BY TypeParts, Zenon DEF IInv
    <2> QED  BY <1>2, <2>1, Zenon DEF Quiet, Grown, OthersOK
  <1>5. ~NeverClosed
    BY <1>2, Zenon DEF NeverClosed
  <1>6. PICK r : Completes(e, x, FALSE, FALSE, r)
    BY <1>2, <1>3, NoneCompletes, Zenon
  <1>7. CASE "RETURN" \in hdr[x].flags
    BY <1>1, <1>2, <1>4, <1>5, <1>6, <1>7, PushKeeps, Zenon
  <1>8. CASE "RETURN" \notin hdr[x].flags
    <2>1. hdr[x].flags \ {"GENERATE"} \in SUBSET Flags /\ "GENERATE" \notin hdr[x].flags \ {"GENERATE"}
      BY <1>3, Zenon
    <2>2. hdr[x].msg.from # hdr[x].msg.to
      BY <1>3, Zenon DEF Shape
    <2> QED  BY <1>1, <1>2, <1>4, <1>5, <1>6, <1>8, <2>1, <2>2, BackKeeps, Zenon
  <1> QED  BY <1>7, <1>8, Zenon

\* A message with no receive: its entry only goes back, and the context has it.
LEMMA AsideKeeps ==
    ASSUME IInv, NEW e \in Ep, queue[e] # << >>, NEW x, x = Head(queue[e]),
           "RETURN" \notin hdr[x].flags, {"TO_DEV", "ACK"} \cap hdr[x].flags = {},
           hdr[x].msg.kind \in {"inject", "cma"}, SetAside(e, x)
    PROVE  IInv'
  <1>1. /\ x \in Ent /\ In(e, x) /\ hdr[x].msg \in Message /\ hdr[x] \in Header
    BY HeadOf, Zenon
  <1>2. /\ hdr[x].flags = {} /\ hdr[x].sender = hdr[x].msg.from /\ e = hdr[x].msg.to
        /\ hdr[x].msg.from # hdr[x].msg.to
        /\ ~Returning(hdr[x]) /\ HomeOf(e, hdr[x]) = hdr[x].msg.from
    BY Arrived, Zenon
  <1>3. /\ TypeOK /\ Apart /\ Shapes /\ Homes /\ Once /\ Outstanding /\ Recorded
        /\ CompleteOnce /\ DeliveredFirst /\ PlacesOK /\ OthersOK
    BY TypeParts, Zenon DEF IInv
  <1>4. PICK s \in FreeSlots(e) :
          unexp' = Add(unexp, e, [h |-> [hdr[x] EXCEPT !.flags = @ \cup {"UNEXP"}], slot |-> s])
    BY Zenon DEF SetAside, QueueUnexp
  <1>5. /\ WriteBack(e, x, AsideFlags(hdr[x]))
        /\ UNCHANGED <<posted, rxctx, life, nrecv, issued, placed, applied, txdone, rxdone>>
    BY Zenon DEF SetAside, history
  <1>6. PICK m \in Message : m = hdr[x].msg
    BY <1>1, Zenon
  <1>7. PICK g : g = [hdr[x] EXCEPT !.flags = {"UNEXP"}]
    BY Zenon
  <1>8. g \in Header /\ g.flags = {"UNEXP"} /\ g.msg = m /\ g.sender = hdr[x].sender
    <2>1. {"UNEXP"} \in SUBSET Flags
      BY Zenon DEF Flags
    <2> QED  BY <1>1, <1>6, <1>7, <2>1, Zenon DEF Header
  <1>9. Aside(e, g)
    BY <1>2, <1>6, <1>8, Zenon DEF Aside
  <1> DEFINE S == [h : Header, slot : Slots]
  <1>10. PICK u : u = [h |-> g, slot |-> s]
    BY Zenon
  <1>11. u \in S /\ u.h = g
    <2>1. s \in Slots
      BY Zenon DEF FreeSlots
    <2> QED  BY <1>8, <1>10, <2>1, Zenon
  <1>12. unexp' = Add(unexp, e, u)
    <2>1. hdr[x].flags \cup {"UNEXP"} = {"UNEXP"}
      BY <1>2, Zenon
    <2>2. [hdr[x] EXCEPT !.flags = @ \cup {"UNEXP"}] = g
      BY <1>7, <2>1, Zenon
    <2> QED  BY <1>4, <1>10, <2>2, Zenon
  <1>13. unexp \in [Ep -> Seq(S)]
    BY <1>3, Zenon DEF TypeOK
  <1> HIDE DEF S
  <1>14. /\ unexp' \in [Ep -> Seq(S)]
         /\ \A f \in Ep : unexp'[f] = IF f = e THEN Append(unexp[f], u) ELSE unexp[f]
    BY <1>11, <1>12, <1>13 DEF Add
  <1>15. PICK n \in Nat : n = Len(unexp[e])
    BY <1>13
  <1>16. \A f \in Ep : \A i \in DOMAIN unexp'[f] :
            \/ i \in DOMAIN unexp[f] /\ unexp'[f][i] = unexp[f][i]
            \/ f = e /\ i = n + 1 /\ unexp'[f][i] = u
    <2> SUFFICES ASSUME NEW f \in Ep, NEW i \in DOMAIN unexp'[f]
                 PROVE  \/ i \in DOMAIN unexp[f] /\ unexp'[f][i] = unexp[f][i]
                        \/ f = e /\ i = n + 1 /\ unexp'[f][i] = u
      BY Zenon
    <2>1. CASE f = e
      <3>1. unexp[e] \in Seq(S) /\ unexp'[e] = Append(unexp[e], u) /\ i \in DOMAIN Append(unexp[e], u)
        BY <1>13, <1>14, <2>1, Zenon
      <3>2. \/ i \in DOMAIN unexp[e] /\ Append(unexp[e], u)[i] = unexp[e][i]
            \/ i = n + 1 /\ Append(unexp[e], u)[i] = u
        BY <1>11, <1>15, <3>1
      <3> QED  BY <2>1, <3>1, <3>2, Zenon
    <2>2. CASE f # e
      BY <1>14, <2>2, Zenon
    <2> QED  BY <2>1, <2>2, Zenon
  <1>17. PICK F : F = AsideFlags(hdr[x]) \cup {"RETURN"}
    BY Zenon
  <1>18. F = {"UNEXP", "RETURN"} /\ F \in SUBSET Flags
    BY <1>2, <1>17, Zenon DEF AsideFlags, Flags
  <1>19. PICK h : h = [hdr[x] EXCEPT !.flags = F]
    BY Zenon
  <1>20. h \in Header /\ h.flags = F /\ h.msg = m
    BY <1>1, <1>6, <1>18, <1>19, Zenon DEF Header
  <1>21. PICK d \in Ep : d = hdr[x].sender
    BY HeadOf, Zenon
  <1>22. Pass(e, x, h, d)
    BY <1>5, <1>17, <1>19, <1>21, Zenon DEF WriteBack
  <1>23. PlacesOK' /\ Apart' /\ Moved(x, h, {d}) /\ free' = free
    BY <1>3, <1>20, <1>22, PassStep, Zenon DEF Pass
  <1>24. Returning(h)
    BY <1>18, <1>20 DEF Returning
  <1>25. Shapes'
    <2>1. Shape(d, h)'
      BY <1>2, <1>6, <1>20, <1>24, Zenon DEF Shape
    <2>2. \A f \in {d} : h \in Header /\ Shape(f, h)'
      BY <1>20, <2>1, Zenon
    <2>3. Grown
      BY <1>5, Zenon DEF Grown
    <2>4. \A f \in Ep : \A i \in DOMAIN unexp'[f] : Aside(f, unexp'[f][i].h)
      BY <1>3, <1>9, <1>11, <1>16, ZenonT(30) DEF Shapes
    <2> QED  BY <1>1, <1>3, <1>23, <2>2, <2>3, <2>4, ShapesMove
  <1>26. Homes'
    <2>1. HomeOf(d, h) = d
      BY <1>24, Zenon DEF HomeOf
    <2>2. NeverClosed => Owner(x) = d
      BY <1>1, <1>2, <1>21, Queued, Zenon
    <2>3. \A f \in {d} : NeverClosed => Owner(x) = HomeOf(f, h)
      BY <2>1, <2>2, Zenon
    <2>4. \A f \in Ep : \A y \in free'[f] : y \in free[f] \/ (NeverClosed => Owner(y) = f)
      BY <1>23, Zenon
    <2> QED  BY <1>1, <1>3, <1>5, <1>23, <2>3, <2>4, HomesMove
  <1>27. /\ Busy(x) /\ Issued(m)
         /\ Sent(m) => Immediate(m.kind)
         /\ ~Got(m)
    BY <1>1, <1>2, <1>6, Queued, Zenon
  <1>28. \A y \in Ent : Busy(y)' => y # x /\ Busy(y) /\ hdr'[y] = hdr[y]
    <2>1. TypeOK /\ Moved(x, h, {d}) /\ {d} \in SUBSET Ep
      BY <1>3, <1>23, Zenon
    <2>2. /\ Busy(x)' <=> {d} # {} /\ ~Returning(h)
          /\ \A y \in Ent : y # x => hdr'[y] = hdr[y] /\ (Busy(y)' <=> Busy(y))
      BY <1>1, <2>1, BusyMove, Zenon
    <2> QED  BY <1>24, <2>2, Zenon
  <1>29. (\A k : Issued(k)' <=> Issued(k)) /\ (\A k : Sent(k)' <=> Sent(k)) /\ (\A k : Got(k)' <=> Got(k))
    BY <1>5, Zenon DEF Issued, Sent, Got
  <1>30. Once'
    <2>1. \A y, z \in Ent : Busy(y)' /\ Busy(z)' /\ hdr'[y].msg = hdr'[z].msg => y = z
      BY <1>3, <1>28, Zenon DEF Once
    <2>2. ASSUME NEW y \in Ent, NEW f \in Ep, NEW i \in DOMAIN unexp'[f], Busy(y)'
          PROVE  hdr'[y].msg # unexp'[f][i].h.msg
      <3>1. y # x /\ Busy(y) /\ hdr'[y] = hdr[y] /\ hdr[y].msg # m
        BY <1>1, <1>3, <1>6, <1>27, <1>28, <2>2, Zenon DEF Once
      <3>2. CASE i \in DOMAIN unexp[f] /\ unexp'[f][i] = unexp[f][i]
        <4>1. hdr[y].msg # unexp[f][i].h.msg
          BY <1>3, <3>1, <3>2, Zenon DEF Once
        <4> QED  BY <3>1, <3>2, <4>1, Zenon
      <3>3. CASE unexp'[f][i] = u
        BY <1>8, <1>11, <3>1, <3>3, Zenon
      <3> QED  BY <1>16, <3>2, <3>3, Zenon
    <2>3. ASSUME NEW f \in Ep, NEW i \in DOMAIN unexp'[f], NEW j \in DOMAIN unexp'[f],
                 unexp'[f][i].h.msg = unexp'[f][j].h.msg
          PROVE  i = j
      <3>1. \A k \in DOMAIN unexp[f] : unexp[f][k].h.msg # m
        BY <1>1, <1>3, <1>6, <1>27, Zenon DEF Once
      <3>2. \A k \in DOMAIN unexp'[f] :
               \/ k \in DOMAIN unexp[f] /\ unexp'[f][k] = unexp[f][k]
               \/ k = n + 1 /\ unexp'[f][k].h.msg = m
        BY <1>8, <1>11, <1>16, Zenon
      <3>3. CASE i \in DOMAIN unexp[f] /\ unexp'[f][i] = unexp[f][i]
        <4>1. j \in DOMAIN unexp[f] /\ unexp'[f][j] = unexp[f][j]
          BY <2>3, <3>1, <3>2, <3>3, Zenon
        <4> QED  BY <1>3, <2>3, <3>3, <4>1, Zenon DEF Once
      <3>4. CASE i = n + 1 /\ unexp'[f][i].h.msg = m
        <4>1. j = n + 1
          BY <2>3, <3>1, <3>2, <3>4, Zenon
        <4> QED  BY <3>4, <4>1, Zenon
      <3> QED  BY <3>2, <3>3, <3>4, Zenon
    <2>4. ASSUME NEW y \in Ent, Busy(y)' PROVE Issued(hdr[y].msg)'
      <3>1. Busy(y) /\ hdr'[y] = hdr[y]
        BY <1>28, <2>4, Zenon
      <3>2. Issued(hdr[y].msg)
        BY <1>3, <3>1, Zenon DEF Once
      <3> QED  BY <1>5, <3>1, <3>2, Zenon DEF Issued
    <2>5. ASSUME NEW f \in Ep, NEW i \in DOMAIN unexp'[f] PROVE Issued(unexp[f][i].h.msg)'
      <3>1. PICK k : k = unexp'[f][i].h.msg
        BY Zenon
      <3>2. Issued(k)
        BY <1>3, <1>8, <1>11, <1>16, <1>27, <3>1, Zenon DEF Once
      <3> QED  BY <1>5, <3>1, <3>2, Zenon DEF Issued
    <2> QED  BY <2>1, <2>2, <2>3, <2>4, <2>5, Zenon DEF Once
  <1>31. Outstanding'
    <2>1. ASSUME NEW y \in Ent, Busy(y)'
          PROVE  /\ Sent(hdr[y].msg)' => Immediate(hdr'[y].msg.kind) \/ "ACK" \in hdr'[y].flags
                 /\ Got(hdr[y].msg)' => "RETURN" \in hdr'[y].flags
      <3>1. Busy(y) /\ hdr'[y] = hdr[y]
        BY <1>28, <2>1, Zenon
      <3>2. (Sent(hdr[y].msg)' <=> Sent(hdr[y].msg)) /\ (Got(hdr[y].msg)' <=> Got(hdr[y].msg))
        BY <1>5, <3>1, Zenon DEF Sent, Got
      <3> QED  BY <1>3, <3>1, <3>2, Zenon DEF Outstanding
    <2>2. ASSUME NEW f \in Ep, NEW i \in DOMAIN unexp'[f]
          PROVE  /\ Sent(unexp[f][i].h.msg)' => Immediate(unexp'[f][i].h.msg.kind)
                 /\ ~Got(unexp[f][i].h.msg)'
      <3>1. PICK k : k = unexp'[f][i].h.msg
        BY Zenon
      <3>2. (Sent(unexp[f][i].h.msg)' <=> Sent(k)) /\ (Got(unexp[f][i].h.msg)' <=> Got(k))
        BY <1>5, <3>1, Zenon DEF Sent, Got
      <3>3. (Sent(k) => Immediate(k.kind)) /\ ~Got(k)
        BY <1>3, <1>8, <1>11, <1>16, <1>27, <3>1, Zenon DEF Outstanding
      <3> QED  BY <3>1, <3>2, <3>3, Zenon
    <2> QED  BY <2>1, <2>2, Zenon DEF Outstanding
  <1>32. Recorded' /\ CompleteOnce' /\ DeliveredFirst'
    BY <1>3, <1>5, Zenon DEF Recorded, CompleteOnce, DeliveredFirst, Issued
  <1>33. TypeOK'
    <2>1. OthersOK'
      BY <1>3, <1>5, <1>14, Zenon DEF OthersOK, S
    <2>2. txdone' \in [Ep -> Seq(Message)] /\ rxdone' \in [Ep -> Seq(RxDone)]
      BY <1>3, <1>5, TypeParts, Zenon
    <2> QED  BY <1>23, <2>1, <2>2, TypeParts, Zenon
  <1> QED  BY <1>23, <1>25, <1>26, <1>30, <1>31, <1>32, <1>33, Zenon DEF IInv

(***************************************************************************)
(* Receives, and messages that were set aside.                             *)
(***************************************************************************)
StartsMsg(e, m, rx, r) ==
    /\ unexp[e] # << >> /\ unexp' = Drop(unexp, e) /\ m \in Message /\ m = unexp[e][1].h.msg
    /\ issued' = issued /\ life' = life /\ txdone' = txdone /\ OthersOK' /\ Grown
    /\ r \in RxDone /\ r.msg = m /\ rx \in BOOLEAN
    /\ rxdone' = IF rx THEN Add(rxdone, e, r) ELSE rxdone
    /\ rx => (r.ok => m \in placed')

\* At most the entries of Y come to a queue, for the message m.
ForMsg(Y, m, rx) ==
    /\ \A y, z \in Y : y = z
    /\ \A y \in Ent \ Y : Busy(y)' => Busy(y) /\ hdr'[y] = hdr[y]
    /\ \A y \in Y : Busy(y)' => hdr'[y].msg = m /\ (rx => "RETURN" \in hdr'[y].flags)

LEMMA StartCommon ==
    ASSUME IInv, NEW e \in Ep, NEW m, NEW rx, NEW r, StartsMsg(e, m, rx, r),
           PlacesOK', Apart', Shapes', Homes', NEW Y \in SUBSET Ent, ForMsg(Y, m, rx)
    PROVE  IInv'
  <1>1. /\ TypeOK /\ Shapes /\ Once /\ Outstanding /\ Recorded /\ CompleteOnce /\ DeliveredFirst
    BY Zenon DEF IInv
  <1>2. /\ unexp[e] # << >> /\ unexp' = Drop(unexp, e) /\ m \in Message /\ m = unexp[e][1].h.msg
        /\ issued' = issued /\ txdone' = txdone /\ OthersOK' /\ Grown
        /\ r \in RxDone /\ r.msg = m /\ rx \in BOOLEAN
        /\ rxdone' = IF rx THEN Add(rxdone, e, r) ELSE rxdone
        /\ rx => (r.ok => m \in placed')
    BY Zenon DEF StartsMsg
  <1>3. /\ \A y, z \in Y : y = z
        /\ \A y \in Ent \ Y : Busy(y)' => Busy(y) /\ hdr'[y] = hdr[y]
        /\ \A y \in Y : Busy(y)' => hdr'[y].msg = m /\ (rx => "RETURN" \in hdr'[y].flags)
    BY Zenon DEF ForMsg
  <1>4. 1 \in DOMAIN unexp[e]
    BY <1>1, <1>2, Started, Zenon
  <1>5. m.to = e /\ Issued(m) /\ ~Got(m)
    <2>1. Aside(e, unexp[e][1].h)
      BY <1>1, <1>4, Zenon DEF Shapes
    <2>2. Issued(unexp[e][1].h.msg)
      BY <1>1, <1>4, Zenon DEF Once
    <2>3. ~Got(unexp[e][1].h.msg)
      BY <1>1, <1>4, Zenon DEF Outstanding
    <2> QED  BY <1>2, <2>1, <2>2, <2>3, Zenon DEF Aside
  <1>6. \A k : Issued(k) => Issued(k)'
    BY <1>2, Zenon DEF Issued
  <1>7. Once'
    BY <1>1, <1>2, <1>3, OnceStarted, ZenonT(30)
  <1>8. /\ txdone' \in [Ep -> Seq(Message)] /\ rxdone' \in [Ep -> Seq(RxDone)]
        /\ Recorded' /\ CompleteOnce' /\ DeliveredFirst'
        /\ \A k \in Message : Got(k)' <=> Got(k) \/ (rx /\ k = m)
    <2>1. PICK tx \in BOOLEAN : ~tx
      BY Zenon
    <2>2. /\ txdone' = IF tx THEN Add(txdone, e, m) ELSE txdone
          /\ tx => m.from = e
          /\ tx => ~Sent(m) /\ (Immediate(m.kind) \/ m \in placed' \/ m \in Range(applied'[m.to]))
      BY <1>2, <2>1, Zenon
    <2>3. /\ rx => m.to = e
          /\ rx => ~Got(m) /\ (r.ok => m \in placed')
          /\ tx \/ rx => Issued(m)'
      BY <1>2, <1>5, <1>6, Zenon
    <2>4. Records(e, m, tx, rx, r)
      BY <1>2, <2>2, <2>3, Zenon DEF Records
    <2> QED  BY <1>1, <1>2, <1>6, <2>4, RecordsMove
  <1>9. Outstanding'
    <2>1. /\ \A k \in Message : Got(k)' <=> Got(k) \/ (rx /\ k = m)
          /\ \A y \in Ent \ Y : Busy(y)' => Busy(y) /\ hdr'[y] = hdr[y]
          /\ \A y \in Y : Busy(y)' => hdr'[y].msg = m /\ (rx => "RETURN" \in hdr'[y].flags)
      BY <1>3, <1>8, Zenon
    <2> QED  BY <1>1, <1>2, <2>1, OutstandingStarted, Zenon
  <1>10. TypeOK'
    BY <1>2, <1>8, TypeParts, Zenon
  <1> QED  BY <1>7, <1>8, <1>9, <1>10, Zenon DEF IInv

\* What stays set aside has its shape.
LEMMA AsideLeft ==
    ASSUME IInv, NEW e \in Ep, unexp[e] # << >>, unexp' = Drop(unexp, e)
    PROVE  \A f \in Ep : \A i \in DOMAIN unexp'[f] : Aside(f, unexp'[f][i].h)
  <1>1. TypeOK /\ Shapes /\ Once
    BY Zenon DEF IInv
  <1>2. \A f \in Ep : \A i \in DOMAIN unexp'[f] : \E j \in DOMAIN unexp[f] : unexp'[f][i] = unexp[f][j]
    BY <1>1, Started
  <1> QED  BY <1>1, <1>2, Zenon DEF Shapes

LEMMA StartAlone ==
    ASSUME IInv, NEW e \in Ep, NEW m, NEW rx, NEW r, StartsMsg(e, m, rx, r),
           free' = free, hdr' = hdr, queue' = queue
    PROVE  IInv'
  <1>1. TypeOK /\ PlacesOK /\ Apart /\ Shapes /\ Homes
    BY TypeParts, Zenon DEF IInv
  <1>2. unexp[e] # << >> /\ unexp' = Drop(unexp, e) /\ life' = life /\ Grown
    BY Zenon DEF StartsMsg
  <1>3. PlacesOK'
    BY <1>1, Zenon DEF PlacesOK
  <1>4. Apart'
    BY <1>1, Zenon DEF Apart, In
  <1>5. Shapes'
    <2>1. ASSUME NEW f \in Ep, NEW y \in Ent, In(f, y)'
          PROVE  hdr'[y] \in Header /\ Shape(f, hdr[y])'
      <3>1. PICK k \in Header : k = hdr[y] /\ k = hdr'[y] /\ Shape(f, k)
        BY <1>1, <2>1, Zenon DEF Shapes, In
      <3>2. Shape(f, k)'
        BY <1>2, <3>1, ShapeKept, Zenon
      <3>3. hdr'[y] = k
        BY <3>1, Zenon
      <3>4. Shape(f, hdr[y])'
        BY <3>2, <3>3, Zenon DEF Shape, Returning
      <3> QED  BY <3>3, <3>4, Zenon
    <2>2. \A f \in Ep : \A i \in DOMAIN unexp'[f] : Aside(f, unexp[f][i].h)'
      BY <1>2, AsideLeft, Zenon DEF Aside
    <2> QED  BY <2>1, <2>2, Zenon DEF Shapes
  <1>6. Homes'
    BY <1>1, <1>2, Zenon DEF Homes, NeverClosed, In, HomeOf, Returning, Owner
  <1>7. \A y \in Ent : Busy(y)' => Busy(y) /\ hdr'[y] = hdr[y]
    BY Zenon DEF Busy, In, Returning
  <1>8. ForMsg({}, m, rx)
    BY <1>7, Zenon DEF ForMsg
  <1>9. {} \in SUBSET Ent
    BY Zenon
  <1> QED  BY <1>3, <1>4, <1>5, <1>6, <1>8, <1>9, StartCommon, Zenon

LEMMA StartNotify ==
    ASSUME IInv, NEW e \in Ep, NEW m, NEW rx, NEW r, StartsMsg(e, m, rx, r),
           NEW h \in Header, NEW d \in Ep, Notify(e, h, d), Shape(d, h)', ~Returning(h), h.msg = m,
           rx => "RETURN" \in h.flags, HomeOf(d, h) = e
    PROVE  IInv'
  <1>1. TypeOK /\ PlacesOK /\ Apart /\ Shapes /\ Homes
    BY TypeParts, Zenon DEF IInv
  <1>2. unexp[e] # << >> /\ unexp' = Drop(unexp, e) /\ life' = life /\ Grown
    BY Zenon DEF StartsMsg
  <1>3. PICK y \in free[e] :
          /\ free' = [free EXCEPT ![e] = @ \ {y}]
          /\ hdr' = [hdr EXCEPT ![y] = h]
          /\ queue' = Add(queue, d, y)
    BY Zenon DEF Notify
  <1>4. y \in Ent /\ PlacesOK' /\ Apart' /\ Moved(y, h, {d})
    BY <1>1, <1>3, TakeStep, Zenon
  <1>5. {d} \in SUBSET Ep
    BY Zenon
  <1>6. Shapes'
    <2>1. \A f \in {d} : h \in Header /\ Shape(f, h)'
      BY Zenon
    <2>2. \A f \in Ep : \A i \in DOMAIN unexp'[f] : Aside(f, unexp'[f][i].h)
      BY <1>2, AsideLeft, Zenon
    <2> QED  BY <1>1, <1>2, <1>4, <1>5, <2>1, <2>2, ShapesMove, Zenon
  <1>7. Homes'
    <2>1. \A f \in Ep : \A z \in free'[f] : z \in free[f] \/ (NeverClosed => Owner(z) = f)
      BY <1>1, <1>3, Zenon DEF PlacesOK
    <2>2. NeverClosed => Owner(y) = e
      BY <1>1, Zenon DEF Homes
    <2>3. \A f \in {d} : NeverClosed => Owner(y) = HomeOf(f, h)
      BY <2>2, Zenon
    <2> QED  BY <1>1, <1>2, <1>4, <1>5, <2>1, <2>3, HomesMove, Zenon
  <1>8. /\ hdr'[y] = h
        /\ \A z \in Ent : z # y => hdr'[z] = hdr[z] /\ (Busy(z)' <=> Busy(z))
    BY <1>1, <1>4, <1>5, BusyMove, Zenon
  <1>9. ForMsg({y}, m, rx)
    BY <1>8, Zenon DEF ForMsg
  <1>10. {y} \in SUBSET Ent
    BY <1>4, Zenon
  <1> QED  BY <1>4, <1>6, <1>7, <1>9, <1>10, StartCommon, Zenon

LEMMA UnexpectedKeeps ==
    ASSUME IInv, NEW e \in Ep, NEW mem \in Mems, StartUnexpected(e, mem),
           nrecv' = [nrecv EXCEPT ![e] = @ + 1],
           UNCHANGED <<life, issued, applied, txdone>>
    PROVE  IInv'
  <1>1. TypeOK /\ Shapes /\ Once /\ OthersOK
    BY TypeParts, Zenon DEF IInv
  <1>2. PICK h, slot, ctx : h = Head(unexp[e]).h /\ slot = Head(unexp[e]).slot /\ ctx = nrecv[e] + 1
    BY Zenon
  <1>3. /\ unexp[e] # << >>
        /\ unexp' = Drop(unexp, e)
        /\ rxctx' = [rxctx EXCEPT ![e][slot] = ctx]
        /\ IF ByDevice(h, mem)
           THEN \/ Notify(e, Handle(e, h, slot), h.sender) /\ UNCHANGED <<placed, rxdone>>
                \/ CannotNotify(e, h) /\ Received(e, h.msg, ctx, FALSE) /\ UNCHANGED placed
           ELSE /\ placed' = placed \cup {h.msg}
                /\ Received(e, h.msg, ctx, TRUE)
                /\ IF Immediate(h.msg.kind)
                   THEN UNCHANGED <<free, hdr, queue, starved>>
                   ELSE \/ Notify(e, [h EXCEPT !.flags = @ \cup {"GENERATE", "RETURN"}, !.sender = e],
                                  h.sender)
                        \/ CannotNotify(e, h)
        /\ UNCHANGED posted
    BY <1>2, Zenon DEF StartUnexpected
  <1>4. /\ 1 \in DOMAIN unexp[e] /\ h = unexp[e][1].h /\ slot = unexp[e][1].slot
        /\ unexp' \in [Ep -> Seq([h : Header, slot : Slots])]
    BY <1>1, <1>2, <1>3, Started, Zenon
  <1>5. h \in Header /\ slot \in Slots /\ ctx \in Nat
    <2>1. unexp[e] \in Seq([h : Header, slot : Slots])
      BY <1>1, Zenon DEF TypeOK
    <2>2. unexp[e][1] \in [h : Header, slot : Slots]
      BY <1>4, <2>1, Item, Zenon
    <2>3. nrecv[e] \in Nat
      BY <1>1, Zenon DEF TypeOK
    <2> QED  BY <1>2, <1>4, <2>2, <2>3
  <1>6. /\ h.flags = {"UNEXP"} /\ h.sender = h.msg.from /\ e = h.msg.to /\ h.msg.from # h.msg.to
        /\ h.msg.kind \in {"inject", "cma"}
    BY <1>1, <1>4 DEF Shapes, Aside
  <1>7. PICK m \in Message : m = h.msg
    BY <1>5, Zenon DEF Header
  <1>8. PICK d \in Ep : d = h.sender
    BY <1>5, Zenon DEF Header
  <1>9. placed' \subseteq Message /\ placed \subseteq placed'
    BY <1>1, <1>3, <1>7, Zenon DEF TypeOK
  <1>10. OthersOK' /\ Grown
    <2>1. rxctx' \in [Ep -> [Slots -> Nat]]
      <3>1. rxctx \in [Ep -> [Slots -> Nat]]
        BY <1>1, Zenon DEF TypeOK
      <3>2. [rxctx[e] EXCEPT ![slot] = ctx] \in [Slots -> Nat]
        BY <1>5, <3>1, Zenon
      <3> QED  BY <1>3, <3>1, <3>2, Zenon
    <2>2. nrecv' \in [Ep -> Nat]
      <3>1. nrecv \in [Ep -> Nat]
        BY <1>1, Zenon DEF TypeOK
      <3> QED  BY <3>1
    <2>3. OthersOK'
      BY <1>1, <1>3, <1>4, <1>9, <2>1, <2>2, Zenon DEF OthersOK
    <2> QED  BY <1>9, <2>3, Zenon DEF Grown
  <1>11. ASSUME rxdone' = rxdone
         PROVE  \E r : StartsMsg(e, m, FALSE, r)
    <2>1. PICK r : r = [msg |-> m, ctx |-> ctx, ok |-> TRUE]
      BY Zenon
    <2>2. r \in RxDone /\ r.msg = m
      BY <1>5, <2>1, Zenon DEF RxDone
    <2>3. StartsMsg(e, m, FALSE, r)
      BY <1>3, <1>4, <1>7, <1>10, <1>11, <2>2, Zenon DEF StartsMsg
    <2> QED  BY <2>3, Zenon
  <1>12. ASSUME NEW ok \in BOOLEAN, Received(e, m, ctx, ok), ok => m \in placed'
         PROVE  \E r : StartsMsg(e, m, TRUE, r)
    <2>1. PICK r : r = [msg |-> m, ctx |-> ctx, ok |-> ok]
      BY Zenon
    <2>2. r \in RxDone /\ r.msg = m /\ r.ok = ok
      BY <1>5, <2>1, Zenon DEF RxDone
    <2>3. rxdone' = Add(rxdone, e, r)
      BY <1>12, <2>1, Zenon DEF Received
    <2>4. StartsMsg(e, m, TRUE, r)
      BY <1>3, <1>4, <1>7, <1>10, <1>12, <2>2, <2>3, Zenon DEF StartsMsg
    <2> QED  BY <2>4, Zenon
  <1>13. CASE ByDevice(h, mem)
    <2>1. CASE Notify(e, Handle(e, h, slot), h.sender) /\ UNCHANGED <<placed, rxdone>>
      <3>1. PICK F : F = h.flags \cup {"TO_DEV"}
        BY Zenon
      <3>2. F = {"TO_DEV", "UNEXP"} /\ F \in SUBSET Flags
        BY <1>6, <3>1, Zenon DEF Flags
      <3>3. PICK g : g = [h EXCEPT !.flags = F, !.sender = e, !.rx = slot]
        BY Zenon
      <3>4. g \in Header /\ g.flags = F /\ g.sender = e /\ g.rx = slot /\ g.msg = m
        BY <1>5, <1>7, <3>2, <3>3, Zenon DEF Header
      <3>5. g = Handle(e, h, slot)
        BY <3>1, <3>3, Zenon DEF Handle
      <3>6. m.kind = "cma"
        BY <1>7, <1>13, Zenon DEF ByDevice
      <3>7. Shape(d, g)'
        BY <1>5, <1>6, <1>7, <1>8, <3>2, <3>4, <3>6, Zenon DEF Shape
      <3>8. ~Returning(g)
        BY <3>2, <3>4 DEF Returning
      <3>9. HomeOf(d, g) = e
        BY <1>6, <1>7, <3>2, <3>4, <3>8, Zenon DEF HomeOf
      <3>10. PICK r : StartsMsg(e, m, FALSE, r)
        BY <1>11, <2>1, Zenon
      <3>11. Notify(e, g, d)
        BY <1>8, <2>1, <3>5, Zenon
      <3> QED  BY <3>4, <3>7, <3>8, <3>9, <3>10, <3>11, StartNotify, Zenon
    <2>2. CASE CannotNotify(e, h) /\ Received(e, h.msg, ctx, FALSE)
      <3>1. PICK r : StartsMsg(e, m, TRUE, r)
        BY <1>7, <1>12, <2>2, Zenon
      <3> QED  BY <2>2, <3>1, StartAlone, Zenon DEF CannotNotify
    <2> QED  BY <1>3, <1>13, <2>1, <2>2, Zenon
  <1>14. CASE ~ByDevice(h, mem)
    <2>1. m \in placed' /\ Received(e, m, ctx, TRUE)
      BY <1>3, <1>7, <1>14, Zenon
    <2>2. PICK r : StartsMsg(e, m, TRUE, r)
      BY <1>12, <2>1, Zenon
    <2>3. CASE free' = free /\ hdr' = hdr /\ queue' = queue
      BY <2>2, <2>3, StartAlone, Zenon
    <2>4. CASE /\ ~Immediate(h.msg.kind)
               /\ Notify(e, [h EXCEPT !.flags = @ \cup {"GENERATE", "RETURN"}, !.sender = e], h.sender)
      <3>1. PICK F : F = h.flags \cup {"GENERATE", "RETURN"}
        BY Zenon
      <3>2. F = {"RETURN", "GENERATE", "UNEXP"} /\ F \in SUBSET Flags
        BY <1>6, <3>1, Zenon DEF Flags
      <3>3. PICK g : g = [h EXCEPT !.flags = F, !.sender = e]
        BY Zenon
      <3>4. g \in Header /\ g.flags = F /\ g.sender = e /\ g.msg = m
        BY <1>5, <1>7, <3>2, <3>3, Zenon DEF Header
      <3>5. m.kind = "cma"
        BY <1>6, <1>7, <2>4, Zenon DEF Immediate
      <3>6. Shape(d, g)'
        BY <1>6, <1>7, <1>8, <2>1, <3>2, <3>4, <3>5, Zenon DEF Shape
      <3>7. ~Returning(g) /\ "RETURN" \in g.flags
        BY <3>2, <3>4, Zenon DEF Returning
      <3>8. HomeOf(d, g) = e
        BY <1>6, <1>7, <3>2, <3>4, <3>7, Zenon DEF HomeOf
      <3>9. Notify(e, g, d)
        BY <1>8, <2>4, <3>1, <3>3, Zenon
      <3> QED  BY <2>2, <3>4, <3>6, <3>7, <3>8, <3>9, StartNotify, Zenon
    <2> QED  BY <1>3, <1>14, <2>3, <2>4, Zenon DEF CannotNotify
  <1> QED  BY <1>13, <1>14, Zenon

LEMMA PostKeeps ==
    ASSUME IInv, NEW e \in Ep, NEW mem \in Mems, PostRecv(e, mem)
    PROVE  IInv'
  <1>1. nrecv' = [nrecv EXCEPT ![e] = @ + 1] /\ UNCHANGED <<life, issued, applied, txdone>>
    BY Zenon DEF PostRecv
  <1>2. CASE StartUnexpected(e, mem)
    BY <1>1, <1>2, UnexpectedKeeps, Zenon
  <1>3. CASE /\ \E s \in FreeSlots(e) :
                    /\ posted' = Add(posted, e, [slot |-> s, mem |-> mem])
                    /\ rxctx' = [rxctx EXCEPT ![e][s] = nrecv[e] + 1]
             /\ UNCHANGED <<free, hdr, queue, unexp, matched, placed, rxdone, starved>>
    <2>1. PICK s \in FreeSlots(e) :
              /\ posted' = Add(posted, e, [slot |-> s, mem |-> mem])
              /\ rxctx' = [rxctx EXCEPT ![e][s] = nrecv[e] + 1]
      BY <1>3, Zenon
    <2>2. OthersOK
      BY TypeParts, Zenon DEF IInv
    <2>3. s \in Slots /\ nrecv[e] + 1 \in Nat
      <3>1. s \in Slots
        BY Zenon DEF FreeSlots
      <3>2. nrecv \in [Ep -> Nat]
        BY <2>2, Zenon DEF OthersOK
      <3>3. nrecv[e] \in Nat
        BY <3>2, Zenon
      <3> QED  BY <3>1, <3>3
    <2>4. posted' \in [Ep -> Seq([slot : Slots, mem : Mems])]
      <3>1. PICK S : S = [slot : Slots, mem : Mems]
        BY Zenon
      <3>2. PICK q \in S : q = [slot |-> s, mem |-> mem]
        BY <2>3, <3>1, Zenon
      <3>3. posted \in [Ep -> Seq(S)]
        BY <2>2, <3>1, Zenon DEF OthersOK
      <3>4. posted' = [posted EXCEPT ![e] = Append(@, q)]
        BY <2>1, <3>2, Zenon DEF Add
      <3>5. posted' \in [Ep -> Seq(S)]
        BY <3>3, <3>4
      <3> QED  BY <3>1, <3>5, Zenon
    <2>5. rxctx' \in [Ep -> [Slots -> Nat]]
      <3>1. rxctx \in [Ep -> [Slots -> Nat]]
        BY <2>2, Zenon DEF OthersOK
      <3>2. [rxctx[e] EXCEPT ![s] = nrecv[e] + 1] \in [Slots -> Nat]
        BY <2>3, <3>1, Zenon
      <3> QED  BY <2>1, <3>1, <3>2, Zenon
    <2>6. nrecv' \in [Ep -> Nat]
      BY <1>1, <2>2 DEF OthersOK
    <2>7. OthersOK'
      BY <1>1, <1>3, <2>2, <2>4, <2>5, <2>6, Zenon DEF OthersOK
    <2>8. NeverClosed' => NeverClosed
      BY <1>1, Zenon DEF NeverClosed
    <2> QED  BY <1>1, <1>3, <2>7, <2>8, StayStep, Zenon
  <1> QED  BY <1>2, <1>3, Zenon DEF PostRecv

(***************************************************************************)
(* Every step keeps the invariant.                                         *)
(***************************************************************************)
LEMMA ProgressKeeps ==
    ASSUME IInv, NEW e \in Ep, Progress(e)
    PROVE  IInv'
  <1>1. PICK x : x = Head(queue[e])
    BY Zenon
  <1>2. queue[e] # << >> /\ ProgressOne(e, x)
    BY <1>1, Zenon DEF Progress
  <1>3. CASE ProgressReturn(e, x)
    BY <1>1, <1>2, <1>3, ReturnKeeps, Zenon
  <1>4. CASE "RETURN" \notin hdr[x].flags /\ ProgressAtomic(e, x)
    BY <1>1, <1>2, <1>4, AtomicKeeps, Zenon
  <1>5. CASE "RETURN" \notin hdr[x].flags /\ ProgressMsg(e, x)
    <2>1. hdr[x].msg.kind \in {"inject", "cma"}
      BY <1>5, Zenon DEF ProgressMsg
    <2>2. CASE ProgressHostToDev(e, x)
      BY <1>1, <1>2, <1>5, <2>2, HostToDevKeeps, Zenon
    <2>3. CASE ProgressAck(e, x)
      BY <1>1, <1>2, <1>5, <2>3, AckKeeps, Zenon
    <2>4. CASE {"TO_DEV", "ACK"} \cap hdr[x].flags = {} /\ StartExpected(e, x)
      BY <1>1, <1>2, <1>5, <2>1, <2>4, ExpectedKeeps, Zenon
    <2>5. CASE {"TO_DEV", "ACK"} \cap hdr[x].flags = {} /\ SetAside(e, x)
      BY <1>1, <1>2, <1>5, <2>1, <2>5, AsideKeeps, Zenon
    <2> QED  BY <1>5, <2>2, <2>3, <2>4, <2>5, Zenon DEF ProgressMsg
  <1> QED  BY <1>2, <1>3, <1>4, <1>5, Zenon DEF ProgressOne

\* Closing begins and ends: only life changes, and no endpoint comes up again.
LEMMA LifeKeeps ==
    ASSUME IInv, NEW e \in Ep, Close(e) \/ DrainEnd(e)
    PROVE  IInv'
  <1>1. PICK l \in {"drain", "redrain", "freed", "zombie"} : life' = [life EXCEPT ![e] = l]
    BY Zenon DEF Close, DrainEnd
  <1>2. UNCHANGED <<free, hdr, queue, posted, unexp, rxctx, nrecv, issued, placed, applied, txdone, rxdone>>
    BY Zenon DEF Close, DrainEnd, Keep, history
  <1>3. OthersOK
    BY TypeParts, Zenon DEF IInv
  <1>4. life \in [Ep -> {"up", "drain", "redrain", "freed", "zombie"}]
    BY <1>3, Zenon DEF OthersOK
  <1>5. life' \in [Ep -> {"up", "drain", "redrain", "freed", "zombie"}] /\ life'[e] # "up"
    BY <1>1, <1>4, Zenon
  <1>6. OthersOK'
    BY <1>2, <1>3, <1>5, Zenon DEF OthersOK
  <1>7. NeverClosed' => NeverClosed
    BY <1>5, Zenon DEF NeverClosed
  <1> QED  BY <1>2, <1>6, <1>7, StayStep, Zenon

LEMMA InitHolds == Init => IInv
  <1> SUFFICES ASSUME Init PROVE IInv
    BY Zenon
  <1>1. \A x \in Ent : Owner(x) \in Ep
    BY DEF Ent, Owner
  <1>2. /\ \A e \in Ep : free[e] = {x \in Ent : Owner(x) = e}
        /\ \A e \in Ep : queue[e] = << >> /\ unexp[e] = << >> /\ txdone[e] = << >> /\ rxdone[e] = << >>
    BY Zenon DEF Init
  <1>3. Range(<< >>) = {} /\ DOMAIN << >> = {} /\ IsInjective(<< >>)
    BY DEF Range, IsInjective
  <1>4. \A e \in Ep : \A x : ~In(e, x)
    BY <1>2, <1>3, Zenon DEF In
  <1>5. TypeOK
    <2>1. free \in [Ep -> SUBSET Ent] /\ hdr \in [Ent -> Header \cup {NoHdr}] /\ queue \in [Ep -> Seq(Ent)]
      BY DEF Init
    <2>2. /\ posted \in [Ep -> Seq([slot : Slots, mem : Mems])]
          /\ unexp \in [Ep -> Seq([h : Header, slot : Slots])]
      BY DEF Init
    <2>3. rxctx \in [Ep -> [Slots -> Nat]] /\ nrecv \in [Ep -> Nat]
      BY Zenon DEF Init
    <2>4. life \in [Ep -> {"up", "drain", "redrain", "freed", "zombie"}]
      BY Zenon DEF Init
    <2>5. /\ issued \in [Ep -> Seq(Message)] /\ applied \in [Ep -> Seq(Message)]
          /\ txdone \in [Ep -> Seq(Message)] /\ rxdone \in [Ep -> Seq(RxDone)]
          /\ placed \subseteq Message
      BY DEF Init
    <2> QED  BY <2>1, <2>2, <2>3, <2>4, <2>5, TypeParts, Zenon DEF PlacesOK, OthersOK
  <1>6. Apart
    <2>1. \A e, f \in Ep : \A x \in Ent :
              /\ In(e, x) /\ In(f, x) => e = f
              /\ x \in free[e] /\ x \in free[f] => e = f
              /\ ~(x \in free[e] /\ In(f, x))
      BY <1>2, <1>4, Zenon
    <2>2. \A x \in Ent : \E e \in Ep : x \in free[e] \/ In(e, x)
      BY <1>1, <1>2, Zenon
    <2> QED  BY <1>2, <1>3, <2>1, <2>2, Zenon DEF Apart
  <1>7. Shapes
    BY <1>2, <1>3, <1>4, Zenon DEF Shapes
  <1>8. Homes
    BY <1>2, <1>4, Zenon DEF Homes
  <1>9. Once /\ Outstanding
    BY <1>2, <1>3, <1>4, Zenon DEF Once, Outstanding, Busy
  <1>10. Recorded /\ CompleteOnce /\ DeliveredFirst
    <2>1. \A e \in Ep : Msgs(rxdone[e]) = << >>
      BY <1>2, <1>3 DEF Msgs
    <2> QED  BY <1>2, <1>3, <2>1, Zenon DEF Recorded, CompleteOnce, DeliveredFirst
  <1> QED  BY <1>5, <1>6, <1>7, <1>8, <1>9, <1>10, Zenon DEF IInv

LEMMA NextKeeps == IInv /\ [Next]_vars => IInv'
  <1> SUFFICES ASSUME IInv, [Next]_vars PROVE IInv'
    BY Zenon
  <1>1. CASE UNCHANGED vars
    <2>1. OthersOK
      BY TypeParts, Zenon DEF IInv
    <2>2. OthersOK'
      BY <1>1, <2>1, Zenon DEF vars, history, OthersOK
    <2>3. NeverClosed' => NeverClosed
      BY <1>1, Zenon DEF vars, NeverClosed
    <2> QED  BY <1>1, <2>2, <2>3, StayStep, Zenon DEF vars, history
  <1>2. CASE \E e \in Senders, d \in Receivers, kind \in Kinds : Send(e, d, kind)
    BY <1>2, SendAssumption, SendKeeps, Zenon
  <1>3. CASE \E e \in Receivers, mem \in Mems : PostRecv(e, mem)
    BY <1>3, SendAssumption, PostKeeps, Zenon
  <1>4. CASE \E e \in Ep : Progress(e)
    BY <1>4, ProgressKeeps, Zenon
  <1>5. CASE \E e \in Closers : Close(e)
    BY <1>5, SendAssumption, LifeKeeps, Zenon
  <1>6. CASE \E e \in Ep : Drain(e) \/ DrainEnd(e)
    BY <1>6, DrainKeeps, LifeKeeps, Zenon
  <1> QED  BY <1>1, <1>2, <1>3, <1>4, <1>5, <1>6, Zenon DEF Next
=============================================================================
