------------------------------ MODULE Sm2Lines ------------------------------
(***************************************************************************)
(* What waits in line in the sm2 protocol. InLine says that what an        *)
(* endpoint has yet to take stands in line behind what was sent before it, *)
(* wherever it waits: in a queue, set aside or matched. First what taking  *)
(* the next message, moving up a queue, matching a receive and fetching do *)
(* to its conjuncts; then the handlers of sm2_progress_recv, which keep it.*)
(***************************************************************************)
EXTENDS Sm2Steps

(***************************************************************************)
(* What is taken in the order of a log.                                    *)
(***************************************************************************)
LEMMA AfterMore ==
    ASSUME NEW log, NEW m, NEW K, NEW S, NEW L, NEW T, After(log, m, K, S),
           L \subseteq K, \A w \in S : w.kind \in L => w \in T
    PROVE  After(log, m, L, T)
  BY Zenon DEF After

\* The next message is taken.
LEMMA TakesNext ==
    ASSUME NEW log, NEW e, NEW K, NEW s \in Seq(Message), NEW m \in Message,
           TakenInOrder(log, e, s, K), m \notin Range(s),
           Logged(log, m), m.to = e, m.kind \in K, After(log, m, K, Range(s))
    PROVE  TakenInOrder(log, e, Append(s, m), K)
  <1> DEFINE t == Append(s, m)
  <1>1. /\ Len(s) \in Nat /\ DOMAIN s = 1 .. Len(s) /\ DOMAIN t = 1 .. Len(s) + 1
        /\ \A i \in 1 .. Len(s) : t[i] = s[i]
        /\ t[Len(s) + 1] = m
    OBVIOUS
  <1> HIDE DEF t
  <1>2. IsInjective(t)
    BY Appended, Zenon DEF t, TakenInOrder
  <1>3. ASSUME NEW j \in 1 .. Len(s) + 1
        PROVE  {t[i] : i \in 1 .. j - 1} = {s[i] : i \in 1 .. j - 1}
    BY <1>1
  <1>4. {s[i] : i \in 1 .. (Len(s) + 1) - 1} = Range(s)
    BY <1>1 DEF Range
  <1>5. ASSUME NEW j \in 1 .. Len(s) + 1
        PROVE  /\ Logged(log, t[j]) /\ t[j].to = e /\ t[j].kind \in K
               /\ After(log, t[j], K, {s[i] : i \in 1 .. j - 1})
    <2>1. CASE j \in 1 .. Len(s)
      BY <1>1, <2>1, Zenon DEF TakenInOrder
    <2>2. CASE j = Len(s) + 1
      BY <1>1, <1>4, <2>2, Zenon
    <2> QED  BY <1>1, <2>1, <2>2
  <1> QED  BY <1>1, <1>2, <1>3, <1>5, Zenon DEF TakenInOrder, t

\* What was taken first is in order by itself.
LEMMA TakenBefore ==
    ASSUME NEW log, NEW e, NEW K, NEW s \in Seq(Message), NEW t \in Seq(Message),
           TakenInOrder(log, e, s \o t, K)
    PROVE  TakenInOrder(log, e, s, K)
  <1> DEFINE u == s \o t
  <1>1. /\ DOMAIN s = 1 .. Len(s) /\ DOMAIN u = 1 .. Len(s) + Len(t) /\ Len(s) \in Nat /\ Len(t) \in Nat
        /\ \A i \in 1 .. Len(s) : u[i] = s[i]
    OBVIOUS
  <1> HIDE DEF u
  <1>2. \A i \in DOMAIN s : i \in DOMAIN u /\ u[i] = s[i]
    BY <1>1
  <1>3. IsInjective(s)
    BY <1>2, Zenon DEF TakenInOrder, IsInjective, u
  <1>4. ASSUME NEW j \in DOMAIN s
        PROVE  {u[i] : i \in 1 .. j - 1} = {s[i] : i \in 1 .. j - 1}
    BY <1>1
  <1> QED  BY <1>2, <1>3, <1>4, Zenon DEF TakenInOrder, u

\* Another message is sent.
LEMMA LogGrows ==
    ASSUME NEW log \in [Ep -> Seq(Message)], NEW f \in Ep, NEW v \in Message, NEW log2,
           log2 = Add(log, f, v)
    PROVE  /\ \A m \in Message : Logged(log, m) => Logged(log2, m)
           /\ \A m \in Message : \A K, S : Logged(log, m) /\ After(log, m, K, S) => After(log2, m, K, S)
           /\ \A e, K : \A s \in Seq(Message) :
                TakenInOrder(log, e, s, K) => TakenInOrder(log2, e, s, K)
  <1>1. ASSUME NEW g \in Ep
        PROVE  /\ log2[g] = log[g] \/ log2[g] = Append(log[g], v)
               /\ log[g] \in Seq(Message)
    BY Zenon DEF Add
  <1>2. ASSUME NEW g \in Ep, NEW k \in DOMAIN log[g]
        PROVE  k \in DOMAIN log2[g] /\ log2[g][k] = log[g][k]
    <2>1. CASE log2[g] = log[g]
      BY <1>2, <2>1, Zenon
    <2>2. CASE log2[g] = Append(log[g], v)
      <3>1. \A s \in Seq(Message) : \A i \in DOMAIN s :
              i \in DOMAIN Append(s, v) /\ Append(s, v)[i] = s[i]
        OBVIOUS
      <3> QED  BY <1>1, <1>2, <2>2, <3>1, Zenon
    <2> QED  BY <1>1, <2>1, <2>2, Zenon
  <1>3. ASSUME NEW m \in Message, Logged(log, m) PROVE Logged(log2, m)
    <2>1. m.from \in Ep
      BY DEF Message
    <2> QED  BY <1>2, <1>3, <2>1, Zenon DEF Logged
  <1>4. ASSUME NEW m \in Message, NEW K, NEW S, Logged(log, m), After(log, m, K, S)
        PROVE  After(log2, m, K, S)
    <2>1. m.from \in Ep /\ m.n \in Nat
      BY DEF Message
    <2>2. \A k \in 1 .. m.n - 1 : k \in DOMAIN log[m.from]
      BY <1>1, <1>4, <2>1 DEF Logged
    <2> QED  BY <1>2, <1>4, <2>1, <2>2, Zenon DEF After
  <1>5. ASSUME NEW e, NEW K, NEW s \in Seq(Message), TakenInOrder(log, e, s, K)
        PROVE  TakenInOrder(log2, e, s, K)
    <2>1. \A j \in DOMAIN s : s[j] \in Message
      BY Item, Zenon
    <2> QED  BY <1>3, <1>4, <1>5, <2>1, Zenon DEF TakenInOrder
  <1> QED  BY <1>3, <1>4, <1>5, Zenon

(***************************************************************************)
(* Sequences of records and the messages in them.                          *)
(***************************************************************************)
Matching == [msg : Message, ctx : Nat]
AsideRec == [h : Header, slot : Slots]

\* The messages of what was matched, one longer.
LEMMA MatchedSeq ==
    ASSUME NEW s \in Seq(Matching)
    PROVE  /\ Msgs(s) \in Seq(Message) /\ Len(Msgs(s)) = Len(s)
           /\ \A r \in Matching : Msgs(Append(s, r)) = Append(Msgs(s), r.msg)
  <1>0. Len(s) \in Nat /\ DOMAIN s = 1 .. Len(s) /\ \A i \in 1 .. Len(s) : s[i].msg \in Message
    <2>1. Len(s) \in Nat /\ DOMAIN s = 1 .. Len(s)
      OBVIOUS
    <2>2. \A r \in Matching : r.msg \in Message
      BY DEF Matching
    <2> QED  BY <2>1, <2>2, Item, Zenon
  <1>1. /\ Msgs(s) \in Seq(Message) /\ Len(Msgs(s)) = Len(s)
    BY <1>0 DEF Msgs
  <1>2. ASSUME NEW r \in Matching PROVE Msgs(Append(s, r)) = Append(Msgs(s), r.msg)
    BY <1>1 DEF Msgs, Matching
  <1> QED  BY <1>1, <1>2, Zenon

\* The messages of what was set aside, one longer or without the first.
LEMMA AsideSeq ==
    ASSUME NEW s \in Seq(AsideRec)
    PROVE  /\ AsideMsgs(s) \in Seq(Message) /\ Len(AsideMsgs(s)) = Len(s)
           /\ \A r \in AsideRec : AsideMsgs(Append(s, r)) = Append(AsideMsgs(s), r.h.msg)
           /\ s # << >> => /\ AsideMsgs(Tail(s)) = Tail(AsideMsgs(s))
                           /\ Head(s).h.msg = Head(AsideMsgs(s))
                           /\ AsideMsgs(s) # << >>
           /\ s = << >> => AsideMsgs(s) = << >>
  <1>0. Len(s) \in Nat /\ DOMAIN s = 1 .. Len(s) /\ \A i \in 1 .. Len(s) : s[i].h.msg \in Message
    <2>1. Len(s) \in Nat /\ DOMAIN s = 1 .. Len(s)
      OBVIOUS
    <2>2. \A r \in AsideRec : r.h \in Header
      BY DEF AsideRec
    <2>3. \A h \in Header : h.msg \in Message
      BY DEF Header
    <2> QED  BY <2>1, <2>2, <2>3, Item, Zenon
  <1>1. /\ AsideMsgs(s) \in Seq(Message) /\ Len(AsideMsgs(s)) = Len(s)
    BY <1>0 DEF AsideMsgs
  <1>2. ASSUME NEW r \in AsideRec PROVE AsideMsgs(Append(s, r)) = Append(AsideMsgs(s), r.h.msg)
    BY <1>1 DEF AsideMsgs, AsideRec
  <1>3. ASSUME s # << >>
        PROVE  /\ AsideMsgs(Tail(s)) = Tail(AsideMsgs(s))
               /\ Head(s).h.msg = Head(AsideMsgs(s))
               /\ AsideMsgs(s) # << >>
    BY <1>1, <1>3 DEF AsideMsgs
  <1>4. s = << >> => AsideMsgs(s) = << >>
    BY <1>1
  <1> QED  BY <1>1, <1>2, <1>3, <1>4, Zenon

\* Three ways to put two sequences in line.
LEMMA Lines ==
    ASSUME NEW S, NEW s \in Seq(S), NEW t \in Seq(S), NEW v \in S
    PROVE  /\ s \o t \in Seq(S) /\ Range(s) \subseteq Range(s \o t) /\ Range(t) \subseteq Range(s \o t)
           /\ s \o Append(t, v) = Append(s \o t, v)
           /\ t = << >> => Append(s, v) \o t = Append(s \o t, v)
           /\ t # << >> => Append(s, Head(t)) \o Tail(t) = s \o t
  <1>1. s \o t \in Seq(S) /\ s \o Append(t, v) = Append(s \o t, v)
    OBVIOUS
  <1>2. t = << >> => Append(s, v) \o t = Append(s \o t, v)
    OBVIOUS
  <1>3. t # << >> => Append(s, Head(t)) \o Tail(t) = s \o t
    OBVIOUS
  <1>4. Range(s) \subseteq Range(s \o t)
    BY DEF Range
  <1>5. Range(t) \subseteq Range(s \o t)
    <2>1. ASSUME NEW i \in DOMAIN t PROVE Len(s) + i \in DOMAIN (s \o t) /\ (s \o t)[Len(s) + i] = t[i]
      OBVIOUS
    <2> QED  BY <2>1, Zenon DEF Range
  <1> QED  BY <1>1, <1>2, <1>3, <1>4, <1>5, Zenon

(***************************************************************************)
(* Queues: what arrives at f moves up by s places, or stays where it is.   *)
(***************************************************************************)
SameArrival(f, i, k) ==
    /\ FreshAt(f, k) /\ FreshAt(f, i)'
    /\ MsgAt(f, i)' = MsgAt(f, k)
Slid(f, s) ==
    /\ \A i \in DOMAIN queue'[f] :
        FreshAt(f, i)' => i + s \in DOMAIN queue[f] /\ SameArrival(f, i, i + s)
    /\ \A k \in DOMAIN queue[f] :
        k > s /\ FreshAt(f, k) => k - s \in DOMAIN queue'[f] /\ SameArrival(f, k - s, k)

\* The head of the queue of e leaves it, and no longer arrives anywhere.
LEMMA HeadLeaves ==
    ASSUME PlacesOK, Apart, NEW e \in Ep, queue[e] # << >>, NEW x, x = Head(queue[e]),
           NEW h, hdr' = [hdr EXCEPT ![x] = h],
           \/ queue' = Drop(queue, e)
           \/ h.flags # {} /\ \E d \in Ep : queue' = Add(Drop(queue, e), d, x)
    PROVE  \A f \in Ep : Slid(f, IF f = e THEN 1 ELSE 0)
  <1> SUFFICES ASSUME NEW f \in Ep
               PROVE  Slid(f, IF f = e THEN 1 ELSE 0)
    BY Zenon
  <1> DEFINE s == IF f = e THEN 1 ELSE 0
             q == IF f = e THEN Tail(queue[f]) ELSE queue[f]
  <1>1. /\ queue[e] \in Seq(Ent) /\ queue[f] \in Seq(Ent) /\ s \in {0, 1}
        /\ IsInjective(queue[e])
    BY Zenon DEF PlacesOK, Apart
  <1>2. x \in Ent /\ x \in Range(queue[e]) /\ x = queue[e][1] /\ 1 \in DOMAIN queue[e]
    BY <1>1, Removed
  <1>3. /\ q \in Seq(Ent)
        /\ \A i \in DOMAIN q : i + s \in DOMAIN queue[f] /\ q[i] = queue[f][i + s] /\ i \in Nat /\ i > 0
        /\ \A k \in DOMAIN queue[f] : k > s => k - s \in DOMAIN q /\ q[k - s] = queue[f][k]
    BY <1>1
  <1>4. ASSUME NEW k \in DOMAIN queue[f], k > s
        PROVE  queue[f][k] # x /\ queue[f][k] \in Ent
    <2>1. queue[f][k] \in Ent
      BY <1>1
    <2>2. CASE f = e
      BY <1>1, <1>2, <1>4, <2>2 DEF IsInjective
    <2>3. CASE f # e
      <3>1. queue[f][k] \in Range(queue[f])
        BY Zenon DEF Range
      <3>2. ~In(e, queue[f][k]) /\ In(e, x)
        BY <1>2, <2>1, <2>3, <3>1, Zenon DEF Apart, In
      <3> QED  BY <2>1, <3>2, Zenon
    <2> QED  BY <2>1, <2>2, <2>3, Zenon
  <1>5. hdr'[x] = h /\ \A y \in Ent \ {x} : hdr'[y] = hdr[y]
    BY <1>2, Zenon DEF PlacesOK
  <1>6. \/ queue'[f] = q
        \/ h.flags # {} /\ queue'[f] = Append(q, x)
    <2>1. Drop(queue, e) = [queue EXCEPT ![e] = Tail(@)] /\ Drop(queue, e)[f] = q
      BY Zenon DEF Drop, PlacesOK
    <2>2. \A d \in Ep : Add(Drop(queue, e), d, x)[f] \in {q, Append(q, x)}
      BY <2>1, Zenon DEF Add, PlacesOK
    <2> QED  BY <2>1, <2>2, Zenon
  <1> HIDE DEF s, q
  <1>7. /\ \A i \in DOMAIN q : i \in DOMAIN queue'[f] /\ queue'[f][i] = q[i]
        /\ \A i \in DOMAIN queue'[f] :
            i \in DOMAIN q \/ (h.flags # {} /\ queue'[f][i] = x)
    <2>1. CASE queue'[f] = q
      BY <2>1, Zenon
    <2>2. CASE h.flags # {} /\ queue'[f] = Append(q, x)
      BY <1>2, <1>3, <2>2
    <2> QED  BY <1>6, <2>1, <2>2, Zenon
  <1>8. \A i \in DOMAIN q : i + s \in DOMAIN queue[f] /\ i + s > s /\ q[i] = queue[f][i + s]
    BY <1>1, <1>3
  <1>9. ASSUME NEW i \in DOMAIN queue'[f], FreshAt(f, i)'
        PROVE  i + s \in DOMAIN queue[f] /\ SameArrival(f, i, i + s)
    <2>1. i \in DOMAIN q
      BY <1>5, <1>7, <1>9, Zenon DEF FreshAt
    <2>2. queue'[f][i] = queue[f][i + s] /\ i + s \in DOMAIN queue[f]
      BY <1>7, <1>8, <2>1, Zenon
    <2>3. hdr'[queue'[f][i]] = hdr[queue[f][i + s]]
      BY <1>4, <1>5, <1>8, <2>1, <2>2, Zenon
    <2> QED  BY <1>9, <2>2, <2>3, Zenon DEF SameArrival, FreshAt, MsgAt
  <1>10. ASSUME NEW k \in DOMAIN queue[f], k > s, FreshAt(f, k)
         PROVE  k - s \in DOMAIN queue'[f] /\ SameArrival(f, k - s, k)
    <2>1. k - s \in DOMAIN queue'[f] /\ queue'[f][k - s] = queue[f][k]
      BY <1>3, <1>7, <1>10, Zenon
    <2>2. hdr'[queue'[f][k - s]] = hdr[queue[f][k]]
      BY <1>4, <1>5, <1>10, <2>1, Zenon
    <2> QED  BY <1>10, <2>1, <2>2, Zenon DEF SameArrival, FreshAt, MsgAt
  <1>11. Slid(f, s)
    BY <1>9, <1>10, Zenon DEF Slid
  <1> QED  BY <1>11 DEF s

\* An entry from a free stack joins a queue: what is then in the queue of f.
Joined(f, d, y) ==
    /\ queue[f] \in Seq(Ent)
    /\ \A k \in DOMAIN queue[f] :
        /\ k \in DOMAIN queue'[f] /\ queue'[f][k] = queue[f][k]
        /\ hdr'[queue[f][k]] = hdr[queue[f][k]]
    /\ \A k \in DOMAIN queue'[f] :
        k \in DOMAIN queue[f] \/ (f = d /\ k = Len(queue[f]) + 1 /\ queue'[f][k] = y)
    /\ f = d => Len(queue'[f]) = Len(queue[f]) + 1 /\ queue'[f][Len(queue[f]) + 1] = y
    /\ f # d => queue'[f] = queue[f]

Joins(e, d, y, h) ==
    y \in free[e] /\ hdr' = [hdr EXCEPT ![y] = h] /\ queue' = Add(queue, d, y)

\* A fresh entry y of e joins the queue of d behind what is there; if it carries
\* a flag it brings no message.
LEMMA EntryJoins ==
    ASSUME PlacesOK, Apart, NEW e \in Ep, NEW d \in Ep, NEW y, NEW h, Joins(e, d, y, h), NEW f \in Ep
    PROVE  /\ Joined(f, d, y) /\ hdr'[y] = h
           /\ h.flags # {} => Slid(f, 0)
  <1>0. y \in free[e] /\ hdr' = [hdr EXCEPT ![y] = h] /\ queue' = Add(queue, d, y)
    BY Zenon DEF Joins
  <1>1. queue[f] \in Seq(Ent) /\ y \in Ent /\ hdr'[y] = h
    BY <1>0, Zenon DEF PlacesOK
  <1>2. queue'[f] = IF f = d THEN Append(queue[f], y) ELSE queue[f]
    BY <1>0, Zenon DEF Add, PlacesOK
  <1>3. ASSUME NEW k \in DOMAIN queue[f]
        PROVE  /\ k \in DOMAIN queue'[f] /\ queue'[f][k] = queue[f][k]
               /\ hdr'[queue[f][k]] = hdr[queue[f][k]] /\ k \in Nat
    <2>1. k \in DOMAIN queue'[f] /\ queue'[f][k] = queue[f][k] /\ k \in Nat
      BY <1>1, <1>2
    <2>2. queue[f][k] \in Ent /\ queue[f][k] \in Range(queue[f])
      BY <1>1, Item, Zenon DEF Range
    <2>3. queue[f][k] # y
      BY <1>0, <1>1, <2>2 DEF Apart, In
    <2> QED  BY <1>0, <2>1, <2>2, <2>3, Zenon DEF PlacesOK
  <1>4. \A k \in DOMAIN queue'[f] :
            k \in DOMAIN queue[f] \/ (f = d /\ k = Len(queue[f]) + 1 /\ queue'[f][k] = y)
    BY <1>1, <1>2
  <1>5. f = d => Len(queue'[f]) = Len(queue[f]) + 1 /\ queue'[f][Len(queue[f]) + 1] = y
    BY <1>1, <1>2
  <1>6. ASSUME h.flags # {} PROVE Slid(f, 0)
    <2>1. \A k \in DOMAIN queue[f] : k \in Nat /\ k + 0 = k /\ k - 0 = k
      BY <1>1
    <2>2. \A k \in DOMAIN queue'[f] : FreshAt(f, k)' => k \in DOMAIN queue[f]
      BY <1>1, <1>4, <1>6, Zenon DEF FreshAt
    <2>3. \A k \in DOMAIN queue[f] :
            /\ FreshAt(f, k)' <=> FreshAt(f, k)
            /\ FreshAt(f, k) => k \in DOMAIN queue'[f] /\ SameArrival(f, k, k)
      BY <1>3, Zenon DEF SameArrival, FreshAt, MsgAt
    <2> QED  BY <2>1, <2>2, <2>3, Zenon DEF Slid
  <1> QED  BY <1>1, <1>2, <1>3, <1>4, <1>5, <1>6, Zenon DEF Joined

(***************************************************************************)
(* What an endpoint takes stays in order.                                  *)
(***************************************************************************)
LEMMA ArrivesKept ==
    ASSUME NEW f \in Ep, NEW s \in {0, 1}, Slid(f, s), ArrivesInOrder(f), issued' = issued,
           queue[f] \in Seq(Ent), queue'[f] \in Seq(Ent),
           Taken(f) \subseteq Taken(f)',
           s = 1 /\ queue[f] # << >> /\ FreshAt(f, 1) => MsgAt(f, 1) \in Taken(f)'
    PROVE  ArrivesInOrder(f)'
  <1>1. /\ DOMAIN queue[f] = 1 .. Len(queue[f]) /\ Len(queue[f]) \in Nat
        /\ DOMAIN queue'[f] = 1 .. Len(queue'[f]) /\ Len(queue'[f]) \in Nat
        /\ queue[f] # << >> <=> Len(queue[f]) > 0
    OBVIOUS
  <1>2. ASSUME NEW i \in Nat, i + s - 1 <= Len(queue[f]), NEW j \in Nat, j >= i,
               NEW w \in Arriving(f, i + s)
        PROVE  w \in Taken(f)' \cup Arriving(f, j)'
    <2>1. PICK k \in 1 .. i + s - 1 : FreshAt(f, k) /\ w = MsgAt(f, k)
      BY <1>2 DEF Arriving
    <2>2. k \in DOMAIN queue[f] /\ (k > s \/ (k = 1 /\ s = 1 /\ queue[f] # << >>))
      BY <1>1, <1>2
    <2>3. CASE k > s
      <3>1. k - s \in DOMAIN queue'[f] /\ SameArrival(f, k - s, k)
        BY <2>1, <2>2, <2>3, Zenon DEF Slid
      <3>2. k - s \in 1 .. j - 1
        BY <1>1, <1>2, <2>2, <2>3
      <3> QED  BY <2>1, <3>1, <3>2, Zenon DEF Arriving, SameArrival
    <2>4. CASE k = 1 /\ s = 1 /\ queue[f] # << >>
      BY <2>1, <2>4, Zenon
    <2> QED  BY <2>2, <2>3, <2>4, Zenon
  <1>3. ASSUME NEW i \in DOMAIN queue'[f], FreshAt(f, i)'
        PROVE  After(issued, MsgAt(f, i)', AllKinds, Taken(f)' \cup Arriving(f, i)')
    <2>1. i + s \in DOMAIN queue[f] /\ SameArrival(f, i, i + s)
      BY <1>3, Zenon DEF Slid
    <2>2. After(issued, MsgAt(f, i + s), AllKinds, Taken(f) \cup Arriving(f, i + s))
      BY <2>1, Zenon DEF ArrivesInOrder, SameArrival
    <2>3. i \in Nat /\ i + s - 1 <= Len(queue[f]) /\ i >= i
      BY <1>1, <2>1
    <2>4. \A w \in Taken(f) \cup Arriving(f, i + s) : w \in Taken(f)' \cup Arriving(f, i)'
      BY <1>2, <2>3, Zenon
    <2> QED  BY <2>1, <2>2, <2>4, AfterMore, Zenon DEF SameArrival
  <1>4. ASSUME NEW g \in Ep, NEW k \in DOMAIN issued[g], issued[g][k].to = f
        PROVE  issued[g][k] \in Taken(f)' \cup AllArriving(f)'
    <2>1. issued[g][k] \in Taken(f) \cup AllArriving(f)
      BY <1>4, Zenon DEF ArrivesInOrder
    <2>2. CASE issued[g][k] \in Taken(f)
      BY <2>2, Zenon
    <2>3. CASE issued[g][k] \in AllArriving(f)
      <3>1. PICK i \in 1 .. (Len(queue[f]) + 1) - 1 : FreshAt(f, i) /\ issued[g][k] = MsgAt(f, i)
        BY <2>3, Zenon DEF AllArriving, Arriving
      <3>2. i \in DOMAIN queue[f] /\ (i > s \/ (i = 1 /\ s = 1 /\ queue[f] # << >>))
        BY <1>1
      <3>3. CASE i > s
        <4>1. i - s \in DOMAIN queue'[f] /\ SameArrival(f, i - s, i)
          BY <3>1, <3>2, <3>3, Zenon DEF Slid
        <4>2. i - s \in 1 .. (Len(queue'[f]) + 1) - 1
          BY <1>1, <4>1
        <4> QED  BY <3>1, <4>1, <4>2, Zenon DEF AllArriving, Arriving, SameArrival
      <3>4. CASE i = 1 /\ s = 1 /\ queue[f] # << >>
        BY <3>1, <3>4, Zenon
      <3> QED  BY <3>2, <3>3, <3>4, Zenon
    <2> QED  BY <2>1, <2>2, <2>3, Zenon
  <1> QED  BY <1>3, <1>4, Zenon DEF ArrivesInOrder

\* What still arrives at f was not taken.
LEMMA UntakenKept ==
    ASSUME NEW f \in Ep, NEW s \in {0, 1}, Slid(f, s), Untaken(f), issued' = issued,
           queue[f] \in Seq(Ent), queue'[f] \in Seq(Ent),
           \A k \in DOMAIN queue[f] : k > s /\ FreshAt(f, k) => MsgAt(f, k) \notin Taken(f)'
    PROVE  Untaken(f)'
  <1> SUFFICES ASSUME NEW i \in DOMAIN queue'[f], FreshAt(f, i)'
               PROVE  Logged(issued, MsgAt(f, i)') /\ MsgAt(f, i)' \notin Taken(f)'
    BY Zenon DEF Untaken
  <1>1. i + s \in DOMAIN queue[f] /\ SameArrival(f, i, i + s)
    BY Zenon DEF Slid
  <1>2. i + s > s
    OBVIOUS
  <1> QED  BY <1>1, <1>2, Zenon DEF Untaken, SameArrival

\* f takes nothing.
LEMMA NothingTaken ==
    ASSUME NEW f \in Ep, NEW s \in {0, 1}, Slid(f, s), Ordered(f), issued' = issued,
           queue[f] \in Seq(Ent), queue'[f] \in Seq(Ent),
           Line(f)' = Line(f), applied'[f] = applied[f],
           life'[f] = "up" => life[f] = "up" /\ (s = 1 /\ queue[f] # << >> => ~FreshAt(f, 1))
    PROVE  Ordered(f)'
  <1>1. Taken(f)' = Taken(f)
    BY Zenon DEF Taken
  <1>2. Untaken(f)'
    BY <1>1, UntakenKept, Zenon DEF Ordered, Untaken
  <1>3. life'[f] = "up" => ArrivesInOrder(f)'
    BY <1>1, ArrivesKept, Zenon DEF Ordered
  <1> QED  BY <1>2, <1>3, Zenon DEF Ordered

\* e takes what is at the head of its queue.
LEMMA HeadTaken ==
    ASSUME IInv, NEW e \in Ep, queue[e] # << >>, FreshAt(e, 1), Slid(e, 1), Ordered(e),
           issued' = issued, queue'[e] \in Seq(Ent), Line(e) \in Seq(Message), life[e] = "up",
           NEW m, m = MsgAt(e, 1),
           \/ Line(e)' = Append(Line(e), m) /\ applied'[e] = applied[e] /\ m.kind \in Messages
           \/ Line(e)' = Line(e) /\ applied'[e] = Append(applied[e], m) /\ m.kind \in Atomics
    PROVE  Ordered(e)'
  <1>1. queue[e] \in Seq(Ent) /\ IsInjective(queue[e]) /\ applied[e] \in Seq(Message)
    BY Zenon DEF IInv, TypeOK, Apart
  <1>2. 1 \in DOMAIN queue[e] /\ \A k \in DOMAIN queue[e] : k > 1 => k # 1
    BY <1>1
  <1>3. ASSUME NEW k \in DOMAIN queue[e], FreshAt(e, k)
        PROVE  /\ queue[e][k] \in Ent /\ Busy(queue[e][k])
               /\ MsgAt(e, k) \in Message /\ MsgAt(e, k).to = e
    <2>1. queue[e][k] \in Ent /\ In(e, queue[e][k])
      BY <1>1, Item, Zenon DEF In, Range
    <2>2. hdr[queue[e][k]] \in Header /\ Shape(e, hdr[queue[e][k]])
      BY <2>1, Zenon DEF IInv, Shapes
    <2>3. MsgAt(e, k) \in Message
      BY <2>2 DEF Header, MsgAt
    <2>4. MsgAt(e, k).to = e
      BY <1>3, <2>2, Zenon DEF Shape, FreshAt, MsgAt, Returning
    <2> QED  BY <1>3, <2>1, <2>3, <2>4, Zenon DEF Busy, FreshAt, Returning
  <1>4. Taken(e)' = Taken(e) \cup {m}
    <2>1. m \in Message
      BY <1>2, <1>3, Zenon
    <2>2. Range(Append(Line(e), m)) = Range(Line(e)) \cup {m}
      BY <2>1, Appended
    <2>3. Range(Append(applied[e], m)) = Range(applied[e]) \cup {m}
      BY <1>1, <2>1, Appended
    <2> QED  BY <2>2, <2>3, Zenon DEF Taken
  <1>5. Untaken(e)'
    <2>1. ASSUME NEW k \in DOMAIN queue[e], k > 1, FreshAt(e, k) PROVE MsgAt(e, k) \notin Taken(e)'
      <3>1. queue[e][k] # queue[e][1]
        BY <1>1, <1>2, <2>1, Zenon DEF IsInjective
      <3>2. MsgAt(e, k) # m
        BY <1>2, <1>3, <2>1, <3>1, Zenon DEF IInv, Once, MsgAt
      <3> QED  BY <1>4, <2>1, <3>2, Zenon DEF Ordered, Untaken
    <2> QED  BY <1>1, <2>1, UntakenKept, Zenon DEF Ordered
  <1>6. ArrivesInOrder(e)'
    BY <1>1, <1>4, ArrivesKept, Zenon DEF Ordered
  <1>7. After(issued, m, AllKinds, Taken(e))
    <2>1. Arriving(e, 1) = {}
      <3>1. \A j \in 1 .. 1 - 1 : FALSE
        OBVIOUS
      <3> QED  BY <3>1, Zenon DEF Arriving
    <2> QED  BY <1>2, <2>1, Zenon DEF Ordered, ArrivesInOrder
  <1>8. Logged(issued, m) /\ m \notin Taken(e) /\ m \in Message /\ m.to = e
    BY <1>2, <1>3, Zenon DEF Ordered, Untaken
  <1>9. /\ \A w \in Range(Line(e)) : w.kind \in Messages
        /\ \A w \in Range(applied[e]) : w.kind \in Atomics
    BY Zenon DEF Ordered, TakenInOrder, Range
  <1>10. TakenInOrder(issued, e, Line(e)', Messages)
    <2>1. CASE Line(e)' = Line(e)
      BY <2>1, Zenon DEF Ordered
    <2>2. CASE Line(e)' = Append(Line(e), m) /\ m.kind \in Messages
      <3>1. \A w \in Taken(e) : w.kind \in Messages => w \in Range(Line(e))
        BY <1>9 DEF Taken, Messages, Atomics
      <3>2. After(issued, m, Messages, Range(Line(e)))
        BY <1>7, <3>1, Zenon DEF After, Messages, AllKinds
      <3> QED  BY <1>8, <2>2, <3>2, TakesNext, Zenon DEF Ordered, Taken
    <2> QED  BY <2>1, <2>2, Zenon
  <1>11. TakenInOrder(issued, e, applied'[e], Atomics)
    <2>1. CASE applied'[e] = applied[e]
      BY <2>1, Zenon DEF Ordered
    <2>2. CASE applied'[e] = Append(applied[e], m) /\ m.kind \in Atomics
      <3>1. \A w \in Taken(e) : w.kind \in Atomics => w \in Range(applied[e])
        BY <1>9 DEF Taken, Messages, Atomics
      <3>2. After(issued, m, Atomics, Range(applied[e]))
        BY <1>7, <3>1, Zenon DEF After, Atomics, AllKinds
      <3> QED  BY <1>1, <1>8, <2>2, <3>2, TakesNext, Zenon DEF Ordered, Taken
    <2> QED  BY <2>1, <2>2, Zenon
  <1> QED  BY <1>5, <1>6, <1>10, <1>11, Zenon DEF Ordered

(***************************************************************************)
(* Fetching atomics.                                                       *)
(***************************************************************************)
LEMMA FetchingNow ==
    ASSUME NEW y, NEW m, m = hdr'[y].msg, Issued(m)', ~Sent(m)',
           "GENERATE" \in hdr'[y].flags => Performed(m, hdr[y].res)',
           \A r \in result' : r.msg # m,
           \A f \in Ep : \A z \in Ent : In(f, z)' /\ hdr'[z].msg = m => z = y
    PROVE  Fetching(y)'
  BY Zenon DEF Fetching, Issued, Sent, Performed

\* What a fetch returned stays true.
LEMMA ResultsKept ==
    ASSUME NEW r \in result, Fetches, issued' = issued, Sent(r.msg)' => Sent(r.msg),
           \A m \in Message : \A k \in Nat : Performed(m, k) => Performed(m, k)'
    PROVE  /\ r.msg \in Message /\ r.msg.kind = "fetch" /\ r.res \in Nat
           /\ Issued(r.msg)' /\ (Sent(r.msg)' => Performed(r.msg, r.res)')
  BY Zenon DEF Fetches, Issued

\* An entry changes hands, and says what it said of an atomic that fetches.
LEMMA FetchesMove ==
    ASSUME IInv, Fetches, NEW x \in Ent, NEW h, NEW D \in SUBSET Ep, Moved(x, h, D),
           result' = result, issued' = issued,
           \A m \in Message : m.kind = "fetch" /\ Sent(m)' => Sent(m),
           \A m \in Message : \A k \in Nat : Performed(m, k) => Performed(m, k)',
           D # {} /\ h.msg.kind = "fetch" =>
               /\ \E e \in Ep : In(e, x)
               /\ h.msg = hdr[x].msg
               /\ "GENERATE" \in h.flags => Performed(h.msg, h.res)'
    PROVE  Fetches'
  <1>1. \A y \in Ent : hdr'[y] = IF y = x THEN h ELSE hdr[y]
    BY Zenon DEF Moved, IInv, TypeOK
  <1>2. ASSUME NEW f \in Ep, NEW y \in Ent, In(f, y)', hdr'[y].msg.kind = "fetch"
        PROVE  /\ \E g \in Ep : In(g, y)
               /\ hdr[y].msg = hdr'[y].msg
    <2>1. CASE y = x
      BY <1>1, <1>2, <2>1, Zenon DEF Moved
    <2>2. CASE y # x
      BY <1>1, <1>2, <2>2, Zenon DEF Moved
    <2> QED  BY <2>1, <2>2, Zenon
  <1>3. ASSUME NEW f \in Ep, NEW y \in Ent, In(f, y)', hdr'[y].msg.kind = "fetch"
        PROVE  Fetching(y)'
    <2>1. PICK g \in Ep : In(g, y)
      BY <1>2, <1>3, Zenon
    <2>2. PICK m \in Message : m = hdr[y].msg /\ m = hdr'[y].msg /\ m.kind = "fetch"
      BY <1>2, <1>3, <2>1, Queued, Zenon
    <2>3. /\ Issued(m) /\ ~Sent(m)
          /\ "GENERATE" \in hdr[y].flags => Performed(m, hdr[y].res)
          /\ \A r \in result : r.msg # m
          /\ \A f1 \in Ep : \A z \in Ent : In(f1, z) /\ hdr[z].msg = m => z = y
      BY <2>1, <2>2, Zenon DEF Fetches, Fetching
    <2>4. Issued(m)' /\ ~Sent(m)'
      BY <2>2, <2>3, Zenon DEF Issued
    <2>5. \A f1 \in Ep : \A z \in Ent : In(f1, z)' /\ hdr'[z].msg = m => z = y
      BY <1>2, <2>2, <2>3, Zenon
    <2>6. hdr[y].res \in Nat
      <3>1. hdr[y] \in Header
        BY <2>1, Queued, Zenon
      <3> QED  BY <3>1, Zenon DEF Header
    <2>7. ASSUME "GENERATE" \in hdr'[y].flags PROVE Performed(m, hdr[y].res)'
      <3>1. PICK k : k = hdr'[y].res
        BY Zenon
      <3>2. Performed(m, k)'
        <4>1. CASE y = x
          BY <1>1, <1>3, <2>2, <2>7, <3>1, <4>1, Zenon DEF Moved
        <4>2. CASE y # x
          BY <1>1, <2>3, <2>6, <2>7, <3>1, <4>2, Zenon
        <4> QED  BY <4>1, <4>2, Zenon
      <3> QED  BY <3>1, <3>2, Zenon DEF Performed
    <2> QED  BY <2>2, <2>3, <2>4, <2>5, <2>7, FetchingNow, Zenon
  <1>4. ASSUME NEW r \in result
        PROVE  /\ r.msg \in Message /\ r.msg.kind = "fetch" /\ r.res \in Nat
               /\ Issued(r.msg)' /\ (Sent(r.msg)' => Performed(r.msg, r.res)')
    <2>1. Sent(r.msg)' => Sent(r.msg)
      BY Zenon DEF Fetches
    <2> QED  BY <2>1, ResultsKept, Zenon
  <1> QED  BY <1>3, <1>4, Zenon DEF Fetches

\* The entry of one comes back to the sender, which keeps it.
LEMMA FetchReturned ==
    ASSUME IInv, Fetches, NEW e \in Ep, NEW x \in Ent, In(e, x), Moved(x, NoHdr, {}), issued' = issued,
           applied' = applied, NEW m \in Message, m = hdr[x].msg, m.kind = "fetch",
           result' = result \cup {[msg |-> m, res |-> hdr[x].res]},
           \A k \in Message : Sent(k)' => Sent(k) \/ (k = m /\ "GENERATE" \in hdr[x].flags)
    PROVE  Fetches'
  <1>1. \A y \in Ent : y # x => hdr'[y] = hdr[y]
    BY Zenon DEF Moved, IInv, TypeOK
  <1>2. /\ Issued(m) /\ ~Sent(m)
        /\ "GENERATE" \in hdr[x].flags => Performed(m, hdr[x].res)
        /\ \A r \in result : r.msg # m
        /\ \A f \in Ep : \A z \in Ent : In(f, z) /\ hdr[z].msg = m => z = x
    BY Zenon DEF Fetches, Fetching
  <1>3. PICK n \in Nat : n = hdr[x].res
    <2>1. hdr[x] \in Header
      BY Queued, Zenon
    <2> QED  BY <2>1, Zenon DEF Header
  <1>4. ASSUME NEW f \in Ep, NEW y \in Ent, In(f, y)', hdr'[y].msg.kind = "fetch"
        PROVE  Fetching(y)'
    <2>1. y # x /\ In(f, y) /\ hdr'[y] = hdr[y]
      BY <1>1, <1>4, Zenon DEF Moved
    <2>2. PICK k \in Message : k = hdr[y].msg /\ k = hdr'[y].msg /\ k.kind = "fetch"
      BY <1>4, <2>1, Queued, Zenon
    <2>3. /\ Issued(k) /\ ~Sent(k)
          /\ "GENERATE" \in hdr[y].flags => Performed(k, hdr[y].res)
          /\ \A r \in result : r.msg # k
          /\ \A f1 \in Ep : \A z \in Ent : In(f1, z) /\ hdr[z].msg = k => z = y
      BY <2>1, <2>2, Zenon DEF Fetches, Fetching
    <2>4. k # m
      BY <1>2, <2>1, <2>2, Zenon
    <2>5. Issued(k)' /\ ~Sent(k)'
      BY <2>3, <2>4, Zenon DEF Issued
    <2>6. \A r \in result' : r.msg # k
      <3>1. [msg |-> m, res |-> hdr[x].res].msg = m
        BY Zenon
      <3> QED  BY <2>3, <2>4, <3>1, Zenon
    <2>7. \A f1 \in Ep : \A z \in Ent : In(f1, z)' /\ hdr'[z].msg = k => z = y
      BY <1>1, <2>3, Zenon DEF Moved
    <2>8. "GENERATE" \in hdr'[y].flags => Performed(k, hdr[y].res)'
      BY <2>1, <2>3, Zenon DEF Performed
    <2> QED  BY <2>2, <2>5, <2>6, <2>7, <2>8, FetchingNow, Zenon
  <1>5. \A k \in Message : \A i \in Nat : Performed(k, i) => Performed(k, i)'
    BY Zenon DEF Performed
  <1>6. ASSUME NEW r \in result'
        PROVE  /\ r.msg \in Message /\ r.msg.kind = "fetch" /\ r.res \in Nat
               /\ Issued(r.msg)' /\ (Sent(r.msg)' => Performed(r.msg, r.res)')
    <2>1. CASE r \in result
      <3>1. Sent(r.msg)' => Sent(r.msg)
        BY <1>2, <2>1, Zenon DEF Fetches
      <3> QED  BY <1>5, <2>1, <3>1, ResultsKept, Zenon
    <2>2. CASE r = [msg |-> m, res |-> n]
      <3>1. r.msg = m /\ r.res = n
        BY <2>2, Zenon
      <3>2. Issued(m)' /\ (Sent(m)' => Performed(m, n)')
        BY <1>2, <1>3, <1>5, Zenon DEF Issued
      <3> QED  BY <1>3, <3>1, <3>2, Zenon
    <2> QED  BY <1>3, <2>1, <2>2, Zenon
  <1> QED  BY <1>4, <1>6, Zenon DEF Fetches

\* An atomic is performed at e.
LEMMA PerformedGrows ==
    ASSUME applied \in [Ep -> Seq(Message)], NEW e \in Ep, NEW v \in Message, applied' = Add(applied, e, v)
    PROVE  /\ \A m \in Message : \A k \in Nat : Performed(m, k) => Performed(m, k)'
           /\ \A k : v.to = e /\ k = Len(applied[e]) => Performed(v, k)'
           /\ \A f \in Ep : applied'[f] = IF f = e THEN Append(applied[f], v) ELSE applied[f]
  <1>1. \A f \in Ep : applied'[f] = IF f = e THEN Append(applied[f], v) ELSE applied[f]
    BY Zenon DEF Add
  <1>2. \A s \in Seq(Message) :
            /\ \A k \in Nat : k < Len(s) => k < Len(Append(s, v)) /\ Append(s, v)[k + 1] = s[k + 1]
            /\ Len(s) < Len(Append(s, v)) /\ Append(s, v)[Len(s) + 1] = v
    OBVIOUS
  <1>3. ASSUME NEW m \in Message, NEW k \in Nat, Performed(m, k) PROVE Performed(m, k)'
    <2>1. m.to \in Ep
      BY DEF Message
    <2>2. applied[m.to] \in Seq(Message)
      BY <2>1, Zenon
    <2> QED  BY <1>1, <1>2, <1>3, <2>1, <2>2, Zenon DEF Performed
  <1>4. ASSUME NEW k, v.to = e, k = Len(applied[e]) PROVE Performed(v, k)'
    <2>1. applied[e] \in Seq(Message)
      BY Zenon
    <2> QED  BY <1>1, <1>2, <1>4, <2>1, Zenon DEF Performed
  <1> QED  BY <1>1, <1>3, <1>4, Zenon

(***************************************************************************)
(* What the steps do to the line.                                          *)
(***************************************************************************)
LEMMA ReceivesSame ==
    ASSUME NEW f, Receives(f), matched'[f] = matched[f], posted'[f] = posted[f],
           rxctx'[f] = rxctx[f], nrecv'[f] = nrecv[f], unexp'[f] = unexp[f]
    PROVE  Receives(f)'
  BY Zenon DEF Receives

\* The types of what f has in line.
LEMMA LineOf ==
    ASSUME TypeOK, InLine, NEW f \in Ep
    PROVE  /\ queue[f] \in Seq(Ent) /\ matched[f] \in Seq(Matching) /\ unexp[f] \in Seq(AsideRec)
           /\ Msgs(matched[f]) \in Seq(Message) /\ AsideMsgs(unexp[f]) \in Seq(Message)
           /\ Line(f) \in Seq(Message)
  <1>1. queue[f] \in Seq(Ent) /\ matched[f] \in Seq(Matching) /\ unexp[f] \in Seq(AsideRec)
    BY Zenon DEF TypeOK, InLine, Matching, AsideRec
  <1>2. Msgs(matched[f]) \in Seq(Message) /\ AsideMsgs(unexp[f]) \in Seq(Message)
    BY <1>1, MatchedSeq, AsideSeq, Zenon
  <1>3. Line(f) \in Seq(Message)
    BY <1>2 DEF Line
  <1> QED  BY <1>1, <1>2, <1>3, Zenon

\* What the entry x at the head of e's queue becomes.
Goes(e, x, h) ==
    \/ h = NoHdr /\ Push(e, x)
    \/ h \in Header /\ h.flags # {} /\ h.msg = hdr[x].msg /\ \E d \in Ep : Pass(e, x, h, d)

\* No atomic that fetches completes, and none that was performed is undone.
FetchesStay ==
    /\ result' = result /\ issued' = issued
    /\ \A m \in Message : m.kind = "fetch" /\ Sent(m)' => Sent(m)
    /\ \A m \in Message : \A k \in Nat : Performed(m, k) => Performed(m, k)'

\* The rest of the queue of e moves up, and the other queues stay.
LEMMA GoesSlid ==
    ASSUME IInv, NEW e \in Ep, queue[e] # << >>, NEW x, x = Head(queue[e]), NEW h, Goes(e, x, h)
    PROVE  \A f \in Ep : Slid(f, IF f = e THEN 1 ELSE 0)
  <1>1. PlacesOK /\ Apart
    BY TypeParts, Zenon DEF IInv
  <1>2. /\ hdr' = [hdr EXCEPT ![x] = h]
        /\ \/ queue' = Drop(queue, e)
           \/ h.flags # {} /\ \E d \in Ep : queue' = Add(Drop(queue, e), d, x)
    BY Zenon DEF Goes, Push, Pass
  <1> QED  BY <1>1, <1>2, HeadLeaves, Zenon

\* An entry that goes says what it said of an atomic that fetches.
LEMMA GoesFetches ==
    ASSUME IInv, Fetches, NEW e \in Ep, queue[e] # << >>, NEW x, x = Head(queue[e]),
           NEW h, Goes(e, x, h), FetchesStay,
           h.msg.kind = "fetch" /\ "GENERATE" \in h.flags => Performed(h.msg, h.res)'
    PROVE  Fetches'
  <1>1. PlacesOK /\ Apart
    BY TypeParts, Zenon DEF IInv
  <1>2. CASE h = NoHdr /\ Push(e, x)
    <2>1. x \in Ent /\ Moved(x, h, {})
      BY <1>1, <1>2, PushStep, Zenon
    <2> QED  BY <2>1, FetchesMove, Zenon DEF FetchesStay
  <1>3. ASSUME h \in Header, h.msg = hdr[x].msg, NEW d \in Ep, Pass(e, x, h, d)
        PROVE  Fetches'
    <2>1. x \in Ent /\ In(e, x) /\ Moved(x, h, {d})
      BY <1>1, <1>3, PassStep, Zenon
    <2>2. {d} \in SUBSET Ep
      BY Zenon
    <2> QED  BY <1>3, <2>1, <2>2, FetchesMove, Zenon DEF FetchesStay
  <1> QED  BY <1>2, <1>3, Zenon DEF Goes

Back(h, F) == [h EXCEPT !.flags = F \cup {"RETURN"}]

\* sm2_fifo_write_back is a way to go, with the message that was there.
LEMMA GoesBack ==
    ASSUME IInv, NEW e \in Ep, queue[e] # << >>, NEW x, x = Head(queue[e]),
           NEW F \in SUBSET Flags, WriteBack(e, x, F)
    PROVE  \E h : /\ Goes(e, x, h) /\ h.msg = hdr[x].msg
                  /\ "GENERATE" \notin F => "GENERATE" \notin h.flags
  <1>0. PICK h : h = Back(hdr[x], F)
    BY Zenon
  <1>1. x \in Ent /\ hdr[x] \in Header /\ hdr[x].sender \in Ep
    BY HeadOf, Zenon
  <1>2. F \cup {"RETURN"} \in SUBSET Flags /\ F \cup {"RETURN"} # {}
    BY Zenon DEF Flags
  <1>3. h \in Header /\ h.flags = F \cup {"RETURN"} /\ h.msg = hdr[x].msg
    BY <1>0, <1>1, <1>2, Zenon DEF Header, Back
  <1>4. Pass(e, x, h, hdr[x].sender)
    BY <1>0, Zenon DEF WriteBack, Back
  <1>5. Goes(e, x, h)
    BY <1>1, <1>2, <1>3, <1>4, Zenon DEF Goes
  <1> QED  BY <1>3, <1>5, Zenon

\* What is at the head of the queue of e is nothing that e takes.
LEMMA SkipOrder ==
    ASSUME IInv, TypeOK', InLine, NEW e \in Ep, queue[e] # << >>, NEW x, x = Head(queue[e]),
           NEW h, Goes(e, x, h), Fetches', hdr[x].flags # {} \/ life[e] # "up",
           UNCHANGED <<posted, unexp, rxctx, life, nrecv, issued, matched, applied>>
    PROVE  InLine'
  <1>1. TypeOK
    BY Zenon DEF IInv
  <1>2. x = queue[e][1]
    BY <1>1, LineOf
  <1>3. ASSUME NEW f \in Ep PROVE Ordered(f)' /\ Receives(f)'
    <2>1. queue[f] \in Seq(Ent) /\ queue'[f] \in Seq(Ent)
      BY <1>1, Zenon DEF TypeOK
    <2>2. Line(f)' = Line(f) /\ applied'[f] = applied[f]
      BY Zenon DEF Line
    <2>3. Ordered(f) /\ Receives(f)
      BY Zenon DEF InLine
    <2>4. Receives(f)'
      BY <2>3, ReceivesSame, Zenon
    <2>5. CASE f = e
      <3>1. Slid(f, 1)
        BY <2>5, GoesSlid, Zenon
      <3>2. life'[f] = "up" => life[f] = "up" /\ ~FreshAt(f, 1)
        BY <1>2, <2>5, Zenon DEF FreshAt
      <3> QED  BY <2>1, <2>2, <2>3, <2>4, <3>1, <3>2, NothingTaken
    <2>6. CASE f # e
      <3>1. Slid(f, 0)
        BY <2>6, GoesSlid, Zenon
      <3> QED  BY <2>1, <2>2, <2>3, <2>4, <3>1, NothingTaken
    <2> QED  BY <2>5, <2>6, Zenon
  <1>4. /\ matched' \in [Ep -> Seq([msg : Message, ctx : Nat])]
        /\ \A f \in Ep : \A i \in DOMAIN issued'[f] : issued'[f][i].from = f /\ issued'[f][i].n = i
    BY Zenon DEF InLine
  <1> QED  BY <1>3, <1>4, Zenon DEF InLine

\* e takes what is at the head of its queue: m is put in line, or performed.
Takes(e, m) ==
    \/ Line(e)' = Append(Line(e), m) /\ applied' = applied /\ m.kind \in Messages
    \/ Line(e)' = Line(e) /\ applied' = Add(applied, e, m) /\ m.kind \in Atomics

\* e takes the message at the head of its queue.
LEMMA TakeOrder ==
    ASSUME IInv, TypeOK', InLine, NEW e \in Ep, queue[e] # << >>, NEW x, x = Head(queue[e]),
           NEW h, Goes(e, x, h), hdr[x].flags = {}, life[e] = "up", issued' = issued, life' = life,
           Takes(e, hdr[x].msg), \A f \in Ep \ {e} : Line(f)' = Line(f),
           matched' \in [Ep -> Seq([msg : Message, ctx : Nat])],
           \A f \in Ep : Receives(f)', Fetches'
    PROVE  InLine'
  <1>1. TypeOK
    BY Zenon DEF IInv
  <1>2. x = queue[e][1]
    BY <1>1, LineOf
  <1>3. PICK m : m = hdr[x].msg
    BY Zenon
  <1>4. ASSUME NEW f \in Ep PROVE Ordered(f)'
    <2>1. queue[f] \in Seq(Ent) /\ queue'[f] \in Seq(Ent) /\ Line(f) \in Seq(Message)
      BY <1>1, LineOf, Zenon DEF TypeOK
    <2>2. Ordered(f)
      BY Zenon DEF InLine
    <2>3. applied'[f] = IF f = e /\ m.kind \in Atomics THEN Append(applied[f], m) ELSE applied[f]
      <3>1. applied \in [Ep -> Seq(Message)]
        BY <1>1, Zenon DEF TypeOK
      <3>2. ~(m.kind \in Messages /\ m.kind \in Atomics)
        BY DEF Messages, Atomics
      <3> QED  BY <1>3, <3>1, <3>2, Zenon DEF Takes, Add
    <2>4. CASE f = e
      <3>1. Slid(f, 1)
        BY <2>4, GoesSlid, Zenon
      <3>2. FreshAt(f, 1) /\ m = MsgAt(f, 1)
        BY <1>2, <1>3, <2>4, Zenon DEF FreshAt, MsgAt
      <3>3. \/ Line(f)' = Append(Line(f), m) /\ applied'[f] = applied[f] /\ m.kind \in Messages
            \/ Line(f)' = Line(f) /\ applied'[f] = Append(applied[f], m) /\ m.kind \in Atomics
        BY <1>3, <2>3, <2>4, Zenon DEF Takes
      <3> QED  BY <2>1, <2>2, <2>4, <3>1, <3>2, <3>3, HeadTaken, Zenon
    <2>5. CASE f # e
      <3>1. Slid(f, 0)
        BY <2>5, GoesSlid, Zenon
      <3>2. Line(f)' = Line(f) /\ applied'[f] = applied[f]
        BY <2>3, <2>5, Zenon
      <3> QED  BY <2>1, <2>2, <3>1, <3>2, NothingTaken
    <2> QED  BY <2>4, <2>5, Zenon
  <1>5. \A f \in Ep : \A i \in DOMAIN issued'[f] : issued'[f][i].from = f /\ issued'[f][i].n = i
    BY Zenon DEF InLine
  <1> QED  BY <1>4, <1>5, Zenon DEF InLine

(***************************************************************************)
(* Receives and the line.                                                  *)
(***************************************************************************)
Recv == [slot : Slots, mem : Mems]

\* A receive that is posted is matched.
LEMMA MatchedNext ==
    ASSUME TypeOK, InLine, NEW e \in Ep, posted[e] # << >>, posted' = Drop(posted, e),
           NEW m \in Message, Matched(e, m, rxctx[e][Head(posted[e]).slot]),
           rxctx' = rxctx, nrecv' = nrecv, unexp' = unexp
    PROVE  /\ matched' \in [Ep -> Seq([msg : Message, ctx : Nat])]
           /\ \A f \in Ep : Receives(f)'
           /\ \A f \in Ep : Line(f)' = IF f = e THEN Append(Line(f), m) ELSE Line(f)
  <1>1. PICK p : p = posted[e]
    BY Zenon
  <1>2. /\ posted \in [Ep -> Seq(Recv)] /\ p \in Seq(Recv) /\ p # << >>
        /\ rxctx \in [Ep -> [Slots -> Nat]] /\ matched \in [Ep -> Seq(Matching)]
        /\ matched[e] \in Seq(Matching)
    BY <1>1, Zenon DEF TypeOK, InLine, Recv, Matching
  <1>3. /\ Receives(e) /\ unexp[e] = << >>
    BY Zenon DEF InLine, Receives
  <1>4. /\ 1 \in DOMAIN p /\ Head(p) = p[1] /\ Head(p) \in Recv
        /\ Len(p) \in Nat /\ Len(Tail(p)) = Len(p) - 1 /\ Tail(p) \in Seq(Recv)
        /\ \A i \in DOMAIN Tail(p) : i + 1 \in DOMAIN p /\ Tail(p)[i] = p[i + 1] /\ i \in Nat
    BY <1>2
  <1>5. PICK c : c = rxctx[e][Head(p).slot]
    BY Zenon
  <1>6. c \in Nat /\ c = Len(matched[e]) + 1
    <2>1. Head(p).slot \in Slots
      BY <1>4, Zenon DEF Recv
    <2>2. rxctx[e] \in [Slots -> Nat]
      BY <1>2, Zenon
    <2>3. c = Len(matched[e]) + 1
      BY <1>1, <1>3, <1>4, <1>5, Zenon DEF Receives
    <2> QED  BY <1>5, <2>1, <2>2, <2>3, Zenon
  <1>7. PICK r : r = [msg |-> m, ctx |-> c]
    BY Zenon
  <1>8. r \in Matching /\ r.msg = m /\ r.ctx = c
    BY <1>6, <1>7, Zenon DEF Matching
  <1>9. matched' = Add(matched, e, r)
    BY <1>1, <1>5, <1>7, Zenon DEF Matched
  <1>10. /\ matched' \in [Ep -> Seq(Matching)]
         /\ \A f \in Ep : matched'[f] = IF f = e THEN Append(matched[f], r) ELSE matched[f]
    BY <1>2, <1>8, <1>9 DEF Add
  <1>11. \A f \in Ep : posted'[f] = IF f = e THEN Tail(p) ELSE posted[f]
    BY <1>1, <1>2, Zenon DEF Drop
  <1>12. /\ Len(matched'[e]) = Len(matched[e]) + 1 /\ Len(matched[e]) \in Nat
         /\ \A i \in DOMAIN matched'[e] :
                \/ i \in DOMAIN matched[e] /\ matched'[e][i] = matched[e][i]
                \/ i = Len(matched[e]) + 1 /\ matched'[e][i] = r
    <2>1. \A s \in Seq(Matching) :
            /\ Len(Append(s, r)) = Len(s) + 1 /\ Len(s) \in Nat
            /\ \A i \in DOMAIN Append(s, r) :
                \/ i \in DOMAIN s /\ Append(s, r)[i] = s[i]
                \/ i = Len(s) + 1 /\ Append(s, r)[i] = r
      BY <1>8
    <2> QED  BY <1>2, <1>10, <2>1, Zenon
  <1>13. Receives(e)'
    <2>1. \A i \in DOMAIN matched'[e] : matched'[e][i].ctx = i
      BY <1>3, <1>6, <1>8, <1>12, Zenon DEF Receives
    <2>2. ASSUME NEW k \in DOMAIN posted'[e] PROVE rxctx'[e][posted'[e][k].slot] = Len(matched'[e]) + k
      <3>1. k \in Nat /\ k + 1 \in DOMAIN p /\ posted'[e][k] = p[k + 1]
        BY <1>4, <1>11, Zenon
      <3>2. rxctx[e][p[k + 1].slot] = Len(matched[e]) + (k + 1)
        BY <1>1, <1>3, <3>1, Zenon DEF Receives
      <3>3. Len(matched[e]) + (k + 1) = (Len(matched[e]) + 1) + k
        BY <1>12, <3>1
      <3> QED  BY <1>12, <3>1, <3>2, <3>3, Zenon
    <2>3. nrecv'[e] = Len(matched'[e]) + Len(posted'[e])
      <3>1. nrecv[e] = Len(matched[e]) + Len(p)
        BY <1>1, <1>3, Zenon DEF Receives
      <3>2. Len(posted'[e]) = Len(p) - 1
        BY <1>4, <1>11, Zenon
      <3>3. \A a, b \in Nat : a + b = (a + 1) + (b - 1)
        OBVIOUS
      <3> QED  BY <1>4, <1>12, <3>1, <3>2, <3>3, Zenon
    <2>4. \A i, k \in DOMAIN posted'[e] : posted'[e][i].slot = posted'[e][k].slot => i = k
      <3>1. ASSUME NEW i \in DOMAIN Tail(p), NEW k \in DOMAIN Tail(p), Tail(p)[i].slot = Tail(p)[k].slot
            PROVE  i = k
        <4>1. /\ i \in Nat /\ k \in Nat /\ i + 1 \in DOMAIN p /\ k + 1 \in DOMAIN p
              /\ p[i + 1].slot = p[k + 1].slot
          BY <1>4, <3>1, Zenon
        <4>2. i + 1 = k + 1
          BY <1>1, <1>3, <4>1, Zenon DEF Receives
        <4> QED  BY <4>1, <4>2
      <3> QED  BY <1>11, <3>1, Zenon
    <2> QED  BY <1>3, <2>1, <2>2, <2>3, <2>4, Zenon DEF Receives
  <1>14. \A f \in Ep : Receives(f)'
    <2> SUFFICES ASSUME NEW f \in Ep, f # e PROVE Receives(f)'
      BY <1>13, Zenon
    <2>1. Receives(f)
      BY Zenon DEF InLine
    <2> QED  BY <1>10, <1>11, <2>1, ReceivesSame, Zenon
  <1>15. Line(e)' = Append(Line(e), m)
    <2>1. /\ Msgs(matched[e]) \in Seq(Message)
          /\ Msgs(matched'[e]) = Append(Msgs(matched[e]), m)
      BY <1>2, <1>8, <1>10, MatchedSeq, Zenon
    <2>2. AsideMsgs(unexp[e]) = << >>
      BY <1>3 DEF AsideMsgs
    <2>3. \A s \in Seq(Message) : Append(s, m) \o << >> = Append(s \o << >>, m)
      OBVIOUS
    <2> QED  BY <2>1, <2>2, <2>3, Zenon DEF Line
  <1>16. \A f \in Ep : f # e => Line(f)' = Line(f)
    BY <1>10, Zenon DEF Line
  <1> QED  BY <1>10, <1>14, <1>15, <1>16, Zenon DEF Matching

\* A message with no receive is set aside.
LEMMA AsideNext ==
    ASSUME TypeOK, InLine, NEW e \in Ep, posted[e] = << >>, NEW u \in AsideRec, unexp' = Add(unexp, e, u),
           UNCHANGED <<posted, matched, rxctx, nrecv>>
    PROVE  /\ \A f \in Ep : Receives(f)'
           /\ \A f \in Ep : Line(f)' = IF f = e THEN Append(Line(f), u.h.msg) ELSE Line(f)
  <1>1. unexp \in [Ep -> Seq(AsideRec)] /\ unexp[e] \in Seq(AsideRec)
    BY Zenon DEF TypeOK, AsideRec
  <1>2. \A f \in Ep : unexp'[f] = IF f = e THEN Append(unexp[f], u) ELSE unexp[f]
    BY <1>1, Zenon DEF Add
  <1>3. ASSUME NEW f \in Ep PROVE Receives(f)'
    <2>1. Receives(f)
      BY Zenon DEF InLine
    <2>2. CASE f = e
      BY <2>1, <2>2, Zenon DEF Receives
    <2>3. CASE f # e
      BY <1>2, <2>1, <2>3, ReceivesSame, Zenon
    <2> QED  BY <2>2, <2>3, Zenon
  <1>4. /\ Msgs(matched[e]) \in Seq(Message) /\ AsideMsgs(unexp[e]) \in Seq(Message)
    BY LineOf, Zenon
  <1>5. AsideMsgs(unexp'[e]) = Append(AsideMsgs(unexp[e]), u.h.msg)
    BY <1>1, <1>2, AsideSeq, Zenon
  <1>6. u.h.msg \in Message
    <2>1. u.h \in Header
      BY Zenon DEF AsideRec
    <2> QED  BY <2>1, Zenon DEF Header
  <1>7. Line(e)' = Append(Line(e), u.h.msg)
    <2>1. Msgs(matched[e]) \o Append(AsideMsgs(unexp[e]), u.h.msg) = Append(Line(e), u.h.msg)
      BY <1>4, <1>6, Lines DEF Line
    <2> QED  BY <1>5, <2>1, Zenon DEF Line
  <1>8. \A f \in Ep : f # e => Line(f)' = Line(f)
    BY <1>2, Zenon DEF Line
  <1> QED  BY <1>3, <1>7, <1>8, Zenon

\* A receive is posted for the first of the messages set aside.
LEMMA StartedNext ==
    ASSUME TypeOK, InLine, NEW e \in Ep, unexp[e] # << >>, unexp' = Drop(unexp, e),
           Matched(e, Head(unexp[e]).h.msg, nrecv[e] + 1), posted' = posted,
           nrecv' = [nrecv EXCEPT ![e] = @ + 1], NEW slot, rxctx' = [rxctx EXCEPT ![e][slot] = nrecv[e] + 1]
    PROVE  /\ matched' \in [Ep -> Seq([msg : Message, ctx : Nat])]
           /\ \A f \in Ep : Receives(f)' /\ Line(f)' = Line(f)
  <1>1. /\ unexp \in [Ep -> Seq(AsideRec)] /\ unexp[e] \in Seq(AsideRec)
        /\ rxctx \in [Ep -> [Slots -> Nat]] /\ nrecv \in [Ep -> Nat] /\ nrecv[e] \in Nat
        /\ matched \in [Ep -> Seq(Matching)] /\ matched[e] \in Seq(Matching)
    BY Zenon DEF TypeOK, InLine, AsideRec, Matching
  <1>2. Receives(e)
    BY Zenon DEF InLine
  <1>3. posted[e] = << >> /\ nrecv[e] = Len(matched[e])
    <2>1. posted[e] = << >>
      BY <1>2, Zenon DEF Receives
    <2>2. nrecv[e] = Len(matched[e]) + 0
      BY <1>2, <2>1 DEF Receives
    <2> QED  BY <1>1, <2>1, <2>2
  <1>4. /\ Msgs(matched[e]) \in Seq(Message) /\ AsideMsgs(unexp[e]) \in Seq(Message)
    BY LineOf, Zenon
  <1>5. PICK m \in Message : m = Head(unexp[e]).h.msg /\ m = Head(AsideMsgs(unexp[e]))
    <2>1. Head(unexp[e]).h.msg = Head(AsideMsgs(unexp[e])) /\ AsideMsgs(unexp[e]) # << >>
      BY <1>1, AsideSeq, Zenon
    <2>2. Head(AsideMsgs(unexp[e])) \in Message
      BY <1>4, <2>1, Removed, Zenon
    <2> QED  BY <2>1, <2>2, Zenon
  <1>6. PICK r \in Matching : r.msg = m /\ r.ctx = nrecv[e] + 1 /\ r = [msg |-> m, ctx |-> nrecv[e] + 1]
    <2>1. nrecv[e] + 1 \in Nat
      BY <1>1
    <2> QED  BY <2>1, Zenon DEF Matching
  <1>7. matched' = Add(matched, e, r)
    BY <1>5, <1>6, Zenon DEF Matched
  <1>8. /\ matched' \in [Ep -> Seq(Matching)]
        /\ \A f \in Ep : matched'[f] = IF f = e THEN Append(matched[f], r) ELSE matched[f]
    BY <1>1, <1>7 DEF Add
  <1>9. \A f \in Ep : /\ unexp'[f] = IF f = e THEN Tail(unexp[f]) ELSE unexp[f]
                      /\ f # e => rxctx'[f] = rxctx[f]
                      /\ nrecv'[f] = IF f = e THEN nrecv[f] + 1 ELSE nrecv[f]
    BY <1>1, Zenon DEF Drop
  <1>10. /\ Len(matched'[e]) = Len(matched[e]) + 1 /\ Len(matched[e]) \in Nat
         /\ \A i \in DOMAIN matched'[e] :
                \/ i \in DOMAIN matched[e] /\ matched'[e][i] = matched[e][i]
                \/ i = Len(matched[e]) + 1 /\ matched'[e][i] = r
    <2>1. \A s \in Seq(Matching) :
            /\ Len(Append(s, r)) = Len(s) + 1 /\ Len(s) \in Nat
            /\ \A i \in DOMAIN Append(s, r) :
                \/ i \in DOMAIN s /\ Append(s, r)[i] = s[i]
                \/ i = Len(s) + 1 /\ Append(s, r)[i] = r
      OBVIOUS
    <2> QED  BY <1>1, <1>8, <2>1, Zenon
  <1>11. Receives(e)'
    <2>1. \A i \in DOMAIN matched'[e] : matched'[e][i].ctx = i
      BY <1>2, <1>3, <1>6, <1>10, Zenon DEF Receives
    <2>2. posted'[e] = << >> /\ DOMAIN posted'[e] = {} /\ Len(posted'[e]) = 0
      BY <1>3
    <2>3. nrecv'[e] = Len(matched'[e]) + Len(posted'[e])
      BY <1>1, <1>3, <1>9, <1>10, <2>2
    <2> QED  BY <2>1, <2>2, <2>3, Zenon DEF Receives
  <1>12. Line(e)' = Line(e)
    <2>1. AsideMsgs(unexp'[e]) = Tail(AsideMsgs(unexp[e])) /\ AsideMsgs(unexp[e]) # << >>
      BY <1>1, <1>9, AsideSeq, Zenon
    <2>2. Msgs(matched'[e]) = Append(Msgs(matched[e]), m)
      BY <1>1, <1>6, <1>8, MatchedSeq, Zenon
    <2>3. Append(Msgs(matched[e]), m) \o Tail(AsideMsgs(unexp[e])) = Line(e)
      <3>1. \A s, t \in Seq(Message) : t # << >> => Append(s, Head(t)) \o Tail(t) = s \o t
        OBVIOUS
      <3> QED  BY <1>4, <1>5, <2>1, <3>1, Zenon DEF Line
    <2> QED  BY <2>1, <2>2, <2>3, Zenon DEF Line
  <1>13. ASSUME NEW f \in Ep, f # e PROVE Receives(f)' /\ Line(f)' = Line(f)
    <2>1. Receives(f)
      BY Zenon DEF InLine
    <2>2. Receives(f)'
      BY <1>8, <1>9, <1>13, <2>1, ReceivesSame, Zenon
    <2> QED  BY <1>8, <1>9, <1>13, <2>2, Zenon DEF Line
  <1> QED  BY <1>8, <1>11, <1>12, <1>13, Zenon DEF Matching

\* A receive is posted, and waits.
LEMMA PostedNext ==
    ASSUME TypeOK, InLine, NEW e \in Ep, unexp[e] = << >>, NEW s \in FreeSlots(e), NEW mem \in Mems,
           posted' = Add(posted, e, [slot |-> s, mem |-> mem]),
           rxctx' = [rxctx EXCEPT ![e][s] = nrecv[e] + 1],
           nrecv' = [nrecv EXCEPT ![e] = @ + 1], UNCHANGED <<unexp, matched>>
    PROVE  \A f \in Ep : Receives(f)' /\ Line(f)' = Line(f)
  <1>1. /\ posted \in [Ep -> Seq(Recv)] /\ posted[e] \in Seq(Recv) /\ rxctx \in [Ep -> [Slots -> Nat]]
        /\ rxctx[e] \in [Slots -> Nat]
        /\ nrecv \in [Ep -> Nat] /\ nrecv[e] \in Nat /\ matched[e] \in Seq(Matching)
    BY Zenon DEF TypeOK, InLine, Recv, Matching
  <1>2. s \in Slots /\ \A i \in DOMAIN posted[e] : posted[e][i].slot # s
    BY Zenon DEF FreeSlots, Range
  <1>3. PICK r \in Recv : r.slot = s /\ r = [slot |-> s, mem |-> mem]
    BY <1>2, Zenon DEF Recv
  <1>4. \A f \in Ep : /\ posted'[f] = IF f = e THEN Append(posted[f], r) ELSE posted[f]
                      /\ f # e => rxctx'[f] = rxctx[f]
                      /\ nrecv'[f] = IF f = e THEN nrecv[f] + 1 ELSE nrecv[f]
    BY <1>1, <1>3, Zenon DEF Add
  <1>5. rxctx'[e][s] = nrecv[e] + 1 /\ \A t \in Slots \ {s} : rxctx'[e][t] = rxctx[e][t]
    BY <1>1, <1>2, Zenon
  <1>6. Receives(e)
    BY Zenon DEF InLine
  <1>7. /\ Len(posted'[e]) = Len(posted[e]) + 1 /\ Len(posted[e]) \in Nat /\ Len(matched[e]) \in Nat
        /\ DOMAIN posted[e] = 1 .. Len(posted[e])
        /\ \A i \in DOMAIN posted'[e] :
                \/ i \in DOMAIN posted[e] /\ posted'[e][i] = posted[e][i]
                \/ i = Len(posted[e]) + 1 /\ posted'[e][i] = r
    <2>1. \A q \in Seq(Recv) :
            /\ Len(Append(q, r)) = Len(q) + 1 /\ Len(q) \in Nat /\ DOMAIN q = 1 .. Len(q)
            /\ \A i \in DOMAIN Append(q, r) :
                \/ i \in DOMAIN q /\ Append(q, r)[i] = q[i]
                \/ i = Len(q) + 1 /\ Append(q, r)[i] = r
      OBVIOUS
    <2>2. Len(matched[e]) \in Nat
      BY <1>1
    <2>3. posted'[e] = Append(posted[e], r)
      BY <1>4, Zenon
    <2> QED  BY <1>1, <2>1, <2>2, <2>3, Zenon
  <1>8. \A i \in DOMAIN posted[e] : posted[e][i].slot \in Slots \ {s}
    <2>1. \A q \in Recv : q.slot \in Slots
      BY Zenon DEF Recv
    <2> QED  BY <1>1, <1>2, <2>1, Item, Zenon
  <1>9. Receives(e)'
    <2>1. nrecv[e] = Len(matched[e]) + Len(posted[e]) /\ matched'[e] = matched[e]
      BY <1>6, Zenon DEF Receives
    <2> /\ \A a, b \in Nat : (a + b) + 1 = a + (b + 1)
      OBVIOUS
    <2>2. ASSUME NEW k \in DOMAIN posted'[e] PROVE rxctx'[e][posted'[e][k].slot] = Len(matched'[e]) + k
      <3>1. CASE k \in DOMAIN posted[e] /\ posted'[e][k] = posted[e][k]
        <4>1. rxctx'[e][posted[e][k].slot] = rxctx[e][posted[e][k].slot]
          BY <1>5, <1>8, <3>1, Zenon
        <4>2. rxctx[e][posted[e][k].slot] = Len(matched[e]) + k
          BY <1>6, <3>1, Zenon DEF Receives
        <4> QED  BY <2>1, <3>1, <4>1, <4>2, Zenon
      <3>2. CASE k = Len(posted[e]) + 1 /\ posted'[e][k] = r
        <4>1. rxctx'[e][posted'[e][k].slot] = (Len(matched[e]) + Len(posted[e])) + 1
          BY <1>3, <1>5, <2>1, <3>2, Zenon
        <4> QED  BY <1>7, <2>1, <3>2, <4>1, Zenon
      <3> QED  BY <1>7, <3>1, <3>2, Zenon
    <2>3. nrecv'[e] = Len(matched'[e]) + Len(posted'[e])
      BY <1>4, <1>7, <2>1, Zenon
    <2>4. \A i, k \in DOMAIN posted'[e] : posted'[e][i].slot = posted'[e][k].slot => i = k
      <3>1. ASSUME NEW i \in DOMAIN posted'[e], NEW k \in DOMAIN posted'[e], i \in DOMAIN posted[e],
                   posted'[e][i] = posted[e][i], posted'[e][i].slot = posted'[e][k].slot
            PROVE  i = k
        <4>1. posted'[e][k].slot # s
          BY <1>2, <3>1, Zenon
        <4>2. k \in DOMAIN posted[e] /\ posted'[e][k] = posted[e][k]
          BY <1>3, <1>7, <4>1, Zenon
        <4> QED  BY <1>6, <3>1, <4>2, Zenon DEF Receives
      <3> QED  BY <1>7, <3>1, Zenon
    <2>5. \A i \in DOMAIN matched'[e] : matched'[e][i].ctx = i
      BY <1>6, Zenon DEF Receives
    <2> QED  BY <2>2, <2>3, <2>4, <2>5, Zenon DEF Receives
  <1>10. ASSUME NEW f \in Ep, f # e PROVE Receives(f)'
    <2>1. Receives(f)
      BY Zenon DEF InLine
    <2> QED  BY <1>4, <1>10, <2>1, ReceivesSame, Zenon
  <1>11. \A f \in Ep : Line(f)' = Line(f)
    BY Zenon DEF Line
  <1> QED  BY <1>9, <1>10, <1>11, Zenon

(***************************************************************************)
(* The handlers, one lemma each.                                           *)
(***************************************************************************)
LEMMA PerformedSame ==
    ASSUME applied' = applied
    PROVE  \A m \in Message : \A k \in Nat : Performed(m, k) => Performed(m, k)'
  BY Zenon DEF Performed

\* Nothing completes at a sender.
LEMMA SentSame ==
    ASSUME txdone' = txdone
    PROVE  \A m \in Message : Sent(m)' => Sent(m)
  BY Zenon DEF Sent

\* Only m completes at its sender.
LEMMA SentOnly ==
    ASSUME IInv, NEW e \in Ep, NEW m \in Message, m.from = e, txdone' = Add(txdone, e, m)
    PROVE  \A k \in Message : Sent(k)' => Sent(k) \/ k = m
  <1>1. txdone \in [Ep -> Seq(Message)]
    BY Zenon DEF IInv, TypeOK
  <1>2. TRUE \in BOOLEAN /\ txdone' = IF TRUE THEN Add(txdone, e, m) ELSE txdone
    BY Zenon
  <1> QED  BY <1>1, <1>2, TxRecord, Zenon

\* An entry comes back, and completes the send or the fetch that it carries.
LEMMA ReturnOrder ==
    ASSUME IInv, TypeOK', InLine, NEW e \in Ep, queue[e] # << >>, NEW x, x = Head(queue[e]),
           ProgressReturn(e, x)
    PROVE  InLine'
  <1>1. /\ x \in Ent /\ In(e, x) /\ hdr[x].msg \in Message /\ Shape(e, hdr[x])
        /\ hdr[x].flags \in SUBSET Flags
    BY HeadOf, Zenon
  <1>2. /\ "RETURN" \in hdr[x].flags
        /\ txdone' = IF "GENERATE" \in hdr[x].flags THEN Add(txdone, e, hdr[x].msg) ELSE txdone
        /\ result' = IF hdr[x].msg.kind = "fetch"
                     THEN result \cup {[msg |-> hdr[x].msg, res |-> hdr[x].res]} ELSE result
        /\ ReturnOrPush(e, x)
        /\ UNCHANGED <<posted, unexp, rxctx, life, nrecv, issued, matched, applied>>
    BY Zenon DEF ProgressReturn
  <1>3. PICK m \in Message : m = hdr[x].msg
    BY <1>1, Zenon
  <1>4. "GENERATE" \in hdr[x].flags => m.from = e /\ (m.kind = "fetch" => "UNEXP" \notin hdr[x].flags)
    BY <1>1, <1>2, <1>3, Zenon DEF Shape, Returning
  <1>5. \A k \in Message : Sent(k)' => Sent(k) \/ (k = m /\ "GENERATE" \in hdr[x].flags)
    BY <1>2, <1>3, <1>4, SentOnly, SentSame, Zenon
  <1>6. PlacesOK /\ Apart /\ Fetches
    BY TypeParts, Zenon DEF IInv, InLine
  <1>7. CASE m.kind = "fetch"
    <2>1. Push(e, x)
      BY <1>2, <1>4, <1>7, Zenon DEF ReturnOrPush
    <2>2. x \in Ent /\ Moved(x, NoHdr, {})
      BY <1>6, <2>1, PushStep, Zenon
    <2>3. Fetches'
      BY <1>1, <1>2, <1>3, <1>5, <1>6, <1>7, <2>2, FetchReturned
    <2>4. Goes(e, x, NoHdr)
      BY <2>1, Zenon DEF Goes
    <2> QED  BY <1>2, <2>3, <2>4, SkipOrder, Zenon
  <1>8. CASE m.kind # "fetch"
    <2>1. FetchesStay
      BY <1>2, <1>3, <1>5, <1>8, PerformedSame, Zenon DEF FetchesStay
    <2>2. CASE {"GENERATE", "UNEXP"} \subseteq hdr[x].flags
      <3>1. PICK F \in SUBSET Flags : F = hdr[x].flags \ {"GENERATE"}
        BY <1>1, Zenon
      <3>2. WriteBack(e, x, F)
        BY <1>2, <2>2, <3>1, Zenon DEF ReturnOrPush
      <3>4. PICK h : Goes(e, x, h) /\ h.msg = m
        BY <1>3, <3>2, GoesBack, Zenon
      <3>5. Fetches'
        BY <1>6, <1>8, <2>1, <3>4, GoesFetches, Zenon
      <3> QED  BY <1>2, <3>4, <3>5, SkipOrder, Zenon
    <2>3. CASE ~({"GENERATE", "UNEXP"} \subseteq hdr[x].flags)
      <3>1. PICK h : h = NoHdr
        BY Zenon
      <3>2. Goes(e, x, h) /\ "GENERATE" \notin h.flags
        BY <1>2, <2>3, <3>1, Zenon DEF ReturnOrPush, Goes, NoHdr
      <3>3. Fetches'
        BY <1>6, <2>1, <3>2, GoesFetches, Zenon
      <3> QED  BY <1>2, <3>2, <3>3, SkipOrder, Zenon
    <2> QED  BY <2>2, <2>3, Zenon
  <1> QED  BY <1>7, <1>8, Zenon

\* An entry that is not one that e takes goes back or is kept.
LEMMA BackOrder ==
    ASSUME IInv, TypeOK', InLine, NEW e \in Ep, queue[e] # << >>, NEW x, x = Head(queue[e]),
           hdr[x].flags # {} \/ life[e] # "up", txdone' = txdone, result' = result,
           UNCHANGED <<posted, unexp, rxctx, life, nrecv, issued, matched, applied>>,
           Push(e, x) \/ WriteBack(e, x, hdr[x].flags \ {"GENERATE"})
    PROVE  InLine'
  <1>1. hdr[x].flags \in SUBSET Flags
    BY HeadOf, Zenon
  <1>2. FetchesStay /\ Fetches
    BY PerformedSame, SentSame, Zenon DEF FetchesStay, InLine
  <1>3. PICK h : Goes(e, x, h) /\ "GENERATE" \notin h.flags
    <2>1. CASE Push(e, x)
      <3>1. Goes(e, x, NoHdr) /\ "GENERATE" \notin NoHdr.flags
        BY <2>1, Zenon DEF Goes, NoHdr
      <3> QED  BY <3>1, Zenon
    <2>2. CASE WriteBack(e, x, hdr[x].flags \ {"GENERATE"})
      <3>1. PICK F \in SUBSET Flags : "GENERATE" \notin F /\ WriteBack(e, x, F)
        BY <1>1, <2>2, Zenon
      <3> QED  BY <3>1, GoesBack, Zenon
    <2> QED  BY <2>1, <2>2, Zenon
  <1>4. Fetches'
    BY <1>2, <1>3, GoesFetches, Zenon
  <1> QED  BY <1>3, <1>4, SkipOrder, Zenon

\* The sender copies, and acknowledges or returns.
LEMMA HostToDevOrder ==
    ASSUME IInv, TypeOK', InLine, NEW e \in Ep, queue[e] # << >>, NEW x, x = Head(queue[e]),
           "RETURN" \notin hdr[x].flags, ProgressHostToDev(e, x)
    PROVE  InLine'
  <1>1. /\ x \in Ent /\ hdr[x].msg \in Message /\ Shape(e, hdr[x]) /\ hdr[x].flags \in SUBSET Flags
        /\ hdr[x] \in Header /\ hdr[x].sender \in Ep
    BY HeadOf, Zenon
  <1>2. /\ "TO_DEV" \in hdr[x].flags /\ hdr[x].flags # {}
        /\ UNCHANGED <<posted, unexp, rxctx, life, nrecv, issued, matched, applied, result>>
    BY Zenon DEF ProgressHostToDev
  <1>3. e = hdr[x].msg.from /\ hdr[x].msg.kind = "cma" /\ Fetches
    BY <1>1, <1>2, Zenon DEF Shape, Returning, InLine
  <1>4. CASE /\ txdone' = Add(txdone, e, hdr[x].msg)
             /\ Pass(e, x, [hdr[x] EXCEPT !.flags = (@ \ {"TO_DEV"}) \cup {"ACK"}, !.sender = e],
                     hdr[x].sender)
    <2>1. PICK F : F = (hdr[x].flags \ {"TO_DEV"}) \cup {"ACK"}
      BY Zenon
    <2>2. F \in SUBSET Flags /\ F # {}
      BY <1>1, <2>1, Zenon DEF Flags
    <2>3. PICK h : h = [hdr[x] EXCEPT !.flags = F, !.sender = e]
      BY Zenon
    <2>4. h \in Header /\ h.flags = F /\ h.msg = hdr[x].msg
      BY <1>1, <2>2, <2>3, Zenon DEF Header
    <2>5. Pass(e, x, h, hdr[x].sender)
      BY <1>4, <2>1, <2>3, Zenon
    <2>6. Goes(e, x, h)
      BY <1>1, <2>2, <2>4, <2>5, Zenon DEF Goes
    <2>7. \A k \in Message : Sent(k)' => Sent(k) \/ k = hdr[x].msg
      BY <1>1, <1>3, <1>4, SentOnly, Zenon
    <2>8. \A m \in Message : m.kind = "fetch" /\ Sent(m)' => Sent(m)
      BY <1>3, <2>7, Zenon
    <2>9. FetchesStay
      BY <1>2, <2>8, PerformedSame, Zenon DEF FetchesStay
    <2>10. h.msg.kind # "fetch"
      BY <1>3, <2>4, Zenon
    <2>11. Fetches'
      BY <1>3, <2>6, <2>9, <2>10, GoesFetches, Zenon
    <2> QED  BY <1>2, <2>6, <2>11, SkipOrder, Zenon
  <1>5. CASE /\ Push(e, x) \/ WriteBack(e, x, hdr[x].flags \ {"GENERATE"})
             /\ txdone' = txdone
    BY <1>2, <1>5, BackOrder, Zenon
  <1> QED  BY <1>4, <1>5, Zenon DEF ProgressHostToDev

\* The sender has copied.
LEMMA AckOrder ==
    ASSUME IInv, TypeOK', InLine, NEW e \in Ep, queue[e] # << >>, NEW x, x = Head(queue[e]),
           ProgressAck(e, x)
    PROVE  InLine'
  <1>1. /\ "ACK" \in hdr[x].flags /\ hdr[x].flags # {}
        /\ Push(e, x) \/ WriteBack(e, x, hdr[x].flags \ {"GENERATE"})
        /\ UNCHANGED <<posted, unexp, rxctx, life, nrecv, issued, matched, applied, txdone, result>>
    BY Zenon DEF ProgressAck, AfterAck
  <1> QED  BY <1>1, BackOrder, Zenon

\* A closing endpoint only gives back.
LEMMA DrainOrder ==
    ASSUME IInv, TypeOK', InLine, NEW e \in Ep, Drain(e)
    PROVE  InLine'
  <1>1. PICK x : x = Head(queue[e])
    BY Zenon
  <1>2. /\ life[e] # "up" /\ queue[e] # << >>
        /\ Push(e, x) \/ WriteBack(e, x, hdr[x].flags \ {"GENERATE"})
        /\ UNCHANGED <<posted, unexp, rxctx, life, nrecv, issued, matched, applied, txdone, result>>
    BY <1>1, Zenon DEF Drain, Keep, history
  <1> QED  BY <1>1, <1>2, BackOrder, Zenon

\* An atomic is performed: the next one of its sender.
LEMMA AtomicOrder ==
    ASSUME IInv, TypeOK', InLine, NEW e \in Ep, queue[e] # << >>, NEW x, x = Head(queue[e]),
           life[e] = "up", "RETURN" \notin hdr[x].flags, ProgressAtomic(e, x)
    PROVE  InLine'
  <1>1. /\ x \in Ent /\ hdr[x].msg \in Message /\ Shape(e, hdr[x]) /\ hdr[x].flags \in SUBSET Flags
        /\ hdr[x] \in Header /\ hdr[x].sender \in Ep
    BY HeadOf, Zenon
  <1>2. PICK F : F = hdr[x].flags \cup {"RETURN"} \cup IF hdr[x].msg.kind = "fetch" THEN {"GENERATE"} ELSE {}
    BY Zenon
  <1>3. /\ hdr[x].msg.kind \in {"atomic", "fetch"}
        /\ applied' = Add(applied, e, hdr[x].msg)
        /\ Pass(e, x, [hdr[x] EXCEPT !.flags = F, !.res = HeldBefore(e)], hdr[x].sender)
        /\ UNCHANGED <<posted, unexp, rxctx, life, nrecv, issued, matched, txdone, result>>
    BY <1>2, Zenon DEF ProgressAtomic
  <1>4. hdr[x].flags = {} /\ e = hdr[x].msg.to
    BY <1>1, <1>3, Zenon DEF Shape, Returning
  <1>5. TypeOK /\ Fetches
    BY Zenon DEF IInv, InLine
  <1>6. applied \in [Ep -> Seq(Message)] /\ HeldBefore(e) \in Nat
    <2>1. applied \in [Ep -> Seq(Message)]
      BY <1>5, Zenon DEF TypeOK
    <2> QED  BY <2>1 DEF HeldBefore
  <1>7. PICK h : h = [hdr[x] EXCEPT !.flags = F, !.res = HeldBefore(e)]
    BY Zenon
  <1>8. F \in SUBSET Flags /\ F # {}
    BY <1>1, <1>2, Zenon DEF Flags
  <1>9. h \in Header /\ h.flags = F /\ h.msg = hdr[x].msg /\ h.res = HeldBefore(e)
    BY <1>1, <1>6, <1>7, <1>8, Zenon DEF Header
  <1>10. Goes(e, x, h)
    <2>1. Pass(e, x, h, hdr[x].sender)
      BY <1>3, <1>7, Zenon
    <2> QED  BY <1>1, <1>8, <1>9, <2>1, Zenon DEF Goes
  <1>11. PICK m \in Message : m = hdr[x].msg
    BY <1>1, Zenon
  <1>12. /\ \A k \in Message : \A i \in Nat : Performed(k, i) => Performed(k, i)'
         /\ \A k : k = Len(applied[e]) => Performed(m, k)'
    BY <1>3, <1>4, <1>6, <1>11, PerformedGrows, Zenon
  <1>13. FetchesStay
    BY <1>3, <1>12, SentSame, Zenon DEF FetchesStay
  <1>14. Performed(h.msg, h.res)'
    <2>1. PICK k : k = h.res
      BY Zenon
    <2>2. Performed(m, k)'
      BY <1>9, <1>12, <2>1, Zenon DEF HeldBefore
    <2> QED  BY <1>9, <1>11, <2>1, <2>2, Zenon
  <1>15. Fetches'
    BY <1>5, <1>10, <1>13, <1>14, GoesFetches, Zenon
  <1>16. ASSUME NEW f \in Ep PROVE Receives(f)' /\ Line(f)' = Line(f)
    <2>1. Receives(f)
      BY Zenon DEF InLine
    <2> QED  BY <1>3, <2>1, ReceivesSame, Zenon DEF Line
  <1>17. matched' \in [Ep -> Seq([msg : Message, ctx : Nat])]
    BY <1>3, Zenon DEF InLine
  <1>18. Takes(e, hdr[x].msg)
    BY <1>3, <1>16, Zenon DEF Takes, Atomics
  <1> QED  BY <1>3, <1>4, <1>10, <1>15, <1>16, <1>17, <1>18, TakeOrder, Zenon

\* A message matches the first receive: no message waits before it.
LEMMA ExpectedOrder ==
    ASSUME IInv, TypeOK', InLine, NEW e \in Ep, queue[e] # << >>, NEW x, x = Head(queue[e]),
           life[e] = "up", "RETURN" \notin hdr[x].flags, {"TO_DEV", "ACK"} \cap hdr[x].flags = {},
           hdr[x].msg.kind \in {"inject", "cma"}, StartExpected(e, x)
    PROVE  InLine'
  <1>1. /\ x \in Ent /\ hdr[x].msg \in Message /\ hdr[x] \in Header /\ hdr[x].sender \in Ep
        /\ hdr[x].flags = {}
    BY HeadOf, Arrived, Zenon
  <1>2. TypeOK /\ Fetches
    BY Zenon DEF IInv, InLine
  <1>3. PICK q : q = Head(posted[e])
    BY Zenon
  <1>4. /\ posted[e] # << >> /\ posted' = Drop(posted, e)
        /\ Matched(e, hdr[x].msg, rxctx[e][q.slot])
        /\ UNCHANGED <<unexp, rxctx, life, nrecv, issued, applied, txdone, result>>
    BY <1>3, Zenon DEF StartExpected
  <1>5. q.slot \in Slots
    <2>1. posted[e] \in Seq(Recv)
      BY <1>2, Zenon DEF TypeOK, Recv
    <2>2. q \in Recv
      BY <1>3, <1>4, <2>1, Removed, Zenon
    <2> QED  BY <2>2, Zenon DEF Recv
  <1>6. \E h : Goes(e, x, h) /\ h.msg = hdr[x].msg
    <2>1. CASE ByDevice(hdr[x], q.mem)
      <3>1. Pass(e, x, Handle(e, hdr[x], q.slot), hdr[x].sender)
        BY <1>3, <2>1, Zenon DEF StartExpected
      <3>2. PICK F : F = hdr[x].flags \cup {"TO_DEV"}
        BY Zenon
      <3>3. F \in SUBSET Flags /\ F # {}
        BY <1>1, <3>2, Zenon DEF Flags
      <3>4. PICK h : h = [hdr[x] EXCEPT !.flags = F, !.sender = e, !.rx = q.slot]
        BY Zenon
      <3>5. h \in Header /\ h.flags = F /\ h.msg = hdr[x].msg
        BY <1>1, <1>5, <3>3, <3>4, Zenon DEF Header
      <3>6. Pass(e, x, h, hdr[x].sender)
        BY <3>1, <3>2, <3>4, Zenon DEF Handle
      <3>7. Goes(e, x, h)
        BY <1>1, <3>3, <3>5, <3>6, Zenon DEF Goes
      <3> QED  BY <3>5, <3>7, Zenon
    <2>2. CASE ~ByDevice(hdr[x], q.mem)
      <3>1. PICK F : F = DoneFlags(hdr[x])
        BY Zenon
      <3>2. F \in SUBSET Flags
        BY <1>1, <3>1, Zenon DEF DoneFlags, Flags
      <3>3. WriteBack(e, x, F)
        BY <1>3, <2>2, <3>1, Zenon DEF StartExpected
      <3> QED  BY <3>2, <3>3, GoesBack, Zenon
    <2> QED  BY <2>1, <2>2, Zenon
  <1>7. PICK h : Goes(e, x, h) /\ h.msg = hdr[x].msg
    BY <1>6, Zenon
  <1>8. h.msg.kind # "fetch"
    BY <1>7
  <1>9. FetchesStay
    BY <1>4, PerformedSame, SentSame, Zenon DEF FetchesStay
  <1>10. Fetches'
    BY <1>2, <1>7, <1>8, <1>9, GoesFetches, Zenon
  <1>11. PICK m \in Message : m = hdr[x].msg
    BY <1>1, Zenon
  <1>12. /\ matched' \in [Ep -> Seq([msg : Message, ctx : Nat])]
         /\ \A f \in Ep : Receives(f)'
         /\ \A f \in Ep : Line(f)' = IF f = e THEN Append(Line(f), m) ELSE Line(f)
    BY <1>2, <1>3, <1>4, <1>11, MatchedNext, Zenon
  <1>13. Takes(e, hdr[x].msg)
    BY <1>4, <1>11, <1>12, Zenon DEF Takes, Messages
  <1>14. \A f \in Ep \ {e} : Line(f)' = Line(f)
    BY <1>12, Zenon
  <1> QED  BY <1>1, <1>4, <1>7, <1>10, <1>12, <1>13, <1>14, TakeOrder, Zenon

\* A message finds no receive, and goes to the end of those set aside.
LEMMA AsideOrder ==
    ASSUME IInv, TypeOK', InLine, NEW e \in Ep, queue[e] # << >>, NEW x, x = Head(queue[e]),
           life[e] = "up", "RETURN" \notin hdr[x].flags, {"TO_DEV", "ACK"} \cap hdr[x].flags = {},
           hdr[x].msg.kind \in {"inject", "cma"}, SetAside(e, x)
    PROVE  InLine'
  <1>1. /\ x \in Ent /\ hdr[x].msg \in Message /\ hdr[x] \in Header /\ hdr[x].sender \in Ep
        /\ hdr[x].flags = {}
    BY HeadOf, Arrived, Zenon
  <1>2. TypeOK /\ Fetches
    BY Zenon DEF IInv, InLine
  <1>3. PICK s \in FreeSlots(e) :
          unexp' = Add(unexp, e, [h |-> [hdr[x] EXCEPT !.flags = @ \cup {"UNEXP"}], slot |-> s])
    BY Zenon DEF SetAside, QueueUnexp
  <1>4. /\ posted[e] = << >>
        /\ WriteBack(e, x, AsideFlags(hdr[x]))
        /\ UNCHANGED <<posted, rxctx, life, nrecv, issued, matched, applied, txdone, result>>
    BY Zenon DEF SetAside, history
  <1>5. PICK g : g = [hdr[x] EXCEPT !.flags = @ \cup {"UNEXP"}]
    BY Zenon
  <1>6. g \in Header /\ g.msg = hdr[x].msg
    <2>1. PICK F : F = hdr[x].flags \cup {"UNEXP"}
      BY Zenon
    <2>2. F \in SUBSET Flags /\ g = [hdr[x] EXCEPT !.flags = F]
      BY <1>1, <1>5, <2>1, Zenon DEF Flags
    <2> QED  BY <1>1, <2>2, Zenon DEF Header
  <1>7. PICK u \in AsideRec : u.h = g /\ u = [h |-> g, slot |-> s]
    <2>1. s \in Slots
      BY Zenon DEF FreeSlots
    <2> QED  BY <1>6, <2>1, Zenon DEF AsideRec
  <1>8. PICK m \in Message : m = hdr[x].msg
    BY <1>1, Zenon
  <1>9. /\ \A f \in Ep : Receives(f)'
        /\ \A f \in Ep : Line(f)' = IF f = e THEN Append(Line(f), m) ELSE Line(f)
    <2>1. unexp' = Add(unexp, e, u) /\ u.h.msg = m
      BY <1>3, <1>5, <1>6, <1>7, <1>8, Zenon
    <2> QED  BY <1>2, <1>4, <2>1, AsideNext, Zenon
  <1>10. PICK F : F = AsideFlags(hdr[x])
    BY Zenon
  <1>11. F \in SUBSET Flags
    BY <1>1, <1>10, Zenon DEF AsideFlags, Flags
  <1>12. WriteBack(e, x, F)
    BY <1>4, <1>10, Zenon
  <1>13. PICK h : Goes(e, x, h) /\ h.msg = m
    BY <1>8, <1>11, <1>12, GoesBack, Zenon
  <1>14. h.msg.kind # "fetch"
    BY <1>8, <1>13
  <1>15. FetchesStay
    BY <1>4, PerformedSame, SentSame, Zenon DEF FetchesStay
  <1>16. Fetches'
    BY <1>2, <1>13, <1>14, <1>15, GoesFetches, Zenon
  <1>17. Takes(e, hdr[x].msg)
    BY <1>4, <1>8, <1>9, Zenon DEF Takes, Messages
  <1>18. /\ \A f \in Ep \ {e} : Line(f)' = Line(f)
         /\ matched' \in [Ep -> Seq([msg : Message, ctx : Nat])]
    BY <1>4, <1>9, Zenon DEF InLine
  <1> QED  BY <1>1, <1>4, <1>9, <1>13, <1>16, <1>17, <1>18, TakeOrder, Zenon
=============================================================================
