----------------------------- MODULE Sm2Proofs ------------------------------
(***************************************************************************)
(* The theorems of the sm2 protocol. From IInv, every entry has one        *)
(* keeper, comes home, and completes what it carries once and in time.     *)
(* With InLine, which the remaining actions keep too, what is sent is      *)
(* matched in turn.                                                        *)
(***************************************************************************)
EXTENDS Sm2Lines

(***************************************************************************)
(* Steps that take nothing from a queue.                                   *)
(***************************************************************************)
LEMMA StayOrder ==
    ASSUME TypeOK, TypeOK', InLine, \A f \in Ep : Slid(f, 0), issued' = issued, applied' = applied,
           \A f \in Ep : life'[f] = "up" => life[f] = "up",
           \A f \in Ep : Receives(f)' /\ Line(f)' = Line(f),
           matched' \in [Ep -> Seq([msg : Message, ctx : Nat])], Fetches'
    PROVE  InLine'
  <1>1. ASSUME NEW f \in Ep PROVE Ordered(f)'
    <2>1. queue[f] \in Seq(Ent) /\ queue'[f] \in Seq(Ent) /\ Slid(f, 0) /\ Line(f)' = Line(f)
      BY Zenon DEF TypeOK
    <2>2. Ordered(f) /\ (life'[f] = "up" => life[f] = "up")
      BY Zenon DEF InLine
    <2> QED  BY <2>1, <2>2, NothingTaken
  <1>2. \A f \in Ep : \A i \in DOMAIN issued'[f] : issued'[f][i].from = f /\ issued'[f][i].n = i
    BY Zenon DEF InLine
  <1> QED  BY <1>1, <1>2, Zenon DEF InLine

\* No entry changes hands.
LEMMA SamePlaces ==
    ASSUME TypeOK, hdr' = hdr, queue' = queue
    PROVE  /\ \A f \in Ep : Slid(f, 0)
           /\ Fetches /\ UNCHANGED <<issued, applied, txdone, result>> => Fetches'
  <1>1. ASSUME NEW f \in Ep PROVE Slid(f, 0)
    <2>1. \A k \in DOMAIN queue[f] : k + 0 = k /\ k - 0 = k
      BY DEF TypeOK
    <2> QED  BY <2>1, Zenon DEF Slid, SameArrival, FreshAt, MsgAt
  <1>2. ASSUME Fetches, UNCHANGED <<issued, applied, txdone, result>> PROVE Fetches'
    BY <1>2, Zenon DEF Fetches, Fetching, In, Issued, Sent, Performed
  <1> QED  BY <1>1, <1>2, Zenon

\* A message set aside is started, and its sender perhaps notified.
LEMMA NotifyOrder ==
    ASSUME IInv, InLine, NEW e \in Ep, NEW g \in Header, g.flags # {}, g.msg.kind \in Messages,
           NEW d \in Ep, Notify(e, g, d), UNCHANGED <<issued, applied, txdone, result>>
    PROVE  (\A f \in Ep : Slid(f, 0)) /\ Fetches'
  <1>1. PlacesOK /\ Apart /\ Fetches
    BY TypeParts, Zenon DEF IInv, InLine
  <1>2. PICK y \in free[e] :
          /\ free' = [free EXCEPT ![e] = @ \ {y}]
          /\ hdr' = [hdr EXCEPT ![y] = g]
          /\ queue' = Add(queue, d, y)
    BY Zenon DEF Notify
  <1>3. ASSUME NEW f \in Ep PROVE Slid(f, 0)
    <2>1. Joins(e, d, y, g)
      BY <1>2, Zenon DEF Joins
    <2> QED  BY <1>1, <2>1, EntryJoins, Zenon
  <1>4. y \in Ent /\ Moved(y, g, {d}) /\ {d} \in SUBSET Ep
    BY <1>1, <1>2, TakeStep, Zenon
  <1>5. g.msg.kind # "fetch"
    BY DEF Messages
  <1>6. Fetches'
    BY <1>1, <1>4, <1>5, FetchesMove, PerformedSame, SentSame, Zenon
  <1> QED  BY <1>3, <1>6, Zenon

\* A receive takes the first message set aside, which keeps its place in line.
LEMMA StartedOrder ==
    ASSUME IInv, InLine, NEW e \in Ep, NEW mem \in Mems, StartUnexpected(e, mem),
           UNCHANGED <<issued, applied, txdone, result>>
    PROVE  (\A f \in Ep : Slid(f, 0)) /\ Fetches'
  <1>1. TypeOK /\ Shapes /\ Fetches
    BY Zenon DEF IInv, InLine
  <1>2. PICK u : u = Head(unexp[e])
    BY Zenon
  <1>3. PICK h : h = u.h
    BY Zenon
  <1>4. /\ u \in AsideRec /\ h \in Header /\ h.sender \in Ep /\ u.slot \in Slots
        /\ h.flags \in SUBSET Flags
    <2>1. unexp[e] \in Seq(AsideRec) /\ unexp[e] # << >>
      BY <1>1, Zenon DEF TypeOK, AsideRec, StartUnexpected
    <2>2. u \in AsideRec
      BY <1>2, <2>1, Removed, Zenon
    <2>3. h \in Header /\ u.slot \in Slots
      BY <1>3, <2>2, Zenon DEF AsideRec
    <2> QED  BY <2>2, <2>3, Zenon DEF Header
  <1>5. h.msg.kind \in Messages
    <2>1. unexp[e] \in Seq(AsideRec) /\ unexp[e] # << >>
      BY <1>1, Zenon DEF TypeOK, AsideRec, StartUnexpected
    <2>2. 1 \in DOMAIN unexp[e] /\ Head(unexp[e]) = unexp[e][1]
      BY <2>1
    <2>3. Aside(e, h)
      BY <1>1, <1>2, <1>3, <2>2, Zenon DEF Shapes
    <2> QED  BY <2>3, Zenon DEF Aside, Messages
  <1>6. \/ Notify(e, Handle(e, h, u.slot), h.sender)
        \/ Notify(e, [h EXCEPT !.flags = @ \cup {"GENERATE", "RETURN"}, !.sender = e], h.sender)
        \/ UNCHANGED <<hdr, queue>>
    BY <1>2, <1>3, Zenon DEF StartUnexpected, CannotNotify
  <1>7. CASE Notify(e, Handle(e, h, u.slot), h.sender)
    <2>1. PICK F : F = h.flags \cup {"TO_DEV"}
      BY Zenon
    <2>2. F \in SUBSET Flags /\ F # {}
      BY <1>4, <2>1, Zenon DEF Flags
    <2>3. PICK g : g = [h EXCEPT !.flags = F, !.sender = e, !.rx = u.slot]
      BY Zenon
    <2>4. g \in Header /\ g.flags = F /\ g.msg = h.msg
      BY <1>4, <2>2, <2>3, Zenon DEF Header
    <2>5. Notify(e, g, h.sender)
      BY <1>7, <2>1, <2>3, Zenon DEF Handle
    <2> QED  BY <1>4, <1>5, <2>2, <2>4, <2>5, NotifyOrder, Zenon
  <1>8. CASE Notify(e, [h EXCEPT !.flags = @ \cup {"GENERATE", "RETURN"}, !.sender = e], h.sender)
    <2>1. PICK F : F = h.flags \cup {"GENERATE", "RETURN"}
      BY Zenon
    <2>2. F \in SUBSET Flags /\ F # {}
      BY <1>4, <2>1, Zenon DEF Flags
    <2>3. PICK g : g = [h EXCEPT !.flags = F, !.sender = e]
      BY Zenon
    <2>4. g \in Header /\ g.flags = F /\ g.msg = h.msg
      BY <1>4, <2>2, <2>3, Zenon DEF Header
    <2>5. Notify(e, g, h.sender)
      BY <1>8, <2>1, <2>3, Zenon
    <2> QED  BY <1>4, <1>5, <2>2, <2>4, <2>5, NotifyOrder, Zenon
  <1>9. CASE UNCHANGED <<hdr, queue>>
    BY <1>1, <1>9, SamePlaces, Zenon
  <1> QED  BY <1>6, <1>7, <1>8, <1>9, Zenon

\* A receive is posted.
LEMMA PostOrder ==
    ASSUME IInv, TypeOK', InLine, NEW e \in Ep, NEW mem \in Mems, PostRecv(e, mem)
    PROVE  InLine'
  <1>1. TypeOK /\ Fetches
    BY Zenon DEF IInv, InLine
  <1>2. /\ nrecv' = [nrecv EXCEPT ![e] = @ + 1]
        /\ UNCHANGED <<life, issued, applied, txdone, result>>
    BY Zenon DEF PostRecv
  <1>3. CASE StartUnexpected(e, mem)
    <2>1. (\A f \in Ep : Slid(f, 0)) /\ Fetches'
      BY <1>2, <1>3, StartedOrder, Zenon
    <2>2. PICK slot : slot = Head(unexp[e]).slot
      BY Zenon
    <2>3. /\ unexp[e] # << >> /\ unexp' = Drop(unexp, e) /\ posted' = posted
          /\ rxctx' = [rxctx EXCEPT ![e][slot] = nrecv[e] + 1]
          /\ Matched(e, Head(unexp[e]).h.msg, nrecv[e] + 1)
      BY <1>3, <2>2, Zenon DEF StartUnexpected
    <2>4. /\ matched' \in [Ep -> Seq([msg : Message, ctx : Nat])]
          /\ \A f \in Ep : Receives(f)' /\ Line(f)' = Line(f)
      BY <1>1, <1>2, <2>3, StartedNext, Zenon
    <2> QED  BY <1>1, <1>2, <2>1, <2>4, StayOrder, Zenon
  <1>4. CASE /\ NoneWaiting(e)
             /\ \E s \in FreeSlots(e) :
                   /\ posted' = Add(posted, e, [slot |-> s, mem |-> mem])
                   /\ rxctx' = [rxctx EXCEPT ![e][s] = nrecv[e] + 1]
             /\ UNCHANGED <<free, hdr, queue, unexp, matched, placed, rxdone, starved>>
    <2>1. (\A f \in Ep : Slid(f, 0)) /\ Fetches'
      BY <1>1, <1>2, <1>4, SamePlaces, Zenon
    <2>2. PICK s \in FreeSlots(e) :
            /\ posted' = Add(posted, e, [slot |-> s, mem |-> mem])
            /\ rxctx' = [rxctx EXCEPT ![e][s] = nrecv[e] + 1]
      BY <1>4, Zenon
    <2>3. unexp[e] = << >> /\ UNCHANGED <<unexp, matched>>
      BY <1>4, Zenon DEF NoneWaiting
    <2>4. \A f \in Ep : Receives(f)' /\ Line(f)' = Line(f)
      BY <1>1, <1>2, <2>2, <2>3, PostedNext, Zenon
    <2>5. matched' \in [Ep -> Seq([msg : Message, ctx : Nat])]
      BY <2>3, Zenon DEF InLine
    <2> QED  BY <1>1, <1>2, <2>1, <2>4, <2>5, StayOrder, Zenon
  <1> QED  BY <1>3, <1>4, Zenon DEF PostRecv

\* The life of an endpoint ends, or nothing happens.
LEMMA LifeOrder ==
    ASSUME IInv, TypeOK', InLine, \A f \in Ep : life'[f] = "up" => life[f] = "up",
           UNCHANGED <<hdr, queue, posted, unexp, rxctx, nrecv, issued, matched, applied, txdone, result>>
    PROVE  InLine'
  <1>1. TypeOK /\ Fetches
    BY Zenon DEF IInv, InLine
  <1>2. (\A f \in Ep : Slid(f, 0)) /\ Fetches'
    BY <1>1, SamePlaces, Zenon
  <1>3. ASSUME NEW f \in Ep PROVE Receives(f)' /\ Line(f)' = Line(f)
    <2>1. Receives(f)
      BY Zenon DEF InLine
    <2> QED  BY <2>1, ReceivesSame, Zenon DEF Line
  <1>4. matched' \in [Ep -> Seq([msg : Message, ctx : Nat])]
    BY Zenon DEF InLine
  <1> QED  BY <1>1, <1>2, <1>3, <1>4, StayOrder, Zenon

(***************************************************************************)
(* Sending: the entry x of e takes m to d.                                 *)
(***************************************************************************)
Sends(e, d, x, m, h) ==
    /\ x \in free[e] /\ m \in Message /\ h \in Header
    /\ m.from = e /\ m.to = d /\ m.n = Len(issued[e]) + 1
    /\ h.flags = {} /\ h.msg = m
    /\ free' = [free EXCEPT ![e] = @ \ {x}]
    /\ hdr' = [hdr EXCEPT ![x] = h]
    /\ queue' = Add(queue, d, x)
    /\ issued' = Add(issued, e, m)
    /\ txdone' = IF Immediate(m.kind) THEN Add(txdone, e, m) ELSE txdone

\* What sm2_generic_send and its kin do.
LEMMA SendParts ==
    ASSUME IInv, NEW e \in Ep, NEW d \in Ep, NEW kind \in AllKinds, Send(e, d, kind)
    PROVE  \E x, m, h : Sends(e, d, x, m, h)
  <1>1. TypeOK
    BY Zenon DEF IInv
  <1>2. PICK x \in free[e] :
           /\ free' = [free EXCEPT ![e] = @ \ {x}]
           /\ hdr' = [hdr EXCEPT ![x] =
                        [flags |-> {}, sender |-> e, rx |-> 0, res |-> 0,
                         msg |-> [from |-> e, to |-> d, n |-> Len(issued[e]) + 1, kind |-> kind]]]
           /\ queue' = Add(queue, d, x)
           /\ issued' = Add(issued, e, hdr'[x].msg)
           /\ txdone' = IF Immediate(kind) THEN Add(txdone, e, hdr'[x].msg) ELSE txdone
    BY Zenon DEF Send
  <1>3. PICK m \in Message : m = [from |-> e, to |-> d, n |-> Len(issued[e]) + 1, kind |-> kind]
    <2>1. Len(issued[e]) + 1 \in Nat
      BY <1>1 DEF TypeOK
    <2>2. [from |-> e, to |-> d, n |-> Len(issued[e]) + 1, kind |-> kind] \in Message
      BY <2>1, Zenon DEF Message
    <2> QED  BY <2>2, Zenon
  <1>4. m.from = e /\ m.to = d /\ m.n = Len(issued[e]) + 1 /\ m.kind = kind
    BY <1>3, Zenon
  <1>5. PICK h \in Header : h = [flags |-> {}, sender |-> e, rx |-> 0, res |-> 0, msg |-> m]
    <2>1. {} \in SUBSET Flags /\ 0 \in Slots \cup {0} /\ 0 \in Nat
      BY Zenon
    <2> QED  BY <2>1, Zenon DEF Header
  <1>6. h.flags = {} /\ h.msg = m
    BY <1>5, Zenon
  <1>7. x \in Ent
    BY <1>1, Zenon DEF TypeOK
  <1>8. hdr' = [hdr EXCEPT ![x] = h] /\ hdr'[x] = h
    BY <1>1, <1>2, <1>3, <1>5, <1>7, Zenon DEF TypeOK
  <1>9. Sends(e, d, x, m, h)
    BY <1>2, <1>4, <1>6, <1>8, Zenon DEF Sends
  <1> QED  BY <1>9, Zenon

\* The log gets one longer, and m is the message that was not in it.
LEMMA SentLog ==
    ASSUME IInv, InLine, NEW e \in Ep, NEW d \in Ep, NEW x, NEW m, NEW h, Sends(e, d, x, m, h)
    PROVE  /\ issued \in [Ep -> Seq(Message)]
           /\ \A f \in Ep : issued'[f] = IF f = e THEN Append(issued[f], m) ELSE issued[f]
           /\ \A f \in Ep : \A i \in DOMAIN issued[f] : i \in DOMAIN issued'[f] /\ issued'[f][i] = issued[f][i]
           /\ \A f \in Ep : \A i \in DOMAIN issued'[f] :
                i \in DOMAIN issued[f] \/ (f = e /\ i = m.n /\ issued'[f][i] = m)
           /\ \A i \in 1 .. m.n - 1 : i \in DOMAIN issued[e]
           /\ ~Logged(issued, m) /\ Logged(issued', m)
           /\ ~Issued(m) /\ \A k \in Message : Issued(k) => Issued(k)'
           /\ Issued(m)'
  <1>1. issued \in [Ep -> Seq(Message)]
    BY Zenon DEF IInv, TypeOK
  <1>2. \A f \in Ep : issued'[f] = IF f = e THEN Append(issued[f], m) ELSE issued[f]
    BY <1>1, Zenon DEF Sends, Add
  <1>3. m \in Message /\ m.from = e /\ m.n = Len(issued[e]) + 1
    BY Zenon DEF Sends
  <1>4. \A s \in Seq(Message) :
            /\ Len(s) \in Nat /\ Len(Append(s, m)) = Len(s) + 1
            /\ DOMAIN s = 1 .. Len(s)
            /\ Len(s) + 1 \notin DOMAIN s /\ Len(s) + 1 \in DOMAIN Append(s, m)
            /\ Append(s, m)[Len(s) + 1] = m
            /\ \A i \in DOMAIN s : i \in DOMAIN Append(s, m) /\ Append(s, m)[i] = s[i]
            /\ \A i \in DOMAIN Append(s, m) : i \in DOMAIN s \/ i = Len(s) + 1
            /\ \A i \in 1 .. (Len(s) + 1) - 1 : i \in DOMAIN s
    BY <1>3
  <1>5. issued[e] \in Seq(Message) /\ issued'[e] = Append(issued[e], m)
    BY <1>1, <1>2, Zenon
  <1>6. ASSUME NEW f \in Ep, NEW i \in DOMAIN issued[f]
        PROVE  i \in DOMAIN issued'[f] /\ issued'[f][i] = issued[f][i]
    <2>1. CASE f = e
      <3>1. \A k \in DOMAIN issued[e] : k \in DOMAIN issued'[e] /\ issued'[e][k] = issued[e][k]
        <4>1. \A k \in DOMAIN issued[e] :
                k \in DOMAIN Append(issued[e], m) /\ Append(issued[e], m)[k] = issued[e][k]
          BY <1>4, <1>5
        <4> QED  BY <1>5, <4>1, Zenon
      <3> QED  BY <1>6, <2>1, <3>1, Zenon
    <2>2. CASE f # e
      BY <1>2, <1>6, <2>2, Zenon
    <2> QED  BY <2>1, <2>2, Zenon
  <1>7. ASSUME NEW f \in Ep, NEW i \in DOMAIN issued'[f]
        PROVE  i \in DOMAIN issued[f] \/ (f = e /\ i = m.n /\ issued'[f][i] = m)
    <2>1. CASE f = e
      <3>1. /\ \A k \in DOMAIN Append(issued[e], m) : k \in DOMAIN issued[e] \/ k = Len(issued[e]) + 1
            /\ Append(issued[e], m)[Len(issued[e]) + 1] = m
        BY <1>4, <1>5, Zenon
      <3> QED  BY <1>3, <1>5, <1>7, <2>1, <3>1, Zenon
    <2>2. CASE f # e
      BY <1>2, <1>7, <2>2, Zenon
    <2> QED  BY <2>1, <2>2, Zenon
  <1>8. \A i \in 1 .. m.n - 1 : i \in DOMAIN issued[e]
    BY <1>3, <1>4, <1>5, Zenon
  <1>9. ~Logged(issued, m) /\ Logged(issued', m)
    <2>1. /\ m.n \notin DOMAIN issued[e]
          /\ m.n \in DOMAIN Append(issued[e], m) /\ Append(issued[e], m)[m.n] = m
      BY <1>3, <1>5
    <2> QED  BY <1>3, <1>5, <2>1, Zenon DEF Logged
  <1>10. ~Issued(m) /\ Issued(m)'
    <2>1. Len(issued[e]) \in Nat /\ Len(issued'[e]) = Len(issued[e]) + 1
      BY <1>4, <1>5, Zenon
    <2> QED  BY <1>3, <2>1 DEF Issued
  <1>11. ASSUME NEW k \in Message, Issued(k) PROVE Issued(k)'
    <2>1. k.from \in Ep /\ k.n \in Nat
      BY DEF Message
    <2>2. Len(issued[k.from]) \in Nat /\ Len(issued'[k.from]) \in {Len(issued[k.from]), Len(issued[k.from]) + 1}
      BY <1>1, <1>2, <1>4, <2>1, Zenon
    <2>3. k.n <= Len(issued[k.from])
      BY <1>11, Zenon DEF Issued
    <2>4. k.n <= Len(issued'[k.from])
      BY <2>1, <2>2, <2>3
    <2> QED  BY <2>4, Zenon DEF Issued
  <1> QED  BY <1>1, <1>2, <1>6, <1>7, <1>8, <1>9, <1>10, <1>11, Zenon

\* A new message is not one that another entry speaks of.
LEMMA SentFetches ==
    ASSUME IInv, InLine, NEW e \in Ep, NEW d \in Ep, NEW x, NEW m, NEW h, Sends(e, d, x, m, h),
           applied' = applied, result' = result
    PROVE  Fetches'
  <1>1. PlacesOK /\ Apart /\ Fetches /\ Recorded
    BY TypeParts, Zenon DEF IInv, InLine
  <1>2. x \in Ent /\ Moved(x, h, {d})
    BY <1>1, TakeStep, Zenon DEF Sends
  <1>3. \A y \in Ent : hdr'[y] = IF y = x THEN h ELSE hdr[y]
    BY <1>1, <1>2, Zenon DEF Moved, PlacesOK
  <1>4. ~Issued(m) /\ Issued(m)' /\ \A k \in Message : Issued(k) => Issued(k)'
    BY SentLog, Zenon
  <1>5. m \in Message /\ m.from = e /\ h.flags = {} /\ h.msg = m
    BY Zenon DEF Sends
  <1>6. \A k \in Message : Sent(k)' => Sent(k) \/ (k = m /\ Immediate(m.kind))
    BY <1>5, SentOnly, SentSame, Zenon DEF Sends
  <1>7. ~Sent(m)
    BY <1>1, <1>4, <1>5, Zenon DEF Sent, Recorded
  <1>8. \A k \in Message : \A i \in Nat : Performed(k, i) => Performed(k, i)'
    BY PerformedSame, Zenon
  <1>9. ASSUME NEW f \in Ep, NEW y \in Ent, In(f, y), hdr[y].msg = m, m.kind = "fetch" PROVE FALSE
    BY <1>1, <1>4, <1>9, Zenon DEF Fetches, Fetching
  <1>10. ASSUME NEW f \in Ep, NEW y \in Ent, In(f, y)', hdr'[y].msg.kind = "fetch"
         PROVE  Fetching(y)'
    <2>1. CASE y = x
      <3>1. hdr'[y].msg = m /\ hdr'[y].flags = {} /\ m.kind = "fetch"
        BY <1>3, <1>5, <1>10, <2>1, Zenon
      <3>2. ~Immediate(m.kind)
        BY <3>1 DEF Immediate
      <3>3. \A r \in result' : r.msg # m
        BY <1>1, <1>4, Zenon DEF Fetches
      <3>4. \A g \in Ep : \A z \in Ent : In(g, z)' /\ hdr'[z].msg = m => z = y
        BY <1>2, <1>3, <1>9, <2>1, <3>1, Zenon DEF Moved
      <3>5. ~Sent(m)'
        BY <1>5, <1>6, <1>7, <3>2, Zenon
      <3> QED  BY <1>4, <3>1, <3>3, <3>4, <3>5, FetchingNow, Zenon
    <2>2. CASE y # x
      <3>1. In(f, y) /\ hdr'[y] = hdr[y]
        BY <1>2, <1>3, <1>10, <2>2, Zenon DEF Moved
      <3>2. PICK k \in Message : k = hdr[y].msg /\ k = hdr'[y].msg /\ k.kind = "fetch"
        BY <1>10, <3>1, Queued, Zenon
      <3>3. /\ Issued(k) /\ ~Sent(k)
            /\ "GENERATE" \in hdr[y].flags => Performed(k, hdr[y].res)
            /\ \A r \in result : r.msg # k
            /\ \A g \in Ep : \A z \in Ent : In(g, z) /\ hdr[z].msg = k => z = y
        BY <1>1, <3>1, <3>2, Zenon DEF Fetches, Fetching
      <3>4. k # m
        BY <1>4, <3>3, Zenon
      <3>5. Issued(k)' /\ ~Sent(k)'
        BY <1>4, <1>6, <3>3, <3>4, Zenon
      <3>6. ASSUME NEW g \in Ep, NEW z \in Ent, In(g, z)', hdr'[z].msg = k PROVE z = y
        <4>1. z # x
          BY <1>3, <1>5, <3>4, <3>6, Zenon
        <4>2. In(g, z) /\ hdr'[z] = hdr[z]
          BY <1>2, <1>3, <3>6, <4>1, Zenon DEF Moved
        <4> QED  BY <3>3, <3>6, <4>2, Zenon
      <3>7. "GENERATE" \in hdr'[y].flags => Performed(k, hdr[y].res)'
        BY <3>1, <3>3, Zenon DEF Performed
      <3> QED  BY <3>2, <3>3, <3>5, <3>6, <3>7, FetchingNow, Zenon
    <2> QED  BY <2>1, <2>2, Zenon
  <1>11. ASSUME NEW r \in result
         PROVE  /\ r.msg \in Message /\ r.msg.kind = "fetch" /\ r.res \in Nat
                /\ Issued(r.msg)' /\ (Sent(r.msg)' => Performed(r.msg, r.res)')
    <2>1. /\ r.msg \in Message /\ r.msg.kind = "fetch" /\ r.res \in Nat
          /\ Issued(r.msg) /\ (Sent(r.msg) => Performed(r.msg, r.res))
      BY <1>1, Zenon DEF Fetches
    <2>2. r.msg # m
      BY <1>4, <2>1, Zenon
    <2> QED  BY <1>4, <1>6, <1>8, <2>1, <2>2, Zenon
  <1> QED  BY <1>10, <1>11, Zenon DEF Fetches

\* What arrives at f still arrives there, and m at d behind it.
LEMMA SentArrives ==
    ASSUME IInv, InLine, NEW e \in Ep, NEW d \in Ep, NEW x, NEW m, NEW h, Sends(e, d, x, m, h),
           NEW f \in Ep
    PROVE  /\ queue[f] \in Seq(Ent)
           /\ \A i \in DOMAIN queue'[f] : FreshAt(f, i)' =>
                \/ i \in DOMAIN queue[f] /\ FreshAt(f, i) /\ MsgAt(f, i)' = MsgAt(f, i)
                \/ f = d /\ i = Len(queue[f]) + 1 /\ MsgAt(f, i)' = m
           /\ \A i, j \in Nat : i <= Len(queue[f]) + 1 /\ i <= j => Arriving(f, i) \subseteq Arriving(f, j)'
           /\ AllArriving(f) \subseteq AllArriving(f)'
           /\ f = d => m \in AllArriving(f)'
           /\ \A i \in DOMAIN queue[f] : MsgAt(f, i) \in Message \/ ~FreshAt(f, i)
  <1>1. h.flags = {} /\ h.msg = m
    BY Zenon DEF Sends
  <1>2. Joined(f, d, x) /\ hdr'[x] = h
    <2>1. PlacesOK /\ Apart /\ Joins(e, d, x, h)
      BY TypeParts, Zenon DEF IInv, Sends, Joins
    <2> QED  BY <2>1, EntryJoins, Zenon
  <1>3. \A k \in DOMAIN queue[f] : (FreshAt(f, k)' <=> FreshAt(f, k)) /\ MsgAt(f, k)' = MsgAt(f, k)
    BY <1>2, Zenon DEF Joined, FreshAt, MsgAt
  <1>4. \A i \in DOMAIN queue'[f] : FreshAt(f, i)' =>
            \/ i \in DOMAIN queue[f] /\ FreshAt(f, i) /\ MsgAt(f, i)' = MsgAt(f, i)
            \/ f = d /\ i = Len(queue[f]) + 1 /\ MsgAt(f, i)' = m
    BY <1>1, <1>2, <1>3, Zenon DEF Joined, MsgAt
  <1>5. /\ Len(queue[f]) \in Nat /\ DOMAIN queue[f] = 1 .. Len(queue[f])
        /\ Len(queue'[f]) \in {Len(queue[f]), Len(queue[f]) + 1}
    <2>1. Len(queue[f]) \in Nat /\ DOMAIN queue[f] = 1 .. Len(queue[f])
      BY <1>2 DEF Joined
    <2> QED  BY <1>2, <2>1, Zenon DEF Joined
  <1>6. ASSUME NEW i \in Nat, NEW j \in Nat, i <= Len(queue[f]) + 1, i <= j, NEW w \in Arriving(f, i)
        PROVE  w \in Arriving(f, j)'
    <2>1. PICK k \in 1 .. i - 1 : FreshAt(f, k) /\ w = MsgAt(f, k)
      BY <1>6 DEF Arriving
    <2>2. k \in DOMAIN queue[f] /\ k \in 1 .. j - 1
      BY <1>5, <1>6
    <2>3. FreshAt(f, k)' /\ w = MsgAt(f, k)'
      BY <1>3, <2>1, <2>2, Zenon
    <2> QED  BY <2>2, <2>3, Zenon DEF Arriving
  <1>7. AllArriving(f) \subseteq AllArriving(f)'
    <2>1. PICK a : a = Len(queue[f]) + 1
      BY Zenon
    <2>2. PICK b : b = Len(queue'[f]) + 1
      BY Zenon
    <2>3. a \in Nat /\ b \in Nat /\ a <= Len(queue[f]) + 1 /\ a <= b
      BY <1>5, <2>1, <2>2
    <2>4. Arriving(f, a) \subseteq Arriving(f, b)'
      BY <1>6, <2>3, Zenon
    <2>5. AllArriving(f) = Arriving(f, a) /\ AllArriving(f)' = Arriving(f, b)'
      BY <2>1, <2>2, Zenon DEF AllArriving, Arriving
    <2> QED  BY <2>4, <2>5, Zenon
  <1>8. ASSUME f = d PROVE m \in AllArriving(f)'
    <2>1. PICK k : k = Len(queue[f]) + 1
      BY Zenon
    <2>2. k \in 1 .. (Len(queue'[f]) + 1) - 1
      BY <1>2, <1>5, <1>8, <2>1 DEF Joined
    <2>3. FreshAt(f, k)' /\ m = MsgAt(f, k)'
      BY <1>1, <1>2, <1>8, <2>1, Zenon DEF Joined, FreshAt, MsgAt
    <2> QED  BY <2>2, <2>3, Zenon DEF AllArriving, Arriving
  <1>9. ASSUME NEW i \in DOMAIN queue[f] PROVE MsgAt(f, i) \in Message \/ ~FreshAt(f, i)
    <2>1. queue[f][i] \in Ent /\ In(f, queue[f][i])
      BY <1>2, Item, Zenon DEF Joined, In, Range
    <2> QED  BY <2>1, Queued, Zenon DEF MsgAt
  <1> QED  BY <1>2, <1>4, <1>6, <1>7, <1>8, <1>9, Zenon DEF Joined

\* A message goes to the end of the queue of d, behind all that e sent before.
LEMMA SendOrder ==
    ASSUME IInv, TypeOK', InLine, NEW e \in Ep, NEW d \in Ep, NEW kind \in AllKinds, Send(e, d, kind)
    PROVE  InLine'
  <1>1. PICK x, m, h : Sends(e, d, x, m, h)
    BY SendParts, Zenon
  <1>2. UNCHANGED <<posted, unexp, rxctx, life, nrecv, matched, applied, result>>
    BY Zenon DEF Send
  <1>3. Fetches'
    BY <1>1, <1>2, SentFetches, Zenon
  <1>4. /\ issued \in [Ep -> Seq(Message)]
        /\ \A f \in Ep : \A i \in DOMAIN issued[f] : i \in DOMAIN issued'[f] /\ issued'[f][i] = issued[f][i]
        /\ \A f \in Ep : \A i \in DOMAIN issued'[f] :
                i \in DOMAIN issued[f] \/ (f = e /\ i = m.n /\ issued'[f][i] = m)
        /\ \A i \in 1 .. m.n - 1 : i \in DOMAIN issued[e]
        /\ ~Logged(issued, m) /\ Logged(issued', m)
    BY <1>1, SentLog
  <1>5. m \in Message /\ m.from = e /\ m.to = d /\ issued' = Add(issued, e, m)
    BY <1>1, Zenon DEF Sends
  <1>6. /\ \A k \in Message : Logged(issued, k) => Logged(issued', k)
        /\ \A k \in Message : \A K, S : Logged(issued, k) /\ After(issued, k, K, S) => After(issued', k, K, S)
        /\ \A f, K : \A s \in Seq(Message) :
                TakenInOrder(issued, f, s, K) => TakenInOrder(issued', f, s, K)
    BY <1>4, <1>5, LogGrows, Zenon
  <1>7. ASSUME NEW f \in Ep, NEW i \in DOMAIN issued'[f] PROVE issued'[f][i].from = f /\ issued'[f][i].n = i
    <2>1. CASE i \in DOMAIN issued[f]
      <3>1. issued[f][i].from = f /\ issued[f][i].n = i
        BY <2>1, Zenon DEF InLine
      <3>2. issued'[f][i] = issued[f][i]
        BY <1>4, <2>1, Zenon
      <3> QED  BY <3>1, <3>2, Zenon
    <2>2. CASE f = e /\ i = m.n /\ issued'[f][i] = m
      BY <1>5, <2>2, Zenon
    <2> QED  BY <1>4, <1>7, <2>1, <2>2, Zenon
  <1>8. TypeOK
    BY Zenon DEF IInv
  <1>9. ASSUME NEW f \in Ep PROVE Ordered(f)' /\ Receives(f)'
    <2>1. Ordered(f) /\ Receives(f)
      BY Zenon DEF InLine
    <2>2. Receives(f)'
      BY <1>2, <2>1, ReceivesSame, Zenon
    <2>3. /\ Line(f)' = Line(f) /\ applied'[f] = applied[f] /\ Taken(f)' = Taken(f) /\ life'[f] = life[f]
          /\ Line(f) \in Seq(Message) /\ applied[f] \in Seq(Message)
      BY <1>2, <1>8, LineOf, Zenon DEF Line, Taken, TypeOK
    <2>4. TakenInOrder(issued', f, Line(f), Messages) /\ TakenInOrder(issued', f, applied[f], Atomics)
      BY <1>6, <2>1, <2>3, Zenon DEF Ordered
    <2>5. m \notin Taken(f)
      BY <1>4, <2>1, Zenon DEF Ordered, TakenInOrder, Taken, Range
    <2>6. /\ queue[f] \in Seq(Ent)
          /\ \A i \in DOMAIN queue'[f] : FreshAt(f, i)' =>
                \/ i \in DOMAIN queue[f] /\ FreshAt(f, i) /\ MsgAt(f, i)' = MsgAt(f, i)
                \/ f = d /\ i = Len(queue[f]) + 1 /\ MsgAt(f, i)' = m
          /\ \A i, j \in Nat : i <= Len(queue[f]) + 1 /\ i <= j => Arriving(f, i) \subseteq Arriving(f, j)'
          /\ AllArriving(f) \subseteq AllArriving(f)'
          /\ f = d => m \in AllArriving(f)'
          /\ \A i \in DOMAIN queue[f] : MsgAt(f, i) \in Message \/ ~FreshAt(f, i)
      BY <1>1, SentArrives, Zenon
    <2>7. Untaken(f)'
      <3> SUFFICES ASSUME NEW i \in DOMAIN queue'[f], FreshAt(f, i)'
                   PROVE  Logged(issued', MsgAt(f, i)') /\ MsgAt(f, i)' \notin Taken(f)'
        BY Zenon DEF Untaken
      <3>1. CASE i \in DOMAIN queue[f] /\ FreshAt(f, i) /\ MsgAt(f, i)' = MsgAt(f, i)
        BY <1>6, <2>1, <2>3, <2>6, <3>1, Zenon DEF Ordered, Untaken
      <3>2. CASE MsgAt(f, i)' = m
        BY <1>4, <2>3, <2>5, <3>2, Zenon
      <3> QED  BY <2>6, <3>1, <3>2, Zenon
    <2>8. ASSUME life[f] = "up" PROVE ArrivesInOrder(f)'
      <3>1. ArrivesInOrder(f)
        BY <2>1, <2>8, Zenon DEF Ordered
      <3>2. \A i \in DOMAIN queue[f] : i \in Nat /\ i <= Len(queue[f]) + 1 /\ i <= i
        BY <2>6
      <3>3. ASSUME NEW i \in DOMAIN queue'[f], FreshAt(f, i)'
            PROVE  After(issued', MsgAt(f, i)', AllKinds, Taken(f)' \cup Arriving(f, i)')
        <4>1. CASE i \in DOMAIN queue[f] /\ FreshAt(f, i) /\ MsgAt(f, i)' = MsgAt(f, i)
          <5>1. PICK k \in Message : k = MsgAt(f, i)
            BY <2>6, <4>1, Zenon
          <5>2. After(issued, k, AllKinds, Taken(f) \cup Arriving(f, i)) /\ Logged(issued, k)
            BY <2>1, <3>1, <4>1, <5>1, Zenon DEF ArrivesInOrder, Ordered, Untaken
          <5>3. After(issued', k, AllKinds, Taken(f) \cup Arriving(f, i))
            BY <1>6, <5>2, Zenon
          <5>4. Arriving(f, i) \subseteq Arriving(f, i)'
            BY <2>6, <3>2, <4>1, Zenon
          <5>5. \A w \in Taken(f) \cup Arriving(f, i) : w \in Taken(f)' \cup Arriving(f, i)'
            BY <2>3, <5>4, Zenon
          <5>6. After(issued', k, AllKinds, Taken(f)' \cup Arriving(f, i)')
            BY <5>3, <5>5, AfterMore, Zenon
          <5> QED  BY <4>1, <5>1, <5>6, Zenon
        <4>2. CASE f = d /\ i = Len(queue[f]) + 1 /\ MsgAt(f, i)' = m
          <5>1. AllArriving(f) \subseteq Arriving(f, i)'
            <6>1. i \in Nat /\ i <= Len(queue[f]) + 1 /\ i <= i
              BY <2>6, <4>2
            <6> QED  BY <2>6, <4>2, <6>1, Zenon DEF AllArriving
          <5>2. ASSUME NEW k \in 1 .. m.n - 1, issued'[e][k].to = d
                PROVE  issued'[e][k] \in Taken(f)' \cup Arriving(f, i)'
            <6>1. k \in DOMAIN issued[e] /\ issued'[e][k] = issued[e][k]
              BY <1>4, <5>2, Zenon
            <6>2. issued[e][k] \in Taken(f) \cup AllArriving(f)
              BY <3>1, <4>2, <5>2, <6>1, Zenon DEF ArrivesInOrder
            <6> QED  BY <2>3, <5>1, <6>1, <6>2, Zenon
          <5>3. After(issued', m, AllKinds, Taken(f)' \cup Arriving(f, i)')
            BY <1>5, <5>2, Zenon DEF After
          <5> QED  BY <4>2, <5>3, Zenon
        <4> QED  BY <2>6, <3>3, <4>1, <4>2, Zenon
      <3>4. ASSUME NEW g \in Ep, NEW k \in DOMAIN issued'[g], issued'[g][k].to = f
            PROVE  issued'[g][k] \in Taken(f)' \cup AllArriving(f)'
        <4>1. CASE k \in DOMAIN issued[g]
          <5>1. issued'[g][k] = issued[g][k]
            BY <1>4, <4>1, Zenon
          <5>2. issued[g][k] \in Taken(f) \cup AllArriving(f)
            BY <3>1, <3>4, <4>1, <5>1, Zenon DEF ArrivesInOrder
          <5> QED  BY <2>3, <2>6, <5>1, <5>2, Zenon
        <4>2. CASE issued'[g][k] = m
          BY <1>5, <2>6, <3>4, <4>2, Zenon
        <4> QED  BY <1>4, <4>1, <4>2, Zenon
      <3> QED  BY <3>3, <3>4, Zenon DEF ArrivesInOrder
    <2> QED  BY <2>2, <2>3, <2>4, <2>7, <2>8, Zenon DEF Ordered
  <1>10. matched' \in [Ep -> Seq([msg : Message, ctx : Nat])]
    BY <1>2, Zenon DEF InLine
  <1> QED  BY <1>3, <1>7, <1>9, <1>10, Zenon DEF InLine

(***************************************************************************)
(* Every step, and what being in line means for what is matched.           *)
(***************************************************************************)
\* sm2_progress_recv takes one entry, whichever of its handlers that calls.
LEMMA ProgressOrder ==
    ASSUME IInv, TypeOK', InLine, NEW e \in Ep, Progress(e)
    PROVE  InLine'
  <1>1. PICK x : x = Head(queue[e])
    BY Zenon
  <1>2. life[e] = "up" /\ queue[e] # << >> /\ ProgressOne(e, x)
    BY <1>1, Zenon DEF Progress
  <1>3. CASE ProgressReturn(e, x)
    BY <1>1, <1>2, <1>3, ReturnOrder, Zenon
  <1>4. CASE "RETURN" \notin hdr[x].flags /\ ProgressAtomic(e, x)
    BY <1>1, <1>2, <1>4, AtomicOrder, Zenon
  <1>5. CASE "RETURN" \notin hdr[x].flags /\ ProgressMsg(e, x)
    <2>1. hdr[x].msg.kind \in {"inject", "cma"}
      BY <1>5, Zenon DEF ProgressMsg
    <2>2. CASE ProgressHostToDev(e, x)
      BY <1>1, <1>2, <1>5, <2>2, HostToDevOrder, Zenon
    <2>3. CASE ProgressAck(e, x)
      BY <1>1, <1>2, <2>3, AckOrder, Zenon
    <2>4. CASE {"TO_DEV", "ACK"} \cap hdr[x].flags = {} /\ StartExpected(e, x)
      BY <1>1, <1>2, <1>5, <2>1, <2>4, ExpectedOrder, Zenon
    <2>5. CASE {"TO_DEV", "ACK"} \cap hdr[x].flags = {} /\ SetAside(e, x)
      BY <1>1, <1>2, <1>5, <2>1, <2>5, AsideOrder, Zenon
    <2> QED  BY <1>5, <2>2, <2>3, <2>4, <2>5, Zenon DEF ProgressMsg
  <1> QED  BY <1>2, <1>3, <1>4, <1>5, Zenon DEF ProgressOne

\* An endpoint closes.
LEMMA CloseOrder ==
    ASSUME IInv, TypeOK', InLine, NEW e \in Ep, Close(e) \/ DrainEnd(e)
    PROVE  InLine'
  <1>1. PICK l \in {"drain", "redrain", "freed", "zombie"} : life' = [life EXCEPT ![e] = l]
    BY Zenon DEF Close, DrainEnd
  <1>2. UNCHANGED <<hdr, queue, posted, unexp, rxctx, nrecv, issued, matched, applied, txdone, result>>
    BY Zenon DEF Close, DrainEnd, Keep, history
  <1>3. life \in [Ep -> {"up", "drain", "redrain", "freed", "zombie"}]
    BY Zenon DEF IInv, TypeOK
  <1>4. \A f \in Ep : life'[f] = "up" => life[f] = "up"
    BY <1>1, <1>3
  <1> QED  BY <1>2, <1>4, LifeOrder, Zenon

\* Nothing is in line at first.
LEMMA OrderInit == Init => InLine
  <1> SUFFICES ASSUME Init PROVE InLine
    BY Zenon
  <1>1. /\ \A e \in Ep : /\ queue[e] = << >> /\ unexp[e] = << >> /\ posted[e] = << >>
                         /\ matched[e] = << >> /\ applied[e] = << >> /\ issued[e] = << >> /\ nrecv[e] = 0
        /\ result = {}
    BY Zenon DEF Init
  <1>2. Range(<< >>) = {} /\ DOMAIN << >> = {} /\ IsInjective(<< >>) /\ Len(<< >>) = 0
    BY DEF Range, IsInjective
  <1>3. matched \in [Ep -> Seq([msg : Message, ctx : Nat])]
    BY DEF Init
  <1>4. ASSUME NEW e \in Ep PROVE Ordered(e)
    <2>1. Line(e) = << >>
      <3>1. Msgs(<< >>) = << >> /\ AsideMsgs(<< >>) = << >> /\ << >> \o << >> = << >>
        BY DEF Msgs, AsideMsgs
      <3> QED  BY <1>1, <3>1, Zenon DEF Line
    <2>2. TakenInOrder(issued, e, Line(e), Messages) /\ TakenInOrder(issued, e, applied[e], Atomics)
      BY <1>1, <1>2, <2>1, Zenon DEF TakenInOrder
    <2>3. Untaken(e) /\ ArrivesInOrder(e)
      BY <1>1, <1>2, Zenon DEF Untaken, ArrivesInOrder
    <2> QED  BY <2>2, <2>3, Zenon DEF Ordered
  <1>5. ASSUME NEW e \in Ep PROVE Receives(e)
    <2>1. Len(matched[e]) = 0 /\ Len(posted[e]) = 0 /\ nrecv[e] = 0
      BY <1>1, <1>2, Zenon
    <2>2. nrecv[e] = Len(matched[e]) + Len(posted[e])
      BY <2>1
    <2> QED  BY <1>1, <1>2, <2>2, Zenon DEF Receives
  <1>6. Fetches
    BY <1>1, <1>2, Zenon DEF Fetches, In
  <1>7. \A e \in Ep : \A i \in DOMAIN issued[e] : issued[e][i].from = e /\ issued[e][i].n = i
    BY <1>1, <1>2, Zenon
  <1> QED  BY <1>3, <1>4, <1>5, <1>6, <1>7, Zenon DEF InLine

\* Every step keeps what waits in line.
LEMMA OrderNext == IInv /\ IInv' /\ InLine /\ [Next]_vars => InLine'
  <1> SUFFICES ASSUME IInv, IInv', InLine, [Next]_vars PROVE InLine'
    BY Zenon
  <1>1. TypeOK'
    BY Zenon DEF IInv
  <1>2. CASE UNCHANGED vars
    <2>1. /\ \A f \in Ep : life'[f] = "up" => life[f] = "up"
          /\ UNCHANGED <<hdr, queue, posted, unexp, rxctx, nrecv, issued, matched, applied, txdone, result>>
      BY <1>2, Zenon DEF vars, history
    <2> QED  BY <1>1, <2>1, LifeOrder, Zenon
  <1>3. CASE \E e \in Senders, d \in Receivers, kind \in Kinds : Send(e, d, kind)
    BY <1>1, <1>3, SendAssumption, SendOrder, Zenon
  <1>4. CASE \E e \in Receivers, mem \in Mems : PostRecv(e, mem)
    BY <1>1, <1>4, SendAssumption, PostOrder, Zenon
  <1>5. CASE \E e \in Ep : Progress(e)
    BY <1>1, <1>5, ProgressOrder, Zenon
  <1>6. CASE \E e \in Closers : Close(e)
    BY <1>1, <1>6, SendAssumption, CloseOrder, Zenon
  <1>7. CASE \E e \in Ep : Drain(e) \/ DrainEnd(e)
    BY <1>1, <1>7, DrainOrder, CloseOrder, Zenon
  <1> QED  BY <1>2, <1>3, <1>4, <1>5, <1>6, <1>7, Zenon DEF Next

\* What is in line is matched first come, first served.
LEMMA LineInTurn == IInv /\ InLine => InTurn
  <1> SUFFICES ASSUME IInv, InLine PROVE InTurn
    BY Zenon
  <1>1. ASSUME NEW e \in Ep
        PROVE  /\ \A i \in DOMAIN matched[e] : matched[e][i].ctx = i
               /\ TakenInOrder(issued, e, Msgs(matched[e]), Messages)
               /\ TakenInOrder(issued, e, applied[e], Atomics)
    <2>1. Ordered(e) /\ Receives(e)
      BY Zenon DEF InLine
    <2>2. Msgs(matched[e]) \in Seq(Message) /\ AsideMsgs(unexp[e]) \in Seq(Message)
      BY LineOf, Zenon DEF IInv
    <2>3. TakenInOrder(issued, e, Msgs(matched[e]), Messages)
      BY <2>1, <2>2, TakenBefore, Zenon DEF Ordered, Line
    <2> QED  BY <2>1, <2>3, Zenon DEF Ordered, Receives
  <1>2. \A r \in result : r.msg \in Range(txdone[r.msg.from]) => Performed(r.msg, r.res)
    BY Zenon DEF InLine, Fetches, Sent
  <1> QED  BY <1>1, <1>2, Zenon DEF InTurn, MatchInOrder, AtomicTurns

(***************************************************************************)
(* The theorems.                                                           *)
(***************************************************************************)
\* In every state that sm2 reaches, every entry is in one place, has one of the
\* shapes that its handlers expect and belongs where they will send it, and a
\* message is under way in one entry, or set aside, or done.
THEOREM Invariance == Spec => []IInv
  BY InitHolds, NextKeeps, PTL DEF Spec

\* However sends, returns, notifications and closing interleave, an entry is on
\* one free stack or once in one queue, so sm2_freestack_pop never hands out an
\* entry that is in use.
THEOREM OneKeeperAlways == Spec => []OneKeeper
  <1>1. IInv => OneKeeper
    <2> SUFFICES ASSUME IInv, NEW x \in Ent PROVE \E k \in Keepers(x) : Keepers(x) = {k}
      BY Zenon DEF OneKeeper
    <2>1. Apart /\ queue \in [Ep -> Seq(Ent)]
      BY Zenon DEF IInv, TypeOK
    <2>2. \A e \in Ep : \A i \in DOMAIN queue[e] : queue[e][i] = x => In(e, x)
      BY Zenon DEF In, Range
    <2>3. \A k \in Keepers(x) :
              \E e \in Ep : \/ x \in free[e] /\ k = <<e, 0>>
                            \/ \E i \in DOMAIN queue[e] : queue[e][i] = x /\ k = <<e, i>>
      BY Zenon DEF Keepers
    <2>4. \E k : Keepers(x) = {k}
      <3>1. PICK e \in Ep : x \in free[e] \/ In(e, x)
        BY <2>1, Zenon DEF Apart
      <3>2. CASE x \in free[e]
        <4>1. \A f \in Ep : (x \in free[f] => f = e) /\ ~In(f, x)
          BY <2>1, <3>2, Zenon DEF Apart
        <4>2. \A k \in Keepers(x) : k = <<e, 0>>
          BY <2>2, <2>3, <4>1, Zenon
        <4>3. <<e, 0>> \in Keepers(x)
          BY <3>2, Zenon DEF Keepers
        <4> QED  BY <4>2, <4>3, Zenon
      <3>3. CASE In(e, x)
        <4>1. \A f \in Ep : x \notin free[f] /\ (In(f, x) => f = e)
          BY <2>1, <3>3, Zenon DEF Apart
        <4>2. PICK i \in DOMAIN queue[e] : queue[e][i] = x
          BY <3>3, Zenon DEF In, Range
        <4>3. \A j \in DOMAIN queue[e] : queue[e][j] = x => j = i
          BY <2>1, <4>2, Zenon DEF Apart, IsInjective
        <4>4. \A k \in Keepers(x) : k = <<e, i>>
          BY <2>2, <2>3, <4>1, <4>3, Zenon
        <4>5. <<e, i>> \in Keepers(x)
          BY <4>2 DEF Keepers
        <4> QED  BY <4>4, <4>5, Zenon
      <3> QED  BY <3>1, <3>2, <3>3, Zenon
    <2> QED  BY <2>4, Zenon
  <1> QED  BY <1>1, Invariance, PTL

\* Until an endpoint closes every free stack holds only its own entries, whoever
\* used them and for what; and the assertions of sm2_progress_recv and
\* sm2_fifo_write_back never fail.
THEOREM ComesHomeAlways == Spec => []ComesHome
  <1>1. IInv => HomeStacks
    BY Zenon DEF IInv, Homes, HomeStacks
  <1>2. IInv => NoBadReturn
    <2> SUFFICES ASSUME IInv, NEW e \in Ep, NEW i \in DOMAIN queue[e], NEW h, h = hdr[queue[e][i]]
                 PROVE  /\ "RETURN" \notin h.flags => "GENERATE" \notin h.flags /\ h.sender # e
                        /\ {"RETURN", "GENERATE", "UNEXP"} \subseteq h.flags => h.sender # e
      BY Zenon DEF NoBadReturn
    <2>1. queue[e] \in Seq(Ent)
      BY Zenon DEF IInv, TypeOK
    <2>2. queue[e][i] \in Ent /\ In(e, queue[e][i])
      BY <2>1 DEF In, Range
    <2>3. Shape(e, h)
      BY <2>2, Queued, Zenon
    <2> QED  BY <2>3, Zenon DEF Shape, Returning
  <1> QED  BY <1>1, <1>2, Invariance, PTL DEF ComesHome

\* A send and a receive complete at most once, and only when the data is in the
\* receiver's buffer (or the atomic was performed), whichever of the two copies,
\* and whether the message was expected, set aside or notified of.
THEOREM CompletionsAlwaysRight == Spec => []CompletionsRight
  <1>1. IInv => CompletionsRight
    BY Zenon DEF IInv, CompletionsRight
  <1> QED  BY <1>1, Invariance, PTL

\* Messages match the receives of their destination in the order in which their
\* sender issued them, none before an earlier one that is still on its way or set
\* aside, and receives match in the order in which they were posted; atomics are
\* performed once and in the order issued, and a fetch returns the value that its
\* atomic found: through sm2_progress_recv, the unexpected queue of the shared
\* receive context and endpoints that close.
THEOREM InTurnAlways == Spec => []InTurn
  <1>1. Init => IInv /\ InLine
    BY InitHolds, OrderInit, Zenon
  <1>2. IInv /\ InLine /\ [Next]_vars => IInv' /\ InLine'
    BY NextKeeps, OrderNext, Zenon
  <1>3. IInv /\ InLine => InTurn
    BY LineInTurn, Zenon
  <1> QED  BY <1>1, <1>2, <1>3, PTL DEF Spec
=============================================================================
