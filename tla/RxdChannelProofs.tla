-------------------------- MODULE RxdChannelProofs --------------------------
(***************************************************************************)
(* Proofs about RxdChannel, for every set of payloads, window and bound.   *)
(***************************************************************************)
EXTENDS RxdChannel, FiniteSetTheorems, SequenceTheorems, TLAPS

\* Numbering more packets leaves the numbers handed out so far alone.
LEMMA LogGrows ==
    ASSUME NEW L \in Seq(Payload), NEW D \in Seq(Payload)
    PROVE  /\ L \o D \in Seq(Payload)
           /\ Len(L) \in Nat
           /\ Len(L) <= Len(L \o D)
           /\ \A i \in 1 .. Len(L) : (L \o D)[i] = L[i]
           /\ \A i \in 1 .. Len(L \o D) : (L \o D)[i] \in Payload
  <1>1. /\ L \o D \in Seq(Payload)
        /\ Len(L \o D) = Len(L) + Len(D)
        /\ \A i \in 1 .. Len(L) + Len(D) : (L \o D)[i] = IF i <= Len(L) THEN L[i] ELSE D[i - Len(L)]
    BY ConcatProperties, Zenon
  <1>2. Len(L) \in Nat /\ Len(D) \in Nat
    BY LenProperties, Zenon
  <1>3. \A i \in 1 .. Len(L \o D) : (L \o D)[i] \in Payload
    BY <1>1, ElementOfSeq, Zenon
  <1> QED  BY <1>1, <1>2, <1>3

\* The window test bounds what is outstanding after packets T were sent.
LEMMA WindowBound ==
    ASSUME NEW U, IsFiniteSet(U), Cardinality(U) <= Window,
           NEW kept \in SUBSET U, NEW n \in Nat, NEW T \in SUBSET (0 .. n - 1),
           NEW window \in {0, Window},
           T # {} => Cardinality(kept) + Cardinality(T) <= window
    PROVE  IsFiniteSet(kept \cup T) /\ Cardinality(kept \cup T) <= Window
  <1>1. IsFiniteSet(kept) /\ Cardinality(kept) <= Cardinality(U)
    BY FS_Subset, Zenon
  <1>2. IsFiniteSet(0 .. n - 1)
    BY FS_Interval
  <1>3. IsFiniteSet(T)
    BY <1>2, FS_Subset, Zenon
  <1>4. /\ Cardinality(kept) \in Nat /\ Cardinality(T) \in Nat /\ Cardinality(U) \in Nat
        /\ Cardinality(kept \cap T) \in Nat
    BY <1>1, <1>3, FS_CardinalityType, FS_Intersection, Zenon
  <1>5. /\ IsFiniteSet(kept \cup T)
        /\ Cardinality(kept \cup T) = Cardinality(kept) + Cardinality(T) - Cardinality(kept \cap T)
    BY <1>1, <1>3, FS_Union, Zenon
  <1>6. CASE T = {}
    <2>1. kept \cup T = kept
      BY <1>6, Zenon
    <2> QED  BY <2>1, <1>1, <1>4, WindowAssumption
  <1>7. CASE T # {}
    BY <1>7, <1>4, <1>5, WindowAssumption
  <1> QED  BY <1>6, <1>7, Zenon

\* The packets made of the log hold what the log holds at their sequence number.
LEMMA PacketsOf ==
    ASSUME NEW l \in Seq(Payload), NEW S, S \subseteq 0 .. Len(l) - 1
    PROVE  \A p \in {[seq |-> s, data |-> l[s + 1]] : s \in S} :
               /\ p \in [seq : Nat, data : Payload]
               /\ p.seq \in 0 .. Len(l) - 1 /\ p.data = l[p.seq + 1]
  <1>1. ASSUME NEW s \in S
        PROVE  s \in 0 .. Len(l) - 1 /\ s \in Nat /\ l[s + 1] \in Payload
    BY <1>1
  <1>2. ASSUME NEW s \in S, NEW p, p = [seq |-> s, data |-> l[s + 1]]
        PROVE  /\ p \in [seq : Nat, data : Payload]
               /\ p.seq \in 0 .. Len(l) - 1 /\ p.data = l[p.seq + 1]
    <2>1. p.seq = s /\ p.data = l[s + 1]
      BY <1>2
    <2>2. p \in [seq : Nat, data : Payload]
      BY <1>1, <1>2
    <2> QED  BY <1>1, <2>1, <2>2, Zenon
  <1> QED  BY <1>2, Zenon

\* What a transmit-side handler leaves behind: it released only packets the
\* receiver has accepted, and sent what Send allows.
LEMMA SendPreserves ==
    ASSUME IInv, NEW data \in Transfers, NEW T,
           NEW kept \in SUBSET unacked, NEW held \in SUBSET kept, NEW window \in {0, Window},
           \A s \in unacked \ kept : s < rx_seq_no,
           Send(data, T, kept, held, window),
           UNCHANGED <<rxVars, abandoned>>
    PROVE  /\ log' \in Seq(Payload)
           /\ sent' \subseteq Nat /\ unacked' \subseteq Nat /\ in_use' \subseteq Nat
           /\ pkts' \subseteq [seq : Nat, data : Payload]
           /\ Bookkeeping' /\ PktsGenuine' /\ InOrderDelivery' /\ KeptUntilAccepted'
           /\ held \subseteq in_use' /\ in_use' \subseteq unacked' /\ WindowRespected'
  <1> DEFINE new == {[seq |-> s, data |-> log'[s + 1]] : s \in T}
  <1>1. data \in Seq(Payload)
    BY TransfersAssumption, Zenon
  <1>2. /\ log' = log \o data /\ T \subseteq (0 .. Len(log') - 1) \ sent
        /\ (T # {} => Cardinality(kept) + Cardinality(T) <= window)
        /\ sent' = sent \cup T /\ unacked' = kept \cup T /\ in_use' = held \cup T
        /\ pkts' = pkts \cup new
    BY Zenon DEF Send
  <1>3. /\ log \in Seq(Payload) /\ sent \subseteq Nat /\ rx_seq_no \in Nat
        /\ pkts \subseteq [seq : Nat, data : Payload]
    BY Zenon DEF IInv, TypeOK
  <1>4. /\ log' \in Seq(Payload) /\ Len(log) \in Nat /\ Len(log) <= Len(log')
        /\ \A i \in 1 .. Len(log) : log'[i] = log[i]
        /\ \A i \in 1 .. Len(log') : log'[i] \in Payload
    BY <1>1, <1>2, <1>3, LogGrows, Zenon
  <1>5. Len(log') \in Nat
    BY <1>4, LenProperties, Zenon
  <1>6. /\ sent \subseteq 0 .. Len(log) - 1 /\ unacked \subseteq sent
        /\ IsFiniteSet(unacked) /\ Cardinality(unacked) <= Window
    BY Zenon DEF IInv, Bookkeeping, SeqNos, WindowRespected
  <1>7. /\ sent' \subseteq 0 .. Len(log') - 1 /\ unacked' \subseteq sent'
        /\ T \subseteq 0 .. Len(log') - 1
    BY <1>2, <1>4, <1>5, <1>6
  <1>8. IsFiniteSet(unacked') /\ Cardinality(unacked') <= Window
    <2>1. IsFiniteSet(kept \cup T) /\ Cardinality(kept \cup T) <= Window
      BY <1>2, <1>5, <1>6, <1>7, WindowBound, Zenon
    <2> QED  BY <2>1, <1>2, Zenon
  <1>9. \A p \in new : /\ p \in [seq : Nat, data : Payload]
                       /\ p.seq \in 0 .. Len(log') - 1 /\ p.data = log'[p.seq + 1]
    BY <1>4, <1>7, PacketsOf, Zenon
  <1>10. \A p \in pkts : p.seq \in 0 .. Len(log') - 1 /\ p.data = log'[p.seq + 1]
    <2> SUFFICES ASSUME NEW p \in pkts
                 PROVE  p.seq \in 0 .. Len(log') - 1 /\ p.data = log'[p.seq + 1]
      BY Zenon
    <2>1. p.seq \in 0 .. Len(log) - 1 /\ p.data = log[p.seq + 1]
      BY Zenon DEF IInv, PktsGenuine, SeqNos
    <2>2. p.seq + 1 \in 1 .. Len(log) /\ p.seq \in 0 .. Len(log') - 1
      BY <2>1, <1>4, <1>5
    <2> QED  BY <2>1, <2>2, <1>4, Zenon
  <1>11. PktsGenuine' /\ pkts' \subseteq [seq : Nat, data : Payload]
    BY <1>2, <1>3, <1>9, <1>10, Zenon DEF PktsGenuine, SeqNos
  <1>12. InOrderDelivery'
    <2>1. delivered = [i \in 1 .. rx_seq_no |-> log[i]] /\ rx_seq_no <= Len(log)
      BY Zenon DEF IInv, InOrderDelivery
    <2>2. [i \in 1 .. rx_seq_no |-> log[i]] = [i \in 1 .. rx_seq_no |-> log'[i]]
      BY <2>1, <1>3, <1>4
    <2> QED  BY <2>1, <2>2, <1>3, <1>4, <1>5 DEF InOrderDelivery, rxVars
  <1>13. KeptUntilAccepted'
    <2>1. \A s \in sent : s \in unacked \cup abandoned \/ s < rx_seq_no
      BY Zenon DEF IInv, KeptUntilAccepted
    <2> QED  BY <2>1, <1>2, Zenon DEF KeptUntilAccepted, rxVars
  <1> QED
    BY <1>2, <1>4, <1>5, <1>7, <1>8, <1>11, <1>12, <1>13 DEF Bookkeeping, SeqNos, WindowRespected

\* Taking in the next packets hands up the next payloads.
LEMMA AcceptDelivers ==
    ASSUME IInv, NEW n \in Nat \ {0}, NEW A, Accept(n, A)
    PROVE  /\ rx_seq_no' \in Nat /\ rx_seq_no <= rx_seq_no' /\ rx_seq_no' = rx_seq_no + n
           /\ delivered' \in Seq(Payload) /\ InOrderDelivery'
  <1> DEFINE next == [k \in 1 .. n |-> (CHOOSE p \in pkts : p.seq = rx_seq_no + k - 1).data]
  <1>1. /\ \A k \in 0 .. n - 1 : \E p \in pkts : p.seq = rx_seq_no + k
        /\ rx_seq_no' = rx_seq_no + n /\ delivered' = delivered \o next /\ log' = log
    BY DEF Accept, txVars
  <1>2. /\ log \in Seq(Payload) /\ rx_seq_no \in Nat /\ Len(log) \in Nat
        /\ delivered \in Seq(Payload) /\ rx_seq_no <= Len(log)
        /\ delivered = [i \in 1 .. rx_seq_no |-> log[i]]
    BY LenProperties, Zenon DEF IInv, TypeOK, InOrderDelivery
  <1>3. \A k \in 1 .. n : rx_seq_no + k \in 1 .. Len(log) /\ next[k] = log[rx_seq_no + k]
    <2> SUFFICES ASSUME NEW k \in 1 .. n
                 PROVE  rx_seq_no + k \in 1 .. Len(log) /\ next[k] = log[rx_seq_no + k]
      BY Zenon
    <2> DEFINE q == CHOOSE p \in pkts : p.seq = rx_seq_no + k - 1
    <2>1. \E p \in pkts : p.seq = rx_seq_no + k - 1
      <3>1. k - 1 \in 0 .. n - 1 /\ rx_seq_no + (k - 1) = rx_seq_no + k - 1
        BY <1>2
      <3> QED  BY <3>1, <1>1, Zenon
    <2>2. q \in pkts /\ q.seq = rx_seq_no + k - 1
      BY <2>1, Zenon
    <2>3. q.seq \in 0 .. Len(log) - 1 /\ q.data = log[q.seq + 1]
      BY <2>2, Zenon DEF IInv, PktsGenuine, SeqNos
    <2>4. next[k] = q.data
      BY Zenon
    <2> HIDE DEF q, next
    <2> QED  BY <2>2, <2>3, <2>4, <1>2
  <1>4. rx_seq_no + n <= Len(log)
    <2>1. n \in 1 .. n
      OBVIOUS
    <2>2. rx_seq_no + n \in 1 .. Len(log)
      BY <2>1, <1>3, Zenon
    <2> QED  BY <2>2, <1>2
  <1>5. next \in Seq(Payload) /\ Len(next) = n
    <2>1. \A k \in 1 .. n : next[k] \in Payload
      <3> HIDE DEF next
      <3> QED  BY <1>2, <1>3, ElementOfSeq, Zenon
    <2>2. next \in Seq(Payload)
      BY <2>1, IsASeq
    <2> QED  BY <2>2, LenProperties
  <1>6. Len(delivered) = rx_seq_no
    BY <1>2, LenProperties
  <1> HIDE DEF next
  <1>7. /\ delivered' \in Seq(Payload) /\ Len(delivered') = rx_seq_no + n
        /\ \A i \in 1 .. rx_seq_no + n :
              delivered'[i] = IF i <= rx_seq_no THEN delivered[i] ELSE next[i - rx_seq_no]
    <2>1. /\ delivered \o next \in Seq(Payload)
          /\ Len(delivered \o next) = Len(delivered) + Len(next)
          /\ \A i \in 1 .. Len(delivered) + Len(next) :
                (delivered \o next)[i] =
                    IF i <= Len(delivered) THEN delivered[i] ELSE next[i - Len(delivered)]
      BY <1>2, <1>5, ConcatProperties, ZenonT(30)
    <2>2. delivered' = delivered \o next
      BY <1>1, Zenon
    <2> QED  BY <2>1, <2>2, <1>5, <1>6, Zenon
  <1>8. \A i \in 1 .. rx_seq_no + n : delivered'[i] = log[i]
    <2> SUFFICES ASSUME NEW i \in 1 .. rx_seq_no + n  PROVE delivered'[i] = log[i]
      BY Zenon
    <2>1. CASE i <= rx_seq_no
      <3>1. delivered[i] = log[i]
        BY <2>1, <1>2
      <3> QED  BY <3>1, <2>1, <1>7, Zenon
    <2>2. CASE ~(i <= rx_seq_no)
      <3>1. i - rx_seq_no \in 1 .. n /\ rx_seq_no + (i - rx_seq_no) = i
        BY <2>2, <1>2
      <3>2. next[i - rx_seq_no] = log[i]
        BY <3>1, <1>3, Zenon
      <3> QED  BY <3>2, <2>2, <1>7, Zenon
    <2> QED  BY <2>1, <2>2, Zenon
  <1>9. delivered' = [i \in 1 .. rx_seq_no' |-> log'[i]]
    <2>1. delivered' = [i \in 1 .. Len(delivered') |-> delivered'[i]]
      BY <1>7, LenProperties, Zenon
    <2> QED  BY <2>1, <1>1, <1>7, <1>8, Zenon
  <1> QED  BY <1>1, <1>2, <1>4, <1>7, <1>9 DEF InOrderDelivery

\* An ACK for what the receiver expects, with a window that is its own or closed, is
\* genuine: rxd_ep_send_ack after a packet was refused or a waiting message received.
LEMMA OwnAck ==
    ASSUME TypeOK, AcksGenuine, rx_window' \in {0, rx_window},
           acks' = acks \cup {Ack(rx_seq_no, rx_window')},
           UNCHANGED <<txVars, rx_seq_no, delivered, pkts>>
    PROVE  TypeOK' /\ AcksGenuine'
  <1>1. rx_seq_no \in Nat /\ rx_window' \in {0, Window}
    BY Zenon DEF TypeOK
  <1>2. /\ Ack(rx_seq_no, rx_window') \in [seq : Nat, window : {0, Window}]
        /\ Ack(rx_seq_no, rx_window').seq = rx_seq_no
    BY <1>1, Zenon DEF Ack
  <1>3. TypeOK'
    BY <1>1, <1>2, Zenon DEF TypeOK, txVars
  <1>4. AcksGenuine'
    BY <1>1, <1>2 DEF AcksGenuine, txVars
  <1> QED  BY <1>3, <1>4, Zenon

\* The other parts of the invariant do not look at the ACKs or the receiver's window.
LEMMA RestUnchanged ==
    ASSUME IInv, UNCHANGED <<txVars, rx_seq_no, delivered, pkts>>
    PROVE  /\ Bookkeeping' /\ PktsGenuine' /\ InOrderDelivery' /\ KeptUntilAccepted'
           /\ BufferOwnership' /\ WindowRespected'
  <1>1. Bookkeeping' /\ PktsGenuine'
    BY Zenon DEF IInv, Bookkeeping, PktsGenuine, SeqNos, txVars
  <1>2. InOrderDelivery' /\ KeptUntilAccepted'
    BY Zenon DEF IInv, InOrderDelivery, KeptUntilAccepted, txVars
  <1>3. BufferOwnership' /\ WindowRespected'
    BY Zenon DEF IInv, BufferOwnership, WindowRespected, txVars
  <1> QED  BY <1>1, <1>2, <1>3, Zenon

\* Every step of the stream preserves the inductive invariant.
LEMMA Inductive == IInv /\ [Next]_vars => IInv'
  <1> SUFFICES ASSUME IInv, [Next]_vars  PROVE IInv'
    BY Zenon
  <1>0. /\ TypeOK /\ Bookkeeping /\ PktsGenuine /\ AcksGenuine /\ InOrderDelivery
        /\ KeptUntilAccepted /\ BufferOwnership /\ WindowRespected
    BY Zenon DEF IInv
  <1>1. ASSUME NEW data \in Transfers, NEW T, Post(data, T)  PROVE IInv'
    <2>1. /\ Send(data, T, unacked, in_use, tx_window)
          /\ UNCHANGED <<acked, abandoned, last_rx_ack, tx_window, rxVars, acks>>
      BY <1>1, Zenon DEF Post
    <2>2. in_use \subseteq unacked /\ tx_window \in {0, Window}
      BY <1>0, Zenon DEF BufferOwnership, TypeOK
    <2>3. /\ log' \in Seq(Payload)
          /\ sent' \subseteq Nat /\ unacked' \subseteq Nat /\ in_use' \subseteq Nat
          /\ pkts' \subseteq [seq : Nat, data : Payload]
          /\ Bookkeeping' /\ PktsGenuine' /\ InOrderDelivery' /\ KeptUntilAccepted'
          /\ in_use \subseteq in_use' /\ in_use' \subseteq unacked' /\ WindowRespected'
      BY <2>1, <2>2, SendPreserves, Zenon
    <2> QED  BY <1>0, <2>1, <2>3, Zenon DEF IInv, TypeOK, AcksGenuine, BufferOwnership, rxVars
  <1>2. ASSUME NEW data \in Transfers, NEW T, NEW a \in acks, NEW R, HandleAck(a, R, data, T)
        PROVE  IInv'
    <2> DEFINE kept == unacked \ (R \ in_use)
    <2>1. /\ Send(data, T, kept, in_use, a.window)
          /\ R \subseteq {s \in unacked : s < a.seq}
          /\ tx_window' = a.window /\ last_rx_ack' = a.seq /\ acked' = acked \cup (R \cap in_use)
          /\ UNCHANGED <<abandoned, rxVars, acks>>
      BY <1>2, Zenon DEF HandleAck
    <2>2. /\ a.seq \in Nat /\ a.window \in {0, Window} /\ a.seq <= rx_seq_no
          /\ rx_seq_no \in Nat /\ unacked \subseteq Nat
      BY <1>0, Zenon DEF TypeOK, AcksGenuine
    <2>3. \A s \in R : s \in Nat /\ s < rx_seq_no
      BY <2>1, <2>2
    <2>4. /\ kept \in SUBSET unacked /\ in_use \in SUBSET kept
          /\ \A s \in unacked \ kept : s < rx_seq_no
      BY <1>0, <2>3, Zenon DEF BufferOwnership
    <2> HIDE DEF kept
    <2>5. /\ log' \in Seq(Payload)
          /\ sent' \subseteq Nat /\ unacked' \subseteq Nat /\ in_use' \subseteq Nat
          /\ pkts' \subseteq [seq : Nat, data : Payload]
          /\ Bookkeeping' /\ PktsGenuine' /\ InOrderDelivery' /\ KeptUntilAccepted'
          /\ in_use \subseteq in_use' /\ in_use' \subseteq unacked' /\ WindowRespected'
      BY <2>1, <2>2, <2>4, SendPreserves, Zenon
    <2>6. AcksGenuine' /\ acked' \subseteq Nat /\ acked' \subseteq in_use'
      BY <1>0, <2>1, <2>3, <2>5, Zenon DEF AcksGenuine, TypeOK, BufferOwnership, rxVars
    <2> QED  BY <1>0, <2>1, <2>2, <2>5, <2>6, Zenon DEF IInv, TypeOK, BufferOwnership, rxVars
  <1>3. ASSUME NEW data \in Transfers, NEW T, NEW s \in in_use, SendComp(s, data, T)
        PROVE  IInv'
    <2> DEFINE kept == IF s \in acked THEN unacked \ {s} ELSE unacked
    <2>1. /\ Send(data, T, kept, in_use \ {s}, tx_window) /\ acked' = acked \ {s}
          /\ UNCHANGED <<abandoned, last_rx_ack, tx_window, rxVars, acks>>
      BY <1>3, Zenon DEF SendComp
    <2>2. /\ kept \in SUBSET unacked /\ in_use \ {s} \in SUBSET kept /\ tx_window \in {0, Window}
          /\ \A r \in unacked \ kept : r < rx_seq_no
      BY <1>0, Zenon DEF BufferOwnership, AcksGenuine, TypeOK
    <2> HIDE DEF kept
    <2>3. /\ log' \in Seq(Payload)
          /\ sent' \subseteq Nat /\ unacked' \subseteq Nat /\ in_use' \subseteq Nat
          /\ pkts' \subseteq [seq : Nat, data : Payload]
          /\ Bookkeeping' /\ PktsGenuine' /\ InOrderDelivery' /\ KeptUntilAccepted'
          /\ in_use \ {s} \subseteq in_use' /\ in_use' \subseteq unacked' /\ WindowRespected'
      BY <2>1, <2>2, SendPreserves, Zenon
    <2> QED  BY <1>0, <2>1, <2>3, Zenon DEF IInv, TypeOK, AcksGenuine, BufferOwnership, rxVars
  <1>4. ASSUME NEW S, Resend(S)  PROVE IInv'
    <2> DEFINE new == {[seq |-> s, data |-> log[s + 1]] : s \in S}
    <2>1. /\ S \subseteq unacked /\ in_use' = in_use \cup S /\ pkts' = pkts \cup new
          /\ UNCHANGED <<log, sent, unacked, acked, abandoned, last_rx_ack, tx_window, rxVars, acks>>
      BY <1>4, Zenon DEF Resend
    <2>2. S \subseteq 0 .. Len(log) - 1 /\ log \in Seq(Payload) /\ Len(log) \in Nat
      BY <1>0, <2>1, LenProperties, Zenon DEF Bookkeeping, SeqNos, TypeOK
    <2>3. \A p \in new : /\ p \in [seq : Nat, data : Payload]
                         /\ p.seq \in 0 .. Len(log) - 1 /\ p.data = log[p.seq + 1]
      BY <2>2, PacketsOf, Zenon
    <2> HIDE DEF new
    <2>4. PktsGenuine' /\ pkts' \subseteq [seq : Nat, data : Payload]
      BY <1>0, <2>1, <2>3, Zenon DEF PktsGenuine, SeqNos, TypeOK
    <2>5. BufferOwnership' /\ in_use' \subseteq Nat
      BY <1>0, <2>1, Zenon DEF BufferOwnership, TypeOK
    <2> QED
      BY <1>0, <2>1, <2>4, <2>5 DEF IInv, TypeOK, Bookkeeping, SeqNos, AcksGenuine,
         InOrderDelivery, KeptUntilAccepted, WindowRespected, rxVars
  <1>5. ASSUME Abandon  PROVE IInv'
    <2>1. /\ abandoned' = abandoned \cup unacked /\ unacked' = {} /\ in_use' = {} /\ acked' = {}
          /\ UNCHANGED <<log, sent, last_rx_ack, tx_window, rxVars, pkts, acks>>
      BY <1>5, Zenon DEF Abandon
    <2>2. IsFiniteSet(unacked') /\ Cardinality(unacked') <= Window
      BY <2>1, FS_EmptySet, WindowAssumption
    <2> QED
      BY <1>0, <2>1, <2>2 DEF IInv, TypeOK, Bookkeeping, SeqNos, PktsGenuine, AcksGenuine,
         InOrderDelivery, KeptUntilAccepted, BufferOwnership, WindowRespected, rxVars
  <1>6. ASSUME NEW n \in Nat \ {0}, NEW A, Accept(n, A)  PROVE IInv'
    <2>1. /\ rx_seq_no' \in Nat /\ rx_seq_no <= rx_seq_no' /\ rx_seq_no' = rx_seq_no + n
          /\ delivered' \in Seq(Payload) /\ InOrderDelivery'
      BY <1>6, AcceptDelivers, Zenon
    <2>2. /\ rx_window' \in {rx_window, Window} /\ acks' = acks \cup A
          /\ A \subseteq {Ack(s, w) : s \in rx_seq_no .. rx_seq_no + n, w \in {rx_window, Window}}
          /\ UNCHANGED <<txVars, pkts>>
      BY <1>6 DEF Accept
    <2>3. rx_seq_no \in Nat /\ rx_window \in {0, Window}
      BY <1>0, Zenon DEF TypeOK
    <2>4. \A x \in A : x \in [seq : Nat, window : {0, Window}] /\ x.seq <= rx_seq_no'
      BY <2>1, <2>2, <2>3 DEF Ack
    <2>5. /\ sent \subseteq Nat /\ acked \subseteq Nat
          /\ acks \subseteq [seq : Nat, window : {0, Window}]
      BY <1>0, Zenon DEF TypeOK
    <2>6. AcksGenuine'
      BY <1>0, <2>1, <2>2, <2>3, <2>4, <2>5 DEF AcksGenuine, txVars
    <2>7. KeptUntilAccepted'
      BY <1>0, <2>1, <2>2, <2>3, <2>5 DEF KeptUntilAccepted, txVars
    <2>8. TypeOK'
      BY <1>0, <2>1, <2>2, <2>3, <2>4 DEF TypeOK, txVars
    <2> QED
      BY <1>0, <2>1, <2>2, <2>6, <2>7, <2>8, Zenon
      DEF IInv, Bookkeeping, SeqNos, PktsGenuine, BufferOwnership, WindowRespected, txVars
  <1>7. ASSUME NEW p \in pkts, Refuse(p)  PROVE IInv'
    <2>1. /\ rx_window' \in {0, rx_window} /\ acks' = acks \cup {Ack(rx_seq_no, rx_window')}
          /\ UNCHANGED <<txVars, rx_seq_no, delivered, pkts>>
      BY <1>7, Zenon DEF Refuse
    <2>2. TypeOK' /\ AcksGenuine'
      BY <1>0, <2>1, OwnAck, Zenon
    <2> QED  BY <1>0, <2>1, <2>2, RestUnchanged, Zenon DEF IInv
  <1>8. ASSUME AckAgain  PROVE IInv'
    <2>1. /\ rx_window' = rx_window /\ acks' = acks \cup {Ack(rx_seq_no, rx_window')}
          /\ UNCHANGED <<txVars, rx_seq_no, delivered, pkts>>
      BY <1>8, Zenon DEF AckAgain, rxVars
    <2>2. TypeOK' /\ AcksGenuine'
      BY <1>0, <2>1, OwnAck, Zenon
    <2> QED  BY <1>0, <2>1, <2>2, RestUnchanged, Zenon DEF IInv
  <1>9. ASSUME NEW P, NEW A, Lose(P, A)  PROVE IInv'
    <2>1. /\ pkts' \subseteq pkts /\ acks' \subseteq acks /\ UNCHANGED <<txVars, rxVars>>
      BY <1>9, Zenon DEF Lose
    <2>2. TypeOK'
      BY <1>0, <2>1, Zenon DEF TypeOK, txVars, rxVars
    <2>3. PktsGenuine' /\ AcksGenuine'
      BY <1>0, <2>1, Zenon DEF PktsGenuine, AcksGenuine, SeqNos, txVars, rxVars
    <2>4. Bookkeeping' /\ InOrderDelivery' /\ KeptUntilAccepted' /\ BufferOwnership' /\ WindowRespected'
      BY <1>0, <2>1 DEF Bookkeeping, SeqNos, InOrderDelivery, KeptUntilAccepted, BufferOwnership,
         WindowRespected, txVars, rxVars
    <2> QED  BY <2>2, <2>3, <2>4, Zenon DEF IInv
  <1>10. CASE UNCHANGED vars
    BY <1>0, <1>10 DEF vars, IInv, TypeOK, Bookkeeping, SeqNos, PktsGenuine, AcksGenuine,
       InOrderDelivery, KeptUntilAccepted, BufferOwnership, WindowRespected, txVars, rxVars
  <1>11. Len(log) \in Nat
    BY <1>0, LenProperties, Zenon DEF TypeOK
  <1> QED
    BY <1>1, <1>2, <1>3, <1>4, <1>5, <1>6, <1>7, <1>8, <1>9, <1>10, <1>11 DEF Next

\* The inductive invariant holds in every state.
THEOREM Invariance == Spec => []IInv
  <1>1. Init => IInv
    <2> SUFFICES ASSUME Init  PROVE IInv
      BY Zenon
    <2>1. IsFiniteSet({}) /\ Cardinality({}) = 0
      BY FS_EmptySet, Zenon
    <2>2. /\ <<>> \in Seq(Payload) /\ Len(<<>>) = 0
          /\ <<>> = [i \in 1 .. 0 |-> <<>>[i]]
      OBVIOUS
    <2>3. InOrderDelivery
      BY <2>2 DEF Init, InOrderDelivery
    <2>4. Bookkeeping /\ WindowRespected
      BY <2>1, WindowAssumption DEF Init, Bookkeeping, WindowRespected
    <2> QED
      BY <2>2, <2>3, <2>4, WindowAssumption, Zenon
      DEF Init, IInv, TypeOK, PktsGenuine, AcksGenuine, KeptUntilAccepted, BufferOwnership
  <1> QED  BY <1>1, Inductive, PTL DEF Spec

\* The fields of struct rxd_peer and the packets keep their types; in particular
\* the windows only ever are closed or rxd_env.max_unacked.
THEOREM TypeCorrect == Spec => []TypeOK
  <1>1. IInv => TypeOK
    BY Zenon DEF IInv
  <1> QED  BY <1>1, Invariance, PTL

\* What rxd_handle_op and rxd_handle_data accept is what was numbered, in order,
\* once each, over a network that loses, duplicates and reorders.
THEOREM Delivery == Spec => []InOrderDelivery
  <1>1. IInv => InOrderDelivery
    BY Zenon DEF IInv
  <1> QED  BY <1>1, Invariance, PTL

\* rxd_handle_ack and rxd_handle_send_comp drop no packet that may still have to
\* be sent again.
THEOREM Retention == Spec => []KeptUntilAccepted
  <1>1. IInv => KeptUntilAccepted
    BY Zenon DEF IInv
  <1> QED  BY <1>1, Invariance, PTL

\* peer->unacked never holds more than rxd_env.max_unacked packets.
THEOREM FlowControl == Spec => []WindowRespected
  <1>1. IInv => WindowRespected
    BY Zenon DEF IInv
  <1> QED  BY <1>1, Invariance, PTL

\* An acknowledged packet is freed only after its send completion, so that
\* RXD_PKT_ACKED without RXD_PKT_IN_USE never occurs.
THEOREM Ownership == Spec => []BufferOwnership
  <1>1. IInv => BufferOwnership
    BY Zenon DEF IInv
  <1> QED  BY <1>1, Invariance, PTL
=============================================================================
