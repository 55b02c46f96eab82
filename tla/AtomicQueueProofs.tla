------------------------- MODULE AtomicQueueProofs -------------------------
(***************************************************************************)
(* Proofs about the atomic queue, for any number of producers and          *)
(* consumers and any Size of at least two.                                 *)
(***************************************************************************)
EXTENDS AtomicQueue, TLAPS

(***************************************************************************)
(* Two positions of the same slot are at least a lap apart.                *)
(***************************************************************************)
LEMMA DivMod ==
    ASSUME NEW p \in Nat
    PROVE  p = Size * (p \div Size) + (p % Size) /\ p % Size \in Slots /\ p \div Size \in Int
BY SizeAssumption DEF Slots

LEMMA PositiveMultiple ==
    ASSUME NEW k \in Int, Size * k > 0
    PROVE  Size * k >= Size
BY SizeAssumption

LEMMA LapApart ==
    ASSUME NEW p \in Nat, NEW q \in Nat, p < q, Slot(p) = Slot(q)
    PROVE  p + Size <= q
<1> DEFINE a == p \div Size
           b == q \div Size
<1>1. p = Size * a + (p % Size) /\ q = Size * b + (q % Size)
      /\ a \in Int /\ b \in Int /\ p % Size \in Int /\ p % Size = q % Size
  BY DivMod DEF Slots, Slot
<1> HIDE DEF a, b
<1>2. q - p = Size * (b - a)
  BY <1>1, SizeAssumption
<1>3. Size * (b - a) >= Size
  BY <1>1, <1>2, PositiveMultiple
<1> QED
  BY <1>2, <1>3, SizeAssumption

(***************************************************************************)
(* A position and the one a lap later share a slot.                        *)
(***************************************************************************)
LEMMA NextLap ==
    ASSUME NEW p \in Nat
    PROVE  Slot(p + Size) = Slot(p)
<1> DEFINE a == p \div Size
           b == (p + Size) \div Size
           r == p % Size
           s == (p + Size) % Size
<1>1. p = Size * a + r /\ a \in Int /\ r \in Slots
  BY DivMod, Zenon
<1>0. p + Size \in Nat
  BY SizeAssumption
<1>2. p + Size = Size * b + s /\ b \in Int /\ s \in Slots
  BY <1>0, DivMod, Zenon
<1> HIDE DEF a, b, r, s
<1>3. Size * (b - (a + 1)) = r - s
  BY <1>1, <1>2, SizeAssumption DEF Slots
<1>4. Size * ((a + 1) - b) = s - r
  BY <1>1, <1>2, SizeAssumption DEF Slots
<1>5. ~(r > s)
  BY <1>1, <1>2, <1>3, PositiveMultiple, SizeAssumption DEF Slots
<1>6. ~(s > r)
  BY <1>1, <1>2, <1>4, PositiveMultiple, SizeAssumption DEF Slots
<1>7. r = s
  BY <1>1, <1>2, <1>5, <1>6 DEF Slots
<1> QED
  BY <1>7, Zenon DEF Slot, r, s

LEMMA SlotOfSlot ==
    ASSUME NEW i \in Slots
    PROVE  i \in Nat /\ Slot(i) = i
BY SizeAssumption DEF Slots, Slot

LEMMA SlotType ==
    ASSUME NEW p \in Nat
    PROVE  Slot(p) \in Slots
BY DivMod, Zenon DEF Slot

-----------------------------------------------------------------------------
(***************************************************************************)
(* With Size of at least two, seq tells the two states of a position q of  *)
(* its slot apart.                                                         *)
(***************************************************************************)
LEMMA SlotCase ==
    ASSUME Size > 1, IInv, NEW q \in Nat
    PROVE  /\ Slot(q) \in Slots /\ seq[Slot(q)] \in Nat
           /\ seq[Slot(q)] = q => Waits(Slot(q)) /\ ~HandedOver(Slot(q))
           /\ seq[Slot(q)] = q + 1 => HandedOver(Slot(q)) /\ ~Waits(Slot(q))
<1>1. Slot(q) \in Slots /\ seq[Slot(q)] \in Nat /\ SlotInv(Slot(q))
  BY SlotType, Zenon DEF IInv, TypeOK
<1>2. Slot(q + 1) # Slot(q)
  BY LapApart, SizeAssumption
<1>3. q >= 1 => Slot(q - 1) # Slot(q)
  BY LapApart, SizeAssumption
<1> QED
  BY <1>1, <1>2, <1>3, Zenon DEF SlotInv, Waits, HandedOver

(***************************************************************************)
(* An entry is in the hands of one thread.                                 *)
(***************************************************************************)
LEMMA HolderLemma ==
    ASSUME Size > 1, IInv
    PROVE  OneHolder
<1> SUFFICES ASSUME NEW t \in Writing \cup Reading, NEW u \in Writing \cup Reading,
                    Slot(pos[t]) = Slot(pos[u])
             PROVE  t = u
  BY Zenon DEF OneHolder
<1>1. pos[t] \in Nat /\ pos[u] \in Nat
  BY Zenon DEF IInv, TypeOK, Threads, Writing, Reading
<1>2. t \in Writing => seq[Slot(pos[t])] = pos[t]
  BY Zenon DEF IInv, ProducerInv, Writing
<1>3. u \in Writing => seq[Slot(pos[u])] = pos[u]
  BY Zenon DEF IInv, ProducerInv, Writing
<1>4. t \in Reading => seq[Slot(pos[t])] = pos[t] + 1
  BY Zenon DEF IInv, ConsumerInv, Reading
<1>5. u \in Reading => seq[Slot(pos[u])] = pos[u] + 1
  BY Zenon DEF IInv, ConsumerInv, Reading
<1>6. CASE t \in Writing /\ u \in Writing
  BY <1>1, <1>2, <1>3, <1>6, Zenon DEF IInv
<1>7. CASE t \in Reading /\ u \in Reading
  BY <1>1, <1>4, <1>5, <1>7 DEF IInv
<1>8. CASE t \in Writing /\ u \in Reading
  BY <1>1, <1>2, <1>5, <1>8, SlotCase, Zenon
<1>9. CASE t \in Reading /\ u \in Writing
  BY <1>1, <1>3, <1>4, <1>9, SlotCase, Zenon
<1> QED
  BY <1>6, <1>7, <1>8, <1>9, Zenon

(***************************************************************************)
(* When a position below write_pos is claimed or handed over, the earlier  *)
(* positions of its slot are done with and there are no later ones.        *)
(***************************************************************************)
LEMMA LapDone ==
    ASSUME Size > 1, IInv, NEW q \in Nat, q < write_pos, seq[Slot(q)] \in {q, q + 1},
           NEW p \in Nat, p < write_pos, p # q, Slot(p) = Slot(q)
    PROVE  p + Size <= q /\ p < read_pos /\ seq[Slot(p)] # p + 1
<1>1. write_pos \in Nat /\ read_pos \in Nat /\ write_pos <= read_pos + Size
  BY Zenon DEF IInv, TypeOK
<1>2. write_pos <= q + Size
  BY <1>1, SlotCase, SizeAssumption DEF Waits, HandedOver
<1>3. ~(q < p)
  BY <1>1, <1>2, LapApart, SizeAssumption
<1>4. p + Size <= q
  BY <1>3, LapApart
<1>5. p < read_pos
  BY <1>1, <1>4, SizeAssumption
<1> QED
  BY <1>4, <1>5, SizeAssumption

(***************************************************************************)
(* A producer whose compare-and-swap succeeds finds the entry it saw: the  *)
(* slot still waits for its position.                                      *)
(***************************************************************************)
LEMMA CasNextHolds ==
    ASSUME Size > 1, IInv, NEW t \in Producers, pc[t] = "cas", write_pos = pos[t]
    PROVE  seq[Slot(pos[t])] = pos[t] /\ ~noop[Slot(pos[t])] /\ pos[t] < read_pos + Size
<1> DEFINE i == Slot(pos[t])
<1>1. /\ write_pos \in Nat /\ read_pos \in Nat /\ write_pos <= read_pos + Size
      /\ read_pos <= write_pos /\ pos[t] \in Nat /\ i \in Slots /\ seq[i] \in Nat
      /\ seq[i] >= pos[t] /\ SlotInv(i)
  BY SlotType, Zenon DEF IInv, TypeOK, Threads, ProducerInv
<1>2. HandedOver(i) => FALSE
  <2>1. ASSUME HandedOver(i) PROVE FALSE
    <3>1. seq[i] = pos[t]
      BY <1>1, <2>1 DEF HandedOver
    <3> QED
      BY <1>1, <2>1, <3>1, SlotCase, Zenon
  <2> QED
    BY <2>1, Zenon
<1>3. Waits(i)
  BY <1>1, <1>2, Zenon DEF SlotInv
<1>4. ~(seq[i] > pos[t])
  BY <1>1, <1>3, LapApart, SizeAssumption DEF Waits
<1> QED
  BY <1>1, <1>3, <1>4 DEF SlotInv, Waits

LEMMA CasHeadHolds ==
    ASSUME Size > 1, IInv, NEW t \in Consumers, pc[t] = "cas", read_pos = pos[t]
    PROVE  seq[Slot(pos[t])] = pos[t] + 1 /\ pos[t] < write_pos
<1> DEFINE i == Slot(pos[t])
<1>1. /\ write_pos \in Nat /\ read_pos \in Nat /\ write_pos <= read_pos + Size
      /\ read_pos <= write_pos /\ pos[t] \in Nat /\ i \in Slots /\ seq[i] \in Nat
      /\ seq[i] >= pos[t] + 1 /\ SlotInv(i)
  BY SlotType, Zenon DEF IInv, TypeOK, Threads, ConsumerInv
<1>2. ~Waits(i)
  BY <1>1, LapApart, SizeAssumption DEF Waits
<1>3. HandedOver(i)
  BY <1>1, <1>2, Zenon DEF SlotInv
<1>4. ~(seq[i] - 1 > pos[t])
  <2>1. ASSUME seq[i] - 1 > pos[t] PROVE FALSE
    <3>1. pos[t] + Size <= seq[i] - 1
      BY <1>1, <1>3, <2>1, LapApart DEF HandedOver
    <3> QED
      BY <1>1, <1>3, <3>1, SizeAssumption DEF HandedOver
  <2> QED
    BY <2>1, Zenon
<1> QED
  BY <1>1, <1>3, <1>4 DEF HandedOver

-----------------------------------------------------------------------------
(***************************************************************************)
(* A step that changes only where a thread is, to a place where it holds   *)
(* nothing, or on from where it holds an entry, preserves the invariant.   *)
(***************************************************************************)
LEMMA MoveProducer ==
    ASSUME IInv, NEW t \in Producers, NEW l \in PCs, NEW p \in Nat,
           UNCHANGED <<write_pos, read_pos, entries>>,
           pc' = [pc EXCEPT ![t] = l], pos' = [pos EXCEPT ![t] = p],
           l \in {"idle", "load", "seq", "cas"},
           l \in {"seq", "cas"} => p <= write_pos,
           l = "cas" => seq[Slot(p)] >= p
    PROVE  IInv'
<1>0. t \in Threads /\ pc \in [Threads -> PCs] /\ pos \in [Threads -> Nat]
  BY Zenon DEF IInv, TypeOK, Threads
<1>1. TypeOK'
  BY <1>0, Zenon DEF IInv, TypeOK, entries
<1>2. \A i \in Slots : SlotInv(i)'
  BY Zenon DEF IInv, SlotInv, Waits, HandedOver, entries
<1>3. \A u \in Producers : ProducerInv(u)'
  BY <1>0, Zenon DEF IInv, ProducerInv, entries, Threads
<1>4. \A u \in Consumers : ConsumerInv(u)'
  BY <1>0, ThreadsAssumption, Zenon DEF IInv, ConsumerInv, entries, Threads
<1>5. Writing' \subseteq Writing /\ \A u \in Writing' : pos'[u] = pos[u]
  BY <1>0, Zenon DEF Writing, Threads
<1>6. Reading' = Reading /\ \A u \in Reading' : pos'[u] = pos[u]
  BY <1>0, ThreadsAssumption, Zenon DEF Reading, Threads
<1> QED
  BY <1>1, <1>2, <1>3, <1>4, <1>5, <1>6 DEF IInv, entries

LEMMA MoveConsumer ==
    ASSUME IInv, NEW t \in Consumers, NEW l \in PCs, NEW p \in Nat,
           UNCHANGED <<write_pos, read_pos, entries>>,
           pc' = [pc EXCEPT ![t] = l], pos' = [pos EXCEPT ![t] = p],
           \/ l \in {"idle", "load", "seq", "cas"}
           \/ l = "reading" /\ pc[t] = "got" /\ ~noop[Slot(p)] /\ p = pos[t],
           l \in {"seq", "cas"} => p <= read_pos,
           l = "cas" => seq[Slot(p)] >= p + 1
    PROVE  IInv'
<1>0. t \in Threads /\ pc \in [Threads -> PCs] /\ pos \in [Threads -> Nat]
  BY Zenon DEF IInv, TypeOK, Threads
<1>1. TypeOK'
  BY <1>0, Zenon DEF IInv, TypeOK, entries
<1>2. \A i \in Slots : SlotInv(i)'
  BY Zenon DEF IInv, SlotInv, Waits, HandedOver, entries
<1>3. \A u \in Producers : ProducerInv(u)'
  BY <1>0, ThreadsAssumption, Zenon DEF IInv, ProducerInv, entries, Threads
<1>4. \A u \in Consumers : ConsumerInv(u)'
  BY <1>0, Zenon DEF IInv, ConsumerInv, entries, Threads
<1>5. Writing' = Writing /\ \A u \in Writing' : pos'[u] = pos[u]
  BY <1>0, ThreadsAssumption, Zenon DEF Writing, Threads
<1>6. Reading' \subseteq Reading /\ \A u \in Reading' : pos'[u] = pos[u]
  BY <1>0, Zenon DEF Reading, Threads
<1> QED
  BY <1>1, <1>2, <1>3, <1>4, <1>5, <1>6 DEF IInv, entries

(***************************************************************************)
(* A successful compare-and-swap moves one of the two positions.           *)
(***************************************************************************)
LEMMA ClaimKeeps ==
    ASSUME Size > 1, IInv, NEW t \in Producers, NextCas(t)
    PROVE  IInv'
<1>0. /\ t \in Threads /\ pc \in [Threads -> PCs] /\ pos \in [Threads -> Nat]
      /\ write_pos \in Nat /\ read_pos \in Nat /\ write_pos = pos[t] /\ pc[t] = "cas"
      /\ pc' = [pc EXCEPT ![t] = "own"] /\ pos' = pos /\ write_pos' = write_pos + 1
      /\ UNCHANGED <<read_pos, seq, noop, buf>>
  BY Zenon DEF IInv, TypeOK, Threads, NextCas, Goto, entries
<1>h. seq[Slot(pos[t])] = pos[t] /\ ~noop[Slot(pos[t])] /\ pos[t] < read_pos + Size
  BY <1>0, CasNextHolds, Zenon
<1>1. TypeOK'
  BY <1>0 DEF IInv, TypeOK, PCs
<1>p. (read_pos <= write_pos /\ write_pos <= read_pos + Size)'
  BY <1>0, <1>h, SizeAssumption DEF IInv
<1>2. \A i \in Slots : SlotInv(i)'
  <2> SUFFICES ASSUME NEW i \in Slots PROVE SlotInv(i)'
    BY Zenon
  <2>1. SlotInv(i) /\ seq[i] \in Nat
    BY Zenon DEF IInv, TypeOK
  <2>2. CASE Waits(i)
    BY <1>0, <2>1, <2>2 DEF SlotInv, Waits, HandedOver
  <2>3. CASE HandedOver(i)
    <3>1. write_pos + 1 # seq[i] + Size
      <4>1. ASSUME write_pos + 1 = seq[i] + Size PROVE FALSE
        <5>1. seq[i] - 1 \in Nat /\ Slot(seq[i] - 1) = i /\ pos[t] = (seq[i] - 1) + Size
          BY <1>0, <2>1, <2>3, <4>1, SizeAssumption DEF HandedOver
        <5>2. Slot(pos[t]) = i
          BY <5>1, NextLap, Zenon
        <5> QED
          BY <1>0, <1>h, <2>1, <2>3, <5>2, SlotCase, Zenon
      <4> QED
        BY <4>1, Zenon
    <3> QED
      BY <1>0, <2>1, <2>3, <3>1, SizeAssumption DEF SlotInv, Waits, HandedOver
  <2> QED
    BY <2>1, <2>2, <2>3, Zenon DEF SlotInv
<1>3. \A u \in Producers : ProducerInv(u)'
  BY <1>0, <1>h DEF IInv, ProducerInv, Threads
<1>4. \A u \in Consumers : ConsumerInv(u)'
  BY <1>0, ThreadsAssumption, Zenon DEF IInv, ConsumerInv, Threads
<1>5. Writing' = Writing \cup {t} /\ \A u \in Writing : pos[u] < write_pos
  BY <1>0, Zenon DEF Writing, Threads, IInv, ProducerInv
<1>6. Reading' = Reading
  BY <1>0, ThreadsAssumption, Zenon DEF Reading, Threads
<1>7. \A u \in Writing : pos[u] \in Nat
  BY <1>0, Zenon DEF Writing, Threads
<1> QED
  BY <1>0, <1>1, <1>p, <1>2, <1>3, <1>4, <1>5, <1>6, <1>7 DEF IInv

LEMMA TakeKeeps ==
    ASSUME Size > 1, IInv, NEW t \in Consumers, HeadCas(t)
    PROVE  IInv'
<1>0. /\ t \in Threads /\ pc \in [Threads -> PCs] /\ pos \in [Threads -> Nat]
      /\ write_pos \in Nat /\ read_pos \in Nat /\ read_pos = pos[t] /\ pc[t] = "cas"
      /\ pc' = [pc EXCEPT ![t] = "got"] /\ pos' = pos /\ read_pos' = read_pos + 1
      /\ UNCHANGED <<write_pos, seq, noop, buf>>
  BY Zenon DEF IInv, TypeOK, Threads, HeadCas, Goto, entries
<1>h. seq[Slot(pos[t])] = pos[t] + 1 /\ pos[t] < write_pos
  BY <1>0, CasHeadHolds, Zenon
<1>1. TypeOK'
  BY <1>0 DEF IInv, TypeOK, PCs
<1>p. (read_pos <= write_pos /\ write_pos <= read_pos + Size)'
  BY <1>0, <1>h, SizeAssumption DEF IInv
<1>2. \A i \in Slots : SlotInv(i)'
  <2> SUFFICES ASSUME NEW i \in Slots PROVE SlotInv(i)'
    BY Zenon
  <2>1. SlotInv(i) /\ seq[i] \in Nat
    BY Zenon DEF IInv, TypeOK
  <2>2. CASE HandedOver(i)
    <3>1. Slot(seq[i]) # i
      BY <2>1, <2>2, LapApart, SizeAssumption DEF HandedOver
    <3> QED
      BY <1>0, <2>1, <2>2, <3>1, Zenon DEF SlotInv, Waits, HandedOver
  <2>3. CASE Waits(i)
    <3>1. seq[i] # pos[t]
      <4>1. ASSUME seq[i] = pos[t] PROVE FALSE
        <5>1. Slot(pos[t]) = i
          BY <2>3, <4>1, Zenon DEF Waits
        <5> QED
          BY <1>h, <4>1, <5>1, <1>0
      <4> QED
        BY <4>1, Zenon
    <3> QED
      BY <1>0, <2>1, <2>3, <3>1, SizeAssumption DEF SlotInv, Waits
  <2> QED
    BY <2>1, <2>2, <2>3, Zenon DEF SlotInv
<1>3. \A u \in Producers : ProducerInv(u)'
  BY <1>0, ThreadsAssumption, Zenon DEF IInv, ProducerInv, Threads
<1>4. \A u \in Consumers : ConsumerInv(u)'
  BY <1>0, <1>h DEF IInv, ConsumerInv, Threads
<1>5. Reading' = Reading \cup {t} /\ \A u \in Reading : pos[u] < read_pos
  BY <1>0, Zenon DEF Reading, Threads, IInv, ConsumerInv
<1>6. Writing' = Writing
  BY <1>0, ThreadsAssumption, Zenon DEF Writing, Threads
<1>7. \A u \in Reading : pos[u] \in Nat
  BY <1>0, Zenon DEF Reading, Threads
<1> QED
  BY <1>0, <1>1, <1>p, <1>2, <1>3, <1>4, <1>5, <1>6, <1>7 DEF IInv

(***************************************************************************)
(* A holder writes to its own entry only.                                  *)
(***************************************************************************)
LEMMA OthersElsewhere ==
    ASSUME Size > 1, IInv, NEW t \in Writing \cup Reading
    PROVE  /\ \A u \in Producers : u # t /\ pc[u] \in {"own", "filled", "voided"}
                                     => Slot(pos[u]) # Slot(pos[t])
           /\ \A u \in Consumers : u # t /\ pc[u] \in {"got", "cleared", "reading"}
                                     => Slot(pos[u]) # Slot(pos[t])
BY HolderLemma, Zenon DEF OneHolder, Writing, Reading

LEMMA FillKeeps ==
    ASSUME Size > 1, IInv, NEW t \in Producers, NEW v \in Value, Fill(t, v)
    PROVE  IInv'
<1>0. /\ t \in Threads /\ pc \in [Threads -> PCs] /\ pos \in [Threads -> Nat]
      /\ Slot(pos[t]) \in Slots /\ buf \in [Slots -> Value \cup {None}]
      /\ \A u \in Threads : pos[u] \in Nat /\ Slot(pos[u]) \in Slots
  BY SlotType, Zenon DEF IInv, TypeOK, Threads
<1>a. /\ pc[t] = "own" /\ pc' = [pc EXCEPT ![t] = "filled"] /\ pos' = pos
      /\ buf' = [buf EXCEPT ![Slot(pos[t])] = v]
      /\ UNCHANGED <<write_pos, read_pos, seq, noop>>
  BY <1>0, Zenon DEF Fill, Goto
<1>b. \A u \in Producers : u # t /\ pc[u] \in {"own", "filled", "voided"}
                             => Slot(pos[u]) # Slot(pos[t])
  BY <1>a, OthersElsewhere, Zenon DEF Writing
<1>1. TypeOK'
  BY <1>0, <1>a, Zenon DEF IInv, TypeOK, PCs
<1>2. \A i \in Slots : SlotInv(i)'
  BY <1>a, Zenon DEF IInv, SlotInv, Waits, HandedOver
<1>3. \A u \in Producers : ProducerInv(u)'
  BY <1>0, <1>a, <1>b, Zenon DEF IInv, ProducerInv, Threads
<1>4. \A u \in Consumers : ConsumerInv(u)'
  BY <1>0, <1>a, ThreadsAssumption, Zenon DEF IInv, ConsumerInv, Threads
<1>5. Writing' = Writing /\ Reading' = Reading
  BY <1>0, <1>a, ThreadsAssumption, Zenon DEF Writing, Reading, Threads
<1> QED
  BY <1>a, <1>1, <1>2, <1>3, <1>4, <1>5, Zenon DEF IInv

LEMMA VoidKeeps ==
    ASSUME Size > 1, IInv, NEW t \in Producers, DiscardNoop(t)
    PROVE  IInv'
<1>0. /\ t \in Threads /\ pc \in [Threads -> PCs] /\ pos \in [Threads -> Nat]
      /\ Slot(pos[t]) \in Slots /\ noop \in [Slots -> BOOLEAN]
      /\ \A u \in Threads : pos[u] \in Nat /\ Slot(pos[u]) \in Slots
      /\ write_pos \in Nat
  BY SlotType, Zenon DEF IInv, TypeOK, Threads
<1>a. /\ pc[t] \in {"own", "filled"} /\ pc' = [pc EXCEPT ![t] = "voided"] /\ pos' = pos
      /\ noop' = [noop EXCEPT ![Slot(pos[t])] = TRUE]
      /\ UNCHANGED <<write_pos, read_pos, seq, buf>>
  BY <1>0, Zenon DEF DiscardNoop, Goto
<1>b. /\ \A u \in Producers : u # t /\ pc[u] \in {"own", "filled", "voided"}
                                => Slot(pos[u]) # Slot(pos[t])
      /\ \A u \in Consumers : u # t /\ pc[u] \in {"got", "cleared", "reading"}
                                => Slot(pos[u]) # Slot(pos[t])
  BY <1>a, OthersElsewhere, Zenon DEF Writing
<1>c. pos[t] < write_pos /\ seq[Slot(pos[t])] = pos[t]
  BY <1>a, Zenon DEF IInv, ProducerInv
<1>1. TypeOK'
  BY <1>0, <1>a, Zenon DEF IInv, TypeOK, PCs
<1>2. \A i \in Slots : SlotInv(i)'
  BY <1>0, <1>a, <1>c DEF IInv, SlotInv, Waits, HandedOver
<1>3. \A u \in Producers : ProducerInv(u)'
  BY <1>0, <1>a, <1>b, Zenon DEF IInv, ProducerInv, Threads
<1>4. \A u \in Consumers : ConsumerInv(u)'
  BY <1>0, <1>a, <1>b, ThreadsAssumption, Zenon DEF IInv, ConsumerInv, Threads
<1>5. Writing' = Writing /\ Reading' = Reading
  BY <1>0, <1>a, ThreadsAssumption, Zenon DEF Writing, Reading, Threads
<1> QED
  BY <1>a, <1>1, <1>2, <1>3, <1>4, <1>5, Zenon DEF IInv

LEMMA ClearKeeps ==
    ASSUME Size > 1, IInv, NEW t \in Consumers, HeadClearsNoop(t)
    PROVE  IInv'
<1>0. /\ t \in Threads /\ pc \in [Threads -> PCs] /\ pos \in [Threads -> Nat]
      /\ Slot(pos[t]) \in Slots /\ noop \in [Slots -> BOOLEAN]
      /\ \A u \in Threads : pos[u] \in Nat /\ Slot(pos[u]) \in Slots
  BY SlotType, Zenon DEF IInv, TypeOK, Threads
<1>a. /\ pc[t] = "got" /\ pc' = [pc EXCEPT ![t] = "cleared"] /\ pos' = pos
      /\ noop' = [noop EXCEPT ![Slot(pos[t])] = FALSE]
      /\ UNCHANGED <<write_pos, read_pos, seq, buf>>
  BY <1>0, Zenon DEF HeadClearsNoop, Goto
<1>b. /\ \A u \in Producers : u # t /\ pc[u] \in {"own", "filled", "voided"}
                                => Slot(pos[u]) # Slot(pos[t])
      /\ \A u \in Consumers : u # t /\ pc[u] \in {"got", "cleared", "reading"}
                                => Slot(pos[u]) # Slot(pos[t])
  BY <1>a, OthersElsewhere, Zenon DEF Reading
<1>1. TypeOK'
  BY <1>0, <1>a, Zenon DEF IInv, TypeOK, PCs
<1>2. \A i \in Slots : SlotInv(i)'
  BY <1>0, <1>a, Zenon DEF IInv, SlotInv, Waits, HandedOver
<1>3. \A u \in Producers : ProducerInv(u)'
  BY <1>0, <1>a, <1>b, ThreadsAssumption, Zenon DEF IInv, ProducerInv, Threads
<1>4. \A u \in Consumers : ConsumerInv(u)'
  BY <1>0, <1>a, <1>b, Zenon DEF IInv, ConsumerInv, Threads
<1>5. Writing' = Writing /\ Reading' = Reading
  BY <1>0, <1>a, ThreadsAssumption, Zenon DEF Writing, Reading, Threads
<1> QED
  BY <1>a, <1>1, <1>2, <1>3, <1>4, <1>5, Zenon DEF IInv

(***************************************************************************)
(* The two stores to seq: the producer hands its position over, and the    *)
(* consumer releases it for the next lap.                                  *)
(***************************************************************************)
LEMMA HandoverKeeps ==
    ASSUME Size > 1, IInv, NEW t \in Producers, Commit(t) \/ Discard(t)
    PROVE  IInv'
<1>0. /\ t \in Threads /\ pc \in [Threads -> PCs] /\ pos \in [Threads -> Nat]
      /\ Slot(pos[t]) \in Slots /\ seq \in [Slots -> Nat]
      /\ \A u \in Threads : pos[u] \in Nat /\ Slot(pos[u]) \in Slots
      /\ write_pos \in Nat /\ read_pos \in Nat /\ write_pos <= read_pos + Size
  BY SlotType, Zenon DEF IInv, TypeOK, Threads
<1>a. /\ pc[t] \in {"filled", "voided"}
      /\ pc' = [pc EXCEPT ![t] = "idle"] /\ pos' = [pos EXCEPT ![t] = 0]
      /\ seq' = [seq EXCEPT ![Slot(pos[t])] = pos[t] + 1]
      /\ UNCHANGED <<write_pos, read_pos, noop, buf>>
  BY <1>0, Zenon DEF Commit, Discard, Handover, Goto
<1>b. /\ \A u \in Producers : u # t /\ pc[u] \in {"own", "filled", "voided"}
                                => Slot(pos[u]) # Slot(pos[t])
      /\ \A u \in Consumers : u # t /\ pc[u] \in {"got", "cleared", "reading"}
                                => Slot(pos[u]) # Slot(pos[t])
  BY <1>a, OthersElsewhere, Zenon DEF Writing
<1>c. pos[t] < write_pos /\ seq[Slot(pos[t])] = pos[t]
  BY <1>a, Zenon DEF IInv, ProducerInv
<1>d. Waits(Slot(pos[t])) /\ Slot(pos[t] + 1) # Slot(pos[t])
  BY <1>0, <1>c, SlotCase, LapApart, SizeAssumption
<1>1. TypeOK'
  BY <1>0, <1>a DEF IInv, TypeOK, PCs
<1>2. \A i \in Slots : SlotInv(i)'
  <2> SUFFICES ASSUME NEW i \in Slots PROVE SlotInv(i)'
    BY Zenon
  <2>1. CASE i # Slot(pos[t])
    BY <1>0, <1>a, <2>1, Zenon DEF IInv, SlotInv, Waits, HandedOver
  <2>2. CASE i = Slot(pos[t])
    <3>1. HandedOver(i)'
      BY <1>0, <1>a, <1>c, <1>d, <2>2, SizeAssumption DEF Waits, HandedOver
    <3>2. ~Waits(i)'
      BY <1>0, <1>a, <1>d, <2>2, Zenon DEF Waits
    <3> QED
      BY <3>1, <3>2, Zenon DEF SlotInv
  <2> QED
    BY <2>1, <2>2, Zenon
<1>3. \A u \in Producers : ProducerInv(u)'
  BY <1>0, <1>a, <1>b, <1>c DEF IInv, ProducerInv, Threads
<1>4. \A u \in Consumers : ConsumerInv(u)'
  BY <1>0, <1>a, <1>b, <1>c, ThreadsAssumption DEF IInv, ConsumerInv, Threads
<1>5. Writing' \subseteq Writing /\ \A u \in Writing' : pos'[u] = pos[u]
  BY <1>0, <1>a, Zenon DEF Writing, Threads
<1>6. Reading' = Reading /\ \A u \in Reading' : pos'[u] = pos[u]
  BY <1>0, <1>a, ThreadsAssumption, Zenon DEF Reading, Threads
<1> QED
  BY <1>a, <1>1, <1>2, <1>3, <1>4, <1>5, <1>6 DEF IInv

LEMMA ReleaseKeeps ==
    ASSUME Size > 1, IInv, NEW t \in Consumers, HeadReleases(t) \/ Release(t)
    PROVE  IInv'
<1>0. /\ t \in Threads /\ pc \in [Threads -> PCs] /\ pos \in [Threads -> Nat]
      /\ Slot(pos[t]) \in Slots /\ seq \in [Slots -> Nat]
      /\ \A u \in Threads : pos[u] \in Nat /\ Slot(pos[u]) \in Slots
      /\ write_pos \in Nat /\ read_pos \in Nat /\ write_pos <= read_pos + Size
  BY SlotType, Zenon DEF IInv, TypeOK, Threads
<1>a. PICK l \in {"idle", "load"} :
      /\ pc[t] \in {"cleared", "reading"}
      /\ pc' = [pc EXCEPT ![t] = l] /\ pos' = [pos EXCEPT ![t] = 0]
      /\ seq' = [seq EXCEPT ![Slot(pos[t])] = pos[t] + Size]
      /\ UNCHANGED <<write_pos, read_pos, noop, buf>>
  BY <1>0, Zenon DEF HeadReleases, Release, ReleaseFrom, Goto
<1>b. /\ \A u \in Producers : u # t /\ pc[u] \in {"own", "filled", "voided"}
                                => Slot(pos[u]) # Slot(pos[t])
      /\ \A u \in Consumers : u # t /\ pc[u] \in {"got", "cleared", "reading"}
                                => Slot(pos[u]) # Slot(pos[t])
  BY <1>a, OthersElsewhere, Zenon DEF Reading
<1>c. pos[t] < read_pos /\ seq[Slot(pos[t])] = pos[t] + 1 /\ ~noop[Slot(pos[t])]
  BY <1>a, Zenon DEF IInv, ConsumerInv
<1>d. HandedOver(Slot(pos[t])) /\ Slot(pos[t] + Size) = Slot(pos[t])
  BY <1>0, <1>c, SlotCase, NextLap, Zenon
<1>1. TypeOK'
  BY <1>0, <1>a, SizeAssumption DEF IInv, TypeOK, PCs
<1>2. \A i \in Slots : SlotInv(i)'
  <2> SUFFICES ASSUME NEW i \in Slots PROVE SlotInv(i)'
    BY Zenon
  <2>1. CASE i # Slot(pos[t])
    BY <1>0, <1>a, <2>1, Zenon DEF IInv, SlotInv, Waits, HandedOver
  <2>2. CASE i = Slot(pos[t])
    <3>1. Waits(i)'
      BY <1>0, <1>a, <1>c, <1>d, <2>2, SizeAssumption DEF Waits, HandedOver, IInv
    <3> QED
      BY <1>a, <1>c, <2>2, <3>1, Zenon DEF SlotInv
  <2> QED
    BY <2>1, <2>2, Zenon
<1>3. \A u \in Producers : ProducerInv(u)'
  BY <1>0, <1>a, <1>b, <1>c, ThreadsAssumption, SizeAssumption DEF IInv, ProducerInv, Threads
<1>4. \A u \in Consumers : ConsumerInv(u)'
  BY <1>0, <1>a, <1>b, <1>c, SizeAssumption DEF IInv, ConsumerInv, Threads
<1>5. Writing' = Writing /\ \A u \in Writing' : pos'[u] = pos[u]
  BY <1>0, <1>a, ThreadsAssumption, Zenon DEF Writing, Threads
<1>6. Reading' \subseteq Reading /\ \A u \in Reading' : pos'[u] = pos[u]
  BY <1>0, <1>a, Zenon DEF Reading, Threads
<1> QED
  BY <1>a, <1>1, <1>2, <1>3, <1>4, <1>5, <1>6 DEF IInv

-----------------------------------------------------------------------------
LEMMA NextKeeps ==
    ASSUME Size > 1, IInv, [Next]_vars
    PROVE  IInv'
<1>0. pc \in [Threads -> PCs] /\ pos \in [Threads -> Nat] /\ write_pos \in Nat /\ read_pos \in Nat
      /\ seq \in [Slots -> Nat] /\ \A t \in Threads : Slot(pos[t]) \in Slots
  BY SlotType, Zenon DEF IInv, TypeOK
<1>1. CASE UNCHANGED vars
  BY <1>1 DEF IInv, TypeOK, SlotInv, Waits, HandedOver, ProducerInv, ConsumerInv,
              Writing, Reading, vars
<1>2. ASSUME NEW t \in Producers, ProducerStep(t) PROVE IInv'
  <2>0. t \in Threads
    BY Zenon DEF Threads
  <2>1. CASE CallNext(t)
    BY <1>0, <2>0, <2>1, MoveProducer, Zenon DEF CallNext, Goto, PCs
  <2>2. CASE LoadWritePos(t)
    <3>1. /\ pc' = [pc EXCEPT ![t] = "seq"] /\ pos' = [pos EXCEPT ![t] = write_pos]
          /\ UNCHANGED <<write_pos, read_pos, entries>> /\ write_pos <= write_pos /\ "seq" \in PCs
      BY <1>0, <2>2 DEF LoadWritePos, GotoAt, PCs
    <3> QED
      BY <1>0, <3>1, MoveProducer, Zenon
  <2>3. CASE NextSeq(t)
    <3>1. pos[t] <= write_pos /\ pc[t] = "seq"
      BY <2>3, Zenon DEF IInv, ProducerInv, NextSeq, TestSeq
    <3>2. CASE seq[Slot(pos[t])] - pos[t] = 0 /\ Goto(t, "cas")
      <4>1. seq[Slot(pos[t])] >= pos[t]
        BY <1>0, <2>0, <3>2
      <4> QED
        BY <1>0, <2>0, <2>3, <3>1, <3>2, <4>1, MoveProducer, Zenon DEF NextSeq, TestSeq, Goto, PCs
    <3>3. CASE Goto(t, "idle")
      BY <1>0, <2>0, <2>3, <3>3, MoveProducer, Zenon DEF NextSeq, TestSeq, Goto, PCs
    <3>4. CASE Goto(t, "load")
      BY <1>0, <2>0, <2>3, <3>4, MoveProducer, Zenon DEF NextSeq, TestSeq, Goto, PCs
    <3> QED
      BY <2>3, <3>2, <3>3, <3>4, Zenon DEF NextSeq, TestSeq
  <2>4. CASE NextCas(t)
    BY <2>4, ClaimKeeps, Zenon
  <2>5. CASE NextCasFails(t)
    <3>1. /\ pc' = [pc EXCEPT ![t] = "seq"] /\ pos' = [pos EXCEPT ![t] = write_pos]
          /\ UNCHANGED <<write_pos, read_pos, entries>> /\ write_pos <= write_pos /\ "seq" \in PCs
      BY <1>0, <2>5 DEF NextCasFails, GotoAt, PCs
    <3> QED
      BY <1>0, <3>1, MoveProducer, Zenon
  <2>6. CASE \E v \in Value : Fill(t, v)
    BY <2>6, FillKeeps, Zenon
  <2>7. CASE Commit(t) \/ Discard(t)
    BY <2>7, HandoverKeeps, Zenon
  <2>8. CASE DiscardNoop(t)
    BY <2>8, VoidKeeps, Zenon
  <2> QED
    BY <1>2, <2>1, <2>2, <2>3, <2>4, <2>5, <2>6, <2>7, <2>8, Zenon DEF ProducerStep
<1>3. ASSUME NEW t \in Consumers, ConsumerStep(t) PROVE IInv'
  <2>0. t \in Threads
    BY Zenon DEF Threads
  <2>1. CASE CallHead(t)
    BY <1>0, <2>0, <2>1, MoveConsumer, Zenon DEF CallHead, Goto, PCs
  <2>2. CASE LoadReadPos(t)
    <3>1. /\ pc' = [pc EXCEPT ![t] = "seq"] /\ pos' = [pos EXCEPT ![t] = read_pos]
          /\ UNCHANGED <<write_pos, read_pos, entries>> /\ read_pos <= read_pos /\ "seq" \in PCs
      BY <1>0, <2>2 DEF LoadReadPos, GotoAt, PCs
    <3> QED
      BY <1>0, <3>1, MoveConsumer, Zenon
  <2>3. CASE HeadSeq(t)
    <3>1. pos[t] <= read_pos /\ pc[t] = "seq"
      BY <2>3, Zenon DEF IInv, ConsumerInv, HeadSeq, TestSeq
    <3>2. CASE seq[Slot(pos[t])] - (pos[t] + 1) = 0 /\ Goto(t, "cas")
      <4>1. seq[Slot(pos[t])] >= pos[t] + 1
        BY <1>0, <2>0, <3>2
      <4> QED
        BY <1>0, <2>0, <2>3, <3>1, <3>2, <4>1, MoveConsumer, Zenon DEF HeadSeq, TestSeq, Goto, PCs
    <3>3. CASE Goto(t, "idle")
      BY <1>0, <2>0, <2>3, <3>3, MoveConsumer, Zenon DEF HeadSeq, TestSeq, Goto, PCs
    <3>4. CASE Goto(t, "load")
      BY <1>0, <2>0, <2>3, <3>4, MoveConsumer, Zenon DEF HeadSeq, TestSeq, Goto, PCs
    <3> QED
      BY <2>3, <3>2, <3>3, <3>4, Zenon DEF HeadSeq, TestSeq
  <2>4. CASE HeadCas(t)
    BY <2>4, TakeKeeps, Zenon
  <2>5. CASE HeadCasFails(t)
    <3>1. /\ pc' = [pc EXCEPT ![t] = "seq"] /\ pos' = [pos EXCEPT ![t] = read_pos]
          /\ UNCHANGED <<write_pos, read_pos, entries>> /\ read_pos <= read_pos /\ "seq" \in PCs
      BY <1>0, <2>5 DEF HeadCasFails, GotoAt, PCs
    <3> QED
      BY <1>0, <3>1, MoveConsumer, Zenon
  <2>6. CASE HeadReturns(t)
    BY <1>0, <2>0, <2>6, MoveConsumer, Zenon DEF HeadReturns, Goto, PCs
  <2>7. CASE HeadClearsNoop(t)
    BY <2>7, ClearKeeps, Zenon
  <2>8. CASE HeadReleases(t) \/ Release(t)
    BY <2>8, ReleaseKeeps, Zenon
  <2> QED
    BY <1>3, <2>1, <2>2, <2>3, <2>4, <2>5, <2>6, <2>7, <2>8, Zenon DEF ConsumerStep
<1> QED
  BY <1>1, <1>2, <1>3, Zenon DEF Next

LEMMA InitHolds ==
    ASSUME Size > 1, Init
    PROVE  IInv
<1>1. TypeOK
  BY SlotOfSlot, NoneAssumption, Zenon DEF Init, TypeOK, PCs
<1>2. \A i \in Slots : SlotInv(i)
  BY SlotOfSlot, SizeAssumption DEF Init, SlotInv, Waits, Slots
<1> QED
  BY <1>1, <1>2, SizeAssumption DEF Init, IInv, ProducerInv, ConsumerInv, Writing, Reading, Threads

(***************************************************************************)
(* The inductive invariant holds throughout, for a queue of at least two   *)
(* entries.                                                                *)
(***************************************************************************)
THEOREM Invariant ==
    ASSUME Size > 1
    PROVE  Spec => []IInv
<1>1. Init => IInv
  BY InitHolds, Zenon
<1>2. IInv /\ [Next]_vars => IInv'
  BY NextKeeps, Zenon
<1> QED
  BY <1>1, <1>2, PTL DEF Spec

(***************************************************************************)
(* An entry is in the hands of one caller at a time, between _next and     *)
(* _commit or _discard and between _head and _release.                     *)
(***************************************************************************)
THEOREM ExclusiveEntries ==
    ASSUME Size > 1
    PROVE  Spec => []OneHolder
<1>1. IInv => OneHolder
  BY HolderLemma, Zenon
<1> QED
  BY <1>1, Invariant, PTL

(***************************************************************************)
(* Only a thread's own step moves it.                                      *)
(***************************************************************************)
LEMMA OwnStep ==
    ASSUME TypeOK, [Next]_vars, NEW t \in Threads, pc'[t] # pc[t]
    PROVE  \/ t \in Producers /\ ProducerStep(t)
           \/ t \in Consumers /\ ConsumerStep(t)
<1>0. pc \in [Threads -> PCs]
  BY Zenon DEF TypeOK
<1>1. ASSUME NEW u \in Threads, ProducerStep(u) PROVE \E l : pc' = [pc EXCEPT ![u] = l]
  BY <1>1 DEF ProducerStep, CallNext, LoadWritePos, NextSeq, TestSeq, NextCas, NextCasFails,
     Fill, Commit, Discard, Handover, DiscardNoop, Goto, GotoAt
<1>2. ASSUME NEW u \in Threads, ConsumerStep(u) PROVE \E l : pc' = [pc EXCEPT ![u] = l]
  BY <1>2 DEF ConsumerStep, CallHead, LoadReadPos, HeadSeq, TestSeq, HeadCas, HeadCasFails,
     HeadReturns, HeadClearsNoop, HeadReleases, Release, ReleaseFrom, Goto, GotoAt
<1>3. CASE \E u \in Producers : ProducerStep(u)
  BY <1>0, <1>1, <1>3, Zenon DEF Threads
<1>4. CASE \E u \in Consumers : ConsumerStep(u)
  BY <1>0, <1>2, <1>4, Zenon DEF Threads
<1> QED
  BY <1>3, <1>4, Zenon DEF Next, vars

(***************************************************************************)
(* _next reports a full queue only when it is full, whatever the write     *)
(* position was when the caller read it.                                   *)
(***************************************************************************)
THEOREM FullOnlyWhenFull ==
    ASSUME Size > 1
    PROVE  Spec => FullIsReal
<1>1. ASSUME IInv, [Next]_vars, NEW t \in Producers, pc[t] = "seq", pc'[t] = "idle"
      PROVE  Unreleased(write_pos - Size)
  <2> DEFINE i == Slot(pos[t])
  <2>0. /\ pos[t] \in Nat /\ pos[t] <= write_pos /\ i \in Slots /\ seq[i] \in Nat /\ SlotInv(i)
        /\ write_pos \in Nat /\ read_pos \in Nat /\ t \in Threads /\ t \notin Consumers
        /\ read_pos <= write_pos /\ write_pos <= read_pos + Size
        /\ TypeOK /\ pc \in [Threads -> PCs]
    BY <1>1, SlotType, ThreadsAssumption, Zenon DEF IInv, TypeOK, Threads, ProducerInv
  <2>1. ProducerStep(t)
    BY <1>1, <2>0, OwnStep, Zenon
  <2>2. seq[i] - pos[t] < 0
    BY <1>1, <2>0, <2>1 DEF ProducerStep, CallNext, LoadWritePos, NextSeq, TestSeq, NextCas,
       NextCasFails, Fill, Commit, Discard, Handover, DiscardNoop, Goto, GotoAt
  <2>3. CASE Waits(i)
    <3>1. seq[i] + Size <= pos[t]
      BY <2>0, <2>2, <2>3, LapApart DEF Waits
    <3>2. seq[i] = write_pos - Size
      BY <2>0, <2>3, <3>1, SizeAssumption DEF Waits
    <3> QED
      BY <2>0, <2>3, <3>2 DEF Waits, Unreleased
  <2>4. CASE HandedOver(i)
    <3>1. (seq[i] - 1) + Size <= pos[t]
      BY <2>0, <2>2, <2>4, LapApart DEF HandedOver
    <3>2. seq[i] - 1 = write_pos - Size
      BY <2>0, <2>4, <3>1, SizeAssumption DEF HandedOver
    <3> QED
      BY <2>0, <2>4, <3>2 DEF HandedOver, Unreleased
  <2> QED
    BY <2>0, <2>3, <2>4, Zenon DEF SlotInv
<1>2. IInv /\ [Next]_vars =>
        [\A t \in Producers :
           pc[t] = "seq" /\ pc'[t] = "idle" => Unreleased(write_pos - Size)]_vars
  BY <1>1, Zenon
<1> QED
  BY <1>2, Invariant, PTL DEF FullIsReal, Spec

(***************************************************************************)
(* _head reports an empty queue only when the next position to be read is  *)
(* unclaimed or its producer has not handed it over.                       *)
(***************************************************************************)
THEOREM EmptyOnlyWhenEmpty ==
    ASSUME Size > 1
    PROVE  Spec => EmptyIsReal
<1>1. ASSUME IInv, [Next]_vars, NEW t \in Consumers, pc[t] = "seq", pc'[t] = "idle"
      PROVE  read_pos = write_pos \/ seq[Slot(read_pos)] = read_pos
  <2> DEFINE i == Slot(pos[t])
  <2>0. /\ pos[t] \in Nat /\ pos[t] <= read_pos /\ i \in Slots /\ seq[i] \in Nat /\ SlotInv(i)
        /\ write_pos \in Nat /\ read_pos \in Nat /\ t \in Threads /\ t \notin Producers
        /\ read_pos <= write_pos /\ write_pos <= read_pos + Size
        /\ TypeOK /\ pc \in [Threads -> PCs]
    BY <1>1, SlotType, ThreadsAssumption, Zenon DEF IInv, TypeOK, Threads, ConsumerInv
  <2>1. ConsumerStep(t)
    BY <1>1, <2>0, OwnStep, Zenon
  <2>2. seq[i] - (pos[t] + 1) < 0
    BY <1>1, <2>0, <2>1 DEF ConsumerStep, CallHead, LoadReadPos, HeadSeq, TestSeq, HeadCas,
       HeadCasFails, HeadReturns, HeadClearsNoop, HeadReleases, Release, ReleaseFrom, Goto, GotoAt
  <2>3. CASE Waits(i)
    BY <2>0, <2>2, <2>3 DEF Waits
  <2>4. CASE HandedOver(i)
    <3>1. (seq[i] - 1) + Size <= pos[t]
      BY <2>0, <2>2, <2>4, LapApart DEF HandedOver
    <3> QED
      BY <2>0, <2>4, <3>1, SizeAssumption DEF HandedOver
  <2> QED
    BY <2>0, <2>3, <2>4, Zenon DEF SlotInv
<1>2. IInv /\ [Next]_vars =>
        [\A t \in Consumers :
           pc[t] = "seq" /\ pc'[t] = "idle" =>
             read_pos = write_pos \/ seq[Slot(read_pos)] = read_pos]_vars
  BY <1>1, Zenon
<1> QED
  BY <1>2, Invariant, PTL DEF EmptyIsReal, Spec

(***************************************************************************)
(* No caller of _next or _head is refused without reason.                  *)
(***************************************************************************)
THEOREM RefusalsAreReal ==
    ASSUME Size > 1
    PROVE  Spec => RefusalsReal
  BY FullOnlyWhenFull, EmptyOnlyWhenEmpty, PTL DEF RefusalsReal

-----------------------------------------------------------------------------
(***************************************************************************)
(* The refinement.  First, what leaves the meaning of a position alone.    *)
(***************************************************************************)
LEMMA SameStatus ==
    ASSUME NEW p \in Nat, read_pos' = read_pos, seq'[Slot(p)] = seq[Slot(p)],
           Voided(p)' <=> Voided(p)
    PROVE  StatusOf(p)' = StatusOf(p)
BY Zenon DEF StatusOf

LEMMA ClaimRefines ==
    ASSUME Size > 1, IInv, NEW t \in Producers, NextCas(t)
    PROVE  Abs!Claim(t)
<1>0. /\ t \in Threads /\ pc \in [Threads -> PCs] /\ pos \in [Threads -> Nat]
      /\ write_pos \in Nat /\ read_pos \in Nat /\ write_pos = pos[t] /\ pc[t] = "cas"
      /\ pc' = [pc EXCEPT ![t] = "own"] /\ pos' = pos /\ write_pos' = write_pos + 1
      /\ read_pos <= write_pos /\ UNCHANGED <<read_pos, seq, noop, buf>>
  BY Zenon DEF IInv, TypeOK, Threads, NextCas, Goto, entries
<1>h. seq[Slot(pos[t])] = pos[t] /\ ~noop[Slot(pos[t])] /\ pos[t] < read_pos + Size
  BY <1>0, CasNextHolds, Zenon
<1>1. AbsHold[t] = None /\ AbsHold' = [AbsHold EXCEPT ![t] = write_pos]
  BY <1>0, ThreadsAssumption, Zenon DEF AbsHold, Writing, Reading, Threads
<1>2. Abs!Freed(write_pos)
  <2>1. CASE write_pos < Size
    BY <2>1, Zenon DEF Abs!Freed
  <2>2. CASE write_pos >= Size
    <3>1. Slot(write_pos - Size) = Slot(write_pos)
      BY <1>0, <2>2, NextLap, SizeAssumption
    <3>2. StatusOf(write_pos - Size) = "done"
      BY <1>0, <1>h, <3>1, SizeAssumption DEF StatusOf
    <3> QED
      BY <1>0, <2>2, <3>2, SizeAssumption DEF Abs!Freed, AbsStatus
  <2> QED
    BY <1>0, <2>1, <2>2, SizeAssumption
<1>3. \A p \in 0 .. write_pos - 1 : StatusOf(p)' = StatusOf(p)
  BY <1>0, SameStatus, ThreadsAssumption DEF Voided, Threads
<1>4. PICK w \in Nat : w = write_pos
  BY <1>0, Zenon
<1>5. StatusOf(w)' = "claimed"
  BY <1>0, <1>h, <1>4 DEF StatusOf
<1>6. AbsStatus' = [p \in 0 .. w |-> IF p = w THEN "claimed" ELSE AbsStatus[p]]
  BY <1>0, <1>3, <1>4, <1>5 DEF AbsStatus
<1>7. AbsVal' = [p \in 0 .. w |-> IF p = w THEN None ELSE AbsVal[p]]
  BY <1>0, <1>3, <1>4, <1>5 DEF AbsVal
<1> QED
  BY <1>0, <1>1, <1>2, <1>4, <1>6, <1>7, Zenon DEF Abs!Claim

LEMMA TakeRefines ==
    ASSUME Size > 1, IInv, NEW t \in Consumers, HeadCas(t)
    PROVE  Abs!Take(t)
<1>0. /\ t \in Threads /\ pc \in [Threads -> PCs] /\ pos \in [Threads -> Nat]
      /\ write_pos \in Nat /\ read_pos \in Nat /\ read_pos = pos[t] /\ pc[t] = "cas"
      /\ pc' = [pc EXCEPT ![t] = "got"] /\ pos' = pos /\ read_pos' = read_pos + 1
      /\ UNCHANGED <<write_pos, seq, noop, buf>>
  BY Zenon DEF IInv, TypeOK, Threads, HeadCas, Goto, entries
<1>h. seq[Slot(pos[t])] = pos[t] + 1 /\ pos[t] < write_pos
  BY <1>0, CasHeadHolds, Zenon
<1>1. PICK r \in Nat : r = read_pos
  BY <1>0, Zenon
<1>2. AbsHold[t] = None /\ AbsHold' = [AbsHold EXCEPT ![t] = r]
  BY <1>0, <1>1, ThreadsAssumption, Zenon DEF AbsHold, Writing, Reading, Threads
<1>3. \A p \in Nat : Voided(p)' <=> Voided(p)
  BY <1>0, Zenon DEF Voided, Threads
<1>4. \A p \in 0 .. write_pos - 1 : p # r => StatusOf(p)' = StatusOf(p)
  BY <1>0, <1>1, <1>3 DEF StatusOf
<1>5. /\ StatusOf(r) = IF Voided(r) THEN "void" ELSE "ready"
      /\ StatusOf(r)' = IF Voided(r) THEN "skip" ELSE "read"
  BY <1>0, <1>h, <1>1, <1>3 DEF StatusOf
<1>6. AbsStatus' = [AbsStatus EXCEPT ![r] = IF @ = "ready" THEN "read" ELSE "skip"]
  BY <1>0, <1>h, <1>1, <1>4, <1>5, Zenon DEF AbsStatus
<1>7. AbsVal' = AbsVal
  BY <1>0, <1>h, <1>1, <1>4, <1>5, Zenon DEF AbsVal
<1>8. AbsStatus[r] \in {"ready", "void"}
  BY <1>0, <1>h, <1>1, <1>5 DEF AbsStatus
<1> QED
  BY <1>0, <1>h, <1>1, <1>2, <1>6, <1>7, <1>8, Zenon DEF Abs!Take

(***************************************************************************)
(* A store to the entry of position q below write_pos, which is claimed or *)
(* handed over, concerns no other position.                                *)
(***************************************************************************)
LEMMA OtherPositions ==
    ASSUME Size > 1, IInv, NEW q \in Nat, q < write_pos, seq[Slot(q)] \in {q, q + 1},
           NEW p \in 0 .. write_pos - 1, p # q, read_pos' = read_pos,
           seq' = [seq EXCEPT ![Slot(q)] = seq'[Slot(q)]], seq'[Slot(q)] \in Nat,
           seq'[Slot(q)] >= seq[Slot(q)],
           noop' = [noop EXCEPT ![Slot(q)] = noop'[Slot(q)]],
           \A u \in Consumers : (pc'[u] = "cleared" /\ pos'[u] = p)
                                  <=> (pc[u] = "cleared" /\ pos[u] = p)
    PROVE  /\ StatusOf(p)' = StatusOf(p)
           /\ Slot(p) = Slot(q) => StatusOf(p) = "done"
<1>0. /\ p \in Nat /\ p < write_pos /\ Slot(p) \in Slots /\ Slot(q) \in Slots
      /\ seq \in [Slots -> Nat] /\ noop \in [Slots -> BOOLEAN] /\ read_pos \in Nat
      /\ write_pos \in Nat
  BY SlotType DEF IInv, TypeOK
<1>1. CASE Slot(p) # Slot(q)
  <2>1. seq'[Slot(p)] = seq[Slot(p)] /\ noop'[Slot(p)] = noop[Slot(p)]
    BY <1>0, <1>1, Zenon
  <2> QED
    BY <1>0, <1>1, <2>1, SameStatus, Zenon DEF Voided
<1>2. CASE Slot(p) = Slot(q)
  <2>1. p + Size <= q /\ p < read_pos /\ seq[Slot(p)] # p + 1
    BY <1>0, <1>2, LapDone, Zenon
  <2>2. seq'[Slot(p)] # p + 1
    BY <1>0, <1>2, <2>1, SizeAssumption
  <2> QED
    BY <1>0, <1>2, <2>1, <2>2 DEF StatusOf
<1> QED
  BY <1>1, <1>2, Zenon

LEMMA HandoverRefines ==
    ASSUME Size > 1, IInv, NEW t \in Producers, Commit(t) \/ Discard(t)
    PROVE  Abs!Publish(t) \/ Abs!Discard(t)
<1>0. /\ t \in Threads /\ pc \in [Threads -> PCs] /\ pos \in [Threads -> Nat]
      /\ seq \in [Slots -> Nat] /\ noop \in [Slots -> BOOLEAN]
      /\ write_pos \in Nat /\ read_pos \in Nat
  BY Zenon DEF IInv, TypeOK, Threads
<1>1. PICK q \in Nat : q = pos[t]
  BY <1>0, Zenon
<1>2. /\ pc[t] \in {"filled", "voided"}
      /\ pc' = [pc EXCEPT ![t] = "idle"] /\ pos' = [pos EXCEPT ![t] = 0]
      /\ seq' = [seq EXCEPT ![Slot(q)] = q + 1]
      /\ UNCHANGED <<write_pos, read_pos, noop, buf>>
  BY <1>0, <1>1, Zenon DEF Commit, Discard, Handover, Goto
<1>3. /\ q < write_pos /\ seq[Slot(q)] = q /\ (noop[Slot(q)] <=> pc[t] = "voided")
      /\ Slot(q) \in Slots /\ (pc[t] = "filled" => buf[Slot(q)] \in Value)
  BY <1>1, <1>2, SlotType, Zenon DEF IInv, ProducerInv
<1>4. Waits(Slot(q))
  BY <1>3, SlotCase, Zenon
<1>5. \A u \in Consumers : pc'[u] = pc[u] /\ pos'[u] = pos[u] /\ (pc[u] = "cleared" => pos[u] < read_pos)
  BY <1>0, <1>2, ThreadsAssumption, Zenon DEF Threads, IInv, ConsumerInv
<1>6. \A p \in 0 .. write_pos - 1 : p # q => StatusOf(p)' = StatusOf(p)
  <2>1. /\ seq' = [seq EXCEPT ![Slot(q)] = seq'[Slot(q)]] /\ seq'[Slot(q)] \in Nat
        /\ seq'[Slot(q)] >= seq[Slot(q)] /\ seq[Slot(q)] \in {q, q + 1}
        /\ noop' = [noop EXCEPT ![Slot(q)] = noop'[Slot(q)]] /\ read_pos' = read_pos
    BY <1>0, <1>2, <1>3
  <2>2. SUFFICES ASSUME NEW p \in 0 .. write_pos - 1, p # q PROVE StatusOf(p)' = StatusOf(p)
    BY Zenon
  <2>3. \A u \in Consumers : (pc'[u] = "cleared" /\ pos'[u] = p)
                               <=> (pc[u] = "cleared" /\ pos[u] = p)
    BY <1>0, <2>2, <1>5, Zenon
  <2> QED
    BY <1>3, <2>1, <2>2, <2>3, OtherPositions, Zenon
<1>7. StatusOf(q) = "claimed"
  BY <1>0, <1>3, <1>4 DEF StatusOf, Waits
<1>8. StatusOf(q)' = IF noop[Slot(q)] THEN "void" ELSE "ready"
  <2>1. Voided(q)' <=> noop[Slot(q)]
    BY <1>0, <1>2, <1>3, <1>4, <1>5 DEF Voided, Waits, Threads
  <2>2. q >= read_pos /\ seq'[Slot(q)] = q + 1
    BY <1>0, <1>2, <1>3, <1>4, Zenon DEF Waits
  <2> QED
    BY <1>0, <1>2, <2>1, <2>2 DEF StatusOf
<1>9. AbsHold[t] = q /\ AbsHold' = [AbsHold EXCEPT ![t] = None]
  BY <1>0, <1>1, <1>2, ThreadsAssumption, Zenon DEF AbsHold, Writing, Reading, Threads
<1>10. AbsStatus' = [AbsStatus EXCEPT ![q] = IF noop[Slot(q)] THEN "void" ELSE "ready"]
  BY <1>0, <1>2, <1>3, <1>6, <1>7, <1>8, Zenon DEF AbsStatus
<1>11. AbsVal' = [AbsVal EXCEPT ![q] = IF noop[Slot(q)] THEN None ELSE buf[Slot(q)]]
  BY <1>0, <1>2, <1>3, <1>6, <1>7, <1>8, Zenon DEF AbsVal
<1>12. AbsStatus[q] = "claimed" /\ q # None
  BY <1>0, <1>3, <1>7, NoneAssumption DEF AbsStatus
<1>13. CASE pc[t] = "voided"
  BY <1>2, <1>3, <1>9, <1>10, <1>11, <1>12, <1>13, Zenon DEF Abs!Discard, Abs!LetGo
<1>14. CASE pc[t] = "filled"
  BY <1>2, <1>3, <1>9, <1>10, <1>11, <1>12, <1>14, Zenon DEF Abs!Publish, Abs!LetGo
<1> QED
  BY <1>2, <1>13, <1>14, Zenon

LEMMA ReleaseRefines ==
    ASSUME Size > 1, IInv, NEW t \in Consumers, HeadReleases(t) \/ Release(t)
    PROVE  Abs!Free(t)
<1>0. /\ t \in Threads /\ pc \in [Threads -> PCs] /\ pos \in [Threads -> Nat]
      /\ seq \in [Slots -> Nat] /\ noop \in [Slots -> BOOLEAN]
      /\ write_pos \in Nat /\ read_pos \in Nat /\ read_pos <= write_pos
  BY Zenon DEF IInv, TypeOK, Threads
<1>1. PICK q \in Nat : q = pos[t]
  BY <1>0, Zenon
<1>2. PICK l \in {"idle", "load"} :
      /\ pc[t] \in {"cleared", "reading"}
      /\ pc' = [pc EXCEPT ![t] = l] /\ pos' = [pos EXCEPT ![t] = 0]
      /\ seq' = [seq EXCEPT ![Slot(q)] = q + Size]
      /\ UNCHANGED <<write_pos, read_pos, noop, buf>>
  BY <1>0, <1>1, Zenon DEF HeadReleases, Release, ReleaseFrom, Goto
<1>3. q < read_pos /\ seq[Slot(q)] = q + 1 /\ Slot(q) \in Slots /\ q < write_pos
  BY <1>0, <1>1, <1>2, SlotType DEF IInv, ConsumerInv
<1>4. \A p \in Nat : p # q => \A u \in Consumers :
        (pc'[u] = "cleared" /\ pos'[u] = p) <=> (pc[u] = "cleared" /\ pos[u] = p)
  BY <1>0, <1>1, <1>2, Zenon DEF Threads
<1>5. seq'[Slot(q)] = q + Size /\ q + Size \in Nat /\ q + Size >= seq[Slot(q)]
  BY <1>0, <1>2, <1>3, SizeAssumption
<1>6. \A p \in 0 .. write_pos - 1 : p # q => StatusOf(p)' = StatusOf(p)
  <2>1. /\ seq' = [seq EXCEPT ![Slot(q)] = seq'[Slot(q)]] /\ seq'[Slot(q)] \in Nat
        /\ seq'[Slot(q)] >= seq[Slot(q)] /\ seq[Slot(q)] \in {q, q + 1}
        /\ noop' = [noop EXCEPT ![Slot(q)] = noop'[Slot(q)]] /\ read_pos' = read_pos
    BY <1>0, <1>2, <1>3, <1>5, Zenon
  <2>2. SUFFICES ASSUME NEW p \in 0 .. write_pos - 1, p # q PROVE StatusOf(p)' = StatusOf(p)
    BY Zenon
  <2>3. \A u \in Consumers : (pc'[u] = "cleared" /\ pos'[u] = p)
                               <=> (pc[u] = "cleared" /\ pos[u] = p)
    BY <1>0, <2>2, <1>4
  <2> QED
    BY <1>3, <2>1, <2>2, <2>3, OtherPositions, Zenon
<1>7. StatusOf(q) \in {"read", "skip"} /\ StatusOf(q)' = "done"
  BY <1>0, <1>2, <1>3, <1>5, SizeAssumption DEF StatusOf
<1>8. AbsHold[t] = q /\ AbsHold' = [AbsHold EXCEPT ![t] = None]
  BY <1>0, <1>1, <1>2, ThreadsAssumption, Zenon DEF AbsHold, Writing, Reading, Threads
<1>9. AbsStatus' = [AbsStatus EXCEPT ![q] = "done"]
  BY <1>0, <1>2, <1>3, <1>6, <1>7, Zenon DEF AbsStatus
<1>10. AbsVal' = [AbsVal EXCEPT ![q] = None]
  BY <1>0, <1>2, <1>3, <1>6, <1>7, Zenon DEF AbsVal
<1>11. AbsStatus[q] \in {"read", "skip"} /\ q # None
  BY <1>0, <1>3, <1>7, NoneAssumption DEF AbsStatus
<1> QED
  BY <1>2, <1>8, <1>9, <1>10, <1>11, Zenon DEF Abs!Free

(***************************************************************************)
(* The other steps mean nothing to the queue: a thread that moves without  *)
(* gaining or losing an entry, and a holder that writes into its own.      *)
(***************************************************************************)
LEMMA MoveStutters ==
    ASSUME IInv, NEW t \in Threads, NEW l \in PCs, NEW p \in Nat,
           UNCHANGED <<write_pos, read_pos, entries>>,
           pc' = [pc EXCEPT ![t] = l], pos' = [pos EXCEPT ![t] = p],
           \/ {pc[t], l} \subseteq {"idle", "load", "seq", "cas"}
           \/ pc[t] = "got" /\ l = "reading" /\ p = pos[t]
    PROVE  UNCHANGED Abs!vars
<1>0. pc \in [Threads -> PCs] /\ pos \in [Threads -> Nat] /\ write_pos \in Nat
  BY Zenon DEF IInv, TypeOK
<1>1. \A x \in Nat : Voided(x)' <=> Voided(x)
  BY <1>0, Zenon DEF Voided, Threads, entries
<1>2. \A x \in 0 .. write_pos - 1 : StatusOf(x)' = StatusOf(x)
  BY <1>0, <1>1, SameStatus DEF entries
<1>3. AbsStatus' = AbsStatus
  BY <1>0, <1>2, Zenon DEF AbsStatus, entries
<1>4. AbsVal' = AbsVal
  BY <1>0, <1>2, Zenon DEF AbsVal, entries
<1>5. AbsHold' = AbsHold
  BY <1>0, Zenon DEF AbsHold, Writing, Reading, Threads, entries
<1> QED
  BY <1>3, <1>4, <1>5, Zenon DEF Abs!vars, entries

LEMMA WriteStutters ==
    ASSUME Size > 1, IInv, NEW t \in Threads,
           \/ t \in Producers /\ DiscardNoop(t)
           \/ t \in Producers /\ \E v \in Value : Fill(t, v)
           \/ t \in Consumers /\ HeadClearsNoop(t)
    PROVE  UNCHANGED Abs!vars
<1>0. /\ pc \in [Threads -> PCs] /\ pos \in [Threads -> Nat]
      /\ seq \in [Slots -> Nat] /\ noop \in [Slots -> BOOLEAN] /\ buf \in [Slots -> Value \cup {None}]
      /\ write_pos \in Nat /\ read_pos \in Nat /\ read_pos <= write_pos
  BY Zenon DEF IInv, TypeOK
<1>1. PICK q \in Nat : q = pos[t]
  BY <1>0, Zenon
<1>2. /\ q < write_pos /\ Slot(q) \in Slots /\ seq[Slot(q)] \in {q, q + 1}
      /\ t \in Producers => seq[Slot(q)] = q
      /\ t \in Consumers => seq[Slot(q)] = q + 1 /\ q < read_pos
  BY <1>0, <1>1, SlotType DEF IInv, ProducerInv, ConsumerInv, DiscardNoop, Fill, HeadClearsNoop
<1>3. /\ pc' = [pc EXCEPT ![t] = pc'[t]] /\ pos' = pos
      /\ noop' = [noop EXCEPT ![Slot(q)] = noop'[Slot(q)]]
      /\ buf' = [buf EXCEPT ![Slot(q)] = buf'[Slot(q)]]
      /\ UNCHANGED <<write_pos, read_pos, seq>>
      /\ t \in Producers => {pc[t], pc'[t]} \subseteq {"own", "filled", "voided"}
      /\ t \in Consumers => pc[t] = "got" /\ pc'[t] = "cleared" /\ noop[Slot(q)] /\ buf' = buf
  BY <1>0, <1>1, <1>2, ThreadsAssumption, Zenon DEF DiscardNoop, Fill, HeadClearsNoop, Goto
<1>4. \A x \in 0 .. write_pos - 1 : x # q =>
        StatusOf(x)' = StatusOf(x) /\ (Slot(x) = Slot(q) => StatusOf(x) = "done")
  <2>1. SUFFICES ASSUME NEW x \in 0 .. write_pos - 1, x # q
                 PROVE  StatusOf(x)' = StatusOf(x) /\ (Slot(x) = Slot(q) => StatusOf(x) = "done")
    BY Zenon
  <2>2. \A u \in Consumers : (pc'[u] = "cleared" /\ pos'[u] = x)
                               <=> (pc[u] = "cleared" /\ pos[u] = x)
    BY <1>0, <1>1, <1>3, <2>1, ThreadsAssumption, Zenon DEF Threads
  <2>3. /\ seq' = [seq EXCEPT ![Slot(q)] = seq'[Slot(q)]] /\ seq'[Slot(q)] \in Nat
        /\ seq'[Slot(q)] >= seq[Slot(q)]
    BY <1>0, <1>2, <1>3
  <2> QED
    BY <1>2, <1>3, <2>1, <2>2, <2>3, OtherPositions
<1>5. StatusOf(q)' = StatusOf(q) /\ (t \in Producers => StatusOf(q) = "claimed")
  <2>1. CASE t \in Producers
    <3>1. q >= read_pos
      BY <1>2, <2>1, SlotCase, Zenon DEF Waits
    <3> QED
      BY <1>0, <1>2, <1>3, <2>1, <3>1 DEF StatusOf
  <2>2. CASE t \in Consumers
    <3>1. Voided(q) /\ Voided(q)'
      BY <1>0, <1>1, <1>3, <2>2, Zenon DEF Voided
    <3> QED
      BY <1>0, <1>2, <1>3, <2>2, <3>1, ThreadsAssumption, Zenon DEF StatusOf
  <2> QED
    BY <2>1, <2>2, Zenon DEF Threads
<1>6. AbsStatus' = AbsStatus
  BY <1>0, <1>3, <1>4, <1>5, Zenon DEF AbsStatus
<1>7. \A x \in 0 .. write_pos - 1 :
        StatusOf(x) \in {"ready", "read"} => buf'[Slot(x)] = buf[Slot(x)]
  <2>1. SUFFICES ASSUME NEW x \in 0 .. write_pos - 1, StatusOf(x) \in {"ready", "read"}
                 PROVE  buf'[Slot(x)] = buf[Slot(x)]
    BY Zenon
  <2>2. CASE t \in Consumers
    BY <1>3, <2>2, Zenon
  <2>3. CASE t \in Producers
    BY <1>0, <1>2, <1>3, <1>4, <1>5, <2>1, <2>3, SlotType
  <2> QED
    BY <2>2, <2>3, Zenon DEF Threads
<1>8. AbsVal' = AbsVal
  BY <1>0, <1>3, <1>4, <1>5, <1>7, Zenon DEF AbsVal
<1>9. AbsHold' = AbsHold
  BY <1>0, <1>3, ThreadsAssumption, Zenon DEF AbsHold, Writing, Reading, Threads
<1> QED
  BY <1>3, <1>6, <1>8, <1>9, Zenon DEF Abs!vars

LEMMA StepRefines ==
    ASSUME Size > 1, IInv, [Next]_vars
    PROVE  [Abs!Next]_(Abs!vars)
<1>0. pc \in [Threads -> PCs] /\ pos \in [Threads -> Nat] /\ write_pos \in Nat /\ read_pos \in Nat
  BY Zenon DEF IInv, TypeOK
<1>1. CASE UNCHANGED vars
  BY <1>1 DEF vars, Abs!vars, AbsStatus, AbsVal, AbsHold, StatusOf, Voided, Writing, Reading
<1>2. ASSUME NEW t \in Producers, ProducerStep(t) PROVE [Abs!Next]_(Abs!vars)
  <2>0. t \in Threads
    BY Zenon DEF Threads
  <2>1. CASE CallNext(t)
    BY <1>0, <2>0, <2>1, MoveStutters, Zenon DEF CallNext, Goto, PCs
  <2>2. CASE LoadWritePos(t)
    BY <1>0, <2>0, <2>2, MoveStutters, Zenon DEF LoadWritePos, GotoAt, PCs
  <2>3. CASE NextSeq(t)
    BY <1>0, <2>0, <2>3, MoveStutters DEF NextSeq, TestSeq, Goto, PCs
  <2>4. CASE NextCas(t)
    BY <2>4, ClaimRefines, Zenon DEF Abs!Next
  <2>5. CASE NextCasFails(t)
    BY <1>0, <2>0, <2>5, MoveStutters, Zenon DEF NextCasFails, GotoAt, PCs
  <2>6. CASE DiscardNoop(t) \/ \E v \in Value : Fill(t, v)
    BY <2>0, <2>6, WriteStutters, Zenon
  <2>7. CASE Commit(t) \/ Discard(t)
    BY <2>7, HandoverRefines, Zenon DEF Abs!Next
  <2> QED
    BY <1>2, <2>1, <2>2, <2>3, <2>4, <2>5, <2>6, <2>7, Zenon DEF ProducerStep
<1>3. ASSUME NEW t \in Consumers, ConsumerStep(t) PROVE [Abs!Next]_(Abs!vars)
  <2>0. t \in Threads
    BY Zenon DEF Threads
  <2>1. CASE CallHead(t)
    BY <1>0, <2>0, <2>1, MoveStutters, Zenon DEF CallHead, Goto, PCs
  <2>2. CASE LoadReadPos(t)
    BY <1>0, <2>0, <2>2, MoveStutters, Zenon DEF LoadReadPos, GotoAt, PCs
  <2>3. CASE HeadSeq(t)
    BY <1>0, <2>0, <2>3, MoveStutters DEF HeadSeq, TestSeq, Goto, PCs
  <2>4. CASE HeadCas(t)
    BY <2>4, TakeRefines, Zenon DEF Abs!Next
  <2>5. CASE HeadCasFails(t)
    BY <1>0, <2>0, <2>5, MoveStutters, Zenon DEF HeadCasFails, GotoAt, PCs
  <2>6. CASE HeadReturns(t)
    BY <1>0, <2>0, <2>6, MoveStutters, Zenon DEF HeadReturns, Goto, PCs
  <2>7. CASE HeadClearsNoop(t)
    BY <2>0, <2>7, WriteStutters, Zenon
  <2>8. CASE HeadReleases(t) \/ Release(t)
    BY <2>8, ReleaseRefines, Zenon DEF Abs!Next
  <2> QED
    BY <1>3, <2>1, <2>2, <2>3, <2>4, <2>5, <2>6, <2>7, <2>8, Zenon DEF ConsumerStep
<1> QED
  BY <1>1, <1>2, <1>3, Zenon DEF Next

LEMMA InitRefines ==
    ASSUME Init
    PROVE  Abs!Init
<1>1. 0 .. write_pos - 1 = {}
  BY DEF Init
<1>2. AbsStatus = [p \in {} |-> "done"] /\ AbsVal = [p \in {} |-> None]
  BY <1>1, Zenon DEF AbsStatus, AbsVal
<1>3. AbsHold = [t \in Producers \cup Consumers |-> None]
  BY Zenon DEF Init, AbsHold, Writing, Reading, Threads
<1> QED
  BY <1>2, <1>3, Zenon DEF Init, Abs!Init

(***************************************************************************)
(* The ring implements the queue of claims: positions are claimed, handed  *)
(* over, taken and freed in turn, and what was handed over is what is      *)
(* read.                                                                   *)
(***************************************************************************)
THEOREM RingImplementsQueue ==
    ASSUME Size > 1
    PROVE  Spec => ImplementsQueue
<1>1. Init => Abs!Init
  BY InitRefines, Zenon
<1>2. IInv /\ [Next]_vars => [Abs!Next]_(Abs!vars)
  BY StepRefines, Zenon
<1> QED
  BY <1>1, <1>2, Invariant, PTL DEF Spec, ImplementsQueue, Abs!Spec
=============================================================================
