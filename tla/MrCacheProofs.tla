---------------------------- MODULE MrCacheProofs ----------------------------
(***************************************************************************)
(* The registration cache, for any number of uses, entries and addresses,  *)
(* any calls and any limits: IInv is inductive, so an entry is in one      *)
(* state, no region of the tree contains another, and who holds an entry   *)
(* may use it; and with it Books, which says that each pair of counters is *)
(* the number and the size of a finite set of entries, so they are right.  *)
(***************************************************************************)
EXTENDS MrCacheStates, FiniteSetTheorems

(***************************************************************************)
(* Sets of entries with their number and size.                             *)
(***************************************************************************)
LEMMA CoveredBy ==
    ASSUME NEW g, NEW S, NEW T
    PROVE  /\ Covered(g, S \cup T) = Covered(g, S) \cup Covered(g, T)
           /\ Covered(g, S \ T) = Covered(g, S) \ Covered(g, T)
           /\ T \subseteq S => Covered(g, T) \subseteq Covered(g, S)
           /\ S \cap T = {} => Covered(g, S) \cap Covered(g, T) = {}
           /\ S = {} => Covered(g, S) = {}
  <1> DEFINE Pair(x) == x \in {x[1]} \X Addrs(g[x[1]])
  <1>1. \A U, x : x \in Covered(g, U) <=> x[1] \in U /\ Pair(x)
    BY DEF Covered
  <1> HIDE DEF Pair
  <1>3. Covered(g, S \cup T) = Covered(g, S) \cup Covered(g, T)
    <2>1. ASSUME NEW x
          PROVE  x \in Covered(g, S \cup T) <=> x \in Covered(g, S) \/ x \in Covered(g, T)
      BY <1>1, Zenon
    <2> QED  BY <2>1, Zenon
  <1>4. Covered(g, S \ T) = Covered(g, S) \ Covered(g, T)
    <2>1. ASSUME NEW x
          PROVE  x \in Covered(g, S \ T) <=> x \in Covered(g, S) /\ x \notin Covered(g, T)
      <3>1. /\ x \in Covered(g, S \ T) <=> x[1] \in S \ T /\ Pair(x)
            /\ x \in Covered(g, S) <=> x[1] \in S /\ Pair(x)
            /\ x \in Covered(g, T) <=> x[1] \in T /\ Pair(x)
        BY <1>1, Zenon
      <3> QED  BY <3>1, Zenon
    <2> QED  BY <2>1, Zenon
  <1>5. T \subseteq S => Covered(g, T) \subseteq Covered(g, S)
    BY <1>1, Zenon
  <1>6. S \cap T = {} => Covered(g, S) \cap Covered(g, T) = {}
    BY <1>1, Zenon
  <1>7. S = {} => Covered(g, S) = {}
    BY <1>1, Zenon
  <1> QED  BY <1>3, <1>4, <1>5, <1>6, <1>7, Zenon

\* The sum of two accounts, and the difference.
LEMMA BalancedJoin ==
    ASSUME NEW g, NEW S, NEW T, NEW c, NEW s, NEW d, NEW t, S \cap T = {},
           Balanced(c, s, S, g), Balanced(d, t, T, g)
    PROVE  Balanced(c + d, s + t, S \cup T, g)
  <1>1. /\ IsFiniteSet(S) /\ IsFiniteSet(Covered(g, S)) /\ IsFiniteSet(T) /\ IsFiniteSet(Covered(g, T))
        /\ c = Cardinality(S) /\ s = Cardinality(Covered(g, S))
        /\ d = Cardinality(T) /\ t = Cardinality(Covered(g, T))
    BY Zenon DEF Balanced
  <1>2. Cardinality({}) = 0
    BY FS_EmptySet, Zenon
  <1>3. ASSUME NEW U, NEW V, IsFiniteSet(U), IsFiniteSet(V), U \cap V = {}
        PROVE  IsFiniteSet(U \cup V) /\ Cardinality(U \cup V) = Cardinality(U) + Cardinality(V)
    <2>1. /\ IsFiniteSet(U \cup V)
          /\ Cardinality(U \cup V) = Cardinality(U) + Cardinality(V) - Cardinality(U \cap V)
      BY <1>3, FS_Union, Zenon
    <2>2. Cardinality(U) \in Nat /\ Cardinality(V) \in Nat
      BY <1>3, FS_CardinalityType, Zenon
    <2>3. Cardinality(U \cap V) = 0
      BY <1>2, <1>3, Zenon
    <2> QED  BY <2>1, <2>2, <2>3
  <1>4. IsFiniteSet(S \cup T) /\ Cardinality(S \cup T) = c + d
    BY <1>1, <1>3, Zenon
  <1>5. Covered(g, S) \cap Covered(g, T) = {} /\ Covered(g, S \cup T) = Covered(g, S) \cup Covered(g, T)
    BY CoveredBy, Zenon
  <1>6. IsFiniteSet(Covered(g, S \cup T)) /\ Cardinality(Covered(g, S \cup T)) = s + t
    BY <1>1, <1>3, <1>5, Zenon
  <1> QED  BY <1>4, <1>6, Zenon DEF Balanced

LEMMA BalancedLess ==
    ASSUME NEW g, NEW S, NEW T, NEW c, NEW s, NEW d, NEW t, T \subseteq S,
           Balanced(c, s, S, g), Balanced(d, t, T, g)
    PROVE  Balanced(c - d, s - t, S \ T, g)
  <1>1. /\ IsFiniteSet(S) /\ IsFiniteSet(Covered(g, S))
        /\ c = Cardinality(S) /\ s = Cardinality(Covered(g, S))
        /\ d = Cardinality(T) /\ t = Cardinality(Covered(g, T))
    BY Zenon DEF Balanced
  <1>2. ASSUME NEW U, NEW V, IsFiniteSet(U), V \subseteq U
        PROVE  IsFiniteSet(U \ V) /\ Cardinality(U \ V) = Cardinality(U) - Cardinality(V)
    <2>1. U \cap V = V
      BY <1>2, Zenon
    <2> QED  BY <1>2, <2>1, FS_Difference, Zenon
  <1>3. Covered(g, T) \subseteq Covered(g, S) /\ Covered(g, S \ T) = Covered(g, S) \ Covered(g, T)
    BY CoveredBy, Zenon
  <1>4. IsFiniteSet(S \ T) /\ Cardinality(S \ T) = c - d
    BY <1>1, <1>2, Zenon
  <1>5. IsFiniteSet(Covered(g, S \ T)) /\ Cardinality(Covered(g, S \ T)) = s - t
    BY <1>1, <1>2, <1>3, Zenon
  <1> QED  BY <1>4, <1>5, Zenon DEF Balanced

LEMMA BalancedPart ==
    ASSUME NEW g, NEW S, NEW c, NEW s, Balanced(c, s, S, g), NEW T \in SUBSET S
    PROVE  Balanced(Cardinality(T), Cardinality(Covered(g, T)), T, g)
  <1>1. IsFiniteSet(S) /\ IsFiniteSet(Covered(g, S))
    BY Zenon DEF Balanced
  <1>2. Covered(g, T) \in SUBSET Covered(g, S)
    BY CoveredBy, Zenon
  <1> QED  BY <1>1, <1>2, FS_Subset, Zenon DEF Balanced

\* The account of one entry.
LEMMA BalancedOne ==
    ASSUME NEW g, NEW e, g[e] \in Regions
    PROVE  Balanced(1, Size(g[e]), {e}, g)
  <1> PICK r \in Regions : r = g[e]
    BY Zenon
  <1>1. r[1] \in Addr /\ r[2] \in Addr /\ r[1] <= r[2] /\ r[1] \in Nat /\ r[2] \in Nat
    BY RegionFacts, Zenon DEF Regions
  <1>2. Addrs(r) = r[1] .. r[2]
    <2>1. r[1] .. r[2] \subseteq Addr /\ Addr \subseteq Nat
      BY <1>1, AddrAssumption, Zenon
    <2>2. ASSUME NEW c \in Nat PROVE c \in r[1] .. r[2] <=> r[1] <= c /\ c <= r[2]
      BY <1>1
    <2>3. r[1] .. r[2] \subseteq Nat
      BY <1>1
    <2> QED  BY <2>1, <2>2, <2>3, Zenon DEF Addrs
  <1>3. IsFiniteSet(Addrs(r)) /\ Cardinality(Addrs(r)) = Size(r)
    <2>1. r[1] \in Int /\ r[2] \in Int /\ ~(r[1] > r[2])
      BY <1>1
    <2>2. IsFiniteSet(r[1] .. r[2]) /\ Cardinality(r[1] .. r[2]) = r[2] - r[1] + 1
      BY <2>1, FS_Interval, Zenon
    <2> QED  BY <1>2, <2>2, Zenon DEF Size
  <1>4. IsFiniteSet({e}) /\ Cardinality({e}) = 1
    BY FS_Singleton, Zenon
  <1>5. /\ IsFiniteSet({e} \X Addrs(r))
        /\ Cardinality({e} \X Addrs(r)) = Cardinality({e}) * Cardinality(Addrs(r))
    BY <1>3, <1>4, FS_Product, Zenon
  <1>6. Cardinality({e} \X Addrs(r)) = Size(r)
    BY <1>1, <1>3, <1>4, <1>5 DEF Size
  <1>7. Covered(g, {e}) = {e} \X Addrs(r)
    BY Zenon DEF Covered
  <1> QED  BY <1>4, <1>5, <1>6, <1>7, Zenon DEF Balanced

LEMMA BalancedSame ==
    ASSUME NEW g, NEW h, NEW S, NEW c, NEW s, Balanced(c, s, S, g),
           \A e \in S : h[e] = g[e]
    PROVE  Balanced(c, s, S, h)
  <1>1. Covered(h, S) = Covered(g, S)
    BY DEF Covered
  <1> QED  BY <1>1, Zenon DEF Balanced

LEMMA BalancedTypes ==
    ASSUME NEW g, NEW S, NEW c, NEW s, Balanced(c, s, S, g)
    PROVE  c \in Nat /\ s \in Nat
  BY FS_CardinalityType, Zenon DEF Balanced

LEMMA BalancedNone ==
    ASSUME NEW g, NEW S, NEW c, NEW s, Balanced(c, s, S, g), S = {}
    PROVE  c = 0 /\ s = 0
  <1>1. Covered(g, S) = {}
    BY CoveredBy, Zenon
  <1> QED  BY <1>1, FS_EmptySet, Zenon DEF Balanced

(***************************************************************************)
(* How a step changes which entries are in somebody's hands.               *)
(***************************************************************************)
Holding == {"reg", "held"}
SameHands == \A e \in Id : InHand(e)' <=> InHand(e)

Seized(x) == \A e \in Id : InHand(e)' <=> InHand(e) \/ e = x
Released(p, x) ==
    /\ \A e \in Id \ {x} : InHand(e)' <=> InHand(e)
    /\ InHand(x)' <=> \E q \in Proc \ {p} : pc[q] \in Holding /\ cur[q] = x

LEMMA HandsOf ==
    ASSUME TypeOK, NEW p \in Proc, NEW l \in PCs, Goto(p, l),
           \A q \in Proc \ {p} : cur'[q] = cur[q]
    PROVE  /\ pc[p] \notin Holding /\ l \notin Holding => SameHands
           /\ pc[p] \in Holding /\ l \in Holding /\ cur'[p] = cur[p] => SameHands
           /\ pc[p] \notin Holding /\ l \in Holding => \A x \in Id : cur'[p] = x => Seized(x)
           /\ pc[p] \in Holding /\ l \notin Holding => \A x \in Id : cur[p] = x => Released(p, x)
  <1> DEFINE Others(e) == \E q \in Proc \ {p} : pc[q] \in Holding /\ cur[q] = e
  <1>1. pc'[p] = l /\ \A q \in Proc \ {p} : pc'[q] = pc[q] /\ cur'[q] = cur[q]
    BY Zenon DEF TypeOK, Goto
  <1>2. \A e : InHand(e) <=> (pc[p] \in Holding /\ cur[p] = e) \/ Others(e)
    BY Zenon DEF InHand, Holding
  <1>3. \A e : (\E q \in Proc : pc'[q] \in Holding /\ cur'[q] = e)
                <=> (l \in Holding /\ cur'[p] = e) \/ Others(e)
    BY <1>1, Zenon
  <1>4. ASSUME NEW e \in Id PROVE InHand(e)' <=> \E q \in Proc : pc'[q] \in Holding /\ cur'[q] = e
    BY Zenon DEF InHand, Holding
  <1> HIDE DEF Others
  <1>6. pc[p] \notin Holding /\ l \notin Holding => SameHands
    BY <1>2, <1>3, <1>4, Zenon DEF SameHands
  <1>7. pc[p] \in Holding /\ l \in Holding /\ cur'[p] = cur[p] => SameHands
    BY <1>2, <1>3, <1>4, Zenon DEF SameHands
  <1>8. ASSUME pc[p] \notin Holding, l \in Holding, NEW x \in Id, cur'[p] = x
        PROVE  Seized(x)
    BY <1>2, <1>3, <1>4, <1>8, Zenon DEF Seized
  <1>9. ASSUME pc[p] \in Holding, l \notin Holding, NEW x \in Id, cur[p] = x
        PROVE  Released(p, x)
    <2>1. \A e \in Id \ {x} : InHand(e)' <=> InHand(e)
      BY <1>2, <1>3, <1>4, <1>9, Zenon
    <2>2. InHand(x)' <=> Others(x)
      BY <1>3, <1>4, <1>9, Zenon
    <2> QED  BY <2>1, <2>2, Zenon DEF Released, Others
  <1> QED  BY <1>6, <1>7, <1>8, <1>9, Zenon

LEMMA HandFacts ==
    ASSUME IInv, CountRule, NEW e \in Id
    PROVE  /\ InHand(e) => /\ Users(e) # {} /\ e \in Registered
                           /\ e \notin lru \cup dead /\ Freers(e) = {}
           /\ e \in tree => (InHand(e) <=> use_cnt[e] # 0)
  <1>0. StateOK(e) /\ \A p \in Proc : CallOK(p)
    BY Zenon DEF IInv, OneState
  <1>1. InHand(e) => Users(e) # {}
    BY Zenon DEF InHand, Users
  <1>2. Users(e) # {} => e \in Registered /\ e \notin lru \cup dead /\ Freers(e) = {}
    BY <1>0, Zenon DEF StateOK
  <1>3. use_cnt[e] # 0 <=> Users(e) # {}
    <2>1. use_cnt[e] = Cardinality(Users(e)) /\ Users(e) \in SUBSET Proc
      BY <1>0, Zenon DEF StateOK, Users
    <2> QED  BY <2>1, Zenon DEF CountRule
  <1>4. ASSUME e \in tree, Users(e) # {}
        PROVE  InHand(e)
    <2> PICK p \in Proc : pc[p] \in {"insert", "reg", "held"} /\ cur[p] = e
      BY <1>4, Zenon DEF Users
    <2>1. pc[p] # "insert"
      BY <1>0, <1>4, Zenon DEF CallOK
    <2> QED  BY <2>1, Zenon DEF InHand
  <1> QED  BY <1>1, <1>2, <1>3, <1>4, Zenon

(***************************************************************************)
(* The counters.                                                           *)
(***************************************************************************)
LEMMA LedgersNext ==
    ASSUME Balanced(cached_cnt', cached_size', tree', reg'),
           Balanced(uncached_cnt', uncached_size', Uncached', reg'), cached_cnt' \in 0 .. MaxCnt
    PROVE  Ledgers'
  BY Zenon DEF Ledgers, Balanced, Covered

LEMMA LedgersSame ==
    ASSUME Ledgers, tree' = tree, Uncached' = Uncached,
           cached_cnt' = cached_cnt, cached_size' = cached_size,
           uncached_cnt' = uncached_cnt, uncached_size' = uncached_size,
           \A e \in tree \cup Uncached : reg'[e] = reg[e]
    PROVE  Ledgers'
  <1>1. Balanced(cached_cnt', cached_size', tree', reg')
    BY BalancedSame, Zenon DEF Ledgers
  <1>2. Balanced(uncached_cnt', uncached_size', Uncached', reg')
    BY BalancedSame, Zenon DEF Ledgers
  <1> QED  BY <1>1, <1>2, LedgersNext, Zenon DEF Ledgers

\* util_mr_uncache_entry moves entries in use from one account to the other.
LEMMA UncacheLedgers ==
    ASSUME IInv, CountRule, Ledgers, NEW S \in SUBSET tree, Uncache(S),
           reg' = reg, SameHands
    PROVE  Ledgers'
  <1> DEFINE T == {e \in S : use_cnt[e] # 0}
  <1>1. tree \subseteq Id
    BY Zenon DEF IInv, TypeOK
  <1>2. S \ {e \in S : use_cnt[e] = 0} = T
    BY Zenon
  <1>3. /\ tree' = tree \ S
        /\ cached_cnt' = cached_cnt - Cardinality(S) /\ cached_size' = cached_size - SizeOf(S)
        /\ uncached_cnt' = uncached_cnt + Cardinality(T)
        /\ uncached_size' = uncached_size + SizeOf(T)
    BY <1>2, Zenon DEF Uncache
  <1>4. \A e \in S : e \in T <=> InHand(e)
    BY <1>1, HandFacts, Zenon
  <1>5. T \in SUBSET tree
    BY Zenon
  <1> HIDE DEF T
  <1>6. Uncached' = Uncached \cup T /\ Uncached \cap T = {}
    <2>1. Uncached' = {e \in Id \ tree' : InHand(e)'}
      BY Zenon DEF Uncached
    <2>2. \A e \in T : e \in S
      BY Zenon DEF T
    <2>3. ASSUME NEW e \in Id PROVE e \in Uncached' <=> e \in Uncached \cup T
      BY <1>3, <1>4, <1>5, <2>1, <2>2, Zenon DEF Uncached, SameHands
    <2> QED  BY <1>1, <1>5, <2>1, <2>3, Zenon DEF Uncached
  <1>7. /\ Balanced(Cardinality(S), SizeOf(S), S, reg)
        /\ Balanced(Cardinality(T), SizeOf(T), T, reg)
    BY <1>5, BalancedPart, Zenon DEF Ledgers, SizeOf
  <1>8. Balanced(cached_cnt', cached_size', tree', reg')
    BY <1>3, <1>7, BalancedLess, Zenon DEF Ledgers
  <1>9. Balanced(uncached_cnt', uncached_size', Uncached', reg')
    BY <1>3, <1>6, <1>7, BalancedJoin, Zenon DEF Ledgers
  <1>10. cached_cnt' \in 0 .. MaxCnt
    <2>1. cached_cnt' \in Nat /\ Cardinality(S) \in Nat
      BY <1>7, <1>8, BalancedTypes, Zenon
    <2> QED  BY <1>3, <2>1, MaxAssumption DEF Ledgers
  <1> QED  BY <1>8, <1>9, <1>10, LedgersNext, Zenon

\* The places that change the counters, and all the others.
LEMMA LedgerStep ==
    ASSUME IInv, CountRule, Books, [Next]_vars
    PROVE  Ledgers'
  <1> USE DEF Holding
  <1>0. TypeOK /\ Ledgers /\ (\A p \in Proc : CallOK(p)) /\ (\A e \in Id : StateOK(e))
    BY Zenon DEF IInv, OneState, Books
  <1>1. /\ pc \in [Proc -> PCs] /\ cur \in [Proc -> Id \cup {0}] /\ reg \in [Id -> Regions \cup {None}]
        /\ tree \subseteq Id
    BY <1>0, Zenon DEF TypeOK
  <1>2. ASSUME tree' = tree, SameHands
        PROVE  Uncached' = Uncached
    BY <1>2, Zenon DEF Uncached, SameHands
  <1>3. ASSUME UNCHANGED cache, SameHands, \A e \in tree \cup Uncached : reg'[e] = reg[e]
        PROVE  Ledgers'
    BY <1>0, <1>2, <1>3, LedgersSame, Zenon DEF cache
  <1>4. ASSUME NEW p \in Proc, NEW l \in PCs, Goto(p, l), \A q \in Proc \ {p} : cur'[q] = cur[q],
               \/ pc[p] \notin Holding /\ l \notin Holding
               \/ pc[p] \in Holding /\ l \in Holding /\ cur'[p] = cur[p]
        PROVE  SameHands
    BY <1>0, <1>4, HandsOf, Zenon
  <1>5. ASSUME NEW p \in Proc, Call(p) \/ Check(p) \/ Cleanup(p) \/ AllFree(p)
        PROVE  Ledgers'
    <2>1. UNCHANGED cache /\ reg' = reg /\ \A q \in Proc \ {p} : cur'[q] = cur[q]
      BY <1>1, <1>5, Zenon DEF Call, Check, Cleanup, AllFree, Return, entries
    <2>2. \E l \in PCs \ Holding : Goto(p, l) /\ pc[p] \notin Holding
      BY <1>5, Zenon DEF Call, Called, Check, Cleanup, AllFree, Return, PCs
    <2> QED  BY <1>3, <1>4, <2>1, <2>2, Zenon
  <1>6. ASSUME NEW e \in tree \cup Uncached
        PROVE  e \in Registered /\ Freers(e) = {}
    BY <1>1, HandFacts, TreeFacts, Zenon DEF Uncached
  <1>7. ASSUME NEW p \in Proc, Free(p)
        PROVE  Ledgers'
    <2> PICK e \in freeing[p] : reg' = [reg EXCEPT ![e] = None]
      BY <1>7, Zenon DEF Free
    <2>1. UNCHANGED cache /\ SameHands
      BY <1>7, Zenon DEF Free, SameHands, InHand
    <2>2. e \in Id /\ Freers(e) # {}
      BY <1>0, Zenon DEF TypeOK, Freers
    <2>3. \A f \in tree \cup Uncached : reg'[f] = reg[f]
      BY <1>1, <1>6, <2>2, Zenon DEF Uncached
    <2> QED  BY <1>3, <2>1, <2>3, Zenon
  <1>8. ASSUME NEW p \in Proc, NEW e \in Lowest(Pool), NEW r, Made(e, r)
        PROVE  /\ e \in Id /\ e \notin tree \cup Uncached
               /\ \A f \in tree \cup Uncached : reg'[f] = reg[f]
               /\ reg'[e] = r
    <2>1. e \in Id /\ e \notin Registered
      BY Zenon DEF Lowest, Pool, Registered
    <2> QED  BY <1>1, <1>6, <1>8, <2>1, Zenon DEF Made, Uncached
  <1>9. ASSUME NEW p \in Proc, Create(p)
        PROVE  Ledgers'
    <2>1. UNCHANGED cache /\ \A q \in Proc \ {p} : cur'[q] = cur[q]
      BY <1>1, <1>9, Zenon DEF Create
    <2>2. \A f \in tree \cup Uncached : reg'[f] = reg[f]
      BY <1>8, <1>9, Zenon DEF Create, entries
    <2>3. \E l \in PCs \ Holding : Goto(p, l) /\ pc[p] \notin Holding
      BY <1>9, Zenon DEF Create, PCs
    <2> QED  BY <1>3, <1>4, <2>1, <2>2, <2>3, Zenon
  <1>10. ASSUME NEW p \in Proc, Look(p)
         PROVE  Ledgers'
    <2> DEFINE nested == {e \in tree : Nested(info[p], reg[e])}
    <2>0. pc[p] \notin Holding
      BY <1>10, Zenon DEF Look
    <2>1. ASSUME NEW e \in nested, Hit(p, e)
          PROVE  Ledgers'
      <3>1. /\ tree' = tree /\ cached_cnt' = cached_cnt /\ cached_size' = cached_size
            /\ uncached_cnt' = uncached_cnt /\ uncached_size' = uncached_size /\ reg' = reg
            /\ Goto(p, "held") /\ cur' = [cur EXCEPT ![p] = e]
        BY <2>1, Zenon DEF Hit
      <3>2. cur'[p] = e /\ \A q \in Proc \ {p} : cur'[q] = cur[q]
        BY <1>1, <3>1, Zenon
      <3>3. Seized(e)
        BY <1>0, <1>1, <2>0, <3>1, <3>2, HandsOf, Zenon DEF PCs
      <3>4. Uncached' = Uncached
        BY <3>1, <3>3, Zenon DEF Uncached, Seized
      <3> QED  BY <1>0, <3>1, <3>4, LedgersSame, Zenon
    <2>2. CASE MissSearch(p, nested)
      <3>1. SameHands /\ reg' = reg
        BY <1>4, <2>0, <2>2, Zenon DEF MissSearch, PCs, entries
      <3>2. Uncache(nested) /\ nested \in SUBSET tree
        BY <2>2, Zenon DEF MissSearch
      <3> QED  BY <1>0, <3>1, <3>2, UncacheLedgers, Zenon
    <2>3. CASE MissFind(p, nested)
      <3>1. Goto(p, "idle") /\ reg' = reg /\ \A q \in Proc \ {p} : cur'[q] = cur[q]
        BY <1>1, <2>3, Zenon DEF MissFind, Return, entries
      <3>2. SameHands
        BY <1>4, <2>0, <3>1, Zenon DEF PCs
      <3>3. CASE UNCHANGED cache
        BY <1>3, <3>1, <3>2, <3>3, Zenon
      <3>4. ASSUME NEW e \in nested, Uncache({f \in tree : Nested(reg[e], reg[f])})
            PROVE  Ledgers'
        <4>1. {f \in tree : Nested(reg[e], reg[f])} \in SUBSET tree
          BY Zenon
        <4> QED  BY <1>0, <3>1, <3>2, <3>4, <4>1, UncacheLedgers, Zenon
      <3> QED  BY <2>3, <3>3, <3>4, Zenon DEF MissFind
    <2> QED  BY <1>10, <2>1, <2>2, <2>3, Zenon DEF Look
  <1>11. ASSUME NEW p \in Proc, Flush(p)
         PROVE  Ledgers'
    <2> PICK S \in SUBSET lru :
            /\ tree' = tree \ S
            /\ cached_cnt' = cached_cnt - Cardinality(S) /\ cached_size' = cached_size - SizeOf(S)
            /\ FreeThen(p, dead \cup S, AfterFlush(then[p], dead \cup S))
      BY <1>11, Zenon DEF Flush
    <2>1. /\ uncached_cnt' = uncached_cnt /\ uncached_size' = uncached_size /\ reg' = reg /\ cur' = cur
          /\ pc[p] \notin Holding
      BY <1>11, Zenon DEF Flush, entries
    <2>2. SameHands
      BY <1>4, <2>1, Zenon DEF FreeThen, PCs
    <2>3. S \in SUBSET tree
      BY <1>0, Zenon DEF TypeOK, StateOK
    <2>4. \A e \in S : ~InHand(e)
      BY <1>1, <2>3, HandFacts, Zenon
    <2>5. Uncached' = Uncached
      BY <1>1, <2>2, <2>3, <2>4, Zenon DEF Uncached, SameHands
    <2>6. Balanced(Cardinality(S), SizeOf(S), S, reg)
      BY <1>0, <2>3, BalancedPart, Zenon DEF Ledgers, SizeOf
    <2>7. Balanced(cached_cnt', cached_size', tree', reg')
      BY <1>0, <2>1, <2>3, <2>6, BalancedLess, Zenon DEF Ledgers
    <2>8. cached_cnt' \in 0 .. MaxCnt
      <3>1. cached_cnt' \in Nat /\ Cardinality(S) \in Nat
        BY <2>6, <2>7, BalancedTypes, Zenon
      <3> QED  BY <1>0, <3>1, MaxAssumption DEF Ledgers
    <2> QED  BY <1>0, <2>1, <2>5, <2>7, <2>8, LedgersNext, Zenon DEF Ledgers
  \* An entry enters an account.
  <1>12. ASSUME NEW p \in Proc, Insert(p)
         PROVE  Ledgers'
    <2> PICK x \in Id : x = cur[p]
      BY <1>0, <1>12, Zenon DEF Insert, CallOK
    <2>1. pc[p] = "insert" /\ reg' = reg /\ cur' = cur
      BY <1>12, Zenon DEF Insert
    <2>2. /\ x \notin tree /\ reg[x] = info[p] /\ Users(x) = {p} /\ reg[x] \in Regions
      <3>1. x \notin tree /\ reg[x] = info[p] /\ Users(x) = {p}
        BY <1>0, <2>1, Zenon DEF CallOK
      <3> QED  BY <2>1, <3>1, UsedFacts, Zenon DEF Using
    <2>3. ~InHand(x)
      <3>1. ASSUME NEW q \in Proc, pc[q] \in {"reg", "held"}, cur[q] = x PROVE FALSE
        <4>1. q \in Users(x)
          BY <3>1, Zenon DEF Users
        <4>2. q = p
          BY <2>2, <4>1, Zenon
        <4> QED  BY <2>1, <3>1, <4>2, Zenon
      <3> QED  BY <3>1, Zenon DEF InHand
    <2>4. Balanced(1, Size(info[p]), {x}, reg)
      BY <2>2, BalancedOne, Zenon
    <2>5. CASE FreeThen(p, {cur[p]}, "check") /\ UNCHANGED cache
      <3>1. SameHands
        BY <1>4, <2>1, <2>5, Zenon DEF FreeThen, PCs
      <3> QED  BY <1>3, <2>1, <2>5, <3>1, Zenon
    <2>6. ASSUME Goto(p, "held")
          PROVE  Seized(x)
      BY <1>0, <2>1, <2>6, HandsOf, Zenon DEF PCs
    <2>7. CASE Goto(p, "held") /\ ~ Full /\ InTree(p)
      <3>1. /\ tree' = tree \cup {x} /\ uncached_cnt' = uncached_cnt /\ uncached_size' = uncached_size
            /\ cached_cnt' = cached_cnt + 1 /\ cached_size' = cached_size + Size(info[p])
        BY <2>7, Zenon DEF InTree
      <3>2. Uncached' = Uncached
        BY <2>3, <2>6, <2>7, <3>1, Zenon DEF Uncached, Seized
      <3>3. tree \cap {x} = {}
        BY <2>2, Zenon
      <3>4. Balanced(cached_cnt', cached_size', tree', reg')
        BY <1>0, <2>1, <2>4, <3>1, <3>3, BalancedJoin, Zenon DEF Ledgers
      <3>5. cached_cnt' \in 0 .. MaxCnt
        BY <1>0, <2>7, <3>1, MaxAssumption DEF Ledgers, Full, FullAt
      <3> QED  BY <1>0, <2>1, <3>1, <3>2, <3>4, <3>5, LedgersNext, Zenon DEF Ledgers
    <2>8. CASE Goto(p, "held") /\ Outside(p)
      <3>1. /\ tree' = tree /\ cached_cnt' = cached_cnt /\ cached_size' = cached_size
            /\ uncached_cnt' = uncached_cnt + 1 /\ uncached_size' = uncached_size + Size(info[p])
        BY <2>8, Zenon DEF Outside, AddUncached
      <3>2. Uncached' = Uncached \cup {x} /\ Uncached \cap {x} = {}
        BY <2>2, <2>3, <2>6, <2>8, <3>1, Zenon DEF Uncached, Seized
      <3>3. Balanced(uncached_cnt', uncached_size', Uncached', reg')
        BY <1>0, <2>1, <2>4, <3>1, <3>2, BalancedJoin, Zenon DEF Ledgers
      <3> QED  BY <1>0, <2>1, <3>1, <3>3, LedgersNext, Zenon DEF Ledgers
    <2> QED  BY <1>12, <2>5, <2>7, <2>8, Zenon DEF Insert
  <1>13. ASSUME NEW p \in Proc, Reg(p)
         PROVE  Ledgers'
    <2>1. Called(p) /\ Goto(p, "reg") /\ pc[p] = "idle"
      BY <1>13, Zenon DEF Reg, Called
    <2> PICK r \in Regions : r = want'[p]
      BY <1>0, <2>1, CalledFor, Zenon
    <2> PICK x \in Lowest(Pool) : Made(x, r) /\ cur' = [cur EXCEPT ![p] = x]
      BY <1>13, Zenon DEF Reg
    <2>2. /\ x \in Id /\ x \notin tree \cup Uncached /\ reg'[x] = r
          /\ \A f \in tree \cup Uncached : reg'[f] = reg[f]
      BY <1>8, Zenon
    <2>3. cur'[p] = x /\ \A q \in Proc \ {p} : cur'[q] = cur[q]
      BY <1>1, <2>2, Zenon
    <2>4. Seized(x)
      BY <1>0, <2>1, <2>2, <2>3, HandsOf, Zenon DEF PCs
    <2>5. /\ tree' = tree /\ cached_cnt' = cached_cnt /\ cached_size' = cached_size
          /\ uncached_cnt' = uncached_cnt + 1 /\ uncached_size' = uncached_size + Size(r)
      BY <1>13, Zenon DEF Reg, AddUncached
    <2>6. Uncached' = Uncached \cup {x} /\ Uncached \cap {x} = {}
      BY <2>2, <2>4, <2>5, Zenon DEF Uncached, Seized
    <2>7. Balanced(1, Size(r), {x}, reg')
      BY <2>2, BalancedOne, Zenon
    <2>8. Balanced(uncached_cnt, uncached_size, Uncached, reg') /\ Balanced(cached_cnt, cached_size, tree, reg')
      BY <1>0, <2>2, BalancedSame, Zenon DEF Ledgers
    <2>9. Balanced(uncached_cnt', uncached_size', Uncached', reg')
      BY <2>5, <2>6, <2>7, <2>8, BalancedJoin, Zenon
    <2> QED  BY <1>0, <2>5, <2>8, <2>9, LedgersNext, Zenon DEF Ledgers
  \* The last user of an entry outside the tree takes it off the account.
  <1>14. ASSUME NEW p \in Proc, pc[p] \in Holding, NEW l \in PCs \ Holding, Goto(p, l),
                NEW x \in Id, x = cur[p], x \notin tree, Users(x) = {p},
                tree' = tree, cached_cnt' = cached_cnt, cached_size' = cached_size,
                uncached_cnt' = uncached_cnt - 1, uncached_size' = uncached_size - Size(reg[x]),
                \A q \in Proc \ {p} : cur'[q] = cur[q],
                \A e \in Id \ {x} : reg'[e] = reg[e]
         PROVE  Ledgers'
    <2>1. /\ \A e \in Id \ {x} : InHand(e)' <=> InHand(e)
          /\ InHand(x)' <=> \E q \in Proc \ {p} : pc[q] \in Holding /\ cur[q] = x
      <3>1. Released(p, x)
        BY <1>0, <1>14, HandsOf, Zenon
      <3> QED  BY <3>1, Zenon DEF Released
    <2>2. ~InHand(x)'
      <3>1. ASSUME NEW q \in Proc \ {p}, pc[q] \in Holding, cur[q] = x PROVE FALSE
        BY <1>14, <3>1, Zenon DEF Users
      <3> QED  BY <2>1, <3>1, Zenon
    <2>3. InHand(x) /\ x \in Uncached
      BY <1>14, Zenon DEF InHand, Uncached
    <2>4. Uncached' = Uncached \ {x}
      BY <1>14, <2>1, <2>2, Zenon DEF Uncached
    <2>5. reg[x] \in Regions
      BY <1>14, UsedFacts, Zenon DEF Using
    <2>6. Balanced(1, Size(reg[x]), {x}, reg) /\ {x} \subseteq Uncached
      BY <2>3, <2>5, BalancedOne, Zenon
    <2>7. Balanced(uncached_cnt', uncached_size', Uncached', reg)
      BY <1>0, <1>14, <2>4, <2>6, BalancedLess, Zenon DEF Ledgers
    <2>8. Balanced(uncached_cnt', uncached_size', Uncached', reg') /\ Balanced(cached_cnt, cached_size, tree, reg')
      <3>1. (\A e \in Uncached' : reg'[e] = reg[e]) /\ \A e \in tree : reg'[e] = reg[e]
        BY <1>1, <1>14, <2>4, Zenon DEF Uncached
      <3> QED  BY <1>0, <2>7, <3>1, BalancedSame, Zenon DEF Ledgers
    <2> QED  BY <1>0, <1>14, <2>8, LedgersNext, Zenon DEF Ledgers
  <1>15. ASSUME NEW p \in Proc, RegAdded(p)
         PROVE  Ledgers'
    <2>1. pc[p] = "reg"
      BY <1>15, Zenon DEF RegAdded
    <2> PICK x \in Id : x = cur[p]
      BY <1>0, <2>1, Zenon DEF CallOK
    <2>2. x \notin tree /\ Users(x) = {p} /\ reg[x] = want[p]
      BY <1>0, <2>1, Zenon DEF CallOK, Books
    <2>3. CASE Goto(p, "held") /\ UNCHANGED <<cache, entries, want, info, cur>>
      <3>1. UNCHANGED cache /\ reg' = reg /\ cur' = cur /\ Goto(p, "held")
        BY <2>3, Zenon DEF entries
      <3>2. SameHands
        BY <1>4, <2>1, <3>1, Zenon DEF PCs
      <3> QED  BY <1>3, <3>1, <3>2, Zenon
    <2>4. CASE /\ reg' = [reg EXCEPT ![cur[p]] = None]
               /\ uncached_cnt' = uncached_cnt - 1
               /\ uncached_size' = uncached_size - Size(want[p])
               /\ Return(p)
               /\ UNCHANGED <<tree, lru, dead, cached_cnt, cached_size>>
      <3>1. /\ tree' = tree /\ cached_cnt' = cached_cnt /\ cached_size' = cached_size
            /\ uncached_cnt' = uncached_cnt - 1 /\ uncached_size' = uncached_size - Size(reg[x])
            /\ Goto(p, "idle")
        BY <2>2, <2>4, Zenon DEF Return
      <3>2. /\ \A e \in Id \ {x} : reg'[e] = reg[e]
            /\ \A q \in Proc \ {p} : cur'[q] = cur[q]
        BY <1>1, <2>4, Zenon DEF Return
      <3> QED  BY <1>14, <2>1, <2>2, <3>1, <3>2, Zenon DEF PCs
    <2> QED  BY <1>15, <2>3, <2>4, Zenon DEF RegAdded
  <1>16. ASSUME NEW p \in Proc, Delete(p)
         PROVE  Ledgers'
    <2>1. pc[p] = "held" /\ reg' = reg
      BY <1>16, Zenon DEF Delete
    <2> PICK x \in Id : x = cur[p]
      BY <1>0, <2>1, Zenon DEF CallOK
    <2>2. p \in Users(x) /\ Users(x) \in SUBSET Proc /\ use_cnt[x] = Cardinality(Users(x))
      BY <1>0, <2>1, Zenon DEF Users, StateOK
    <2>3. ASSUME NEW l \in PCs \ Holding, Goto(p, l), \A q \in Proc \ {p} : cur'[q] = cur[q]
          PROVE  /\ \A e \in Id \ {x} : InHand(e)' <=> InHand(e)
                 /\ InHand(x)' <=> \E q \in Proc \ {p} : pc[q] \in Holding /\ cur[q] = x
      <3>1. Released(p, x)
        BY <1>0, <2>1, <2>3, HandsOf, Zenon
      <3> QED  BY <3>1, Zenon DEF Released
    \* Someone else still has it.
    <2>4. CASE use_cnt[x] > 1 /\ Return(p) /\ UNCHANGED cache
      <3>1. Goto(p, "idle") /\ UNCHANGED cache /\ \A q \in Proc \ {p} : cur'[q] = cur[q]
        BY <1>1, <2>4, Zenon DEF Return
      <3>2. PICK q \in Proc \ {p} : q \in Users(x)
        <4>1. Users(x) # {p}
          <5>1. Cardinality({p}) = 1
            BY SmallCounts, Zenon
          <5> QED  BY <2>2, <2>4, <5>1
        <4> QED  BY <2>2, <4>1, Zenon
      <3>3. pc[q] \in Holding /\ cur[q] = x
        <4>1. pc[q] \in {"insert", "reg", "held"} /\ cur[q] = x
          BY <3>2, Zenon DEF Users
        <4>2. pc[q] # "insert"
          <5>1. pc[q] = "insert" => Users(x) = {q}
            BY <1>0, <4>1, Zenon DEF CallOK
          <5> QED  BY <2>2, <3>2, <5>1, Zenon
        <4> QED  BY <4>1, <4>2, Zenon
      <3>4. InHand(x) /\ InHand(x)'
        BY <2>1, <2>3, <3>1, <3>3, Zenon DEF InHand, PCs
      <3>5. SameHands
        BY <2>3, <3>1, <3>4, Zenon DEF SameHands, PCs
      <3> QED  BY <1>3, <2>1, <3>1, <3>5, Zenon
    \* It stays in the tree.
    <2>5. CASE /\ x \in tree /\ Return(p)
               /\ UNCHANGED <<tree, dead, cached_cnt, cached_size, uncached_cnt, uncached_size, freeing, then>>
      <3>1. /\ Goto(p, "idle") /\ tree' = tree /\ cached_cnt' = cached_cnt /\ cached_size' = cached_size
            /\ uncached_cnt' = uncached_cnt /\ uncached_size' = uncached_size
            /\ \A q \in Proc \ {p} : cur'[q] = cur[q]
        BY <1>1, <2>5, Zenon DEF Return
      <3>2. \A e \in Id \ {x} : InHand(e)' <=> InHand(e)
        BY <2>3, <3>1, Zenon DEF PCs
      <3>3. Uncached' = Uncached
        BY <2>5, <3>1, <3>2, Zenon DEF Uncached
      <3> QED  BY <1>0, <2>1, <3>1, <3>3, LedgersSame, Zenon
    <2>6. CASE /\ use_cnt[x] = 1 /\ x \notin tree
               /\ uncached_cnt' = uncached_cnt - 1
               /\ uncached_size' = uncached_size - Size(reg[x])
               /\ FreeThen(p, {x}, "idle")
               /\ UNCHANGED <<tree, lru, dead, cached_cnt, cached_size, want, info, cur>>
      <3>1. Users(x) = {p}
        <4>1. Cardinality(Users(x)) = 1
          BY <2>2, <2>6, Zenon
        <4> QED  BY <2>2, <4>1, Counts, Zenon
      <3>2. /\ tree' = tree /\ cached_cnt' = cached_cnt /\ cached_size' = cached_size /\ cur' = cur
            /\ Goto(p, "free")
        BY <2>6, Zenon DEF FreeThen
      <3> QED  BY <1>14, <2>1, <2>6, <3>1, <3>2, Zenon DEF PCs
    <2> QED  BY <1>16, <2>4, <2>5, <2>6, Zenon DEF Delete, Unused
  <1>17. ASSUME NEW S, Unmap(S)
         PROVE  Ledgers'
    <2>1. reg' = reg /\ SameHands
      BY <1>17, Zenon DEF Unmap, entries, procs, SameHands, InHand
    <2>2. CASE UNCHANGED cache
      BY <1>3, <2>1, <2>2, Zenon
    <2>3. CASE Uncache({e \in tree : S \cap Addrs(reg[e]) # {}})
      <3>1. {e \in tree : S \cap Addrs(reg[e]) # {}} \in SUBSET tree
        BY Zenon
      <3> QED  BY <1>0, <2>1, <2>3, <3>1, UncacheLedgers, Zenon
    <2> QED  BY <1>17, <2>2, <2>3, Zenon DEF Unmap
  <1>18. CASE Unmapped \/ UNCHANGED vars
    <2>1. UNCHANGED cache /\ reg' = reg /\ SameHands
      BY <1>18, Zenon DEF Unmapped, vars, entries, procs, SameHands, InHand
    <2> QED  BY <1>3, <2>1, Zenon
  <1> QED  BY <1>5, <1>7, <1>9, <1>10, <1>11, <1>12, <1>13, <1>15, <1>16, <1>17, <1>18, Zenon DEF Next, Step

\* Nobody touches the entry of a registration that may still fail.
LEMMA RegStep ==
    ASSUME IInv, Books, [Next]_vars
    PROVE  \A p \in Proc : pc'[p] = "reg" => reg'[cur'[p]] = want'[p]
  <1> SUFFICES ASSUME NEW p \in Proc, pc'[p] = "reg"
               PROVE  reg'[cur'[p]] = want'[p]
    BY Zenon
  <1>0. /\ TypeOK /\ (\A q \in Proc : CallOK(q)) /\ (\A e \in Id : StateOK(e))
        /\ pc \in [Proc -> PCs] /\ cur \in [Proc -> Id \cup {0}] /\ want \in [Proc -> Regions \cup {None}]
        /\ reg \in [Id -> Regions \cup {None}]
    BY Zenon DEF IInv, OneState, TypeOK
  <1>1. ASSUME pc[p] = "reg", cur'[p] = cur[p], want'[p] = want[p], reg'[cur[p]] = reg[cur[p]]
        PROVE  reg'[cur'[p]] = want'[p]
    BY <1>1, Zenon DEF Books
  \* Its entry is no other call's, nor being freed, nor in the pool.
  <1>2. ASSUME pc[p] = "reg"
        PROVE  /\ cur[p] \in Id /\ cur[p] \in Registered /\ Freers(cur[p]) = {}
               /\ \A q \in Proc : pc[q] = "reg" /\ cur[q] = cur[p] => q = p
    <2> PICK x \in Id : x = cur[p] /\ x \in Registered /\ Freers(x) = {}
      BY <1>2, UsedFacts, Zenon DEF Using
    <2>1. Users(x) = {p}
      BY <1>0, <1>2, Zenon DEF CallOK
    <2>2. ASSUME NEW q \in Proc, pc[q] = "reg", cur[q] = x PROVE q = p
      <3>1. q \in Users(x)
        BY <2>2, Zenon DEF Users
      <3> QED  BY <2>1, <3>1, Zenon
    <2> QED  BY <2>2, Zenon
  <1>3. ASSUME NEW q \in Proc, Reg(q)
        PROVE  reg'[cur'[p]] = want'[p]
    <2> PICK x \in Lowest(Pool) : Made(x, want'[q]) /\ cur' = [cur EXCEPT ![q] = x]
      BY <1>3, Zenon DEF Reg
    <2>1. x \in Id /\ x \notin Registered
      BY Zenon DEF Lowest, Pool, Registered
    <2>2. CASE q = p
      BY <1>0, <2>1, <2>2, Zenon DEF Made
    <2>3. CASE q # p
      <3>1. pc[p] = "reg" /\ cur'[p] = cur[p]
        BY <1>0, <1>3, <2>3, Zenon DEF Reg, Goto
      <3>2. want'[p] = want[p]
        BY <1>0, <1>3, <2>3, Zenon DEF Reg, Called
      <3>3. reg'[cur[p]] = reg[cur[p]]
        BY <1>0, <1>2, <2>1, <3>1, Zenon DEF Made
      <3> QED  BY <1>1, <3>1, <3>2, <3>3, Zenon
    <2> QED  BY <2>2, <2>3, Zenon
  <1>4. ASSUME NEW q \in Proc, Call(q) \/ Step(q) \/ Delete(q) \/ Cleanup(q)
        PROVE  pc[p] = "reg" /\ q # p
    <2>1. \A r \in Proc : q # r => pc'[r] = pc[r]
      BY <1>0, <1>4, Zenon DEF Call, Step, Delete, Cleanup, Check, Look, Hit, MissSearch, MissFind,
            Flush, Free, AllFree, Create, Insert, RegAdded, Unused, Return, FreeThen, Goto
    <2>2. pc'[q] # "reg"
      <3>1. ASSUME NEW l \in PCs \ {"reg"}, Goto(q, l) PROVE pc'[q] # "reg"
        BY <1>0, <3>1, Zenon DEF Goto
      <3>2. CASE Free(q)
        BY <3>2, Zenon DEF Free
      <3>3. ASSUME ~Free(q) PROVE \E l \in PCs \ {"reg"} : Goto(q, l)
        BY <1>4, <3>3, Zenon DEF Call, Step, Delete, Cleanup, Check, Look, Hit, MissSearch, MissFind,
            Flush, AllFree, Create, Insert, RegAdded, Unused, Return, FreeThen, PCs
      <3> QED  BY <3>1, <3>2, <3>3, Zenon
    <2> QED  BY <2>1, <2>2, Zenon
  <1>5. ASSUME NEW q \in Proc, Call(q) \/ Step(q) \/ Delete(q) \/ Cleanup(q)
        PROVE  cur'[p] = cur[p] /\ want'[p] = want[p]
    <2>1. q # p
      BY <1>4, <1>5, Zenon
    <2> QED  BY <1>0, <1>5, <2>1, Zenon DEF Call, Called, Step, Delete, Cleanup, Check, Look, Hit,
            MissSearch, MissFind, Flush, Free, AllFree, Create, Insert, RegAdded, Unused, Return
  <1>6. ASSUME NEW q \in Proc, Call(q) \/ Step(q) \/ Delete(q) \/ Cleanup(q)
        PROVE  reg'[cur[p]] = reg[cur[p]]
    <2>0. pc[p] = "reg" /\ q # p
      BY <1>4, <1>6, Zenon
    <2> PICK x \in Id : x = cur[p]
      BY <1>2, <2>0, Zenon
    <2>1. /\ x \in Registered /\ Freers(x) = {}
          /\ \A r \in Proc : pc[r] = "reg" /\ cur[r] = x => r = p
      BY <1>2, <2>0, Zenon
    <2>2. CASE Free(q)
      <3> PICK e \in freeing[q] : reg' = [reg EXCEPT ![e] = None]
        BY <2>2, Zenon DEF Free
      <3>1. e # x
        BY <2>1, Zenon DEF Freers
      <3> QED  BY <1>0, <3>1, Zenon
    <2>3. CASE Create(q)
      <3>1. CASE UNCHANGED entries
        BY <3>1, Zenon DEF entries
      <3>2. ASSUME NEW e \in Lowest(Pool), NEW r, Made(e, r)
            PROVE  reg'[x] = reg[x]
        <4>1. e # x
          BY <2>1, Zenon DEF Lowest, Pool, Registered
        <4> QED  BY <1>0, <3>2, <4>1, Zenon DEF Made
      <3> QED  BY <2>3, <3>1, <3>2, Zenon DEF Create
    <2>4. CASE RegAdded(q)
      <3>1. pc[q] = "reg"
        BY <2>4, Zenon DEF RegAdded
      <3>2. cur[q] # x
        BY <2>0, <2>1, <3>1, Zenon
      <3> QED  BY <1>0, <2>4, <3>2, Zenon DEF RegAdded, entries
    <2>5. CASE ~(Free(q) \/ Create(q) \/ RegAdded(q))
      <3>1. reg' = reg
        BY <1>6, <2>5, Zenon DEF Call, Step, Delete, Cleanup, Check, Look, Hit,
            MissSearch, MissFind, Flush, AllFree, Insert, entries
      <3> QED  BY <3>1, Zenon
    <2> QED  BY <2>2, <2>3, <2>4, <2>5, Zenon
  <1>7. ASSUME NEW q \in Proc, Call(q) \/ Step(q) \/ Delete(q) \/ Cleanup(q)
        PROVE  reg'[cur'[p]] = want'[p]
    BY <1>1, <1>4, <1>5, <1>6, <1>7, Zenon
  <1>8. CASE (\E S : Unmap(S)) \/ Unmapped \/ UNCHANGED vars
    <2>1. UNCHANGED procs /\ reg' = reg
      BY <1>8, Zenon DEF Unmap, Unmapped, vars, entries
    <2> QED  BY <1>1, <2>1, Zenon DEF procs
  <1> QED  BY <1>3, <1>7, <1>8, Zenon DEF Next

(***************************************************************************)
(* Cleaning up.                                                            *)
(***************************************************************************)
\* Who cleans up is alone, and when it has found nothing more to free there
\* is nothing left.
LEMMA AloneEmpty ==
    ASSUME IInv, NEW p \in Proc, CloseOK(p), Closing(p)
    PROVE  /\ \A e \in Id : Users(e) = {}
           /\ tree \subseteq lru
           /\ \A q \in Proc : q # p => freeing[q] = {}
  <1>0. /\ TypeOK /\ (\A q \in Proc : CallOK(q)) /\ (\A e \in Id : StateOK(e))
    BY Zenon DEF IInv, OneState
  <1>1. \A q \in Proc : pc[q] \notin {"insert", "reg", "held"} /\ (q # p => pc[q] = "idle")
    BY Zenon DEF CloseOK, Closing
  <1>2. \A e \in Id : Users(e) = {}
    BY <1>1, Zenon DEF Users
  <1>3. tree \subseteq lru
    BY <1>0, <1>2, Zenon DEF StateOK, TypeOK
  <1>4. \A q \in Proc : q # p => freeing[q] = {}
    BY <1>0, <1>1, Zenon DEF CallOK
  <1> QED  BY <1>2, <1>3, <1>4, Zenon

\* A flush that finds nothing to free has seen the LRU list empty.
LEMMA NothingFreed ==
    ASSUME NEW p \in Proc, NEW S \in SUBSET lru, Evicts(S),
           AfterFlush("closing", dead \cup S) = "closed"
    PROVE  lru = {} /\ dead = {} /\ S = {}
  <1>1. dead \cup S = {}
    BY Zenon DEF AfterFlush
  <1> QED  BY <1>1, Zenon DEF Evicts

LEMMA CloseStep ==
    ASSUME IInv, Books, [Next]_vars
    PROVE  \A p \in Proc : CloseOK(p)'
  <1> SUFFICES ASSUME NEW p \in Proc PROVE CloseOK(p)'
    BY Zenon
  <1>0. /\ TypeOK /\ (\A q \in Proc : CallOK(q)) /\ (\A q \in Proc : CloseOK(q))
        /\ pc \in [Proc -> PCs] /\ then \in [Proc -> Thens] /\ freeing \in [Proc -> SUBSET Id]
        /\ calls \in [Proc -> Seq(Calls)]
    BY Zenon DEF IInv, TypeOK, Books
  <1>1. CASE (\E S : Unmap(S)) \/ Unmapped \/ UNCHANGED vars
    <2>1. pc' = pc /\ then' = then /\ calls' = calls /\ freeing' = freeing
      BY <1>1, Zenon DEF Unmap, Unmapped, vars, procs
    <2>2. ASSUME Closing(p), lru = {}, dead = {}
          PROVE  lru' = {} /\ dead' = {}
      <3>1. tree = {}
        BY <1>0, <2>2, AloneEmpty, Zenon
      <3>2. CASE UNCHANGED cache
        BY <2>2, <3>2, Zenon DEF cache
      <3>3. ASSUME NEW S, Uncache({e \in tree : S \cap Addrs(reg[e]) # {}})
            PROVE  lru' = {} /\ dead' = {}
        BY <2>2, <3>1, <3>3, Zenon DEF Uncache
      <3> QED  BY <1>1, <3>2, <3>3, Zenon DEF Unmap, Unmapped, vars
    <2>3. CloseOK(p)
      BY <1>0, Zenon
    <2> QED  BY <2>1, <2>2, <2>3, Zenon DEF CloseOK, Closing
  <1>2. ASSUME NEW q \in Proc, Cleanup(q)
        PROVE  CloseOK(p)'
    <2>1. /\ \A r \in Proc : calls'[r] = << >> /\ (r # q => pc'[r] = "idle")
          /\ pc'[q] = "evict" /\ then'[q] = "closing"
      BY <1>0, <1>2, Zenon DEF Cleanup, Goto
    <2> QED  BY <2>1, Zenon DEF CloseOK, Closing
  \* Any other step, of a call that is not cleaning up.
  <1>3. ASSUME NEW q \in Proc, Call(q) \/ Reg(q) \/ Step(q) \/ Delete(q)
        PROVE  /\ pc[q] = "idle" => calls[q] # << >>
               /\ pc[q] # "closed"
               /\ \A r \in Proc : r # q => /\ pc'[r] = pc[r] /\ then'[r] = then[r]
                                            /\ freeing'[r] = freeing[r] /\ calls'[r] = calls[r]
    <2>1. \A r \in Proc : r # q => pc'[r] = pc[r]
      BY <1>0, <1>3, Zenon DEF Call, Reg, Step, Delete, Check, Look, Hit, MissSearch, MissFind,
            Flush, Free, AllFree, Create, Insert, RegAdded, Unused, Return, FreeThen, Goto
    <2>2. \A r \in Proc : r # q => then'[r] = then[r] /\ freeing'[r] = freeing[r] /\ calls'[r] = calls[r]
      BY <1>0, <1>3, Zenon DEF Call, Called, Reg, Step, Delete, Check, Look, Hit, MissSearch, MissFind,
            Flush, Free, AllFree, Create, Insert, RegAdded, Unused, FreeThen
    <2>3. (pc[q] = "idle" => calls[q] # << >>) /\ pc[q] # "closed"
      BY <1>3, Zenon DEF Call, Called, Reg, Step, Delete, Check, Look, Flush, Free, AllFree, Create,
            Insert, RegAdded
    <2> QED  BY <2>1, <2>2, <2>3, Zenon
  <1>4. ASSUME NEW q \in Proc, Call(q) \/ Reg(q) \/ Step(q) \/ Delete(q), Closing(p)
        PROVE  q = p
    BY <1>0, <1>3, <1>4, Zenon DEF CloseOK
  <1>5. ASSUME NEW q \in Proc, Call(q) \/ Reg(q) \/ Step(q) \/ Delete(q), q # p
        PROVE  CloseOK(p)'
    <2>1. pc'[p] = pc[p] /\ then'[p] = then[p]
      BY <1>3, <1>5, Zenon
    <2>2. ~Closing(p) /\ CloseOK(p)
      BY <1>0, <1>4, <1>5, Zenon
    <2> QED  BY <2>1, <2>2, Zenon DEF CloseOK, Closing
  <1>6. ASSUME pc'[p] # "flush", ~Closing(p)'
        PROVE  CloseOK(p)'
    BY <1>6, Zenon DEF CloseOK
  <1>7. CASE Call(p) \/ Reg(p) \/ Look(p) \/ RegAdded(p)
    <2>1. \E l \in {"check", "reg", "held", "create", "idle"} : Goto(p, l)
      BY <1>7, Zenon DEF Call, Reg, Look, Hit, MissSearch, MissFind, RegAdded, Return
    <2>2. pc'[p] \in {"check", "reg", "held", "create", "idle"}
      BY <1>0, <2>1, Zenon DEF Goto
    <2> QED  BY <1>6, <2>2, Zenon DEF Closing
  <1>8. CASE Delete(p) \/ Insert(p)
    <2>1. \/ \E l \in {"held", "idle"} : Goto(p, l)
          \/ \E S : \E l \in {"idle", "check"} : FreeThen(p, S, l)
      BY <1>8, Zenon DEF Delete, Insert, Unused, Return
    <2>2. pc'[p] \in {"held", "idle"} \/ (pc'[p] = "free" /\ then'[p] \in {"idle", "check"})
      BY <1>0, <2>1, Zenon DEF Goto, FreeThen
    <2> QED  BY <1>6, <2>2, Zenon DEF Closing
  <1>9. CASE Check(p) \/ Create(p)
    <2>1. \/ then'[p] = "look"
          \/ pc'[p] = "insert"
          \/ pc'[p] = "evict" /\ then'[p] = "retry"
      BY <1>0, <1>9, Zenon DEF Check, Create, Goto
    <2>2. pc'[p] # "closed"
      BY <1>0, <1>9, Zenon DEF Check, Create, Goto
    <2> QED  BY <2>1, <2>2, Zenon DEF CloseOK, Closing
  <1>10. CASE Flush(p)
    <2> PICK S \in SUBSET lru :
            /\ IF pc[p] = "evict" THEN Evicts(S) ELSE S = {}
            /\ lru' = lru \ S
            /\ FreeThen(p, dead \cup S, AfterFlush(then[p], dead \cup S))
      BY <1>10, Zenon DEF Flush
    <2>1. /\ pc'[p] = "free" /\ then'[p] = AfterFlush(then[p], dead \cup S)
          /\ freeing'[p] = dead \cup S /\ dead' = {} /\ calls' = calls
          /\ \A r \in Proc : r # p => pc'[r] = pc[r]
      <3>1. dead \cup S \subseteq Id
        BY <1>0, Zenon DEF TypeOK
      <3> QED  BY <1>0, <1>10, <3>1, Zenon DEF FreeThen, Goto, Flush
    <2>2. CASE then[p] # "closing"
      <3>1. then'[p] \in {"idle", "check", "look"}
        BY <2>1, <2>2, Zenon DEF AfterFlush
      <3> QED  BY <1>6, <2>1, <3>1, Zenon DEF Closing
    <2>3. CASE then[p] = "closing"
      <3>1. pc[p] = "evict" /\ Closing(p) /\ Evicts(S)
        BY <1>0, <1>10, <2>3, Zenon DEF CloseOK, Closing, Flush
      <3>2. \A q \in Proc : calls'[q] = << >> /\ (q # p => pc'[q] = "idle")
        BY <1>0, <2>1, <3>1, Zenon DEF CloseOK
      <3>3. then'[p] = "closed" => lru' = {} /\ dead' = {} /\ freeing'[p] = {}
        <4>1. ASSUME then'[p] = "closed" PROVE lru = {} /\ dead = {} /\ S = {}
          BY <2>1, <2>3, <3>1, <4>1, NothingFreed, Zenon
        <4> QED  BY <2>1, <4>1, Zenon
      <3> QED  BY <2>1, <3>2, <3>3, Zenon DEF CloseOK, Closing
    <2> QED  BY <2>2, <2>3, Zenon
  <1>11. CASE Free(p)
    <2>1. /\ pc' = pc /\ then' = then /\ calls' = calls /\ lru' = lru /\ dead' = dead
          /\ pc[p] = "free" /\ freeing[p] # {}
      BY <1>11, Zenon DEF Free, cache
    <2> QED  BY <1>0, <2>1, Zenon DEF CloseOK, Closing
  <1>12. CASE AllFree(p)
    <2>1. /\ pc[p] = "free" /\ calls' = calls /\ lru' = lru /\ dead' = dead /\ freeing' = freeing
          /\ \A r \in Proc : r # p => pc'[r] = pc[r]
      BY <1>0, <1>12, Zenon DEF AllFree, cache, Goto, Return
    <2>2. CASE then[p] \in {"look", "check", "idle"}
      <3>1. pc'[p] \in {"look", "check", "idle"}
        BY <1>0, <1>12, <2>2, Zenon DEF AllFree, Goto, Return
      <3> QED  BY <1>6, <3>1, Zenon DEF Closing
    <2>3. CASE then[p] = "again"
      <3>1. pc'[p] = "evict" /\ then'[p] = "closing"
        BY <1>0, <1>12, <2>3, Zenon DEF AllFree, Goto
      <3> QED  BY <1>0, <2>1, <2>3, <3>1, Zenon DEF CloseOK, Closing
    <2>4. CASE then[p] = "closed"
      <3>1. pc'[p] = "closed" /\ then'[p] = "closed"
        BY <1>0, <1>12, <2>4, Zenon DEF AllFree, Goto
      <3> QED  BY <1>0, <2>1, <2>4, <3>1, Zenon DEF CloseOK, Closing
    <2> QED  BY <1>12, <2>2, <2>3, <2>4, Zenon DEF AllFree
  <1> QED  BY <1>1, <1>2, <1>5, <1>7, <1>8, <1>9, <1>10, <1>11, <1>12, Zenon DEF Next, Step

LEMMA BooksOpen == Init => Books
  <1> SUFFICES ASSUME Init PROVE Books
    BY Zenon
  <1> USE DEF Init
  <1>1. Uncached = {} /\ tree = {}
    BY Zenon DEF Uncached, InHand
  <1>2. Covered(reg, {}) = {}
    BY Zenon DEF Covered
  <1>3. Balanced(0, 0, {}, reg)
    BY <1>2, FS_EmptySet, Zenon DEF Balanced
  <1>4. 0 \in 0 .. MaxCnt
    BY MaxAssumption
  <1>5. Ledgers
    BY <1>1, <1>3, <1>4, Zenon DEF Ledgers
  <1>6. \A p \in Proc : pc[p] = "idle"
    BY Zenon
  <1> QED  BY <1>5, <1>6, Zenon DEF Books, CloseOK, Closing

\* What the books say of the counters, and of a cache that is cleaned up.
LEMMA BooksRight == IInv /\ Books => Accounts
  <1> SUFFICES ASSUME IInv, Books PROVE Accounts
    BY Zenon
  <1>1. Counted
    BY Zenon DEF Books, Ledgers, Balanced, Counted, SizeOf
  <1>2. ASSUME NEW p \in Proc, pc[p] = "closed"
        PROVE  Registered = {} /\ cached_cnt + cached_size + uncached_cnt + uncached_size = 0
    <2>1. CloseOK(p) /\ Closing(p)
      BY <1>2, Zenon DEF Books, Closing
    <2>2. lru = {} /\ dead = {} /\ freeing[p] = {}
      BY <1>2, <2>1, Zenon DEF CloseOK
    <2>3. /\ \A e \in Id : Users(e) = {} /\ Freers(e) = {}
          /\ tree = {}
      BY <2>1, <2>2, AloneEmpty, Zenon DEF Freers
    <2>4. Registered = {}
      <3>1. \A e \in Id : e \notin Registered
        BY <2>2, <2>3, Zenon DEF IInv, OneState, StateOK
      <3> QED  BY <3>1, Zenon DEF Registered
    <2>5. Uncached = {}
      <3>1. \A e \in Id : ~InHand(e)
        BY <2>3, Zenon DEF InHand, Users
      <3> QED  BY <3>1, Zenon DEF Uncached
    <2>6. cached_cnt = 0 /\ cached_size = 0 /\ uncached_cnt = 0 /\ uncached_size = 0
      <3>1. Balanced(cached_cnt, cached_size, tree, reg) /\ Balanced(uncached_cnt, uncached_size, Uncached, reg)
        BY Zenon DEF Books, Ledgers
      <3>2. cached_cnt = 0 /\ cached_size = 0
        BY <2>3, <3>1, BalancedNone, Zenon
      <3>3. uncached_cnt = 0 /\ uncached_size = 0
        BY <2>5, <3>1, BalancedNone, Zenon
      <3> QED  BY <3>2, <3>3, Zenon
    <2> QED  BY <2>4, <2>6
  <1> QED  BY <1>1, <1>2, Zenon DEF Accounts, CleanedUp


\* Every step keeps the books, whatever it does to the entries.
LEMMA BooksStep ==
    ASSUME IInv, CountRule, Books, [Next]_vars
    PROVE  Books'
  <1>1. Ledgers'
    BY LedgerStep, Zenon
  <1>2. \A p \in Proc : pc'[p] = "reg" => reg'[cur'[p]] = want'[p]
    BY RegStep, Zenon
  <1>3. \A p \in Proc : CloseOK(p)'
    BY CloseStep, Zenon
  <1> QED  BY <1>1, <1>2, <1>3, Zenon DEF Books

(***************************************************************************)
(* Every step leaves the tree ordered, and what the monitor was told of    *)
(* current.                                                                *)
(***************************************************************************)
\* No region of the tree contains another after a step either.
LEMMA NestedStep ==
    ASSUME IInv, [Next]_vars
    PROVE  NoneNested'
  <1>0. TypeOK /\ NoneNested /\ \A p \in Proc : CallOK(p)
    BY Zenon DEF IInv
  <1>1. ASSUME tree' \subseteq tree, \A e \in tree : reg'[e] = reg[e]
        PROVE  NoneNested'
    BY <1>0, <1>1, Zenon DEF NoneNested
  <1>2. ASSUME NEW p \in Proc, Call(p) \/ Check(p) \/ AllFree(p) \/ Cleanup(p)
        PROVE  NoneNested'
    BY <1>1, <1>2, Zenon DEF Call, Check, AllFree, Cleanup, cache, entries
  <1>3. ASSUME NEW x \in Lowest(Pool), NEW r, Made(x, r), UNCHANGED tree
        PROVE  NoneNested'
    <2>1. x \notin tree
      BY TreeFacts, Zenon DEF Lowest, Pool, Registered
    <2>2. \A e \in tree : reg'[e] = reg[e]
      BY <1>0, <1>3, <2>1, Zenon DEF Made, TypeOK
    <2> QED  BY <1>1, <1>3, <2>2, Zenon
  <1>4. ASSUME NEW p \in Proc, Reg(p)
        PROVE  NoneNested'
    <2> PICK x \in Lowest(Pool) : Made(x, want'[p])
      BY <1>4, Zenon DEF Reg
    <2> PICK r : r = want'[p]
      BY Zenon
    <2>1. Made(x, r)
      BY Zenon DEF Made
    <2> QED  BY <1>3, <1>4, <2>1, Zenon DEF Reg
  <1>5. ASSUME NEW S, Uncache(S), UNCHANGED reg
        PROVE  NoneNested'
    BY <1>1, <1>5, Zenon DEF Uncache
  <1>7. ASSUME NEW p \in Proc, Look(p)
        PROVE  NoneNested'
    BY <1>1, <1>5, <1>7, Zenon DEF Look, Hit, MissSearch, MissFind, cache, entries
  <1>8. ASSUME NEW p \in Proc, Flush(p)
        PROVE  NoneNested'
    BY <1>1, <1>8, Zenon DEF Flush, entries
  <1>9. ASSUME NEW p \in Proc, Free(p)
        PROVE  NoneNested'
    <2> PICK x \in freeing[p] : reg' = [reg EXCEPT ![x] = None]
      BY <1>9, Zenon DEF Free
    <2>1. x \notin tree
      BY TreeFacts, Zenon DEF Freers
    <2>2. \A e \in tree : reg'[e] = reg[e]
      BY <1>0, <2>1, Zenon DEF TypeOK
    <2> QED  BY <1>1, <1>9, <2>2, Zenon DEF Free, cache
  <1>11. ASSUME NEW p \in Proc, Create(p)
         PROVE  NoneNested'
    BY <1>1, <1>3, <1>11, Zenon DEF Create, cache, entries
  <1>12. ASSUME NEW p \in Proc, Insert(p)
         PROVE  NoneNested'
    <2>1. UNCHANGED reg /\ pc[p] = "insert" /\ reg[cur[p]] = info[p]
      BY <1>0, <1>12, Zenon DEF Insert, CallOK
    <2>2. CASE ~ Conflict(p) /\ tree' = tree \cup {cur[p]}
      <3>1. \A e \in tree : ~ Nested(reg[cur[p]], reg[e]) /\ ~ Nested(reg[e], reg[cur[p]])
        BY <2>1, <2>2, Zenon DEF Conflict, Nested
      <3> QED  BY <1>0, <2>1, <2>2, <3>1, Zenon DEF NoneNested
    <2>3. CASE UNCHANGED tree
      BY <1>1, <2>1, <2>3, Zenon
    <2> QED  BY <1>12, <2>2, <2>3, Zenon DEF Insert, InTree, Outside, cache
  <1>13. ASSUME NEW p \in Proc, RegAdded(p)
         PROVE  NoneNested'
    <2>1. cur[p] \notin tree /\ UNCHANGED tree
      BY <1>0, <1>13, Zenon DEF RegAdded, CallOK, cache
    <2>2. reg' = reg \/ reg' = [reg EXCEPT ![cur[p]] = None]
      BY <1>13, Zenon DEF RegAdded, entries
    <2>3. \A e \in tree : reg'[e] = reg[e]
      BY <1>0, <2>1, <2>2, Zenon DEF TypeOK
    <2> QED  BY <1>1, <2>1, <2>3, Zenon
  <1>14. ASSUME NEW p \in Proc, Delete(p)
         PROVE  NoneNested'
    BY <1>1, <1>14, Zenon DEF Delete, Unused, cache
  <1>16. ASSUME NEW S, Unmap(S)
         PROVE  NoneNested'
    BY <1>1, <1>5, <1>16, Zenon DEF Unmap, cache, entries
  <1>17. CASE Unmapped \/ UNCHANGED vars
    BY <1>1, <1>17, Zenon DEF Unmapped, vars, cache, entries
  <1> QED
    BY <1>2, <1>4, <1>7, <1>8, <1>9, <1>11, <1>12, <1>13, <1>14, <1>16, <1>17, Zenon DEF Next, Step

\* What a step does not touch stays current.
LEMMA MonitorSame ==
    ASSUME IInv, UNCHANGED <<setup, memory, raced, reg, stamp>>, tree' \subseteq tree,
           \A q \in Proc : pc'[q] = "insert" => pc[q] = "insert" /\ cur'[q] = cur[q]
    PROVE  MonitorOK'
  <1>1. MonitorOK
    BY Zenon DEF IInv
  <1> QED  BY <1>1 DEF MonitorOK, Current, memory

\* One entry x is made or undone; the others stay as they are.
LEMMA MonitorOther ==
    ASSUME IInv, NEW x \in Id, x \notin tree, UNCHANGED <<setup, memory, tree>>,
           \A e \in Id \ {x} : reg'[e] = reg[e] /\ stamp'[e] = stamp[e] /\ (e \in raced <=> e \in raced'),
           setup.provider = "exact" => raced' = {},
           \A a, b \in Addrs(reg'[x]) : setup.monitor = "query" => stamp'[x][a] = stamp'[x][b],
           \A q \in Proc : pc'[q] = "insert" =>
              \/ pc[q] = "insert" /\ cur'[q] = cur[q] /\ cur[q] # x
              \/ /\ cur'[q] = x
                 /\ x \in raced' \/ \A a \in Addrs(reg'[x]) : a \notin going /\ stamp'[x][a] = mapping[a]
    PROVE  MonitorOK'
  <1>1. MonitorOK /\ TypeOK /\ \A q \in Proc : CallOK(q)
    BY Zenon DEF IInv
  <1>2. ASSUME NEW e \in Id \ {x}, e \in raced \/ Current(e)
        PROVE  e \in raced' \/ Current(e)'
    BY <1>2, Zenon DEF Current, memory
  <1>3. setup.monitor = "notify" => \A e \in tree' : e \in raced' \/ Current(e)'
    BY <1>1, <1>2, Zenon DEF MonitorOK, TypeOK
  <1>4. ASSUME setup.monitor = "notify", NEW q \in Proc, pc'[q] = "insert"
        PROVE  cur'[q] \in raced' \/ Current(cur[q])'
    <2>1. CASE pc[q] = "insert" /\ cur'[q] = cur[q] /\ cur[q] # x
      <3>1. PICK e \in Id \ {x} : e = cur[q]
        BY <1>1, <2>1, Zenon DEF CallOK
      <3>2. e \in raced \/ Current(e)
        BY <1>1, <1>4, <2>1, <3>1 DEF MonitorOK, Current
      <3>3. e \in raced' \/ Current(e)'
        BY <1>2, <3>2, Zenon
      <3>4. cur'[q] = e
        BY <2>1, <3>1, Zenon
      <3> QED  BY <3>3, <3>4, Zenon DEF Current
    <2>2. CASE /\ cur'[q] = x
               /\ x \in raced' \/ \A a \in Addrs(reg'[x]) : a \notin going /\ stamp'[x][a] = mapping[a]
      BY <2>2, Zenon DEF Current, memory
    <2> QED  BY <1>4, <2>1, <2>2, Zenon
  <1>5. setup.monitor = "query" =>
            \A e \in Id : \A a, b \in Addrs(reg'[e]) : stamp'[e][a] = stamp'[e][b]
    BY <1>1 DEF MonitorOK
  <1> QED  BY <1>1, <1>3, <1>4, <1>5, Zenon DEF MonitorOK, memory

LEMMA MonitorStep ==
    ASSUME IInv, [Next]_vars
    PROVE  MonitorOK'
  <1> USE DEF PCs, Using
  <1>0. TypeOK /\ OneState /\ MonitorOK /\ \A p \in Proc : CallOK(p)
    BY Zenon DEF IInv
  <1>1. /\ setup.provider \in {"exact", "aligned"}
        /\ setup.monitor \in {"notify", "query"}
        /\ setup.monitor = "query" => setup.provider = "exact"
    BY <1>0, SetupAssumption, Zenon DEF TypeOK
  <1>2. ASSUME NEW p \in Proc, NEW l \in PCs, Goto(p, l), l # "insert",
               \A q \in Proc \ {p} : cur'[q] = cur[q],
               UNCHANGED <<setup, memory, raced, reg, stamp>>, tree' \subseteq tree
        PROVE  MonitorOK'
    <2>1. \A q \in Proc : pc'[q] = "insert" => pc[q] = "insert" /\ cur'[q] = cur[q]
      BY <1>0, <1>2, Zenon DEF TypeOK, Goto
    <2> QED  BY <1>2, <2>1, MonitorSame, Zenon
  <1>3. ASSUME NEW p \in Proc, Call(p)
        PROVE  MonitorOK'
    BY <1>2, <1>3, Zenon DEF Call, cache, entries
  <1>5. ASSUME NEW p \in Proc, Check(p)
        PROVE  MonitorOK'
    <2>1. PICK l \in {"evict", "flush"} : Goto(p, l)
      BY <1>5, Zenon DEF Check
    <2> QED  BY <1>2, <1>5, <2>1, Zenon DEF Check, cache, entries
  <1>7. ASSUME NEW p \in Proc, Look(p)
        PROVE  MonitorOK'
    <2>1. PICK l \in {"held", "create", "idle"} : Goto(p, l)
      BY <1>7, Zenon DEF Look, Hit, MissSearch, MissFind, Return
    <2>2. \A q \in Proc \ {p} : cur'[q] = cur[q]
      BY <1>0, <1>7, Zenon DEF TypeOK, Look, Hit, MissSearch, MissFind, Return
    <2>3. UNCHANGED <<setup, memory, raced, reg, stamp>> /\ tree' \subseteq tree
      BY <1>7, Zenon DEF Look, Hit, MissSearch, MissFind, Uncache, cache, entries
    <2> QED  BY <1>2, <2>1, <2>2, <2>3, Zenon
  <1>8. ASSUME NEW p \in Proc, Flush(p)
        PROVE  MonitorOK'
    BY <1>2, <1>8, Zenon DEF Flush, FreeThen, entries
  <1>9. ASSUME NEW p \in Proc, Free(p)
        PROVE  MonitorOK'
    <2> PICK x \in freeing[p] :
            /\ reg' = [reg EXCEPT ![x] = None] /\ stamp' = [stamp EXCEPT ![x] = NoStamp]
            /\ raced' = raced \ {x}
      BY <1>9, Zenon DEF Free
    <2>1. x \in Id /\ p \in Freers(x)
      BY <1>0, Zenon DEF TypeOK, Freers
    <2>2. x \notin tree /\ Users(x) = {}
      BY <1>0, <2>1, TreeFacts, Zenon DEF OneState, StateOK
    <2>3. \A q \in Proc : pc[q] = "insert" => cur[q] # x
      BY <2>2, Zenon DEF Users
    <2>4. /\ \A e \in Id \ {x} : reg'[e] = reg[e] /\ stamp'[e] = stamp[e]
          /\ Addrs(reg'[x]) = {}
      BY <1>0, <2>1, RegionFacts, Zenon DEF TypeOK
    <2>5. UNCHANGED <<setup, tree, memory, pc, cur>>
      BY <1>9, Zenon DEF Free, cache
    <2>6. setup.provider = "exact" => raced' = {}
      BY <1>0, Zenon DEF MonitorOK
    <2> QED  BY <2>1, <2>2, <2>3, <2>4, <2>5, <2>6, MonitorOther, Zenon
  <1>10. ASSUME NEW p \in Proc, AllFree(p)
         PROVE  MonitorOK'
    <2>1. PICK l \in {"look", "check", "idle", "evict", "closed"} : Goto(p, l)
      BY <1>10, Zenon DEF AllFree, Return
    <2>2. \A q \in Proc \ {p} : cur'[q] = cur[q]
      BY <1>0, <1>10, Zenon DEF TypeOK, AllFree, Return
    <2> QED  BY <1>2, <1>10, <2>1, <2>2, Zenon DEF AllFree, cache, entries
  <1>11. ASSUME NEW p \in Proc, NEW x \in Lowest(Pool), NEW r \in Regions, Made(x, r),
                UNCHANGED <<setup, tree, memory>>,
                \A e \in Id \ {x} : e \in raced <=> e \in raced',
                setup.provider = "exact" => raced' = {},
                \A q \in Proc \ {p} : pc'[q] = pc[q] /\ cur'[q] = cur[q],
                pc'[p] = "insert" => cur'[p] = x /\ (x \in raced' \/ Addrs(r) \cap going = {})
         PROVE  MonitorOK'
    <2>1. x \in Id /\ x \notin Registered
      BY Zenon DEF Lowest, Pool, Registered
    <2>2. x \notin tree /\ Users(x) = {}
      BY <1>0, <2>1, TreeFacts, Zenon DEF OneState, StateOK
    <2>3. \A q \in Proc : pc[q] = "insert" => cur[q] # x
      BY <2>2, Zenon DEF Users
    <2>4. /\ \A e \in Id \ {x} : reg'[e] = reg[e] /\ stamp'[e] = stamp[e]
          /\ reg'[x] = r
          /\ \A a \in Addrs(r) : stamp'[x][a] = mapping[a]
      BY <1>0, <1>11, <2>1, Zenon DEF TypeOK, Made, Addrs
    <2>5. \A a, b \in Addrs(reg'[x]) : setup.monitor = "query" => stamp'[x][a] = stamp'[x][b]
      BY <1>0, <2>4 DEF MonitorOK, Addrs
    <2>6. \A q \in Proc : pc'[q] = "insert" =>
              \/ pc[q] = "insert" /\ cur'[q] = cur[q] /\ cur[q] # x
              \/ /\ cur'[q] = x
                 /\ x \in raced' \/ \A a \in Addrs(reg'[x]) : a \notin going /\ stamp'[x][a] = mapping[a]
      BY <1>11, <2>3, <2>4, Zenon
    <2> QED  BY <1>11, <2>1, <2>2, <2>4, <2>5, <2>6, MonitorOther, Zenon
  <1>12. ASSUME NEW p \in Proc, Create(p)
         PROVE  MonitorOK'
    <2>1. /\ info[p] \in Regions /\ want[p] # None /\ Addrs(want[p]) \cap going = {}
          /\ setup.provider = "exact" => info[p] = want[p]
      <3>1. Searching(p)
        BY <1>12, Zenon DEF Create, Searching
      <3> QED  BY <1>0, <3>1, Zenon DEF TypeOK, CallOK
    <2> DEFINE r == IF setup.provider = "aligned" THEN Aligned[info[p]] ELSE info[p]
    <2>2. r \in Regions /\ (setup.provider = "exact" => Addrs(r) \cap going = {})
      BY <2>1, AlignedAssumption, Zenon
    <2> HIDE DEF r
    <2>3. UNCHANGED <<setup, tree, memory>>
      BY <1>12, Zenon DEF Create, cache
    <2>4. ASSUME NEW x \in Lowest(Pool), Made(x, r), cur' = [cur EXCEPT ![p] = x],
                 raced' = IF Addrs(r) \cap going = {} THEN raced ELSE raced \cup {x},
                 Goto(p, "insert")
          PROVE  MonitorOK'
      <3>1. /\ pc'[p] = "insert" /\ cur'[p] = x
            /\ \A q \in Proc \ {p} : pc'[q] = pc[q] /\ cur'[q] = cur[q]
        BY <1>0, <2>4, Zenon DEF TypeOK, Goto
      <3>2. /\ setup.provider = "exact" => raced' = {}
            /\ \A e \in Id \ {x} : e \in raced <=> e \in raced'
            /\ x \in raced' \/ Addrs(r) \cap going = {}
        BY <1>0, <2>2, <2>4, Zenon DEF MonitorOK
      <3> QED  BY <1>11, <2>2, <2>3, <2>4, <3>1, <3>2, Zenon
    <2>5. ASSUME Goto(p, "evict"), UNCHANGED <<entries, cur, raced>>
          PROVE  MonitorOK'
      BY <1>2, <2>3, <2>5, Zenon DEF entries
    <2> QED  BY <1>12, <2>4, <2>5, Zenon DEF Create, r
  <1>13. ASSUME NEW p \in Proc, Insert(p)
         PROVE  MonitorOK'
    <2>1. pc[p] = "insert" /\ UNCHANGED <<setup, reg, stamp, cur, memory, raced>>
      BY <1>13, Zenon DEF Insert
    <2>2. CASE Goto(p, "held") /\ InTree(p)
      <3>1. /\ setup.monitor = "notify" => cur[p] \in raced \/ Current(cur[p])
            /\ tree' = tree \cup {cur[p]}
        BY <1>0, <2>1, <2>2, Zenon DEF MonitorOK, InTree
      <3>2. \A q \in Proc : pc'[q] = "insert" => pc[q] = "insert"
        BY <1>0, <2>2, Zenon DEF TypeOK, Goto
      <3> QED  BY <1>0, <2>1, <3>1, <3>2 DEF MonitorOK, Current, memory
    <2>3. ASSUME NEW l \in {"held", "free"}, Goto(p, l), UNCHANGED tree
          PROVE  MonitorOK'
      BY <1>2, <2>1, <2>3, Zenon
    <2> QED  BY <1>13, <2>2, <2>3, Zenon DEF Insert, Outside, FreeThen, cache
  <1>14. ASSUME NEW p \in Proc, Reg(p)
         PROVE  MonitorOK'
    <2> PICK x \in Lowest(Pool) : Made(x, want'[p]) /\ cur' = [cur EXCEPT ![p] = x]
      BY <1>14, Zenon DEF Reg
    <2>2. PICK r \in Regions : want'[p] = r
      BY <1>0, <1>14, CalledFor, Zenon DEF Reg
    <2>3. /\ pc'[p] = "reg"
          /\ \A q \in Proc \ {p} : pc'[q] = pc[q] /\ cur'[q] = cur[q]
      BY <1>0, <1>14, Zenon DEF TypeOK, Reg, Goto
    <2>4. Made(x, r)
      BY <2>2, Zenon DEF Made
    <2>5. UNCHANGED <<setup, tree, memory, raced>>
      BY <1>14, Zenon DEF Reg
    <2> QED  BY <1>0, <1>11, <2>3, <2>4, <2>5, Zenon DEF MonitorOK
  <1>15. ASSUME NEW p \in Proc, RegAdded(p)
         PROVE  MonitorOK'
    <2>1. PICK x \in Id : x = cur[p]
      BY <1>0, <1>15, Zenon DEF CallOK, RegAdded
    <2>2. pc[p] = "reg" /\ x \notin tree /\ Users(x) = {p} /\ UNCHANGED <<setup, tree, memory, raced>>
      BY <1>0, <1>15, <2>1, Zenon DEF CallOK, RegAdded, cache
    <2>3. CASE Goto(p, "held") /\ UNCHANGED <<entries, cur>>
      BY <1>2, <2>2, <2>3, Zenon DEF entries
    <2>4. CASE /\ reg' = [reg EXCEPT ![cur[p]] = None]
               /\ stamp' = [stamp EXCEPT ![cur[p]] = NoStamp] /\ Return(p)
      <3>1. /\ pc'[p] = "idle"
            /\ \A q \in Proc \ {p} : pc'[q] = pc[q] /\ cur'[q] = cur[q]
        BY <1>0, <2>4, Zenon DEF TypeOK, Return, Goto
      <3>2. \A q \in Proc : pc[q] = "insert" => cur[q] # x
        BY <2>2, Zenon DEF Users
      <3>3. /\ \A e \in Id \ {x} : reg'[e] = reg[e] /\ stamp'[e] = stamp[e]
            /\ Addrs(reg'[x]) = {}
        BY <1>0, <2>1, <2>4, RegionFacts DEF TypeOK
      <3>4. setup.provider = "exact" => raced' = {}
        BY <1>0, <2>2, Zenon DEF MonitorOK
      <3>5. \A q \in Proc : pc'[q] = "insert" => pc[q] = "insert" /\ cur'[q] = cur[q] /\ cur[q] # x
        BY <3>1, <3>2, Zenon
      <3> QED  BY <2>1, <2>2, <3>3, <3>4, <3>5, MonitorOther, Zenon
    <2> QED  BY <1>15, <2>3, <2>4, Zenon DEF RegAdded
  <1>16. ASSUME NEW p \in Proc, Delete(p)
         PROVE  MonitorOK'
    <2>1. PICK l \in {"idle", "free"} : Goto(p, l)
      BY <1>16, Zenon DEF Delete, Unused, Return, FreeThen
    <2>2. \A q \in Proc \ {p} : cur'[q] = cur[q]
      BY <1>0, <1>16, Zenon DEF TypeOK, Delete, Unused, Return
    <2> QED  BY <1>2, <1>16, <2>1, <2>2, Zenon DEF Delete, Unused, cache
  <1>17. ASSUME NEW p \in Proc, Cleanup(p)
         PROVE  MonitorOK'
    BY <1>2, <1>17, Zenon DEF Cleanup, cache, entries
  <1>18. ASSUME NEW S \in IF setup.monitor = "query" THEN {Addr} ELSE {{a} : a \in Addr}, Unmap(S)
         PROVE  MonitorOK'
    <2>1. UNCHANGED <<setup, reg, stamp, pc, cur, info, mapping>> /\ going' = going \cup S
      BY <1>18, Zenon DEF Unmap, entries, procs
    <2>2. raced' = raced \cup {cur[p] : p \in {q \in Proc : pc[q] = "insert" /\ S \cap Addrs(info[q]) # {}}}
      BY <1>18, Zenon DEF Unmap
    <2>3. ASSUME setup.provider = "exact"
          PROVE  raced' = {}
      <3>1. \A q \in Proc : pc[q] = "insert" => S \cap Addrs(info[q]) = {}
        BY <1>0, <1>18, <2>3, Zenon DEF CallOK, Unmap
      <3> QED  BY <1>0, <2>2, <2>3, <3>1, Zenon DEF MonitorOK
    <2>4. CASE setup.monitor = "notify"
      <3>1. tree' = {e \in tree : S \cap Addrs(reg[e]) = {}}
        BY <1>18, <2>4, Zenon DEF Unmap, Uncache
      <3>2. \A e \in tree' : e \in raced' \/ Current(e)'
        BY <1>0, <2>1, <2>2, <2>4, <3>1 DEF MonitorOK, Current
      <3>3. ASSUME NEW q \in Proc, pc'[q] = "insert"
            PROVE  cur'[q] \in raced' \/ Current(cur[q])'
        <4>1. pc[q] = "insert" /\ reg[cur[q]] = info[q] /\ (cur[q] \in raced \/ Current(cur[q]))
          BY <1>0, <2>1, <2>4, <3>3, Zenon DEF CallOK, MonitorOK
        <4> QED  BY <2>1, <2>2, <4>1, Zenon DEF Current
      <3> QED  BY <2>1, <2>3, <2>4, <3>2, <3>3, Zenon DEF MonitorOK
    <2>5. CASE setup.monitor = "query"
      BY <1>0, <1>18, <2>1, <2>3, <2>5 DEF MonitorOK, TypeOK
    <2> QED  BY <1>1, <2>4, <2>5, Zenon
  <1>19. CASE Unmapped
    <2>1. UNCHANGED <<setup, reg, stamp, pc, cur, tree, raced>> /\ going' = {}
      BY <1>19, Zenon DEF Unmapped, cache, entries, procs
    <2>2. \A a \in Addr : mapping'[a] = IF a \in going THEN mapping[a] + 1 ELSE mapping[a]
      BY <1>19, Zenon DEF Unmapped
    <2>3. \A e : Current(e) => \A a \in Addrs(reg'[e]) : a \notin going' /\ stamp'[e][a] = mapping'[a]
      BY <2>1, <2>2, Zenon DEF Current, Addrs
    <2>4. CASE setup.monitor = "notify"
      BY <1>0, <2>1, <2>3, <2>4 DEF MonitorOK, Current
    <2>5. CASE setup.monitor = "query"
      <3>1. \A a, b \in Addr : mapping'[a] = mapping'[b]
        BY <1>0, <2>2, <2>5, Zenon DEF MonitorOK
      <3> QED  BY <1>0, <2>1, <2>5, <3>1 DEF MonitorOK
    <2> QED  BY <1>1, <2>4, <2>5, Zenon
  <1>20. CASE UNCHANGED vars
    BY <1>20, MonitorSame, Zenon DEF vars, cache, entries, procs
  <1> QED
    BY <1>3, <1>5, <1>7, <1>8, <1>9, <1>10, <1>12, <1>13, <1>14, <1>15, <1>16, <1>17,
       <1>18, <1>19, <1>20 DEF Next, Step

(***************************************************************************)
(* The invariant.                                                          *)
(***************************************************************************)
\* Calls are made by finitely many threads.
LEMMA Finite == CountRule
  <1> SUFFICES ASSUME NEW S \in SUBSET Proc
               PROVE  /\ Cardinality(S) \in Nat
                      /\ Cardinality(S) = 0 <=> S = {}
                      /\ \A p \in Proc :
                          /\ p \notin S => Cardinality(S \cup {p}) = Cardinality(S) + 1
                          /\ p \in S => Cardinality(S \ {p}) = Cardinality(S) - 1
    BY Zenon DEF CountRule
  <1>1. IsFiniteSet(S)
    BY ProcAssumption, FS_Subset, Zenon
  <1>2. Cardinality(S) \in Nat /\ (Cardinality(S) = 0 <=> S = {})
    BY <1>1, FS_CardinalityType, FS_EmptySet, Zenon
  <1>3. ASSUME NEW p \in Proc, p \notin S PROVE Cardinality(S \cup {p}) = Cardinality(S) + 1
    BY <1>1, <1>3, FS_AddElement, Zenon
  <1>4. ASSUME NEW p \in Proc, p \in S PROVE Cardinality(S \ {p}) = Cardinality(S) - 1
    BY <1>1, <1>4, FS_RemoveElement, Zenon
  <1> QED  BY <1>2, <1>3, <1>4, Zenon

LEMMA InitInv == Init => IInv
  <1> SUFFICES ASSUME Init
               PROVE  IInv
    BY Zenon
  <1> USE DEF Init
  <1>1. TypeOK
    <2>1. calls \in [Proc -> Seq(Calls)]
      BY SetupAssumption, Zenon
    <2>2. stamp \in [Id -> [Addr -> Nat]]
      BY Zenon DEF NoStamp
    <2> QED  BY <2>1, <2>2, Zenon DEF TypeOK, PCs, Thens
  <1>2. \A e \in Id : Users(e) = {} /\ Freers(e) = {} /\ Cardinality({}) = 0
    BY Finite, SmallCounts, Zenon DEF Users, Freers
  <1>3. OneState
    BY <1>2, Zenon DEF OneState, StateOK, Registered
  <1>4. \A p \in Proc : CallOK(p)
    BY Zenon DEF CallOK, Searching
  <1>5. MonitorOK
    BY RegionFacts, Zenon DEF MonitorOK
  <1> QED  BY <1>1, <1>3, <1>4, <1>5, Zenon DEF IInv, NoneNested

\* IInv is an invariant of util_mr_cache.c, whatever the calls, the regions,
\* the limits of the cache and the number of threads.
THEOREM Invariant == Spec => []IInv
  <1>1. IInv /\ [Next]_vars => IInv'
    BY Finite, TypeStep, StateStep, NestedStep, CallStep, MonitorStep, Zenon DEF IInv
  <1> QED  BY InitInv, <1>1, PTL DEF Spec

\* Every entry is used, cached, dead or being freed by one thread, and
\* use_cnt counts its users.
THEOREM EntriesInOneState == Spec => []OneState
  <1>1. IInv => OneState
    BY Zenon DEF IInv
  <1> QED  BY <1>1, Invariant, PTL

\* The regions of the tree can be ordered: none contains another.
THEOREM TreeOrdered == Spec => []NoneNested
  <1>1. IInv => NoneNested
    BY Zenon DEF IInv
  <1> QED  BY <1>1, Invariant, PTL

\* Who holds an entry may use it: it covers the buffer and is not stale,
\* but for the case that Excused names.
THEOREM HoldersFresh == Spec => []HeldFresh
  <1>1. IInv => HeldFresh
    BY Zenon DEF IInv, HeldFresh, CallOK
  <1> QED  BY <1>1, Invariant, PTL

\* The counters that limit the cache are right in every state, also while
\* entries in use are uncached, after a registration that failed and when
\* ofi_mr_cache_cleanup has run: then nothing is registered any more.
THEOREM AccountsAlways == Spec => []Accounts
  <1>1. IInv /\ Books /\ [Next]_vars => Books'
    BY Finite, BooksStep, Zenon
  <1> QED  BY <1>1, Invariant, BooksOpen, BooksRight, PTL DEF Spec
==============================================================================
