---------------------------- MODULE MrCacheStates ----------------------------
(***************************************************************************)
(* Lemmas on the registration cache: regions, the number of users of an    *)
(* entry, how a step changes who uses the entries, and what is known of    *)
(* entries in use and of the tree.  What the counts need of finite sets is *)
(* CountRule, proved in MrCacheProofs.  Then: every step keeps the types of *)
(* the variables, leaves each entry in one state, and leaves the calls     *)
(* knowing what they knew of their entries.                                *)
(***************************************************************************)
EXTENDS MrCache, TLAPS

\* A region has a first address; None has none.
LEMMA RegionFacts ==
    /\ \A r \in Regions : /\ r[1] \in Addrs(r) /\ r[1] \in Nat /\ r[2] \in Nat
                          /\ r # None
    /\ Addrs(None) = {}
    /\ \A r, s \in Regions : Within(r, s) => Addrs(r) \subseteq Addrs(s)
    /\ \A r, s, t \in Regions : Within(r, s) /\ Within(s, t) => Within(r, t)
    /\ \A r \in Regions : Within(r, r)
  <1>1. \A r \in Regions : r[1] \in Addr /\ r[2] \in Addr /\ r[1] <= r[2]
    BY Zenon DEF Regions
  <1>2. \A a \in Addr : a \in Nat /\ a > 0
    BY AddrAssumption
  <1>3. \A r \in Regions : r[1] \in Nat /\ r[2] \in Nat /\ r[1] > 0
    BY <1>1, <1>2, Zenon
  <1>4. None[1] = 0 /\ None[2] = 0
    BY Zenon DEF None
  <1>5. \A r \in Regions : r # None
    BY <1>3, <1>4
  <1>6. \A r \in Regions : r[1] \in Addrs(r)
    BY <1>1, <1>3 DEF Addrs
  <1>7. Addrs(None) = {}
    BY <1>2, <1>4 DEF Addrs
  <1>8. \A r, s \in Regions : Within(r, s) => Addrs(r) \subseteq Addrs(s)
    BY <1>2, <1>3 DEF Addrs, Within
  <1>9. \A r, s, t \in Regions : Within(r, s) /\ Within(s, t) => Within(r, t)
    BY <1>3 DEF Within
  <1>10. \A r \in Regions : Within(r, r)
    BY <1>3 DEF Within
  <1> QED  BY <1>3, <1>5, <1>6, <1>7, <1>8, <1>9, <1>10, Zenon

\* What a call is made for.
LEMMA CalledFor ==
    ASSUME TypeOK, NEW p \in Proc, Called(p)
    PROVE  \E r \in Regions : want'[p] = r /\ info'[p] = r /\ Addrs(r) \cap going = {}
  <1>1. calls[p] \in Seq(Calls) /\ calls[p] # << >>
    BY Zenon DEF TypeOK, Called
  <1>2. Head(calls[p]) \in Calls
    BY <1>1
  <1>3. PICK r \in Regions : r = Head(calls[p]).reg
    BY <1>2, Zenon DEF Calls
  <1>4. want' = [want EXCEPT ![p] = r] /\ info' = [info EXCEPT ![p] = r] /\ Addrs(r) \cap going = {}
    BY <1>3, Zenon DEF Called
  <1>5. want \in [Proc -> Regions \cup {None}] /\ info \in [Proc -> Regions \cup {None}]
    BY Zenon DEF TypeOK
  <1> QED  BY <1>4, <1>5, Zenon

\* What a count of processes says.
CountRule ==
    \A S \in SUBSET Proc :
        /\ Cardinality(S) \in Nat
        /\ Cardinality(S) = 0 <=> S = {}
        /\ \A p \in Proc :
            /\ p \notin S => Cardinality(S \cup {p}) = Cardinality(S) + 1
            /\ p \in S => Cardinality(S \ {p}) = Cardinality(S) - 1

LEMMA Counts ==
    ASSUME CountRule, NEW S \in SUBSET Proc, NEW p \in Proc
    PROVE  /\ Cardinality(S) \in Nat
           /\ Cardinality(S) = 0 <=> S = {}
           /\ p \notin S => Cardinality(S \cup {p}) = Cardinality(S) + 1
           /\ p \in S => Cardinality(S \ {p}) = Cardinality(S) - 1
           /\ p \in S /\ Cardinality(S) = 1 => S = {p}
  <1>1. /\ Cardinality(S) \in Nat
        /\ Cardinality(S) = 0 <=> S = {}
        /\ p \notin S => Cardinality(S \cup {p}) = Cardinality(S) + 1
        /\ p \in S => Cardinality(S \ {p}) = Cardinality(S) - 1
    BY Zenon DEF CountRule
  <1>2. S \ {p} \in SUBSET Proc
    BY Zenon
  <1>3. Cardinality(S \ {p}) = 0 => S \ {p} = {}
    BY <1>2, Zenon DEF CountRule
  <1> QED  BY <1>1, <1>3

LEMMA SmallCounts ==
    ASSUME CountRule
    PROVE  /\ Cardinality({}) = 0
           /\ \A p \in Proc : Cardinality({p}) = 1
  <1>1. Cardinality({}) = 0
    BY Zenon DEF CountRule
  <1>2. ASSUME NEW p \in Proc PROVE Cardinality({p}) = 1
    <2>1. Cardinality({} \cup {p}) = Cardinality({}) + 1
      BY Zenon DEF CountRule
    <2>2. {} \cup {p} = {p}
      BY Zenon
    <2> QED  BY <1>1, <2>1, <2>2
  <1> QED  BY <1>1, <1>2, Zenon

\* How a step changes who uses the entries.
SameUsers == \A e \in Id : Users(e)' = Users(e)
NewUser(p, x) ==
    /\ p \notin Users(x) /\ Users(x)' = Users(x) \cup {p}
    /\ \A e \in Id \ {x} : Users(e)' = Users(e)
LostUser(p, x) ==
    /\ p \in Users(x) /\ Users(x)' = Users(x) \ {p}
    /\ \A e \in Id \ {x} : Users(e)' = Users(e)

Using == {"insert", "reg", "held"}

LEMMA UsersOf ==
    ASSUME TypeOK, NEW p \in Proc, NEW l \in PCs, Goto(p, l),
           \A q \in Proc \ {p} : cur'[q] = cur[q]
    PROVE  /\ pc[p] \notin Using /\ l \notin Using => SameUsers
           /\ pc[p] \in Using /\ l \in Using /\ cur'[p] = cur[p] => SameUsers
           /\ pc[p] \notin Using /\ l \in Using =>
                \A x \in Id : cur'[p] = x => NewUser(p, x)
           /\ pc[p] \in Using /\ l \notin Using =>
                \A x \in Id : cur[p] = x => LostUser(p, x)
  <1>1. pc'[p] = l /\ \A q \in Proc \ {p} : pc'[q] = pc[q] /\ cur'[q] = cur[q]
    BY Zenon DEF TypeOK, Goto
  <1>2. ASSUME NEW e \in Id, NEW q \in Proc \ {p}
        PROVE  q \in Users(e)' <=> q \in Users(e)
    BY <1>1, <1>2, Zenon DEF Users
  <1>3. ASSUME NEW e \in Id
        PROVE  /\ p \in Users(e) <=> pc[p] \in Using /\ cur[p] = e
               /\ p \in Users(e)' <=> l \in Using /\ cur'[p] = e
               /\ Users(e) \subseteq Proc /\ Users(e)' \subseteq Proc
    BY <1>1, Zenon DEF Users, Using
  <1>4. ASSUME NEW e \in Id, p \in Users(e)' <=> p \in Users(e)
        PROVE  Users(e)' = Users(e)
    BY <1>2, <1>3, <1>4
  <1>5. pc[p] \notin Using /\ l \notin Using => SameUsers
    BY <1>3, <1>4, Zenon DEF SameUsers
  <1>6. pc[p] \in Using /\ l \in Using /\ cur'[p] = cur[p] => SameUsers
    BY <1>3, <1>4, Zenon DEF SameUsers
  <1>7. ASSUME pc[p] \notin Using, l \in Using, NEW x \in Id, cur'[p] = x
        PROVE  NewUser(p, x)
    <2>1. Users(x)' = Users(x) \cup {p}
      BY <1>2, <1>3, <1>7, Zenon
    <2>2. \A e \in Id \ {x} : Users(e)' = Users(e)
      BY <1>3, <1>4, <1>7, Zenon
    <2> QED  BY <1>3, <1>7, <2>1, <2>2, Zenon DEF NewUser
  <1>8. ASSUME pc[p] \in Using, l \notin Using, NEW x \in Id, cur[p] = x
        PROVE  LostUser(p, x)
    <2>1. Users(x)' = Users(x) \ {p}
      BY <1>2, <1>3, <1>8, Zenon
    <2>2. \A e \in Id \ {x} : Users(e)' = Users(e)
      BY <1>3, <1>4, <1>8, Zenon
    <2> QED  BY <1>3, <1>8, <2>1, <2>2, Zenon DEF LostUser
  <1> QED  BY <1>5, <1>6, <1>7, <1>8, Zenon

\* What can be said of the entries in use.
LEMMA UsedFacts ==
    ASSUME IInv, NEW p \in Proc, pc[p] \in Using
    PROVE  \E x \in Id : /\ x = cur[p] /\ p \in Users(x) /\ x \in Registered
                         /\ reg[x] \in Regions /\ Freers(x) = {} /\ x \notin lru \cup dead
  <1>1. PICK x \in Id : x = cur[p]
    BY Zenon DEF IInv, CallOK, Using
  <1>2. p \in Users(x)
    BY <1>1, Zenon DEF Users, Using
  <1>3. x \in Registered /\ Freers(x) = {} /\ x \notin lru \cup dead
    BY <1>2, Zenon DEF IInv, OneState, StateOK
  <1>4. reg[x] \in Regions
    BY <1>3, Zenon DEF Registered, IInv, TypeOK
  <1> QED  BY <1>1, <1>2, <1>3, <1>4, Zenon

LEMMA TreeFacts ==
    ASSUME IInv, NEW e \in tree
    PROVE  e \in Id /\ e \in Registered /\ reg[e] \in Regions /\ Freers(e) = {} /\ e \notin dead
  <1>1. e \in Id /\ StateOK(e)
    BY Zenon DEF IInv, TypeOK, OneState
  <1>2. e \in Registered /\ Freers(e) = {} /\ e \notin dead
    BY <1>1, Zenon DEF StateOK
  <1> QED  BY <1>1, <1>2, Zenon DEF Registered, IInv, TypeOK

(***************************************************************************)
(* The types, and the state of each entry.                                 *)
(***************************************************************************)
\* Every variable keeps its type.
LEMMA TypeStep ==
    ASSUME IInv, [Next]_vars
    PROVE  TypeOK'
  <1> USE DEF PCs, Thens
  <1>0. TypeOK /\ (\A p \in Proc : CallOK(p)) /\ None \notin Regions
    BY RegionFacts, Zenon DEF IInv
  <1>1. ASSUME NEW p \in Proc, Called(p)
        PROVE  /\ calls' \in [Proc -> Seq(Calls)] /\ op' \in [Proc -> {"none", "search", "find", "reg"}]
               /\ want' \in [Proc -> Regions \cup {None}]
               /\ info' \in [Proc -> Regions \cup {None}]
               /\ want'[p] \in Regions
    <2>1. Head(calls[p]) \in Calls /\ Tail(calls[p]) \in Seq(Calls)
      <3>1. calls[p] \in Seq(Calls) /\ calls[p] # << >>
        BY <1>0, <1>1, Zenon DEF TypeOK, Called
      <3> QED  BY <3>1
    <2>2. Head(calls[p]).op \in {"search", "find", "reg"} /\ Head(calls[p]).reg \in Regions
      BY <2>1, Zenon DEF Calls
    <2> QED  BY <1>0, <1>1, <2>1, <2>2, Zenon DEF TypeOK, Called
  <1>2. ASSUME NEW p \in Proc, Call(p)
        PROVE  TypeOK'
    BY <1>0, <1>1, <1>2, Zenon DEF TypeOK, Call, Goto, cache, entries, memory
  <1>3. ASSUME NEW e \in Id, NEW r \in Regions, Made(e, r)
        PROVE  /\ reg' \in [Id -> Regions \cup {None}]
               /\ stamp' \in [Id -> [Addr -> Nat]] /\ use_cnt' \in [Id -> Nat]
    <2>1. [a \in Addr |-> IF a \in Addrs(r) THEN mapping[a] ELSE 0] \in [Addr -> Nat]
      BY <1>0, Zenon DEF TypeOK
    <2> QED  BY <1>0, <1>3, <2>1, Zenon DEF TypeOK, Made
  <1>4. ASSUME NEW p \in Proc, Reg(p)
        PROVE  TypeOK'
    <2> PICK e \in Lowest(Pool) : Made(e, want'[p]) /\ cur' = [cur EXCEPT ![p] = e]
      BY <1>4, Zenon DEF Reg
    <2>1. e \in Id
      BY Zenon DEF Lowest, Pool
    <2>2. Called(p)
      BY <1>4, Zenon DEF Reg
    <2> PICK r \in Regions : r = want'[p]
      BY <1>1, <2>2, Zenon
    <2>3. Made(e, r)
      BY Zenon DEF Made
    <2> QED  BY <1>0, <1>1, <1>3, <1>4, <2>1, <2>2, <2>3, Zenon DEF TypeOK, Reg, Goto, memory
  <1>5. ASSUME NEW p \in Proc, Check(p)
        PROVE  TypeOK'
    BY <1>0, <1>5, Zenon DEF TypeOK, Check, Goto, cache, entries, memory
  <1>6. ASSUME NEW S \in SUBSET tree, Uncache(S)
        PROVE  tree' \subseteq Id /\ lru' \subseteq Id /\ dead' \subseteq Id
    BY <1>0, <1>6, Zenon DEF TypeOK, Uncache
  <1>7. ASSUME NEW p \in Proc, Look(p)
        PROVE  TypeOK'
    <2> DEFINE nested == {e \in tree : Nested(info[p], reg[e])}
    <2>1. ASSUME NEW e \in nested, Hit(p, e)
          PROVE  TypeOK'
      BY <1>0, <1>7, <2>1 DEF TypeOK, Look, Hit, Goto, memory
    <2>2. CASE MissSearch(p, nested)
      <3>1. Uncache(nested)
        BY <2>2, Zenon DEF MissSearch
      <3> QED  BY <1>0, <1>6, <1>7, <2>2, <3>1, Zenon DEF TypeOK, Look, MissSearch, Goto, entries, memory
    <2>3. CASE MissFind(p, nested)
      <3>1. tree' \subseteq Id /\ lru' \subseteq Id /\ dead' \subseteq Id
        <4>1. CASE UNCHANGED cache
          BY <1>0, <4>1, Zenon DEF TypeOK, cache
        <4>2. ASSUME NEW e \in nested, Uncache({f \in tree : Nested(reg[e], reg[f])})
              PROVE  tree' \subseteq Id /\ lru' \subseteq Id /\ dead' \subseteq Id
          BY <1>6, <4>2, Zenon
        <4> QED  BY <2>3, <4>1, <4>2, Zenon DEF MissFind
      <3> QED  BY <1>0, <1>7, <2>3, <3>1, Zenon DEF TypeOK, Look, MissFind, Return, Goto, entries, memory
    <2> QED  BY <1>7, <2>1, <2>2, <2>3, Zenon DEF Look
  <1>8. ASSUME NEW p \in Proc, Flush(p)
        PROVE  TypeOK'
    <2> PICK S \in SUBSET lru :
            /\ tree' = tree \ S /\ lru' = lru \ S
            /\ FreeThen(p, dead \cup S, AfterFlush(then[p], dead \cup S))
      BY <1>8, Zenon DEF Flush
    <2>1. AfterFlush(then[p], dead \cup S) \in Thens
      BY Zenon DEF AfterFlush
    <2> QED  BY <1>0, <1>8, <2>1, Zenon DEF TypeOK, Flush, FreeThen, Goto, entries, memory
  <1>9. ASSUME NEW p \in Proc, Free(p)
        PROVE  TypeOK'
    <2>1. NoStamp \in [Addr -> Nat]
      BY Zenon DEF NoStamp
    <2> QED  BY <1>0, <1>9, <2>1 DEF TypeOK, Free, cache, memory
  <1>10. ASSUME NEW p \in Proc, AllFree(p)
         PROVE  TypeOK'
    <2>1. pc' \in [Proc -> PCs] /\ then' \in [Proc -> Thens]
      <3>1. \/ \E l \in PCs : Goto(p, l) /\ UNCHANGED then
            \/ Goto(p, "evict") /\ then' = [then EXCEPT ![p] = "closing"]
        BY <1>10, Zenon DEF AllFree, Return
      <3>2. pc \in [Proc -> PCs] /\ then \in [Proc -> Thens]
        BY <1>0, Zenon DEF TypeOK
      <3>3. CASE \E l \in PCs : Goto(p, l) /\ UNCHANGED then
        BY <3>2, <3>3, Zenon DEF Goto
      <3>4. CASE Goto(p, "evict") /\ then' = [then EXCEPT ![p] = "closing"]
        BY <3>2, <3>4, Zenon DEF Goto
      <3> QED  BY <3>1, <3>3, <3>4, Zenon
    <2>2. /\ want' \in [Proc -> Regions \cup {None}] /\ info' \in [Proc -> Regions \cup {None}]
          /\ cur' \in [Proc -> Id \cup {0}]
      BY <1>0, <1>10, Zenon DEF TypeOK, AllFree, Return
    <2> QED  BY <1>0, <1>10, <2>1, <2>2, Zenon DEF TypeOK, AllFree, cache, entries, memory
  <1>11. ASSUME NEW p \in Proc, Create(p)
         PROVE  TypeOK'
    <2>1. info[p] \in Regions
      <3>1. pc[p] = "create" /\ want[p] # None
        BY <1>0, <1>11, Zenon DEF CallOK, Searching, Create
      <3>2. info[p] # None
        BY <1>0, <3>1, Zenon DEF CallOK
      <3>3. info[p] \in Regions \cup {None}
        BY <1>0, Zenon DEF TypeOK
      <3> QED  BY <3>1, <3>2, <3>3, Zenon
    <2>2. CASE \E e \in Lowest(Pool) :
                LET r == IF setup.provider = "aligned" THEN Aligned[info[p]] ELSE info[p] IN
                /\ Made(e, r)
                /\ cur' = [cur EXCEPT ![p] = e]
                /\ info' = [info EXCEPT ![p] = r]
                /\ raced' = IF Addrs(r) \cap going = {} THEN raced ELSE raced \cup {e}
                /\ Goto(p, "insert")
                /\ UNCHANGED then
      <3> DEFINE r == IF setup.provider = "aligned" THEN Aligned[info[p]] ELSE info[p]
      <3>1. r \in Regions
        BY <2>1, AlignedAssumption, Zenon
      <3> HIDE DEF r
      <3> PICK e \in Lowest(Pool) :
                /\ Made(e, r) /\ cur' = [cur EXCEPT ![p] = e] /\ info' = [info EXCEPT ![p] = r]
                /\ raced' = IF Addrs(r) \cap going = {} THEN raced ELSE raced \cup {e}
                /\ Goto(p, "insert") /\ UNCHANGED then
        BY <2>2, Zenon DEF r
      <3>2. e \in Id
        BY Zenon DEF Lowest, Pool
      <3>3. /\ reg' \in [Id -> Regions \cup {None}]
            /\ stamp' \in [Id -> [Addr -> Nat]] /\ use_cnt' \in [Id -> Nat]
        BY <1>3, <3>1, <3>2, Zenon
      <3>4. /\ pc' \in [Proc -> PCs] /\ then' \in [Proc -> Thens]
            /\ cur' \in [Proc -> Id \cup {0}] /\ info' \in [Proc -> Regions \cup {None}]
        BY <1>0, <3>1, <3>2, Zenon DEF TypeOK, Goto
      <3>5. raced' \subseteq Id
        BY <1>0, <3>2, Zenon DEF TypeOK
      <3>6. UNCHANGED <<setup, cache, want, op, freeing, calls, memory>>
        BY <1>11, Zenon DEF Create
      <3> QED  BY <1>0, <3>3, <3>4, <3>5, <3>6 DEF TypeOK, cache, memory
    <2>3. CASE Goto(p, "evict") /\ then' = [then EXCEPT ![p] = "retry"]
                /\ UNCHANGED <<entries, cur, info, raced>>
      BY <1>0, <1>11, <2>3, Zenon DEF TypeOK, Create, Goto, cache, entries, memory
    <2> QED  BY <1>11, <2>2, <2>3, Zenon DEF Create
  <1>12. ASSUME NEW p \in Proc, Insert(p)
         PROVE  TypeOK'
    <2>1. cur[p] \in Id
      BY <1>0, <1>12, Zenon DEF CallOK, Insert
    <2>2. /\ pc' \in [Proc -> PCs] /\ then' \in [Proc -> Thens]
          /\ freeing' \in [Proc -> SUBSET Id]
      <3>1. CASE FreeThen(p, {cur[p]}, "check")
        BY <1>0, <2>1, <3>1, Zenon DEF TypeOK, FreeThen, Goto
      <3>2. CASE Goto(p, "held") /\ UNCHANGED <<freeing, then>>
        BY <1>0, <3>2, Zenon DEF TypeOK, Goto
      <3> QED  BY <1>12, <3>1, <3>2, Zenon DEF Insert
    <2>3. use_cnt' \in [Id -> Nat]
      <3>1. CASE use_cnt' = [use_cnt EXCEPT ![cur[p]] = 0]
        BY <1>0, <2>1, <3>1, Zenon DEF TypeOK
      <3>2. CASE use_cnt' = use_cnt
        BY <1>0, <3>2, Zenon DEF TypeOK
      <3> QED  BY <1>12, <3>1, <3>2, Zenon DEF Insert
    <2>4. tree' \subseteq Id /\ lru' \subseteq Id /\ dead' \subseteq Id
      BY <1>0, <1>12, <2>1, Zenon DEF TypeOK, Insert, InTree, Outside, cache
    <2> QED  BY <1>0, <1>12, <2>2, <2>3, <2>4, Zenon DEF TypeOK, Insert, memory
  <1>13. ASSUME NEW p \in Proc, RegAdded(p)
         PROVE  TypeOK'
    <2>1. NoStamp \in [Addr -> Nat]
      BY Zenon DEF NoStamp
    <2>2. pc' \in [Proc -> PCs]
      <3>1. Goto(p, "held") \/ Goto(p, "idle")
        BY <1>13, Zenon DEF RegAdded, Return
      <3> QED  BY <1>0, <3>1, Zenon DEF TypeOK, Goto
    <2>3. /\ want' \in [Proc -> Regions \cup {None}] /\ info' \in [Proc -> Regions \cup {None}]
          /\ cur' \in [Proc -> Id \cup {0}]
      BY <1>0, <1>13, Zenon DEF TypeOK, RegAdded, Return
    <2>4. /\ reg' \in [Id -> Regions \cup {None}] /\ stamp' \in [Id -> [Addr -> Nat]]
          /\ use_cnt' \in [Id -> Nat]
      <3>1. CASE UNCHANGED entries
        BY <1>0, <3>1, Zenon DEF TypeOK, entries
      <3>2. CASE /\ reg' = [reg EXCEPT ![cur[p]] = None]
                 /\ stamp' = [stamp EXCEPT ![cur[p]] = NoStamp]
                 /\ use_cnt' = [use_cnt EXCEPT ![cur[p]] = 0]
        BY <1>0, <2>1, <3>2, Zenon DEF TypeOK
      <3> QED  BY <1>13, <3>1, <3>2, Zenon DEF RegAdded
    <2> QED  BY <1>0, <1>13, <2>2, <2>3, <2>4, Zenon DEF TypeOK, RegAdded, cache, memory
  <1>14. ASSUME NEW p \in Proc, Delete(p)
         PROVE  TypeOK'
    <2>1. cur[p] \in Id
      BY <1>0, <1>14, Zenon DEF CallOK, Delete
    <2>2. use_cnt' \in [Id -> Nat]
      BY <1>0, <1>14, <2>1 DEF TypeOK, Delete, Unused
    <2>3. /\ pc' \in [Proc -> PCs] /\ then' \in [Proc -> Thens]
          /\ freeing' \in [Proc -> SUBSET Id]
      <3>1. CASE FreeThen(p, {cur[p]}, "idle")
        BY <1>0, <2>1, <3>1, Zenon DEF TypeOK, FreeThen, Goto
      <3>2. CASE Goto(p, "idle") /\ UNCHANGED <<freeing, then>>
        BY <1>0, <3>2, Zenon DEF TypeOK, Goto
      <3> QED  BY <1>14, <3>1, <3>2, Zenon DEF Delete, Unused, Return
    <2>4. /\ want' \in [Proc -> Regions \cup {None}] /\ info' \in [Proc -> Regions \cup {None}]
          /\ cur' \in [Proc -> Id \cup {0}]
      BY <1>0, <1>14, Zenon DEF TypeOK, Delete, Unused, Return
    <2>5. tree' \subseteq Id /\ lru' \subseteq Id /\ dead' \subseteq Id
      BY <1>0, <1>14, <2>1, Zenon DEF TypeOK, Delete, Unused, cache
    <2> QED  BY <1>0, <1>14, <2>2, <2>3, <2>4, <2>5, Zenon DEF TypeOK, Delete, memory
  <1>15. ASSUME NEW p \in Proc, Cleanup(p)
         PROVE  TypeOK'
    <2>1. calls' \in [Proc -> Seq(Calls)]
      BY <1>15 DEF Cleanup
    <2> QED  BY <1>0, <1>15, <2>1, Zenon DEF TypeOK, Cleanup, Goto, cache, entries, memory
  <1>16. ASSUME NEW S \in SUBSET Addr, Unmap(S)
         PROVE  TypeOK'
    <2>1. tree' \subseteq Id /\ lru' \subseteq Id /\ dead' \subseteq Id
      <3>1. CASE setup.monitor = "notify"
        BY <1>6, <1>16, <3>1, Zenon DEF Unmap
      <3>2. CASE setup.monitor # "notify"
        BY <1>0, <1>16, <3>2, Zenon DEF Unmap, TypeOK, cache
      <3> QED  BY <3>1, <3>2, Zenon
    <2>2. raced' \subseteq Id
      BY <1>0, <1>16 DEF TypeOK, Unmap, CallOK
    <2> QED  BY <1>0, <1>16, <2>1, <2>2, Zenon DEF TypeOK, Unmap, entries, procs
  <1>17. CASE Unmapped
    BY <1>0, <1>17 DEF TypeOK, Unmapped, cache, entries, procs
  <1>18. CASE UNCHANGED vars
    BY <1>0, <1>18, Zenon DEF TypeOK, vars, cache, entries, procs, memory
  <1>19. ASSUME \E S \in IF setup.monitor = "query" THEN {Addr} ELSE {{a} : a \in Addr} : Unmap(S)
         PROVE  TypeOK'
    BY <1>16, <1>19, Zenon
  <1> QED
    BY <1>2, <1>4, <1>5, <1>7, <1>8, <1>9, <1>10, <1>11, <1>12, <1>13, <1>14, <1>15,
       <1>17, <1>18, <1>19 DEF Next, Step

\* An entry a step does not touch.
Untouched(e) ==
    /\ Users(e)' = Users(e) /\ Freers(e)' = Freers(e)
    /\ reg'[e] = reg[e] /\ use_cnt'[e] = use_cnt[e]
    /\ e \in tree' <=> e \in tree
    /\ e \in lru' <=> e \in lru
    /\ e \in dead' <=> e \in dead

LEMMA StateSame ==
    ASSUME NEW e \in Id, StateOK(e), Untouched(e)
    PROVE  StateOK(e)'
  BY Zenon DEF StateOK, Untouched, Registered

\* Nobody frees an entry because of a step that leaves freeing alone.
LEMMA FreersSame ==
    ASSUME UNCHANGED freeing
    PROVE  \A e \in Id : Freers(e)' = Freers(e)
  BY Zenon DEF Freers

LEMMA FreersOf ==
    ASSUME TypeOK, NEW p \in Proc, NEW S \in SUBSET Id, freeing' = [freeing EXCEPT ![p] = S],
           NEW e \in Id
    PROVE  /\ e \in S => Freers(e)' = Freers(e) \cup {p}
           /\ e \notin S => Freers(e)' = Freers(e) \ {p}
           /\ (e \in S <=> e \in freeing[p]) => Freers(e)' = Freers(e)
           /\ p \in Freers(e) <=> e \in freeing[p]
  BY DEF TypeOK, Freers

\* Dropping entries from the tree: the unused ones are dead now.
LEMMA UncacheState ==
    ASSUME CountRule, OneState, NEW S \in SUBSET tree, Uncache(S), SameUsers,
           UNCHANGED <<reg, use_cnt, freeing>>, NEW e \in Id
    PROVE  StateOK(e)'
  <1>1. Users(e) \subseteq Proc
    BY Zenon DEF Users
  <1>2. use_cnt[e] = 0 <=> Users(e) = {}
    <2>1. Cardinality(Users(e)) = 0 <=> Users(e) = {}
      BY <1>1, Zenon DEF CountRule
    <2> QED  BY <2>1, Zenon DEF OneState, StateOK
  <1>3. Freers(e)' = Freers(e) /\ Users(e)' = Users(e)
    BY FreersSame, Zenon DEF SameUsers
  <1>4. CASE e \in S
    BY <1>2, <1>3, <1>4 DEF OneState, StateOK, Uncache, Registered
  <1>5. CASE e \notin S
    <2>1. Untouched(e)
      BY <1>3, <1>5, Zenon DEF Uncache, Untouched
    <2> QED  BY <2>1, StateSame, Zenon DEF OneState
  <1> QED  BY <1>4, <1>5, Zenon

\* A new entry.
LEMMA MadeState ==
    ASSUME CountRule, TypeOK, OneState, NEW p \in Proc, NEW x \in Lowest(Pool), NEW r \in Regions,
           Made(x, r), NewUser(p, x), UNCHANGED <<tree, lru, dead, freeing>>, NEW e \in Id
    PROVE  StateOK(e)'
  <1>1. x \in Id /\ x \notin Registered /\ r # None
    BY RegionFacts, Zenon DEF Lowest, Pool, Registered
  <1>2. \A f \in Id : Freers(f)' = Freers(f)
    BY FreersSame, Zenon
  <1>3. CASE e = x
    <2>1. Users(x) = {} /\ Freers(x) = {} /\ x \notin tree \cup lru \cup dead
      BY <1>1, Zenon DEF OneState, StateOK
    <2>2. Users(x)' = {p} /\ Cardinality({p}) = 1
      BY <2>1, SmallCounts, Zenon DEF NewUser
    <2>3. reg'[x] # None /\ use_cnt'[x] = 1
      BY <1>1, Zenon DEF Made, TypeOK
    <2>4. StateOK(x)'
      BY <1>1, <1>2, <2>1, <2>2, <2>3, Zenon DEF StateOK, Registered
    <2> QED  BY <1>3, <2>4, Zenon
  <1>4. CASE e # x
    <2>1. Untouched(e)
      BY <1>1, <1>2, <1>4, Zenon DEF NewUser, Made, TypeOK, Untouched
    <2> QED  BY <2>1, StateSame, Zenon DEF OneState
  <1> QED  BY <1>3, <1>4, Zenon

\* Every step leaves each entry in one state.
LEMMA StateStep ==
    ASSUME CountRule, IInv, TypeOK', [Next]_vars
    PROVE  OneState'
  <1> SUFFICES ASSUME NEW e \in Id
               PROVE  StateOK(e)'
    BY Zenon DEF OneState
  <1> USE DEF PCs, Using
  <1>0. TypeOK /\ OneState /\ StateOK(e) /\ (\A p \in Proc : CallOK(p))
    BY Zenon DEF IInv, OneState
  <1>1. ASSUME SameUsers, UNCHANGED <<tree, lru, dead, reg, use_cnt, freeing>>
        PROVE  StateOK(e)'
    BY <1>0, <1>1, FreersSame, StateSame, Zenon DEF SameUsers, Untouched
  <1>2. ASSUME NEW p \in Proc, Call(p)
        PROVE  StateOK(e)'
    <2>1. SameUsers
      BY <1>0, <1>2, UsersOf, Zenon DEF Call, Called
    <2> QED  BY <1>1, <1>2, <2>1, Zenon DEF Call, cache, entries
  <1>4. ASSUME NEW p \in Proc, Reg(p)
        PROVE  StateOK(e)'
    <2> PICK x \in Lowest(Pool) : Made(x, want'[p]) /\ cur' = [cur EXCEPT ![p] = x]
      BY <1>4, Zenon DEF Reg
    <2>1. x \in Id
      BY Zenon DEF Lowest, Pool
    <2>2. want'[p] \in Regions
      BY <1>0, <1>4, CalledFor, Zenon DEF Reg
    <2> PICK r \in Regions : r = want'[p]
      BY <2>2, Zenon
    <2>3. Made(x, r)
      BY Zenon DEF Made
    <2>4. NewUser(p, x)
      <3>1. cur'[p] = x /\ (\A q \in Proc \ {p} : cur'[q] = cur[q]) /\ pc[p] = "idle" /\ Goto(p, "reg")
        BY <1>0, <1>4, Zenon DEF TypeOK, Reg, Called
      <3> QED  BY <1>0, <2>1, <3>1, UsersOf, Zenon
    <2> QED  BY <1>0, <1>4, <2>3, <2>4, MadeState, Zenon DEF Reg
  <1>5. ASSUME NEW p \in Proc, Check(p)
        PROVE  StateOK(e)'
    <2>1. SameUsers
      <3>1. Goto(p, "evict") \/ Goto(p, "flush")
        BY <1>5, Zenon DEF Check
      <3> QED  BY <1>0, <1>5, <3>1, UsersOf, Zenon DEF Check
    <2> QED  BY <1>1, <1>5, <2>1, Zenon DEF Check, cache, entries
  <1>7. ASSUME NEW p \in Proc, Look(p)
        PROVE  StateOK(e)'
    <2> DEFINE nested == {f \in tree : Nested(info[p], reg[f])}
    <2>0. pc[p] \notin Using
      BY <1>7, Zenon DEF Look
    <2>1. ASSUME NEW x \in nested, Hit(p, x)
          PROVE  StateOK(e)'
      <3>1. x \in Id /\ x \in tree
        BY <1>0, Zenon DEF TypeOK
      <3>2. NewUser(p, x)
        <4>1. cur'[p] = x /\ (\A q \in Proc \ {p} : cur'[q] = cur[q]) /\ Goto(p, "held")
          BY <1>0, <2>1, Zenon DEF TypeOK, Hit
        <4> QED  BY <1>0, <2>0, <3>1, <4>1, UsersOf, Zenon
      <3>3. Freers(x) = {} /\ Freers(e)' = Freers(e)
        BY <1>0, <2>1, <3>1, FreersSame, Zenon DEF OneState, StateOK, Hit
      <3>4. CASE e = x
        <4>1. Users(x) \subseteq Proc /\ Users(x)' = Users(x) \cup {p} /\ p \notin Users(x)
          BY <3>2, Zenon DEF NewUser, Users
        <4>2. Cardinality(Users(x)') = Cardinality(Users(x)) + 1
          BY <4>1, Counts
        <4>3. use_cnt'[x] = use_cnt[x] + 1
          BY <1>0, <2>1, <3>1, Zenon DEF TypeOK, Hit
        <4> QED  BY <1>0, <2>1, <3>1, <3>3, <3>4, <4>1, <4>2, <4>3, Zenon DEF StateOK, Hit, Registered
      <3>5. CASE e # x
        <4>1. Untouched(e)
          BY <1>0, <2>1, <3>1, <3>2, <3>3, <3>5, Zenon DEF NewUser, Hit, TypeOK, Untouched
        <4> QED  BY <1>0, <4>1, StateSame, Zenon
      <3> QED  BY <3>4, <3>5, Zenon
    <2>2. CASE MissSearch(p, nested)
      <3>1. SameUsers
        BY <1>0, <2>0, <2>2, UsersOf, Zenon DEF MissSearch
      <3> QED  BY <1>0, <2>2, <3>1, UncacheState, Zenon DEF MissSearch, entries
    <2>3. CASE MissFind(p, nested)
      <3>1. SameUsers
        <4>1. (\A q \in Proc \ {p} : cur'[q] = cur[q]) /\ Goto(p, "idle")
          BY <1>0, <2>3, Zenon DEF TypeOK, MissFind, Return
        <4> QED  BY <1>0, <2>0, <4>1, UsersOf, Zenon
      <3>2. CASE UNCHANGED cache
        BY <1>1, <2>3, <3>1, <3>2, Zenon DEF MissFind, cache, entries
      <3>3. ASSUME NEW f \in nested, Uncache({g \in tree : Nested(reg[f], reg[g])})
            PROVE  StateOK(e)'
        BY <1>0, <2>3, <3>1, <3>3, UncacheState, Zenon DEF MissFind, entries
      <3> QED  BY <2>3, <3>2, <3>3, Zenon DEF MissFind
    <2> QED  BY <1>7, <2>1, <2>2, <2>3, Zenon DEF Look
  <1>8. ASSUME NEW p \in Proc, Flush(p)
        PROVE  StateOK(e)'
    <2> PICK S \in SUBSET lru :
            /\ tree' = tree \ S /\ lru' = lru \ S
            /\ FreeThen(p, dead \cup S, AfterFlush(then[p], dead \cup S))
      BY <1>8, Zenon DEF Flush
    <2>1. SameUsers
      BY <1>0, <1>8, UsersOf, Zenon DEF Flush, FreeThen
    <2>2. freeing[p] = {}
      BY <1>0, <1>8, Zenon DEF Flush, CallOK
    <2>3. dead \cup S \in SUBSET Id
      BY <1>0, Zenon DEF TypeOK
    <2>4. /\ e \in dead \cup S => Freers(e)' = Freers(e) \cup {p}
          /\ e \notin dead \cup S => Freers(e)' = Freers(e)
      <3>1. freeing' = [freeing EXCEPT ![p] = dead \cup S]
        BY Zenon DEF FreeThen
      <3>2. /\ e \in dead \cup S => Freers(e)' = Freers(e) \cup {p}
            /\ (e \in dead \cup S <=> e \in freeing[p]) => Freers(e)' = Freers(e)
        BY <1>0, <2>3, <3>1, FreersOf, Zenon
      <3>3. e \notin freeing[p]
        BY <2>2, Zenon
      <3> QED  BY <3>2, <3>3, Zenon
    <2>5. dead' = {} /\ UNCHANGED <<reg, use_cnt>>
      BY <1>8, Zenon DEF Flush, entries
    <2>6. CASE e \in dead \cup S
      BY <1>0, <2>1, <2>4, <2>5, <2>6, Zenon DEF SameUsers, StateOK, Registered
    <2>7. CASE e \notin dead \cup S
      <3>1. Untouched(e)
        BY <2>1, <2>4, <2>5, <2>7, Zenon DEF SameUsers, Untouched
      <3> QED  BY <1>0, <3>1, StateSame, Zenon
    <2> QED  BY <2>6, <2>7, Zenon
  <1>9. ASSUME NEW p \in Proc, Free(p)
        PROVE  StateOK(e)'
    <2> PICK x \in freeing[p] :
            /\ reg' = [reg EXCEPT ![x] = None]
            /\ freeing' = [freeing EXCEPT ![p] = freeing[p] \ {x}]
      BY <1>9, Zenon DEF Free
    <2>1. x \in Id /\ freeing[p] \ {x} \in SUBSET Id
      BY <1>0, Zenon DEF TypeOK
    <2>2. SameUsers
      BY <1>9, Zenon DEF Free, SameUsers, Users
    <2>3. /\ e \in freeing[p] \ {x} => Freers(e)' = Freers(e) \cup {p}
          /\ e \notin freeing[p] \ {x} => Freers(e)' = Freers(e) \ {p}
          /\ (e \in freeing[p] \ {x} <=> e \in freeing[p]) => Freers(e)' = Freers(e)
          /\ p \in Freers(e) <=> e \in freeing[p]
      BY <1>0, <2>1, FreersOf, Zenon
    <2>4. UNCHANGED <<use_cnt, tree, lru, dead>>
      BY <1>9, Zenon DEF Free, cache
    <2>5. CASE e = x
      <3>1. Freers(e)' = {} /\ reg'[e] = None
        BY <1>0, <2>1, <2>3, <2>5 DEF StateOK, TypeOK
      <3>2. Users(e) = {} /\ e \notin lru \cup dead
        BY <1>0, <2>3, <2>5, Zenon DEF StateOK
      <3> QED  BY <1>0, <2>2, <2>4, <3>1, <3>2, Zenon DEF StateOK, SameUsers, Registered
    <2>6. CASE e # x
      <3>1. Freers(e)' = Freers(e) /\ reg'[e] = reg[e]
        BY <1>0, <2>1, <2>3, <2>6, Zenon DEF TypeOK
      <3>2. Untouched(e)
        BY <2>2, <2>4, <3>1, Zenon DEF SameUsers, Untouched
      <3> QED  BY <1>0, <3>2, StateSame, Zenon
    <2> QED  BY <2>5, <2>6, Zenon
  <1>10. ASSUME NEW p \in Proc, AllFree(p)
         PROVE  StateOK(e)'
    <2>1. SameUsers
      <3>1. PICK l \in {"look", "check", "idle", "evict", "closed"} : Goto(p, l)
        BY <1>10, Zenon DEF AllFree, Return
      <3>2. pc[p] = "free" /\ \A q \in Proc \ {p} : cur'[q] = cur[q]
        BY <1>0, <1>10, Zenon DEF TypeOK, AllFree, Return
      <3> QED  BY <1>0, <3>1, <3>2, UsersOf, Zenon
    <2> QED  BY <1>1, <1>10, <2>1, Zenon DEF AllFree, cache, entries
  <1>11. ASSUME NEW p \in Proc, Create(p)
         PROVE  StateOK(e)'
    <2>1. info[p] \in Regions /\ pc[p] = "create"
      <3>1. pc[p] = "create" /\ want[p] # None
        BY <1>0, <1>11, Zenon DEF CallOK, Searching, Create
      <3>2. info[p] # None
        BY <1>0, <3>1, Zenon DEF CallOK
      <3>3. info[p] \in Regions \cup {None}
        BY <1>0, Zenon DEF TypeOK
      <3> QED  BY <3>1, <3>2, <3>3, Zenon
    <2> DEFINE r == IF setup.provider = "aligned" THEN Aligned[info[p]] ELSE info[p]
    <2>2. r \in Regions
      BY <2>1, AlignedAssumption, Zenon
    <2> HIDE DEF r
    <2>3. ASSUME NEW x \in Lowest(Pool), Made(x, r), cur' = [cur EXCEPT ![p] = x], Goto(p, "insert")
          PROVE  StateOK(e)'
      <3>1. x \in Id
        BY Zenon DEF Lowest, Pool
      <3>2. cur'[p] = x /\ \A q \in Proc \ {p} : cur'[q] = cur[q]
        BY <1>0, <2>3, Zenon DEF TypeOK
      <3>3. NewUser(p, x)
        BY <1>0, <2>1, <2>3, <3>1, <3>2, UsersOf, Zenon
      <3> QED  BY <1>0, <1>11, <2>2, <2>3, <3>3, MadeState, Zenon DEF Create, cache
    <2>4. ASSUME Goto(p, "evict"), UNCHANGED <<entries, cur>>
          PROVE  StateOK(e)'
      <3>1. SameUsers
        BY <1>0, <2>1, <2>4, UsersOf, Zenon
      <3> QED  BY <1>1, <1>11, <2>4, <3>1, Zenon DEF Create, cache, entries
    <2> QED  BY <1>11, <2>3, <2>4, Zenon DEF Create, r
  <1>12. ASSUME NEW p \in Proc, Insert(p)
         PROVE  StateOK(e)'
    <2>1. PICK x \in Id : x = cur[p]
      BY <1>0, <1>12, Zenon DEF CallOK, Insert
    <2>2. /\ pc[p] = "insert" /\ Users(x) = {p} /\ x \notin tree
          /\ Freers(x) = {} /\ x \notin lru \cup dead /\ x \in Registered
          /\ freeing[p] = {}
      <3>1. pc[p] = "insert" /\ Users(x) = {p} /\ x \notin tree /\ freeing[p] = {}
        BY <1>0, <1>12, <2>1, Zenon DEF CallOK, Insert
      <3> QED  BY <1>0, <3>1, Zenon DEF OneState, StateOK
    <2>3. UNCHANGED <<reg, cur>>
      BY <1>12, Zenon DEF Insert
    <2>4. CASE /\ use_cnt' = [use_cnt EXCEPT ![cur[p]] = 0] /\ FreeThen(p, {cur[p]}, "check")
               /\ UNCHANGED cache
      <3>1. LostUser(p, x)
        BY <1>0, <2>1, <2>2, <2>3, <2>4, UsersOf, Zenon DEF FreeThen
      <3>2. freeing' = [freeing EXCEPT ![p] = {x}] /\ {x} \in SUBSET Id
        BY <2>1, <2>4, Zenon DEF FreeThen
      <3>3. /\ e \in {x} => Freers(e)' = Freers(e) \cup {p}
            /\ e \notin {x} => Freers(e)' = Freers(e)
        BY <1>0, <2>2, <3>2, FreersOf, Zenon
      <3>4. UNCHANGED <<tree, lru, dead>>
        BY <2>4, Zenon DEF cache
      <3>5. CASE e = x
        <4>1. Users(e)' = {} /\ Freers(e)' = {p} /\ Cardinality({}) = 0
          BY <2>2, <3>1, <3>3, <3>5, SmallCounts, Zenon DEF LostUser
        <4>2. use_cnt'[e] = 0
          BY <1>0, <2>1, <2>4, <3>5, Zenon DEF TypeOK
        <4> QED  BY <2>2, <2>3, <3>4, <3>5, <4>1, <4>2, Zenon DEF StateOK, Registered
      <3>6. CASE e # x
        <4>1. Untouched(e)
          BY <1>0, <2>1, <2>2, <2>3, <2>4, <3>1, <3>3, <3>4, <3>6, Zenon DEF LostUser, TypeOK, Untouched
        <4> QED  BY <1>0, <4>1, StateSame, Zenon
      <3> QED  BY <3>5, <3>6, Zenon
    <2>5. CASE Goto(p, "held") /\ UNCHANGED <<use_cnt, freeing, then>> /\ (InTree(p) \/ Outside(p))
      <3>1. SameUsers
        BY <1>0, <2>2, <2>3, <2>5, UsersOf, Zenon
      <3>2. Freers(e)' = Freers(e) /\ Users(e)' = Users(e)
        BY <2>5, <3>1, FreersSame, Zenon DEF SameUsers
      <3>3. UNCHANGED <<lru, dead>> /\ (tree' = tree \/ tree' = tree \cup {x})
        BY <2>1, <2>5, Zenon DEF InTree, Outside
      <3> QED  BY <1>0, <2>2, <2>3, <2>5, <3>2, <3>3, Zenon DEF StateOK, Registered
    <2> QED  BY <1>12, <2>4, <2>5, Zenon DEF Insert
  <1>13. ASSUME NEW p \in Proc, RegAdded(p)
         PROVE  StateOK(e)'
    <2>1. PICK x \in Id : x = cur[p]
      BY <1>0, <1>13, Zenon DEF CallOK, RegAdded
    <2>2. pc[p] = "reg" /\ Users(x) = {p} /\ x \notin tree
      BY <1>0, <1>13, <2>1, Zenon DEF CallOK, RegAdded
    <2>3. Freers(x) = {} /\ x \notin lru \cup dead
      BY <1>0, <2>2, Zenon DEF OneState, StateOK
    <2>4. CASE Goto(p, "held") /\ UNCHANGED <<cache, entries, want, info, cur>>
      <3>1. SameUsers
        BY <1>0, <2>2, <2>4, UsersOf, Zenon
      <3> QED  BY <1>1, <1>13, <2>4, <3>1, Zenon DEF RegAdded, cache, entries
    <2>5. CASE /\ reg' = [reg EXCEPT ![cur[p]] = None] /\ use_cnt' = [use_cnt EXCEPT ![cur[p]] = 0]
               /\ Return(p) /\ UNCHANGED <<tree, lru, dead>>
      <3>1. LostUser(p, x)
        <4>1. (\A q \in Proc \ {p} : cur'[q] = cur[q]) /\ Goto(p, "idle")
          BY <1>0, <2>5, Zenon DEF TypeOK, Return
        <4> QED  BY <1>0, <2>1, <2>2, <4>1, UsersOf, Zenon
      <3>2. \A f \in Id : Freers(f)' = Freers(f)
        BY <1>13, FreersSame, Zenon DEF RegAdded
      <3>3. CASE e = x
        <4>1. Users(e)' = {} /\ Cardinality({}) = 0
          BY <2>2, <3>1, <3>3, SmallCounts, Zenon DEF LostUser
        <4>2. use_cnt'[e] = 0 /\ reg'[e] = None
          BY <1>0, <2>1, <2>5, <3>3, Zenon DEF TypeOK
        <4> QED  BY <2>2, <2>3, <2>5, <3>2, <3>3, <4>1, <4>2, Zenon DEF StateOK, Registered
      <3>4. CASE e # x
        <4>1. Untouched(e)
          BY <1>0, <2>1, <2>5, <3>1, <3>2, <3>4, Zenon DEF LostUser, TypeOK, Untouched
        <4> QED  BY <1>0, <4>1, StateSame, Zenon
      <3> QED  BY <3>3, <3>4, Zenon
    <2> QED  BY <1>13, <2>4, <2>5, Zenon DEF RegAdded
  <1>14. ASSUME NEW p \in Proc, Delete(p)
         PROVE  StateOK(e)'
    <2>1. PICK x \in Id : x = cur[p]
      BY <1>0, <1>14, Zenon DEF CallOK, Delete
    <2>2. pc[p] = "held" /\ p \in Users(x) /\ freeing[p] = {}
      BY <1>0, <1>14, <2>1, Zenon DEF CallOK, Delete, Users
    <2>3. Users(x) \subseteq Proc /\ Freers(x) = {} /\ x \notin lru \cup dead /\ x \in Registered
      BY <1>0, <2>2, Zenon DEF OneState, StateOK, Users
    <2>4. /\ use_cnt[x] = Cardinality(Users(x))
          /\ Cardinality(Users(x) \ {p}) = use_cnt[x] - 1
          /\ use_cnt[x] = 1 => Users(x) \ {p} = {}
      <3>1. use_cnt[x] = Cardinality(Users(x))
        BY <1>0, Zenon DEF OneState, StateOK
      <3>2. /\ Cardinality(Users(x) \ {p}) = Cardinality(Users(x)) - 1
            /\ Cardinality(Users(x)) = 1 => Users(x) = {p}
        <4>1. ASSUME NEW U \in SUBSET Proc, p \in U
              PROVE  /\ Cardinality(U \ {p}) = Cardinality(U) - 1
                     /\ Cardinality(U) = 1 => U = {p}
          BY <4>1, Counts, Zenon
        <4>2. Users(x) \in SUBSET Proc /\ p \in Users(x)
          BY <2>2, <2>3, Zenon
        <4> QED  BY <4>1, <4>2, Zenon
      <3> QED  BY <3>1, <3>2, Zenon
    <2>5. /\ use_cnt'[x] = use_cnt[x] - 1
          /\ e # x => use_cnt'[e] = use_cnt[e]
          /\ UNCHANGED reg
      BY <1>0, <1>14, <2>1, Zenon DEF TypeOK, Delete
    <2>6. LostUser(p, x)
      <3>1. PICK l \in {"idle", "free"} : Goto(p, l)
        BY <1>14, Zenon DEF Delete, Unused, Return, FreeThen
      <3>2. \A q \in Proc \ {p} : cur'[q] = cur[q]
        BY <1>0, <1>14, Zenon DEF TypeOK, Delete, Unused, Return
      <3> QED  BY <1>0, <2>1, <2>2, <3>1, <3>2, UsersOf, Zenon
    <2>7. Users(x)' = Users(x) \ {p} /\ (e # x => Users(e)' = Users(e))
      BY <2>6, Zenon DEF LostUser
    <2>8. CASE use_cnt[x] > 1 /\ UNCHANGED <<cache, freeing>>
      <3>1. Freers(e)' = Freers(e) /\ UNCHANGED <<tree, lru, dead>>
        BY <2>8, FreersSame, Zenon DEF cache
      <3>2. CASE e = x
        <4>1. Users(x) \ {p} # {}
          <5>1. Cardinality({}) = 0
            BY SmallCounts, Zenon
          <5>2. use_cnt[x] \in Nat
            BY <1>0, Zenon DEF TypeOK
          <5>3. Cardinality(Users(x) \ {p}) # 0
            BY <2>4, <2>8, <5>2
          <5> QED  BY <5>1, <5>3, Zenon
        <4> QED  BY <1>0, <2>2, <2>3, <2>4, <2>5, <2>7, <3>1, <3>2, <4>1, Zenon DEF StateOK, Registered
      <3>3. CASE e # x
        <4>1. Untouched(e)
          BY <2>5, <2>7, <3>1, <3>3, Zenon DEF Untouched
        <4> QED  BY <1>0, <4>1, StateSame, Zenon
      <3> QED  BY <3>2, <3>3, Zenon
    <2>9. CASE use_cnt[x] = 1 /\ x \in tree /\ lru' = lru \cup {x} /\ UNCHANGED <<tree, dead, freeing>>
      <3>1. Freers(e)' = Freers(e)
        BY <2>9, FreersSame, Zenon
      <3>2. CASE e = x
        BY <1>0, <2>3, <2>4, <2>5, <2>7, <2>9, <3>1, <3>2, Zenon DEF StateOK, Registered
      <3>3. CASE e # x
        <4>1. Untouched(e)
          BY <2>5, <2>7, <2>9, <3>1, <3>3, Zenon DEF Untouched
        <4> QED  BY <1>0, <4>1, StateSame, Zenon
      <3> QED  BY <3>2, <3>3, Zenon
    <2>10. CASE use_cnt[x] = 1 /\ x \notin tree /\ FreeThen(p, {x}, "idle") /\ UNCHANGED <<tree, lru, dead>>
      <3>1. {x} \in SUBSET Id /\ freeing' = [freeing EXCEPT ![p] = {x}]
        BY <2>10, Zenon DEF FreeThen
      <3>2. /\ e \in {x} => Freers(e)' = Freers(e) \cup {p}
            /\ e \notin {x} => Freers(e)' = Freers(e)
        BY <1>0, <2>2, <3>1, FreersOf, Zenon
      <3>3. CASE e = x
        BY <1>0, <2>3, <2>4, <2>5, <2>7, <2>10, <3>2, <3>3, Zenon DEF StateOK, Registered
      <3>4. CASE e # x
        <4>1. Untouched(e)
          BY <2>2, <2>5, <2>7, <2>10, <3>2, <3>4, Zenon DEF Untouched
        <4> QED  BY <1>0, <4>1, StateSame, Zenon
      <3> QED  BY <3>3, <3>4, Zenon
    <2> QED  BY <1>14, <2>1, <2>8, <2>9, <2>10, Zenon DEF Delete, Unused
  <1>15. ASSUME NEW p \in Proc, Cleanup(p)
         PROVE  StateOK(e)'
    <2>1. SameUsers
      BY <1>0, <1>15, UsersOf, Zenon DEF Cleanup
    <2> QED  BY <1>1, <1>15, <2>1, Zenon DEF Cleanup, cache, entries
  <1>16. ASSUME NEW S \in SUBSET Addr, Unmap(S)
         PROVE  StateOK(e)'
    <2>1. SameUsers /\ UNCHANGED <<reg, use_cnt, freeing>>
      BY <1>16, Zenon DEF Unmap, SameUsers, Users, entries, procs
    <2>2. CASE setup.monitor = "notify"
      BY <1>0, <1>16, <2>1, <2>2, UncacheState, Zenon DEF Unmap
    <2>3. CASE setup.monitor # "notify"
      BY <1>1, <1>16, <2>1, <2>3, Zenon DEF Unmap, cache
    <2> QED  BY <2>2, <2>3, Zenon
  <1>17. CASE Unmapped
    <2>1. SameUsers
      BY <1>17, Zenon DEF Unmapped, SameUsers, Users, procs
    <2> QED  BY <1>1, <1>17, <2>1, Zenon DEF Unmapped, cache, entries, procs
  <1>18. CASE UNCHANGED vars
    <2>1. SameUsers
      BY <1>18, Zenon DEF vars, SameUsers, Users, procs
    <2> QED  BY <1>1, <1>18, <2>1, Zenon DEF vars, cache, entries, procs
  <1>19. ASSUME \E S \in IF setup.monitor = "query" THEN {Addr} ELSE {{a} : a \in Addr} : Unmap(S)
         PROVE  StateOK(e)'
    BY <1>16, <1>19, Zenon
  <1> QED
    BY <1>2, <1>4, <1>5, <1>7, <1>8, <1>9, <1>10, <1>11, <1>12, <1>13, <1>14, <1>15,
       <1>17, <1>18, <1>19 DEF Next, Step

(***************************************************************************)
(* What the calls know of their entries.                                   *)
(***************************************************************************)
\* A call another step leaves alone, with its entry.
Spared(q) ==
    /\ pc'[q] = pc[q] /\ then'[q] = then[q] /\ freeing'[q] = freeing[q]
    /\ want'[q] = want[q] /\ info'[q] = info[q] /\ cur'[q] = cur[q]
    /\ \A e \in Id : q \in Users(e) =>
        reg'[e] = reg[e] /\ stamp'[e] = stamp[e] /\ (e \in raced => e \in raced')
    /\ \A e \in Id : Users(e) = {q} /\ e \notin tree => Users(e)' = {q} /\ e \notin tree'

LEMMA SparedOK ==
    ASSUME IInv, NEW q \in Proc, Spared(q), setup' = setup,
           \A a \in Addrs(want[q]) : mapping'[a] = mapping[a],
           Addrs(want[q]) \cap going = {} => Addrs(want[q]) \cap going' = {}
    PROVE  CallOK(q)'
  <1>0. CallOK(q)
    BY Zenon DEF IInv
  <1>1. /\ pc'[q] = pc[q] /\ then'[q] = then[q] /\ freeing'[q] = freeing[q]
        /\ want'[q] = want[q] /\ info'[q] = info[q] /\ cur'[q] = cur[q]
    BY Zenon DEF Spared
  <1>2. CASE pc[q] \notin Using
    BY <1>0, <1>1, <1>2, Zenon DEF CallOK, Searching, Using
  <1>3. CASE pc[q] \in Using
    <2>1. PICK x \in Id : x = cur[q] /\ q \in Users(x)
      BY <1>3, UsedFacts, Zenon
    <2>2. reg'[x] = reg[x] /\ stamp'[x] = stamp[x] /\ (x \in raced => x \in raced')
      BY <2>1, Zenon DEF Spared
    <2>3. cur'[q] = x
      BY <1>1, <2>1, Zenon
    <2>4. Fresh(q)'
      <3>1. Fresh(q)
        BY <1>0, <1>3, Zenon DEF CallOK, Using
      <3> QED  BY <1>1, <2>1, <2>2, <2>3, <3>1, Zenon DEF Fresh, Excused
    <2>5. pc[q] \in {"insert", "reg"} => (Users(cur[q]) = {q})' /\ cur'[q] \notin tree'
      <3>1. SUFFICES ASSUME pc[q] \in {"insert", "reg"}
                     PROVE  (Users(cur[q]) = {q})' /\ cur'[q] \notin tree'
        BY Zenon
      <3>2. Users(x) = {q} /\ x \notin tree
        BY <1>0, <2>1, <3>1, Zenon DEF CallOK
      <3>3. Users(x)' = {q} /\ x \notin tree'
        BY <3>2, Zenon DEF Spared
      <3>4. Users(cur[q])' = Users(x)'
        BY <2>3, Zenon DEF Users
      <3> QED  BY <2>3, <3>3, <3>4, Zenon
    <2>6. /\ pc[q] \in {"evict", "flush"} => then[q] \in {"look", "retry", "closing"}
          /\ freeing[q] = {} /\ want[q] # None /\ info[q] # None /\ Within(want[q], info[q])
          /\ Addrs(want[q]) \cap going' = {}
          /\ setup.provider = "exact" => info[q] = want[q]
          /\ Within(want[q], reg[x])
          /\ pc[q] = "insert" => reg[x] = info[q]
      BY <1>0, <1>3, <2>1, Zenon DEF CallOK, Using, Searching
    <2> QED  BY <1>1, <2>2, <2>3, <2>4, <2>5, <2>6, Zenon DEF CallOK, Searching
  <1> QED  BY <1>2, <1>3, Zenon

\* The other calls, when p makes a step that does not change the use of an
\* entry, or starts or ends a use.
LEMMA OthersSpared ==
    ASSUME IInv, NEW p \in Proc, NEW q \in Proc, q # p,
           /\ pc'[q] = pc[q] /\ then'[q] = then[q] /\ freeing'[q] = freeing[q]
           /\ want'[q] = want[q] /\ info'[q] = info[q] /\ cur'[q] = cur[q],
           UNCHANGED <<setup, memory>>,
           \/ SameUsers
           \/ \E x \in Id : (x \in Pool \/ x \in tree) /\ NewUser(p, x)
           \/ \E x \in Id : LostUser(p, x),
           \A e \in Id : q \in Users(e) =>
              /\ reg'[e] = reg[e] /\ stamp'[e] = stamp[e]
              /\ e \in raced => e \in raced'
              /\ p \notin Users(e) /\ e \in tree' => e \in tree
    PROVE  CallOK(q)'
  <1>1. ASSUME NEW e \in Id, Users(e) = {q}, e \notin tree
        PROVE  Users(e)' = {q} /\ e \notin tree'
    <2>1. e \notin tree'
      BY <1>1, Zenon
    <2>2. CASE SameUsers
      BY <1>1, <2>2, Zenon DEF SameUsers
    <2>3. ASSUME NEW x \in Id, x \in Pool \/ x \in tree, NewUser(p, x)
          PROVE  Users(e)' = {q}
      <3>1. e \in Registered
        BY <1>1, Zenon DEF IInv, OneState, StateOK
      <3>2. e # x
        BY <1>1, <2>3, <3>1, Zenon DEF Pool, Registered
      <3> QED  BY <1>1, <2>3, <3>2, Zenon DEF NewUser
    <2>4. ASSUME NEW x \in Id, LostUser(p, x)
          PROVE  Users(e)' = {q}
      BY <1>1, <2>4, Zenon DEF LostUser
    <2> QED  BY <2>1, <2>2, <2>3, <2>4, Zenon
  <1>2. Spared(q)
    BY <1>1, Zenon DEF Spared
  <1> QED  BY <1>2, SparedOK, Zenon DEF memory

\* An entry of the tree that fits is good for the call that hits it.
LEMMA HitFresh ==
    ASSUME IInv, NEW p \in Proc, NEW x \in tree, Fits(p, x), want[p] # None
    PROVE  /\ Within(want[p], reg[x])
           /\ Excused(x) \/ \A a \in Addrs(want[p]) : stamp[x][a] = mapping[a]
  <1>1. reg[x] \in Regions /\ x \in Id
    BY TreeFacts, Zenon
  <1>2. want[p] \in Regions /\ info[p] \in Regions /\ Within(want[p], info[p])
    BY Zenon DEF IInv, TypeOK, CallOK
  <1>3. Within(want[p], reg[x])
    BY <1>1, <1>2, RegionFacts, Zenon DEF Fits
  <1>4. Addrs(want[p]) \subseteq Addrs(reg[x]) /\ reg[x][1] \in Addrs(reg[x])
    BY <1>1, <1>2, <1>3, RegionFacts, Zenon
  <1>5. /\ setup.provider \in {"exact", "aligned"}
        /\ setup.monitor \in {"notify", "query"}
    BY SetupAssumption, Zenon DEF IInv, TypeOK
  <1>6. CASE setup.monitor = "notify"
    <2>1. x \in raced \/ Current(x)
      BY <1>6, Zenon DEF IInv, MonitorOK
    <2>2. x \in raced => Excused(x)
      BY <1>5, Zenon DEF IInv, MonitorOK, Excused
    <2> QED  BY <1>3, <1>4, <2>1, <2>2, Zenon DEF Current
  <1>7. CASE setup.monitor = "query"
    <2>1. stamp[x][reg[x][1]] = mapping[reg[x][1]]
      BY <1>7, Zenon DEF Fits, Valid
    <2>2. \A a \in Addrs(reg[x]) : a \in Addr
      BY Zenon DEF Addrs
    <2>3. \A a \in Addrs(reg[x]) : mapping[a] = mapping[reg[x][1]]
      BY <1>4, <1>7, <2>2, Zenon DEF IInv, MonitorOK
    <2>4. \A a \in Addrs(reg[x]) : stamp[x][a] = stamp[x][reg[x][1]]
      BY <1>1, <1>4, <1>7, Zenon DEF IInv, MonitorOK
    <2> QED  BY <1>3, <1>4, <2>1, <2>3, <2>4, Zenon
  <1> QED  BY <1>5, <1>6, <1>7, Zenon

\* A call that just made its entry.
LEMMA MadeCall ==
    ASSUME IInv, TypeOK', NEW p \in Proc, NEW x \in Lowest(Pool), NEW r \in Regions, Made(x, r),
           NewUser(p, x), cur'[p] = x, pc'[p] \in {"insert", "reg"}, info'[p] = r,
           want'[p] \in Regions, Within(want'[p], r), Addrs(want'[p]) \cap going = {},
           setup.provider = "exact" => want'[p] = r, freeing'[p] = {},
           UNCHANGED <<setup, tree, memory>>
    PROVE  CallOK(p)'
  <1>1. x \in Id /\ x \notin tree /\ Users(x) = {}
    <2>1. x \in Id /\ x \notin Registered
      BY Zenon DEF Lowest, Pool, Registered
    <2> QED  BY <2>1, TreeFacts, Zenon DEF IInv, OneState, StateOK
  <1>2. Users(x)' = {p}
    BY <1>1, Zenon DEF NewUser
  <1>3. Users(cur[p])' = Users(x)'
    BY Zenon DEF Users
  <1>4. reg'[x] = r /\ \A a \in Addrs(r) : stamp'[x][a] = mapping[a]
    BY <1>1 DEF Made, IInv, TypeOK, Addrs
  <1>5. Fresh(p)'
    <2>1. Addrs(want'[p]) \subseteq Addrs(r)
      BY RegionFacts, Zenon
    <2> QED  BY <1>4, <2>1, Zenon DEF Fresh, memory
  <1>6. r # None /\ want'[p] # None
    BY RegionFacts, Zenon
  <1> QED  BY <1>1, <1>2, <1>3, <1>4, <1>5, <1>6, Zenon DEF CallOK, memory

\* A call that uses no entry after the step.
LEMMA IdleCall ==
    ASSUME NEW p \in Proc, pc'[p] \notin Using, CallOK(p),
           pc'[p] \in {"evict", "flush"} => then'[p] \in {"look", "retry", "closing"},
           freeing'[p] # {} => pc'[p] = "free",
           \/ want'[p] = None /\ info'[p] = None /\ ~ Searching(p)'
           \/ /\ want'[p] = want[p] /\ info'[p] = info[p]
              /\ Searching(p)' => Searching(p),
           UNCHANGED <<setup, memory>>
    PROVE  CallOK(p)'
  BY Zenon DEF CallOK, Using, memory

\* After every step the calls know what they knew.
LEMMA CallStep ==
    ASSUME IInv, TypeOK', [Next]_vars, NEW q \in Proc
    PROVE  CallOK(q)'
  <1> USE DEF PCs, Using
  <1>0. TypeOK /\ OneState /\ \A p \in Proc : CallOK(p)
    BY Zenon DEF IInv
  <1>t. /\ pc \in [Proc -> PCs] /\ then \in [Proc -> Thens] /\ cur \in [Proc -> Id \cup {0}]
        /\ want \in [Proc -> Regions \cup {None}] /\ info \in [Proc -> Regions \cup {None}]
        /\ freeing \in [Proc -> SUBSET Id] /\ raced \subseteq Id
    BY <1>0, Zenon DEF TypeOK
  <1>1. ASSUME NEW p \in Proc, p # q, SameUsers, UNCHANGED <<setup, memory, reg, stamp>>,
               pc'[q] = pc[q], then'[q] = then[q], freeing'[q] = freeing[q],
               want'[q] = want[q], info'[q] = info[q], cur'[q] = cur[q],
               raced \subseteq raced', tree' \subseteq tree
        PROVE  CallOK(q)'
    BY <1>1, OthersSpared, Zenon
  <1>2. ASSUME NEW p \in Proc, Call(p)
        PROVE  CallOK(q)'
    <2>1. CASE p = q
      <3>1. PICK r \in Regions : want'[p] = r /\ info'[p] = r /\ Addrs(r) \cap going = {}
        BY <1>0, <1>2, CalledFor, Zenon DEF Call
      <3>3. pc'[p] = "check"
        BY <1>t, <1>2, Zenon DEF Call, Goto
      <3>4. freeing'[p] = {} /\ UNCHANGED <<setup, memory>>
        BY <1>0, <1>2, Zenon DEF CallOK, Call, Called
      <3>5. r # None /\ Within(r, r)
        BY RegionFacts, Zenon
      <3> QED  BY <2>1, <3>1, <3>3, <3>4, <3>5, Zenon DEF CallOK, memory
    <2>2. CASE p # q
      <3>1. SameUsers
        BY <1>0, <1>2, UsersOf, Zenon DEF Call, Called
      <3> QED  BY <1>t, <1>1, <1>2, <2>2, <3>1, Zenon DEF Call, Called, Goto, cache, entries
    <2> QED  BY <2>1, <2>2, Zenon
  <1>4. ASSUME NEW p \in Proc, Reg(p)
        PROVE  CallOK(q)'
    <2> PICK x \in Lowest(Pool) : Made(x, want'[p]) /\ cur' = [cur EXCEPT ![p] = x]
      BY <1>4, Zenon DEF Reg
    <2>1. x \in Id /\ x \in Pool
      BY Zenon DEF Lowest, Pool
    <2>2. PICK r \in Regions : want'[p] = r /\ info'[p] = r /\ Addrs(r) \cap going = {}
      BY <1>0, <1>4, CalledFor, Zenon DEF Reg
    <2>3. pc'[p] = "reg" /\ cur'[p] = x
      BY <1>t, <1>4, Zenon DEF Reg, Goto
    <2>4. want'[p] = r /\ info'[p] = r /\ pc'[p] = "reg" /\ cur'[p] = x /\ Addrs(r) \cap going = {}
      BY <2>2, <2>3, Zenon
    <2>5. Made(x, r)
      BY <2>4, Zenon DEF Made
    <2>6. NewUser(p, x)
      <3>1. (\A f \in Proc \ {p} : cur'[f] = cur[f]) /\ pc[p] = "idle" /\ Goto(p, "reg")
        BY <1>t, <1>4, Zenon DEF Reg, Called
      <3> QED  BY <1>0, <2>1, <2>4, <3>1, UsersOf, Zenon
    <2>7. freeing' = freeing /\ freeing[p] = {} /\ UNCHANGED <<setup, tree, memory, raced>>
      BY <1>0, <1>4, Zenon DEF CallOK, Reg, Called
    <2>8. CASE p = q
      BY <2>4, <2>5, <2>6, <2>7, <2>8, RegionFacts, MadeCall, Zenon
    <2>9. CASE p # q
      <3>1. \A e \in Id : q \in Users(e) => reg'[e] = reg[e] /\ stamp'[e] = stamp[e]
        <4>1. q \notin Users(x)
          BY <1>0, <2>1, Zenon DEF OneState, StateOK, Pool, Registered
        <4> QED  BY <1>0, <2>1, <2>5, <4>1, Zenon DEF Made, TypeOK
      <3>2. /\ pc'[q] = pc[q] /\ then'[q] = then[q] /\ freeing'[q] = freeing[q]
            /\ want'[q] = want[q] /\ info'[q] = info[q] /\ cur'[q] = cur[q]
        BY <1>t, <1>4, <2>9, Zenon DEF Reg, Called, Goto
      <3> QED  BY <2>1, <2>6, <2>7, <2>9, <3>1, <3>2, OthersSpared, Zenon
    <2> QED  BY <2>8, <2>9, Zenon
  <1>5. ASSUME NEW p \in Proc, Check(p)
        PROVE  CallOK(q)'
    <2>1. PICK l \in {"evict", "flush"} : Goto(p, l)
      BY <1>5, Zenon DEF Check
    <2>2. UNCHANGED <<setup, cache, entries, want, info, cur, freeing, memory, raced>>
      BY <1>5, Zenon DEF Check
    <2>3. CASE p = q
      <3>1. pc'[p] = l /\ then'[p] = "look" /\ pc[p] = "check"
        BY <1>t, <1>5, <2>1, Zenon DEF Check, Goto
      <3>2. freeing'[p] = {} /\ Searching(p)
        BY <1>0, <2>2, <3>1, Zenon DEF CallOK, Searching
      <3> QED  BY <1>0, <2>2, <2>3, <3>1, <3>2, IdleCall, Zenon
    <2>4. CASE p # q
      <3>1. SameUsers
        BY <1>0, <1>5, <2>1, <2>2, UsersOf, Zenon DEF Check
      <3> QED  BY <1>t, <1>1, <1>5, <2>1, <2>2, <2>4, <3>1, Zenon DEF Check, Goto, cache, entries
    <2> QED  BY <2>3, <2>4, Zenon
  <1>7. ASSUME NEW p \in Proc, Look(p)
        PROVE  CallOK(q)'
    <2> DEFINE nested == {f \in tree : Nested(info[p], reg[f])}
    <2>0. /\ pc[p] \in {"look", "check"} /\ UNCHANGED <<setup, memory, raced>>
          /\ freeing[p] = {} /\ want[p] # None /\ Searching(p)
      BY <1>0, <1>7, Zenon DEF Look, CallOK, Searching
    <2>1. ASSUME NEW x \in nested, Hit(p, x)
          PROVE  CallOK(q)'
      <3>1. x \in Id /\ x \in tree
        BY <1>0, Zenon DEF TypeOK
      <3>2. cur'[p] = x /\ pc'[p] = "held" /\ \A f \in Proc \ {p} : cur'[f] = cur[f]
        BY <1>0, <2>1 DEF TypeOK, Hit, Goto
      <3>3. NewUser(p, x)
        BY <1>0, <2>0, <2>1, <3>1, <3>2, UsersOf, Zenon DEF Hit
      <3>4. UNCHANGED <<tree, reg, stamp, want, info, freeing, then>>
        BY <2>1, Zenon DEF Hit
      <3>5. CASE p = q
        <4>1. /\ Within(want[p], reg[x])
              /\ Excused(x) \/ \A a \in Addrs(want[p]) : stamp[x][a] = mapping[a]
          BY <2>0, <2>1, <3>1, HitFresh, Zenon DEF Hit
        <4>2. Fresh(p)'
          BY <2>0, <3>2, <3>4, <4>1, Zenon DEF Fresh, Excused, memory
        <4>3. CallOK(p)'
          BY <1>0, <2>0, <3>1, <3>2, <3>4, <4>1, <4>2, Zenon DEF CallOK, memory
        <4> QED  BY <3>5, <4>3, Zenon
      <3>6. CASE p # q
        <4>1. pc'[q] = pc[q]
          BY <1>0, <2>1, <3>6, Zenon DEF TypeOK, Hit, Goto
        <4> QED  BY <2>0, <3>1, <3>2, <3>3, <3>4, <3>6, <4>1, OthersSpared, Zenon
      <3> QED  BY <3>5, <3>6, Zenon
    <2>2. CASE MissSearch(p, nested)
      <3>1. SameUsers
        BY <1>0, <2>0, <2>2, UsersOf, Zenon DEF MissSearch
      <3>2. tree' \subseteq tree /\ UNCHANGED <<reg, stamp, want, info, cur, freeing, then>>
        BY <2>2, Zenon DEF MissSearch, Uncache, entries
      <3>3. pc'[p] = "create" /\ (p # q => pc'[q] = pc[q])
        BY <1>t, <2>2, Zenon DEF MissSearch, Goto
      <3>4. CASE p = q
        BY <1>0, <2>0, <3>2, <3>3, <3>4, IdleCall, Zenon
      <3>5. CASE p # q
        BY <1>1, <2>0, <3>1, <3>2, <3>3, <3>5, Zenon
      <3> QED  BY <3>4, <3>5, Zenon
    <2>3. CASE MissFind(p, nested)
      <3>1. tree' \subseteq tree /\ UNCHANGED <<reg, stamp, freeing, then>>
        BY <2>3, Zenon DEF MissFind, Uncache, cache, entries
      <3>2. /\ pc'[p] = "idle" /\ want'[p] = None /\ info'[p] = None
            /\ p # q => pc'[q] = pc[q] /\ want'[q] = want[q] /\ info'[q] = info[q] /\ cur'[q] = cur[q]
            /\ \A f \in Proc \ {p} : cur'[f] = cur[f]
        BY <1>t, <2>3, Zenon DEF MissFind, Return, Goto
      <3>3. SameUsers
        BY <1>0, <2>0, <2>3, <3>2, UsersOf, Zenon DEF MissFind, Return
      <3>4. CASE p = q
        <4>1. ~ Searching(p)'
          BY <3>2, Zenon DEF Searching
        <4> QED  BY <1>0, <2>0, <3>1, <3>2, <3>4, <4>1, IdleCall, Zenon
      <3>5. CASE p # q
        BY <1>1, <2>0, <3>1, <3>2, <3>3, <3>5, Zenon
      <3> QED  BY <3>4, <3>5, Zenon
    <2> QED  BY <1>7, <2>1, <2>2, <2>3, Zenon DEF Look
  <1>8. ASSUME NEW p \in Proc, Flush(p)
        PROVE  CallOK(q)'
    <2> PICK S \in SUBSET lru :
            /\ tree' = tree \ S
            /\ FreeThen(p, dead \cup S, AfterFlush(then[p], dead \cup S))
      BY <1>8, Zenon DEF Flush
    <2>1. SameUsers
      BY <1>0, <1>8, UsersOf, Zenon DEF Flush, FreeThen
    <2>2. UNCHANGED <<setup, reg, stamp, want, info, cur, memory, raced>>
      BY <1>8, Zenon DEF Flush, entries
    <2>3. /\ pc'[p] = "free" /\ then'[p] = AfterFlush(then[p], dead \cup S)
          /\ p # q => pc'[q] = pc[q] /\ then'[q] = then[q] /\ freeing'[q] = freeing[q]
      BY <1>t, Zenon DEF FreeThen, Goto
    <2>4. CASE p = q
      <3>1. pc[p] \in {"evict", "flush"} /\ then[p] \in {"look", "retry", "closing"}
        BY <1>0, <1>8, Zenon DEF CallOK, Flush
      <3>2. Searching(p)' => Searching(p)
        BY <2>3, <3>1, Zenon DEF Searching, AfterFlush
      <3> QED  BY <1>0, <2>2, <2>3, <2>4, <3>2, IdleCall, Zenon
    <2>5. CASE p # q
      BY <1>1, <2>1, <2>2, <2>3, <2>5, Zenon
    <2> QED  BY <2>4, <2>5, Zenon
  <1>9. ASSUME NEW p \in Proc, Free(p)
        PROVE  CallOK(q)'
    <2> PICK x \in freeing[p] :
            /\ reg' = [reg EXCEPT ![x] = None] /\ stamp' = [stamp EXCEPT ![x] = NoStamp]
            /\ freeing' = [freeing EXCEPT ![p] = freeing[p] \ {x}] /\ raced' = raced \ {x}
      BY <1>9, Zenon DEF Free
    <2>1. x \in Id /\ Users(x) = {}
      <3>1. x \in Id /\ p \in Freers(x)
        BY <1>t, Zenon DEF Freers
      <3> QED  BY <1>0, <3>1, Zenon DEF OneState, StateOK
    <2>2. SameUsers
      BY <1>9, Zenon DEF Free, SameUsers, Users
    <2>3. pc[p] = "free" /\ UNCHANGED <<setup, tree, pc, want, info, cur, then, memory>>
      BY <1>9, Zenon DEF Free, cache
    <2>4. CASE p = q
      <3>1. Searching(p)' <=> Searching(p)
        BY <2>3, Zenon DEF Searching
      <3> QED  BY <1>0, <2>3, <2>4, <3>1, IdleCall, Zenon
    <2>5. CASE p # q
      <3>1. freeing'[q] = freeing[q]
        BY <1>t, <2>5, Zenon
      <3>2. \A e \in Id : q \in Users(e) =>
                /\ reg'[e] = reg[e] /\ stamp'[e] = stamp[e]
                /\ e \in raced => e \in raced'
        BY <1>t, <2>1
      <3> QED  BY <2>2, <2>3, <2>5, <3>1, <3>2, OthersSpared, Zenon
    <2> QED  BY <2>4, <2>5, Zenon
  <1>10. ASSUME NEW p \in Proc, AllFree(p)
         PROVE  CallOK(q)'
    <2>1. pc[p] = "free" /\ freeing[p] = {} /\ UNCHANGED <<setup, cache, entries, freeing, memory, raced>>
      BY <1>10, Zenon DEF AllFree
    <2>2. /\ \A f \in Proc \ {p} : cur'[f] = cur[f]
          /\ p # q => /\ pc'[q] = pc[q] /\ then'[q] = then[q] /\ cur'[q] = cur[q]
                      /\ want'[q] = want[q] /\ info'[q] = info[q]
      BY <1>0, <1>10 DEF TypeOK, AllFree, Return, Goto
    <2>3. CASE p = q
      <3>1. CASE then[p] \in {"look", "check"} /\ Goto(p, then[p]) /\ UNCHANGED <<want, info, then>>
        <4>1. pc'[p] = then[p] /\ Searching(p)
          BY <1>t, <2>1, <3>1, Zenon DEF Goto, Searching
        <4> QED  BY <1>0, <2>1, <2>3, <3>1, <4>1, IdleCall, Zenon
      <3>2. CASE Return(p) /\ UNCHANGED then
        <4>1. pc'[p] = "idle" /\ want'[p] = None /\ info'[p] = None /\ ~ Searching(p)'
          BY <1>t, <3>2, Zenon DEF Return, Goto, Searching
        <4> QED  BY <1>0, <2>1, <2>3, <4>1, IdleCall, Zenon
      <3>3. CASE /\ Goto(p, "evict") /\ then' = [then EXCEPT ![p] = "closing"]
                 /\ UNCHANGED <<want, info, cur>>
        <4>1. pc'[p] = "evict" /\ then'[p] = "closing" /\ ~ Searching(p)'
          BY <1>t, <3>3, Zenon DEF Goto, Searching
        <4> QED  BY <1>0, <2>1, <2>3, <3>3, <4>1, IdleCall, Zenon
      <3>4. CASE Goto(p, "closed") /\ UNCHANGED <<want, info, cur, then>>
        <4>1. pc'[p] = "closed" /\ ~ Searching(p)'
          BY <1>t, <3>4, Zenon DEF Goto, Searching
        <4> QED  BY <1>0, <2>1, <2>3, <3>4, <4>1, IdleCall, Zenon
      <3> QED  BY <1>10, <3>1, <3>2, <3>3, <3>4, Zenon DEF AllFree
    <2>4. CASE p # q
      <3>1. PICK l \in {"look", "check", "idle", "evict", "closed"} : Goto(p, l)
        BY <1>10, Zenon DEF AllFree, Return
      <3>2. SameUsers
        BY <1>0, <2>1, <2>2, <3>1, UsersOf, Zenon
      <3> QED  BY <1>1, <2>1, <2>2, <2>4, <3>2, Zenon DEF cache, entries
    <2> QED  BY <2>3, <2>4, Zenon
  <1>11. ASSUME NEW p \in Proc, Create(p)
         PROVE  CallOK(q)'
    <2>1. /\ pc[p] = "create" /\ want[p] \in Regions /\ info[p] \in Regions
          /\ Within(want[p], info[p]) /\ Addrs(want[p]) \cap going = {}
          /\ setup.provider = "exact" => info[p] = want[p]
          /\ freeing[p] = {} /\ Searching(p)
      <3>1. pc[p] = "create" /\ Searching(p)
        BY <1>11, Zenon DEF Create, Searching
      <3>2. want[p] # None /\ freeing[p] = {}
        BY <1>0, <3>1, Zenon DEF CallOK
      <3>3. want[p] \in Regions \cup {None} /\ info[p] \in Regions \cup {None}
        BY <1>t, Zenon
      <3> QED  BY <1>0, <3>1, <3>2, <3>3, Zenon DEF CallOK
    <2>2. UNCHANGED <<setup, tree, want, freeing, memory>>
      BY <1>11, Zenon DEF Create, cache
    <2> DEFINE r == IF setup.provider = "aligned" THEN Aligned[info[p]] ELSE info[p]
    <2>3. r \in Regions /\ Within(want[p], r) /\ (setup.provider = "exact" => r = want[p])
      <3>1. CASE setup.provider = "aligned"
        <4>1. Aligned[info[p]] \in Regions /\ Within(info[p], Aligned[info[p]])
          BY <2>1, AlignedAssumption, Zenon
        <4>2. Within(want[p], Aligned[info[p]])
          BY <2>1, <4>1, RegionFacts, Zenon
        <4> QED  BY <3>1, <4>1, <4>2, Zenon
      <3>2. CASE setup.provider # "aligned"
        BY <2>1, <3>2, Zenon
      <3> QED  BY <3>1, <3>2, Zenon
    <2> HIDE DEF r
    <2>4. ASSUME NEW x \in Lowest(Pool), Made(x, r), cur' = [cur EXCEPT ![p] = x],
                 info' = [info EXCEPT ![p] = r], raced \subseteq raced',
                 Goto(p, "insert"), UNCHANGED then
          PROVE  CallOK(q)'
      <3>1. x \in Id /\ x \in Pool
        BY Zenon DEF Lowest, Pool
      <3>2. /\ cur'[p] = x /\ info'[p] = r /\ pc'[p] = "insert"
            /\ \A f \in Proc \ {p} : cur'[f] = cur[f]
            /\ p # q => cur'[q] = cur[q] /\ info'[q] = info[q] /\ pc'[q] = pc[q]
        BY <1>t, <2>4, Zenon DEF Goto
      <3>3. NewUser(p, x)
        BY <1>0, <2>1, <2>4, <3>1, <3>2, UsersOf, Zenon
      <3>4. CASE p = q
        <4>1. want'[p] = want[p] /\ freeing'[p] = {}
          BY <2>1, <2>2, Zenon
        <4>2. CallOK(p)'
          BY <2>1, <2>2, <2>3, <2>4, <3>2, <3>3, <4>1, MadeCall, Zenon
        <4> QED  BY <3>4, <4>2, Zenon
      <3>5. CASE p # q
        <4>1. \A e \in Id : q \in Users(e) => reg'[e] = reg[e] /\ stamp'[e] = stamp[e]
          <5>1. q \notin Users(x)
            BY <1>0, <3>1, Zenon DEF OneState, StateOK, Pool, Registered
          <5> QED  BY <1>0, <2>4, <3>1, <5>1, Zenon DEF Made, TypeOK
        <4> QED  BY <2>2, <2>4, <3>1, <3>2, <3>3, <3>5, <4>1, OthersSpared, Zenon
      <3> QED  BY <3>4, <3>5, Zenon
    <2>5. ASSUME Goto(p, "evict"), then' = [then EXCEPT ![p] = "retry"],
                 UNCHANGED <<entries, cur, info, raced>>
          PROVE  CallOK(q)'
      <3>1. /\ pc'[p] = "evict" /\ then'[p] = "retry"
            /\ p # q => pc'[q] = pc[q] /\ then'[q] = then[q]
        BY <1>t, <2>5, Zenon DEF Goto
      <3>2. CASE p = q
        BY <1>0, <2>1, <2>2, <2>5, <3>1, <3>2, IdleCall, Zenon
      <3>3. CASE p # q
        <4>1. SameUsers
          BY <1>0, <2>1, <2>5, UsersOf, Zenon
        <4> QED  BY <1>1, <2>2, <2>5, <3>1, <3>3, <4>1, Zenon DEF entries
      <3> QED  BY <3>2, <3>3, Zenon
    <2>6. ASSUME NEW x \in Lowest(Pool),
                 raced' = IF Addrs(r) \cap going = {} THEN raced ELSE raced \cup {x}
          PROVE  raced \subseteq raced'
      BY <2>6, Zenon
    <2> QED  BY <1>11, <2>4, <2>5, <2>6, Zenon DEF Create, r
  <1>12. ASSUME NEW p \in Proc, Insert(p)
         PROVE  CallOK(q)'
    <2>1. PICK x \in Id : x = cur[p] /\ p \in Users(x)
      BY <1>12, UsedFacts, Zenon DEF Insert
    <2>2. /\ pc[p] = "insert" /\ Users(x) = {p} /\ freeing[p] = {} /\ Searching(p)
          /\ UNCHANGED <<setup, reg, stamp, want, info, cur, memory, raced>>
      BY <1>0, <1>12, <2>1, Zenon DEF Insert, CallOK, Searching
    <2>3. CASE FreeThen(p, {cur[p]}, "check") /\ UNCHANGED cache
      <3>1. /\ pc'[p] = "free" /\ then'[p] = "check" /\ Goto(p, "free")
            /\ p # q => pc'[q] = pc[q] /\ then'[q] = then[q] /\ freeing'[q] = freeing[q]
        BY <1>t, <2>3, Zenon DEF FreeThen, Goto
      <3>2. CASE p = q
        BY <1>0, <2>2, <3>1, <3>2, IdleCall, Zenon
      <3>3. CASE p # q
        <4>1. LostUser(p, x)
          BY <1>0, <2>1, <2>2, <3>1, UsersOf, Zenon
        <4> QED  BY <2>2, <2>3, <3>1, <3>3, <4>1, OthersSpared, Zenon DEF cache
      <3> QED  BY <3>2, <3>3, Zenon
    <2>4. CASE Goto(p, "held") /\ UNCHANGED <<freeing, then>> /\ (InTree(p) \/ Outside(p))
      <3>1. pc'[p] = "held" /\ (p # q => pc'[q] = pc[q])
        BY <1>t, <2>4, Zenon DEF Goto
      <3>2. CASE p = q
        <4>1. Fresh(p)'
          <5>1. Fresh(p)
            BY <1>0, <2>2, Zenon DEF CallOK
          <5> QED  BY <2>2, <5>1, Zenon DEF Fresh, Excused, memory
        <4>2. CallOK(p)'
          BY <1>0, <2>2, <2>4, <3>1, <4>1, Zenon DEF CallOK, memory
        <4> QED  BY <3>2, <4>2, Zenon
      <3>3. CASE p # q
        <4>1. SameUsers
          BY <1>0, <2>2, <2>4, UsersOf, Zenon
        <4>2. \A e \in Id : p \notin Users(e) /\ e \in tree' => e \in tree
          BY <2>1, <2>4, Zenon DEF InTree, Outside
        <4> QED  BY <2>2, <2>4, <3>1, <3>3, <4>1, <4>2, OthersSpared, Zenon
      <3> QED  BY <3>2, <3>3, Zenon
    <2> QED  BY <1>12, <2>3, <2>4, Zenon DEF Insert
  <1>13. ASSUME NEW p \in Proc, RegAdded(p)
         PROVE  CallOK(q)'
    <2>1. PICK x \in Id : x = cur[p] /\ p \in Users(x)
      BY <1>13, UsedFacts, Zenon DEF RegAdded
    <2>2. /\ pc[p] = "reg" /\ Users(x) = {p} /\ freeing[p] = {} /\ Searching(p)
          /\ UNCHANGED <<setup, tree, freeing, then, memory, raced>>
      BY <1>0, <1>13, <2>1, Zenon DEF RegAdded, CallOK, Searching, cache
    <2>3. CASE Goto(p, "held") /\ UNCHANGED <<entries, want, info, cur>>
      <3>1. pc'[p] = "held" /\ (p # q => pc'[q] = pc[q])
        BY <1>t, <2>3, Zenon DEF Goto
      <3>2. CASE p = q
        <4>1. Fresh(p)'
          <5>1. Fresh(p)
            BY <1>0, <2>2, Zenon DEF CallOK
          <5> QED  BY <2>2, <2>3, <5>1, Zenon DEF Fresh, Excused, memory, entries
        <4>2. CallOK(p)'
          BY <1>0, <2>2, <2>3, <3>1, <4>1, Zenon DEF CallOK, memory, entries
        <4> QED  BY <3>2, <4>2, Zenon
      <3>3. CASE p # q
        <4>1. SameUsers
          BY <1>0, <2>2, <2>3, UsersOf, Zenon
        <4> QED  BY <1>1, <2>2, <2>3, <3>1, <3>3, <4>1, Zenon DEF entries
      <3> QED  BY <3>2, <3>3, Zenon
    <2>4. CASE /\ reg' = [reg EXCEPT ![cur[p]] = None]
               /\ stamp' = [stamp EXCEPT ![cur[p]] = NoStamp] /\ Return(p)
      <3>1. /\ pc'[p] = "idle" /\ want'[p] = None /\ info'[p] = None /\ Goto(p, "idle")
            /\ p # q => pc'[q] = pc[q] /\ want'[q] = want[q] /\ info'[q] = info[q] /\ cur'[q] = cur[q]
            /\ \A f \in Proc \ {p} : cur'[f] = cur[f]
        BY <1>t, <2>4, Zenon DEF Return, Goto
      <3>2. CASE p = q
        <4>1. ~ Searching(p)'
          BY <3>1, Zenon DEF Searching
        <4> QED  BY <1>0, <2>2, <3>1, <3>2, <4>1, IdleCall, Zenon
      <3>3. CASE p # q
        <4>1. LostUser(p, x)
          BY <1>0, <2>1, <2>2, <3>1, UsersOf, Zenon
        <4>2. \A e \in Id : q \in Users(e) => reg'[e] = reg[e] /\ stamp'[e] = stamp[e]
          BY <1>t, <2>1, <2>2, <2>4, <3>3
        <4> QED  BY <2>2, <3>1, <3>3, <4>1, <4>2, OthersSpared, Zenon
      <3> QED  BY <3>2, <3>3, Zenon
    <2> QED  BY <1>13, <2>3, <2>4, Zenon DEF RegAdded
  <1>14. ASSUME NEW p \in Proc, Delete(p)
         PROVE  CallOK(q)'
    <2>1. PICK x \in Id : x = cur[p] /\ p \in Users(x)
      BY <1>14, UsedFacts, Zenon DEF Delete
    <2>2. pc[p] = "held" /\ freeing[p] = {} /\ UNCHANGED <<setup, reg, stamp, memory, raced, tree>>
      BY <1>0, <1>14, Zenon DEF CallOK, Delete, Unused, cache
    <2>3. ASSUME NEW l \in {"idle", "free"}, Goto(p, l), \A f \in Proc \ {p} : cur'[f] = cur[f]
          PROVE  LostUser(p, x)
      BY <1>0, <2>1, <2>2, <2>3, UsersOf, Zenon
    <2>4. CASE Return(p) /\ UNCHANGED <<freeing, then>>
      <3>1. /\ pc'[p] = "idle" /\ want'[p] = None /\ info'[p] = None /\ Goto(p, "idle")
            /\ p # q => pc'[q] = pc[q] /\ want'[q] = want[q] /\ info'[q] = info[q] /\ cur'[q] = cur[q]
            /\ \A f \in Proc \ {p} : cur'[f] = cur[f]
        BY <1>t, <2>4, Zenon DEF Return, Goto
      <3>2. CASE p = q
        <4>1. ~ Searching(p)'
          BY <3>1, Zenon DEF Searching
        <4> QED  BY <1>0, <2>2, <2>4, <3>1, <3>2, <4>1, IdleCall, Zenon
      <3>3. CASE p # q
        BY <2>1, <2>2, <2>3, <2>4, <3>1, <3>3, OthersSpared, Zenon
      <3> QED  BY <3>2, <3>3, Zenon
    <2>5. CASE FreeThen(p, {cur[p]}, "idle") /\ UNCHANGED <<want, info, cur>>
      <3>1. /\ pc'[p] = "free" /\ then'[p] = "idle" /\ Goto(p, "free")
            /\ p # q => pc'[q] = pc[q] /\ then'[q] = then[q] /\ freeing'[q] = freeing[q]
        BY <1>t, <2>5, Zenon DEF FreeThen, Goto
      <3>2. CASE p = q
        <4>1. ~ Searching(p)'
          BY <3>1, Zenon DEF Searching
        <4> QED  BY <1>0, <2>2, <2>5, <3>1, <3>2, <4>1, IdleCall, Zenon
      <3>3. CASE p # q
        BY <2>1, <2>2, <2>3, <2>5, <3>1, <3>3, OthersSpared, Zenon
      <3> QED  BY <3>2, <3>3, Zenon
    <2> QED  BY <1>14, <2>4, <2>5, Zenon DEF Delete, Unused
  <1>15. ASSUME NEW p \in Proc, Cleanup(p)
         PROVE  CallOK(q)'
    <2>1. /\ pc[p] = "idle" /\ pc'[p] = "evict" /\ then'[p] = "closing" /\ Goto(p, "evict")
          /\ p # q => pc'[q] = pc[q] /\ then'[q] = then[q]
      <3>1. /\ pc[p] = "idle" /\ Goto(p, "evict")
            /\ pc' = [pc EXCEPT ![p] = "evict"] /\ then' = [then EXCEPT ![p] = "closing"]
        BY <1>15, Zenon DEF Cleanup, Goto
      <3>2. pc \in [Proc -> PCs] /\ then \in [Proc -> Thens]
        BY <1>t, Zenon
      <3> QED  BY <3>1, <3>2, Zenon
    <2>2. UNCHANGED <<setup, cache, entries, want, info, cur, freeing, memory, raced>>
      BY <1>15, Zenon DEF Cleanup
    <2>3. CASE p = q
      <3>1. ~ Searching(p)' /\ freeing[p] = {}
        BY <1>0, <2>1, Zenon DEF Searching, CallOK
      <3> QED  BY <1>0, <2>1, <2>2, <2>3, <3>1, IdleCall, Zenon
    <2>4. CASE p # q
      <3>1. SameUsers
        BY <1>0, <2>1, <2>2, UsersOf, Zenon
      <3> QED  BY <1>1, <2>1, <2>2, <2>4, <3>1, Zenon DEF cache, entries
    <2> QED  BY <2>3, <2>4, Zenon
  <1>16. ASSUME NEW S \in SUBSET Addr, Unmap(S)
         PROVE  CallOK(q)'
    <2>1. tree' \subseteq tree
      BY <1>16, Zenon DEF Unmap, Uncache, cache
    <2>2. SameUsers /\ UNCHANGED <<setup, procs, entries, mapping>> /\ raced \subseteq raced'
      BY <1>16, Zenon DEF Unmap, SameUsers, Users, procs
    <2>3. Spared(q)
      BY <2>1, <2>2, Zenon DEF Spared, SameUsers, procs, entries
    <2>4. Addrs(want[q]) \cap going = {} => Addrs(want[q]) \cap going' = {}
      BY <1>16, Zenon DEF Unmap
    <2> QED  BY <2>2, <2>3, <2>4, SparedOK, Zenon
  <1>17. CASE Unmapped
    <2>1. SameUsers /\ UNCHANGED <<setup, procs, entries, cache, raced>> /\ going' = {}
      BY <1>17, Zenon DEF Unmapped, SameUsers, Users, procs
    <2>2. Spared(q)
      BY <2>1, Zenon DEF Spared, SameUsers, procs, entries, cache
    <2>3. \A a \in Addrs(want[q]) : mapping'[a] = mapping[a]
      <3>1. Addrs(want[q]) \cap going = {}
        BY <1>0, RegionFacts, Zenon DEF CallOK
      <3> QED  BY <1>17, <3>1, Zenon DEF Unmapped, Addrs
    <2> QED  BY <2>1, <2>2, <2>3, SparedOK, Zenon
  <1>18. CASE UNCHANGED vars
    <2>1. SameUsers /\ UNCHANGED <<setup, procs, entries, cache, raced, memory>>
      BY <1>18, Zenon DEF vars, SameUsers, Users, procs
    <2>2. Spared(q)
      BY <2>1, Zenon DEF Spared, SameUsers, procs, entries, cache
    <2> QED  BY <2>1, <2>2, SparedOK, Zenon DEF memory
  <1>19. ASSUME \E S \in IF setup.monitor = "query" THEN {Addr} ELSE {{a} : a \in Addr} : Unmap(S)
         PROVE  CallOK(q)'
    BY <1>16, <1>19, Zenon
  <1> QED
    BY <1>2, <1>4, <1>5, <1>7, <1>8, <1>9, <1>10, <1>11, <1>12, <1>13, <1>14, <1>15,
       <1>17, <1>18, <1>19 DEF Next, Step
==============================================================================
