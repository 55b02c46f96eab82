------------------------------ MODULE MrCache ------------------------------
(***************************************************************************)
(* The memory registration cache of prov/util/src/util_mr_cache.c.  A      *)
(* caller of ofi_mr_cache_search gets an entry whose region covers its     *)
(* buffer, from the cache or newly registered, and gives it back with      *)
(* ofi_mr_cache_delete.  Entries no longer used stay in the cache, on the  *)
(* LRU list, until they are evicted or the memory monitor reports that     *)
(* their memory goes away.                                                 *)
(*                                                                         *)
(* A step is a section of code under mm_lock, or what a thread does        *)
(* between two of them.  A Proc is one use of the cache, by some thread:   *)
(* it makes one call at a time, and holds at most one entry.  The lists    *)
(* are sets: the order of dead and freed entries does not matter, and what *)
(* is said here holds whichever unused entries are evicted first.          *)
(*                                                                         *)
(* The provider behind add_region is "exact" (verbs, efa) or "aligned":    *)
(* cxi widens a region to page boundaries.  The monitor is of the kind     *)
(* that "notify"s before memory is unmapped (memhooks) or of the kind      *)
(* whose valid function is "query"ed (cuda); in the second case all        *)
(* addresses are of one allocation, which has an id.                       *)
(***************************************************************************)
EXTENDS Naturals, FiniteSets, Sequences

CONSTANTS
    Proc,        \* uses of the cache
    Id,          \* entries of the buffer pool: 1 .. n
    Addr,        \* addresses: 1 .. n
    Aligned,     \* what an aligning provider makes of a region
    MaxCnt, MaxSize,    \* cached_max_cnt, cached_max_size
    Setups,      \* provider, monitor, whether add_region and subscribe may
                 \* fail, and the calls of each Proc: operation and region
    MaxUnmaps    \* bound: how often an address is unmapped

VARIABLES
    setup,
    reg,         \* the region of each entry
    stamp,       \* the mapping each entry's addresses had when registered
    use_cnt,
    tree,        \* the entries in the tree: those with a node
    lru, dead,
    cached_cnt, cached_size, uncached_cnt, uncached_size,
    pc,          \* where a Proc is
    want, info,  \* what it was called for; the info of its search
    cur,         \* its entry
    op,          \* the call
    freeing,     \* the entries it is freeing
    then,        \* where it goes when they are free
    calls,       \* the calls it is still to make
    mapping,     \* how often an address was unmapped
    going,       \* the addresses being unmapped
    raced        \* history: entries inserted after part of them began to be unmapped

cache == <<tree, lru, dead, cached_cnt, cached_size, uncached_cnt, uncached_size>>
entries == <<reg, stamp, use_cnt>>
procs == <<pc, want, info, cur, op, freeing, then, calls>>
memory == <<mapping, going>>
vars == <<setup, cache, entries, procs, memory, raced>>

\* A region is <<first, last>>.
Regions == {r \in Addr \X Addr : r[1] <= r[2]}
None == <<0, 0>>
Addrs(r) == {a \in Addr : r[1] <= a /\ a <= r[2]}
Size(r) == r[2] - r[1] + 1
Within(r, s) == r[1] >= s[1] /\ r[2] <= s[2]
Calls == [op : {"search", "find", "reg"}, reg : Regions]

ASSUME ProcAssumption == IsFiniteSet(Proc)
ASSUME IdAssumption == Id \subseteq Nat \ {0}
ASSUME AddrAssumption ==
    Addr \subseteq Nat \ {0} /\ \A a, b \in Addr : a .. b \subseteq Addr
ASSUME MaxAssumption == MaxCnt \in Nat
ASSUME AlignedAssumption ==
    Aligned \in [Regions -> Regions] /\ \A r \in Regions : Within(r, Aligned[r])
ASSUME SetupAssumption ==
    \A s \in Setups :
        /\ s.provider \in {"exact", "aligned"}
        /\ s.monitor = "notify" \/ (s.monitor = "query" /\ s.provider = "exact")
        /\ s.calls \in [Proc -> Seq(Calls)]

\* util_mr_find_within: neither is shifted left or right of the other.
Nested(r, s) == Within(r, s) \/ Within(s, r)
NoStamp == [a \in Addr |-> 0]
Pool == {e \in Id : reg[e] = None}

\* ofi_mr_cache_full
FullAt(cnt, size) == cnt >= MaxCnt \/ size >= MaxSize
Full == FullAt(cached_cnt, cached_size)
Covered(g, S) == UNION {{e} \X Addrs(g[e]) : e \in S}
SizeOf(S) == Cardinality(Covered(reg, S))

Init ==
    /\ setup \in Setups /\ calls = setup.calls
    /\ reg = [e \in Id |-> None] /\ stamp = [e \in Id |-> NoStamp]
    /\ use_cnt = [e \in Id |-> 0]
    /\ tree = {} /\ lru = {} /\ dead = {}
    /\ cached_cnt = 0 /\ cached_size = 0 /\ uncached_cnt = 0 /\ uncached_size = 0
    /\ pc = [p \in Proc |-> "idle"]
    /\ want = [p \in Proc |-> None] /\ info = [p \in Proc |-> None]
    /\ cur = [p \in Proc |-> 0] /\ op = [p \in Proc |-> "none"]
    /\ freeing = [p \in Proc |-> {}] /\ then = [p \in Proc |-> "idle"]
    /\ mapping = [a \in Addr |-> 0] /\ going = {}
    /\ raced = {}

Goto(p, l) == pc' = [pc EXCEPT ![p] = l]
\* p goes on to free S, then to l.
FreeThen(p, S, l) ==
    /\ Goto(p, "free")
    /\ freeing' = [freeing EXCEPT ![p] = S]
    /\ then' = [then EXCEPT ![p] = l]
\* Between calls the variables of a call have no value that matters.
Return(p) ==
    /\ Goto(p, "idle")
    /\ want' = [want EXCEPT ![p] = None] /\ info' = [info EXCEPT ![p] = None]
    /\ cur' = [cur EXCEPT ![p] = 0]

(***************************************************************************)
(* util_mr_uncache_entry, for the entries S.  An entry in use stays with   *)
(* its users and is freed by the last of them.                             *)
(***************************************************************************)
Uncache(S) ==
    LET idle == {e \in S : use_cnt[e] = 0} IN
    /\ tree' = tree \ S
    /\ cached_cnt' = cached_cnt - Cardinality(S)
    /\ cached_size' = cached_size - SizeOf(S)
    /\ lru' = lru \ idle
    /\ dead' = dead \cup idle
    /\ uncached_cnt' = uncached_cnt + Cardinality(S \ idle)
    /\ uncached_size' = uncached_size + SizeOf(S \ idle)

(***************************************************************************)
(* ofi_mr_cache_search and ofi_mr_cache_find                               *)
(***************************************************************************)
Called(p) ==
    LET c == Head(calls[p]) IN
    /\ pc[p] = "idle" /\ calls[p] # << >> /\ Addrs(c.reg) \cap going = {}
    /\ calls' = [calls EXCEPT ![p] = Tail(@)]
    /\ op' = [op EXCEPT ![p] = c.op]
    /\ want' = [want EXCEPT ![p] = c.reg] /\ info' = [info EXCEPT ![p] = c.reg]

Call(p) ==
    /\ Called(p)
    /\ op'[p] \in {"search", "find"}
    /\ Goto(p, "check")
    /\ UNCHANGED <<setup, cache, entries, cur, freeing, then, memory, raced>>

\* monitor->valid: the allocation at the start of the region is still the
\* one that was registered.
ValidAlways(e) == TRUE
Valid(e) == setup.monitor = "query" => stamp[e][reg[e][1]] = mapping[reg[e][1]]
Fits(p, e) == Within(info[p], reg[e]) /\ Valid(e)

HitKeepsLru(p, e) ==
    /\ Fits(p, e)
    /\ use_cnt' = [use_cnt EXCEPT ![e] = @ + 1]
    /\ cur' = [cur EXCEPT ![p] = e]
    /\ Goto(p, "held")
    /\ UNCHANGED <<cache, reg, stamp, want, info, freeing, then>>
Hit(p, e) ==
    /\ Fits(p, e)
    /\ use_cnt' = [use_cnt EXCEPT ![e] = @ + 1]
    /\ lru' = lru \ {e}
    /\ cur' = [cur EXCEPT ![p] = e]
    /\ Goto(p, "held")
    /\ UNCHANGED <<tree, dead, cached_cnt, cached_size, uncached_cnt, uncached_size,
                   reg, stamp, want, info, freeing, then>>

\* With dead entries, or in a search of a full cache, p flushes first.
Evicting(p) == op[p] = "search" /\ Full
FlushFirst(p) == Evicting(p) \/ dead # {}
Check(p) ==
    /\ pc[p] = "check" /\ FlushFirst(p)
    /\ Goto(p, IF Evicting(p) THEN "evict" ELSE "flush")
    /\ then' = [then EXCEPT ![p] = "look"]
    /\ UNCHANGED <<setup, cache, entries, want, info, cur, op, freeing, calls, memory, raced>>

\* The tree gives some entry the region is nested with, if there is one.
MissSearch(p, nested) ==
    /\ nested = {} \/ \E e \in nested : ~ Fits(p, e)
    /\ Uncache(nested)
    /\ Goto(p, "create")
    /\ UNCHANGED <<entries, want, info, cur, freeing, then>>

MissFind(p, nested) ==
    /\ \/ nested = {} /\ UNCHANGED cache
       \/ \E e \in nested : ~ Fits(p, e) /\ Uncache({f \in tree : Nested(reg[e], reg[f])})
    /\ Return(p)
    /\ UNCHANGED <<entries, freeing, then>>

Look(p) ==
    LET nested == {e \in tree : Nested(info[p], reg[e])} IN
    /\ pc[p] = "look" \/ (pc[p] = "check" /\ ~ FlushFirst(p))
    /\ \/ \E e \in nested : Hit(p, e)
       \/ op[p] = "search" /\ MissSearch(p, nested)
       \/ op[p] = "find" /\ MissFind(p, nested)
    /\ UNCHANGED <<setup, op, calls, memory, raced>>

(***************************************************************************)
(* ofi_mr_cache_flush.  With flush_lru it evicts one entry, and more while *)
(* the cache is full.  A caller that flushes since its registration failed *)
(* tries again if something was freed.                                     *)
(***************************************************************************)
Enough(S) == ~ FullAt(cached_cnt - Cardinality(S), cached_size - SizeOf(S))
\* S may be what the loop evicts: before the last of them it had to go on.
Evicts(S) ==
    IF lru = {} THEN S = {}
    ELSE /\ \E last \in S : S = {last} \/ ~ Enough(S \ {last})
         /\ S = lru \/ Enough(S)

AfterFlushRetry(l, freed) ==
    CASE l = "retry" -> "check"
      [] l = "closing" -> IF freed = {} THEN "closed" ELSE "again"
      [] OTHER -> "look"
AfterFlushOnce(l, freed) ==
    CASE l = "retry" -> IF freed = {} THEN "idle" ELSE "check"
      [] l = "closing" -> "closed"
      [] OTHER -> "look"
AfterFlush(l, freed) ==
    CASE l = "retry" -> IF freed = {} THEN "idle" ELSE "check"
      [] l = "closing" -> IF freed = {} THEN "closed" ELSE "again"
      [] OTHER -> "look"

Flush(p) ==
    /\ pc[p] \in {"evict", "flush"}
    /\ \E S \in SUBSET lru :
        /\ IF pc[p] = "evict" THEN Evicts(S) ELSE S = {}
        /\ tree' = tree \ S
        /\ lru' = lru \ S
        /\ cached_cnt' = cached_cnt - Cardinality(S)
        /\ cached_size' = cached_size - SizeOf(S)
        /\ FreeThen(p, dead \cup S, AfterFlush(then[p], dead \cup S))
    /\ dead' = {}
    /\ UNCHANGED <<setup, uncached_cnt, uncached_size, entries, want, info, cur, op, calls,
                   memory, raced>>

\* util_mr_free_entry, outside the lock
Free(p) ==
    /\ pc[p] = "free"
    /\ \E e \in freeing[p] :
        /\ reg' = [reg EXCEPT ![e] = None]
        /\ stamp' = [stamp EXCEPT ![e] = NoStamp]
        /\ freeing' = [freeing EXCEPT ![p] = @ \ {e}]
        /\ raced' = raced \ {e}
    /\ UNCHANGED <<setup, use_cnt, cache, pc, want, info, cur, op, then, calls, memory>>

AllFree(p) ==
    /\ pc[p] = "free" /\ freeing[p] = {}
    /\ \/ /\ then[p] \in {"look", "check"}
          /\ Goto(p, then[p])
          /\ cur' = [cur EXCEPT ![p] = 0]
          /\ UNCHANGED <<want, info, then>>
       \/ /\ then[p] = "idle"
          /\ Return(p)
          /\ UNCHANGED then
       \/ /\ then[p] = "again"
          /\ Goto(p, "evict")
          /\ then' = [then EXCEPT ![p] = "closing"]
          /\ UNCHANGED <<want, info, cur>>
       \/ /\ then[p] = "closed"
          /\ Goto(p, "closed")
          /\ UNCHANGED <<want, info, cur, then>>
    /\ UNCHANGED <<setup, cache, entries, op, freeing, calls, memory, raced>>

(***************************************************************************)
(* util_mr_cache_create: the entry is made and registered outside the      *)
(* lock, then put in the tree unless another thread was faster.            *)
(***************************************************************************)
\* (use_cnt has a value only while there is an entry.)
Made(e, r) ==
    /\ reg' = [reg EXCEPT ![e] = r]
    /\ stamp' = [stamp EXCEPT ![e] = [a \in Addr |-> IF a \in Addrs(r) THEN mapping[a] ELSE 0]]
    /\ use_cnt' = [use_cnt EXCEPT ![e] = 1]

Lowest(S) == {e \in S : \A f \in S : e <= f}

Create(p) ==
    /\ pc[p] = "create"
    /\ \/ \E e \in Lowest(Pool) :
            LET r == IF setup.provider = "aligned" THEN Aligned[info[p]] ELSE info[p] IN
            /\ Made(e, r)
            /\ cur' = [cur EXCEPT ![p] = e]
            /\ info' = [info EXCEPT ![p] = r]
            /\ raced' = IF Addrs(r) \cap going = {} THEN raced ELSE raced \cup {e}
            /\ Goto(p, "insert")
            /\ UNCHANGED then
       \/ /\ setup.fails \/ Pool = {}
          /\ Goto(p, "evict")
          /\ then' = [then EXCEPT ![p] = "retry"]
          /\ UNCHANGED <<entries, cur, info, raced>>
    /\ UNCHANGED <<setup, cache, want, op, freeing, calls, memory>>

AddUncached(r) ==
    /\ uncached_cnt' = uncached_cnt + 1
    /\ uncached_size' = uncached_size + Size(r)

InTree(p) ==
    /\ tree' = tree \cup {cur[p]}
    /\ cached_cnt' = cached_cnt + 1
    /\ cached_size' = cached_size + Size(info[p])
    /\ UNCHANGED <<lru, dead, uncached_cnt, uncached_size>>
Outside(p) ==
    /\ AddUncached(info[p])
    /\ UNCHANGED <<tree, lru, dead, cached_cnt, cached_size>>

ConflictIgnored(p) == FALSE
Conflict(p) == \E e \in tree : Nested(info[p], reg[e])

Insert(p) ==
    /\ pc[p] = "insert"
    /\ \/ /\ Conflict(p)
          /\ use_cnt' = [use_cnt EXCEPT ![cur[p]] = 0]
          /\ FreeThen(p, {cur[p]}, "check")
          /\ UNCHANGED cache
       \/ /\ ~ Conflict(p)
          /\ \/ ~ Full /\ InTree(p)
             \/ (Full \/ setup.fails) /\ Outside(p)
          /\ Goto(p, "held")
          /\ UNCHANGED <<use_cnt, freeing, then>>
    /\ UNCHANGED <<setup, reg, stamp, want, info, cur, op, calls, memory, raced>>

(***************************************************************************)
(* ofi_mr_cache_reg: a registration that never enters the cache.           *)
(* Only verbs calls it, which registers a region as it is.                 *)
(***************************************************************************)
Reg(p) ==
    /\ Called(p)
    /\ op'[p] = "reg"
    /\ AddUncached(want'[p])
    /\ \E e \in Lowest(Pool) : Made(e, want'[p]) /\ cur' = [cur EXCEPT ![p] = e]
    /\ Goto(p, "reg")
    /\ UNCHANGED <<setup, tree, lru, dead, cached_cnt, cached_size, freeing, then,
                   memory, raced>>

RegAdded(p) ==
    /\ pc[p] = "reg"
    /\ \/ Goto(p, "held") /\ UNCHANGED <<cache, entries, want, info, cur>>
       \/ /\ setup.fails
          /\ reg' = [reg EXCEPT ![cur[p]] = None]
          /\ stamp' = [stamp EXCEPT ![cur[p]] = NoStamp]
          /\ use_cnt' = [use_cnt EXCEPT ![cur[p]] = 0]
          /\ uncached_cnt' = uncached_cnt - 1
          /\ uncached_size' = uncached_size - Size(want[p])
          /\ Return(p)
          /\ UNCHANGED <<tree, lru, dead, cached_cnt, cached_size>>
    /\ UNCHANGED <<setup, op, freeing, then, calls, memory, raced>>

(***************************************************************************)
(* ofi_mr_cache_delete                                                     *)
(***************************************************************************)
Unused(p, e) ==
    \/ /\ e \in tree
       /\ lru' = lru \cup {e}
       /\ Return(p)
       /\ UNCHANGED <<tree, dead, cached_cnt, cached_size, uncached_cnt, uncached_size,
                      freeing, then>>
    \/ /\ e \notin tree
       /\ uncached_cnt' = uncached_cnt - 1
       /\ uncached_size' = uncached_size - Size(reg[e])
       /\ FreeThen(p, {e}, "idle")
       /\ UNCHANGED <<tree, lru, dead, cached_cnt, cached_size, want, info, cur>>

Delete(p) ==
    /\ pc[p] = "held"
    /\ use_cnt' = [use_cnt EXCEPT ![cur[p]] = @ - 1]
    /\ \/ use_cnt[cur[p]] > 1 /\ Return(p) /\ UNCHANGED <<cache, freeing, then>>
       \/ use_cnt[cur[p]] = 1 /\ Unused(p, cur[p])
    /\ UNCHANGED <<setup, reg, stamp, op, calls, memory, raced>>

(***************************************************************************)
(* Memory goes away.  The monitor that notifies does so first, and         *)
(* ofi_mr_cache_notify drops what overlaps.  The application does not      *)
(* unmap what it asks the cache for or holds an entry for.                 *)
(***************************************************************************)
Unmap(S) ==
    /\ \A a \in S : mapping[a] < MaxUnmaps /\ a \notin going
    /\ \A p \in Proc : S \cap Addrs(want[p]) = {}
    /\ going' = going \cup S
    /\ IF setup.monitor = "notify"
       THEN Uncache({e \in tree : S \cap Addrs(reg[e]) # {}})
       ELSE UNCHANGED cache
    /\ raced' = raced \cup
            {cur[p] : p \in {q \in Proc : pc[q] = "insert" /\ S \cap Addrs(info[q]) # {}}}
    /\ UNCHANGED <<setup, entries, procs, mapping>>

Unmapped ==
    /\ going # {}
    /\ going' = {}
    /\ mapping' = [a \in Addr |-> IF a \in going THEN mapping[a] + 1 ELSE mapping[a]]
    /\ UNCHANGED <<setup, cache, entries, procs, raced>>

\* ofi_mr_cache_cleanup, when everything has been given back
Cleanup(p) ==
    /\ \A q \in Proc : pc[q] = "idle"
    /\ Goto(p, "evict")
    /\ then' = [then EXCEPT ![p] = "closing"]
    /\ calls' = [q \in Proc |-> << >>]
    /\ UNCHANGED <<setup, cache, entries, want, info, cur, op, freeing, memory, raced>>

Step(p) ==
    \/ Check(p) \/ Look(p) \/ Flush(p) \/ Free(p) \/ AllFree(p)
    \/ Create(p) \/ Insert(p) \/ RegAdded(p)

Next ==
    \/ \E p \in Proc : Call(p) \/ Reg(p) \/ Step(p) \/ Delete(p) \/ Cleanup(p)
    \/ \E S \in IF setup.monitor = "query" THEN {Addr} ELSE {{a} : a \in Addr} : Unmap(S)
    \/ Unmapped

Spec == Init /\ [][Next]_vars

\* A thread that is in a call goes on.
FairSpec == Spec /\ \A p \in Proc : WF_vars(Step(p))
----------------------------------------------------------------------------
PCs == {"idle", "check", "evict", "flush", "free", "look", "create", "insert", "reg", "held", "closed"}
Thens == {"idle", "look", "check", "retry", "closing", "again", "closed"}

TypeOK ==
    /\ setup \in Setups /\ calls \in [Proc -> Seq(Calls)]
    /\ reg \in [Id -> Regions \cup {None}] /\ stamp \in [Id -> [Addr -> Nat]]
    /\ use_cnt \in [Id -> Nat]
    /\ tree \subseteq Id /\ dead \subseteq Id /\ lru \subseteq Id /\ raced \subseteq Id
    /\ pc \in [Proc -> PCs] /\ cur \in [Proc -> Id \cup {0}]
    /\ want \in [Proc -> Regions \cup {None}] /\ info \in [Proc -> Regions \cup {None}]
    /\ freeing \in [Proc -> SUBSET Id]
    /\ op \in [Proc -> {"none", "search", "find", "reg"}] /\ then \in [Proc -> Thens]
    /\ mapping \in [Addr -> Nat] /\ going \subseteq Addr

\* The uses of an entry.
Users(e) == {p \in Proc : pc[p] \in {"insert", "reg", "held"} /\ cur[p] = e}
Freers(e) == {p \in Proc : e \in freeing[p]}
Registered == {e \in Id : reg[e] # None}

StateOK(e) ==
    /\ use_cnt[e] = Cardinality(Users(e))
    /\ e \in Registered <=> Users(e) # {} \/ e \in lru \cup dead \/ Freers(e) # {}
    /\ e \in lru \cup dead => Users(e) = {} /\ Freers(e) = {}
    /\ Users(e) = {} \/ Freers(e) = {}
    /\ \A p, q \in Freers(e) : p = q
    /\ e \in tree => e \notin dead /\ (e \in lru <=> Users(e) = {})
    /\ e \in lru => e \in tree
\* use_cnt counts the users, and the provider's registration outlives them:
\* an entry is either used, or cached and on the LRU list, or dead, or being
\* freed by one thread, and in no two of these states, however searches,
\* deletes, evictions and notifications interleave.
OneState == \A e \in Id : StateOK(e)

\* The counters say what is in the tree and what is in use outside of it;
\* ofi_mr_cache_full and the assertions of ofi_mr_cache_cleanup rely on it.
InHand(e) == \E p \in Proc : pc[p] \in {"reg", "held"} /\ cur[p] = e
Uncached == {e \in Id \ tree : InHand(e)}
Counted ==
    /\ cached_cnt = Cardinality(tree) /\ cached_size = SizeOf(tree)
    /\ uncached_cnt = Cardinality(Uncached) /\ uncached_size = SizeOf(Uncached)
    /\ cached_cnt \in 0 .. MaxCnt

\* No region of the tree contains another.  The comparison of the tree,
\* util_mr_find_within, orders only such regions.
NoneNested == \A e, f \in tree : e # f => ~ Nested(reg[e], reg[f])

\* Who holds an entry may use it for what they asked: it covers the buffer
\* and was registered when the buffer's present memory was there already.
\* The one exception: an entry an aligning provider made larger than the
\* buffer, while the memory around the buffer was being unmapped.
Excused(e) == setup.provider = "aligned" /\ e \in raced
Fresh(p) == Excused(cur[p]) \/ \A a \in Addrs(want[p]) : stamp[cur[p]][a] = mapping[a]
HeldFresh ==
    \A p \in Proc : pc[p] = "held" => Within(want[p], reg[cur[p]]) /\ Fresh(p)

(***************************************************************************)
(* Why: what a call knows, and what an entry in the tree is worth.         *)
(***************************************************************************)
\* Where a call that has a region goes on.
Searching(p) ==
    \/ pc[p] \in {"check", "look", "create", "insert", "reg", "held"}
    \/ pc[p] \in {"evict", "flush", "free"} /\ then[p] \in {"look", "check", "retry"}
CallOK(p) ==
    /\ pc[p] \in {"evict", "flush"} => then[p] \in {"look", "retry", "closing"}
    /\ freeing[p] # {} => pc[p] = "free"
    /\ Searching(p) => want[p] # None
    /\ want[p] # None =>
        /\ info[p] # None /\ Within(want[p], info[p])
        /\ Addrs(want[p]) \cap going = {}
    /\ setup.provider = "exact" => info[p] = want[p]
    /\ pc[p] \in {"insert", "reg", "held"} =>
        cur[p] \in Id /\ Within(want[p], reg[cur[p]]) /\ Fresh(p)
    /\ pc[p] \in {"insert", "reg"} => Users(cur[p]) = {p} /\ cur[p] \notin tree
    /\ pc[p] = "insert" => reg[cur[p]] = info[p]

\* Memory an entry covers has not changed, nor is about to.
Current(e) == \A a \in Addrs(reg[e]) : a \notin going /\ stamp[e][a] = mapping[a]
MonitorOK ==
    /\ setup.provider = "exact" => raced = {}
    /\ setup.monitor = "notify" =>
        /\ \A e \in tree : e \in raced \/ Current(e)
        /\ \A p \in Proc : pc[p] = "insert" => cur[p] \in raced \/ Current(cur[p])
    /\ setup.monitor = "query" =>
        /\ going \in {{}, Addr}
        /\ \A a, b \in Addr : mapping[a] = mapping[b]
        /\ \A e \in Id : \A a, b \in Addrs(reg[e]) : stamp[e][a] = stamp[e][b]

\* The inductive invariant of util_mr_cache.c: who has each entry, what the
\* calls know of theirs, and what the monitor has kept true of the cache.
IInv ==
    /\ TypeOK /\ OneState /\ NoneNested
    /\ \A p \in Proc : CallOK(p)
    /\ MonitorOK

\* The counters rest on more: the sets counted are finite, a registration
\* that fails takes back what it added, and while the cache is cleaned up
\* nobody else uses it, until there is nothing left to free.
Balanced(cnt, size, S, g) ==
    /\ IsFiniteSet(S) /\ IsFiniteSet(Covered(g, S))
    /\ cnt = Cardinality(S) /\ size = Cardinality(Covered(g, S))
Closing(p) ==
    \/ pc[p] = "closed"
    \/ pc[p] \in {"evict", "free"} /\ then[p] \in {"closing", "again", "closed"}
CloseOK(p) ==
    /\ pc[p] = "flush" => then[p] = "look"
    /\ Closing(p) =>
        /\ \A q \in Proc : calls[q] = << >> /\ (q # p => pc[q] = "idle")
        /\ pc[p] = "closed" \/ then[p] = "closed" =>
            lru = {} /\ dead = {} /\ freeing[p] = {}
Ledgers ==
    /\ Balanced(cached_cnt, cached_size, tree, reg)
    /\ Balanced(uncached_cnt, uncached_size, Uncached, reg)
    /\ cached_cnt \in 0 .. MaxCnt
Books ==
    /\ Ledgers
    /\ \A p \in Proc : pc[p] = "reg" => reg[cur[p]] = want[p]
    /\ \A p \in Proc : CloseOK(p)

\* When the cache is cleaned up every registration has been undone.
CleanedUp ==
    (\E p \in Proc : pc[p] = "closed") =>
        Registered = {} /\ cached_cnt + cached_size + uncached_cnt + uncached_size = 0

\* Seven places change the counters; they stay right, to the end.
Accounts == Counted /\ CleanedUp

\* Every call returns: two threads do not send each other back to search
\* for ever, nor does a registration that fails keep flushing.
CallsReturn == \A p \in Proc : []<>(pc[p] \in {"idle", "held", "closed"})
=============================================================================
