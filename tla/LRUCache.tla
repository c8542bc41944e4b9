------------------------------ MODULE LRUCache ------------------------------
(***************************************************************************)
(* The cache of DNS responses (src/cache/lru_cache.cpp): a list of entries *)
(* with the most recently used one at its front, and a hash map from       *)
(* domains to iterators into that list.  Every public method holds mutex_  *)
(* from its first line to its return, so each call is one step.            *)
(*                                                                         *)
(* An iterator of std::list is the address of a list node: it stays valid  *)
(* when the node is spliced, dangles once the node is erased, and the      *)
(* allocator may hand the same address out again for the next entry.       *)
(***************************************************************************)
EXTENDS Naturals, Sequences, SequencesExt

CONSTANTS Domain, Response, TTL, MaxSize, Absent, nullopt,   \* see TTLCache.tla
          Node,        \* addresses of list nodes
          NoNode       \* lookup_.end()

ASSUME CacheAssumption ==
  /\ MaxSize \in Nat
  /\ TTL \subseteq Nat
  /\ NoNode \notin Node
  /\ nullopt \notin Response
  /\ Absent \notin [domain : Domain, response : Response, expiry : Nat]
  /\ Absent \notin [response : Response, expiry : Nat]

VARIABLES entries,     \* entries_: the nodes of the list, front first
          node,        \* the CacheEntry at each address, Absent when freed
          lookup,      \* lookup_: the iterator of each domain, or NoNode
          stats,       \* stats_
          now,         \* steady_clock::now()
          ret,         \* what the last get() returned
          used,        \* history: at which use each domain was last used
          uses         \* history: how many uses there were

vars == <<entries, node, lookup, stats, now, ret, used, uses>>

CacheEntry == [domain : Domain, response : Response, expiry : Nat]
CacheStats == [hits : Nat, misses : Nat, evictions : Nat]

\* Where n is in a list, and the list once n is erased from it, or spliced to
\* its front.
Pos(s, n) == CHOOSE i \in DOMAIN s : s[i] = n
Erase(s, n) == RemoveAt(s, Pos(s, n))
Splice(s, n) == <<n>> \o Erase(s, n)

\* A hit or a put makes d the most recently used domain.
Touch(d) == used' = [used EXCEPT ![d] = uses + 1] /\ uses' = uses + 1

-----------------------------------------------------------------------------
\* Faulty variants of some operations: with one of them in place of the operation it is named
\* after, TLC finds a property violated (PROJECT.json says which).

\* The response is read after the entry was erased.
GetExpiredReadsFreed(d) ==
  LET it == lookup[d] IN
  /\ it # NoNode
  /\ now > node[it].expiry
  /\ entries' = Erase(entries, it)
  /\ node' = [node EXCEPT ![it] = Absent]
  /\ lookup' = [lookup EXCEPT ![d] = NoNode]
  /\ stats' = [stats EXCEPT !.misses = @ + 1]
  /\ ret' = Absent
  /\ UNCHANGED <<now, used, uses>>

\* No splice.
GetHitInPlace(d) ==
  LET it == lookup[d] IN
  /\ it # NoNode
  /\ now <= node[it].expiry
  /\ stats' = [stats EXCEPT !.hits = @ + 1]
  /\ ret' = node[it].response
  /\ Touch(d)
  /\ UNCHANGED <<entries, node, lookup, now>>

\* The new TTL is dropped.
PutUpdateKeepsExpiry(d, r, t) ==
  LET it == lookup[d] IN
  /\ it # NoNode
  /\ node' = [node EXCEPT ![it].response = r]
  /\ entries' = Splice(entries, it)
  /\ Touch(d)
  /\ UNCHANGED <<lookup, stats, now, ret>>

\* No splice.
PutUpdateInPlace(d, r, t) ==
  LET it == lookup[d] IN
  /\ it # NoNode
  /\ node' = [node EXCEPT ![it] = [domain |-> @.domain, response |-> r, expiry |-> now + t]]
  /\ Touch(d)
  /\ UNCHANGED <<entries, lookup, stats, now, ret>>

Insert(d, r, t) ==
  /\ lookup[d] = NoNode
  /\ \E n \in {m \in Node : node[m] = Absent} :
       /\ entries' = <<n>> \o entries
       /\ node' = [node EXCEPT ![n] = [domain |-> d, response |-> r, expiry |-> now + t]]
       /\ lookup' = [lookup EXCEPT ![d] = n]
  /\ Touch(d)
  /\ UNCHANGED <<stats, now, ret>>

\* ">" for ">=" where the size is compared.
PutInsertOneMore(d, r, t) == Len(entries) <= MaxSize /\ Insert(d, r, t)

\* evict() forgets lookup_.erase().
PutEvictLeavesIterator(d, r, t) ==
  LET last == Last(entries) IN
  /\ lookup[d] = NoNode
  /\ Len(entries) >= MaxSize /\ entries # <<>>
  /\ \E n \in {m \in Node : node[m] = Absent} \cup {last} :
       /\ entries' = <<n>> \o Front(entries)
       /\ node' = [node EXCEPT ![last] = Absent,
                     ![n] = [domain |-> d, response |-> r, expiry |-> now + t]]
       /\ lookup' = [lookup EXCEPT ![d] = n]
  /\ stats' = [stats EXCEPT !.evictions = @ + 1]
  /\ Touch(d)
  /\ UNCHANGED <<now, ret>>

-----------------------------------------------------------------------------
Init == /\ entries = <<>>
        /\ node = [n \in Node |-> Absent]
        /\ lookup = [d \in Domain |-> NoNode]
        /\ stats = [hits |-> 0, misses |-> 0, evictions |-> 0]
        /\ now = 0
        /\ ret = nullopt
        /\ used = [d \in Domain |-> 0]
        /\ uses = 0

GetMiss(d) ==
  /\ lookup[d] = NoNode
  /\ stats' = [stats EXCEPT !.misses = @ + 1]
  /\ ret' = nullopt
  /\ UNCHANGED <<entries, node, lookup, now, used, uses>>

GetExpired(d) ==
  LET it == lookup[d] IN
  /\ it # NoNode
  /\ now > node[it].expiry
  /\ entries' = Erase(entries, it)
  /\ node' = [node EXCEPT ![it] = Absent]
  /\ lookup' = [lookup EXCEPT ![d] = NoNode]
  /\ stats' = [stats EXCEPT !.misses = @ + 1]
  /\ ret' = nullopt
  /\ UNCHANGED <<now, used, uses>>

GetHit(d) ==
  LET it == lookup[d] IN
  /\ it # NoNode
  /\ now <= node[it].expiry
  /\ entries' = Splice(entries, it)
  /\ stats' = [stats EXCEPT !.hits = @ + 1]
  /\ ret' = node[it].response
  /\ Touch(d)
  /\ UNCHANGED <<node, lookup, now>>

PutUpdate(d, r, t) ==
  LET it == lookup[d] IN
  /\ it # NoNode
  /\ node' = [node EXCEPT ![it] = [domain |-> @.domain, response |-> r, expiry |-> now + t]]
  /\ entries' = Splice(entries, it)
  /\ Touch(d)
  /\ UNCHANGED <<lookup, stats, now, ret>>

PutInsert(d, r, t) ==
  /\ lookup[d] = NoNode
  /\ Len(entries) < MaxSize \/ entries = <<>>     \* evict() skips an empty list
  /\ \E n \in {m \in Node : node[m] = Absent} :
       /\ entries' = <<n>> \o entries
       /\ node' = [node EXCEPT ![n] = [domain |-> d, response |-> r, expiry |-> now + t]]
       /\ lookup' = [lookup EXCEPT ![d] = n]
  /\ Touch(d)
  /\ UNCHANGED <<stats, now, ret>>

\* put() calls evict() and then inserts: the freed address may be reused.
PutEvict(d, r, t) ==
  LET last == Last(entries) IN
  /\ lookup[d] = NoNode
  /\ Len(entries) >= MaxSize /\ entries # <<>>
  /\ \E n \in {m \in Node : node[m] = Absent} \cup {last} :
       /\ entries' = <<n>> \o Front(entries)
       /\ node' = [node EXCEPT ![last] = Absent,
                     ![n] = [domain |-> d, response |-> r, expiry |-> now + t]]
       /\ lookup' = [lookup EXCEPT ![node[last].domain] = NoNode, ![d] = n]
  /\ stats' = [stats EXCEPT !.evictions = @ + 1]
  /\ Touch(d)
  /\ UNCHANGED <<now, ret>>

Clear ==
  /\ entries' = <<>>
  /\ node' = [n \in Node |-> Absent]
  /\ lookup' = [d \in Domain |-> NoNode]
  /\ UNCHANGED <<stats, now, ret, used, uses>>

Tick == now' = now + 1 /\ UNCHANGED <<entries, node, lookup, stats, ret, used, uses>>

Next == \/ \E d \in Domain : GetMiss(d) \/ GetExpired(d) \/ GetHit(d)
        \/ \E d \in Domain, r \in Response, t \in TTL :
             PutUpdate(d, r, t) \/ PutInsert(d, r, t) \/ PutEvict(d, r, t)
        \/ Clear
        \/ Tick

Spec == Init /\ [][Next]_vars

-----------------------------------------------------------------------------
\* The type of every variable of the cache (lru_cache.hpp, lines 61-66).
TypeOK ==
  /\ entries \in Seq(Node)
  /\ node \in [Node -> CacheEntry \cup {Absent}]
  /\ lookup \in [Domain -> Node \cup {NoNode}]
  /\ stats \in CacheStats
  /\ now \in Nat
  /\ ret \in Response \cup {nullopt}
  /\ used \in [Domain -> Nat]
  /\ uses \in Nat

\* The list links no node twice, and exactly the nodes that are allocated.
ListOfLiveNodes ==
  /\ IsInjective(entries)
  /\ \A n \in Node : node[n] # Absent <=> Contains(entries, n)

\* No iterator of lookup_ dangles or points to the entry of another domain.
IteratorsValid ==
  \A d \in Domain : lookup[d] # NoNode =>
    node[lookup[d]] # Absent /\ node[lookup[d]].domain = d

\* Every entry of the list can be found under its domain: none is leaked.
EntriesReachable ==
  \A n \in Node : node[n] # Absent => lookup[node[n].domain] = n

\* The list and the hash map describe the same entries, whatever the order of
\* hits, updates, expiries, evictions and clears: the two containers are
\* updated one after the other in every method (lru_cache.cpp, lines 28-29,
\* 66-67, 79-80, 90-91).
Consistent == ListOfLiveNodes /\ IteratorsValid /\ EntriesReachable

\* The cache never outgrows its capacity, but for max_size_ = 0, with which it
\* still keeps one entry (evict() returns from an empty list and put() inserts).
Capacity == IF MaxSize = 0 THEN 1 ELSE MaxSize
WithinCapacity == Len(entries) <= Capacity

Before(s, m, n) == \E i, j \in 1..Len(s) : i < j /\ s[i] = m /\ s[j] = n

\* The list is sorted by last use, the most recent first.
SortedByUse ==
  \A m, n \in Node : Before(entries, m, n) => used[node[m].domain] > used[node[n].domain]

\* A put() evicts only when it has to, only one domain, and it is the one whose
\* last hit or put is the oldest ("evict least recently used", lru_cache.cpp,
\* line 73).
EvictsLRU ==
  [][\A d \in Domain :
       lookup[d] # NoNode /\ lookup'[d] = NoNode /\ uses' # uses =>
         /\ Len(entries) >= Capacity
         /\ \A e \in Domain \ {d} : lookup[e] # NoNode =>
              used[d] < used[e] /\ lookup'[e] # NoNode]_vars

-----------------------------------------------------------------------------
\* The map the list and the iterators stand for.
Store == [d \in Domain |->
            IF lookup[d] = NoNode THEN Absent
            ELSE [response |-> node[lookup[d]].response, expiry |-> node[lookup[d]].expiry]]

Abs == INSTANCE TTLCache WITH store <- Store

\* The cache is a bounded map with expiry times: get() answers the response of
\* the last put() for that very domain and only while it is fresh, put() drops
\* at most one other entry and only from a full cache (lru_cache.hpp, 37-49).
ImplementsTTLCache == Abs!ASpec
=============================================================================
