--------------------------- MODULE LRUCacheProofs ---------------------------
(***************************************************************************)
(* Theorems about LRUCache, for every set of domains, responses and        *)
(* addresses and every max_size_.                                          *)
(***************************************************************************)
EXTENDS LRUCache, SequenceTheorems, FiniteSetTheorems, TLAPS

-----------------------------------------------------------------------------
(* The two list operations, std::list::erase and push_front: what each one  *)
(* does to the members of the list and to their order.                      *)

\* Pos finds an element that is there.
LEMMA PosOf ==
  ASSUME NEW S, NEW s \in Seq(S), NEW n, Contains(s, n)
  PROVE  Pos(s, n) \in 1..Len(s) /\ s[Pos(s, n)] = n
<1>1. DOMAIN s = 1..Len(s)
  BY LenProperties
<1>2. PICK i \in DOMAIN s : s[i] = n
  BY <1>1 DEF Contains
<1> QED
  BY <1>1, <1>2 DEF Pos

\* Erasing leaves the elements before the position where they are and moves
\* the others up by one.
LEMMA EraseIs ==
  ASSUME NEW S, NEW s \in Seq(S), NEW n, Contains(s, n)
  PROVE  /\ Erase(s, n) \in Seq(S)
         /\ Len(Erase(s, n)) = Len(s) - 1
         /\ \A j \in 1..(Len(s) - 1) :
              Erase(s, n)[j] = s[IF j < Pos(s, n) THEN j ELSE j + 1]
<1> DEFINE p == Pos(s, n)
           l == SubSeq(s, 1, p - 1)
           r == SubSeq(s, p + 1, Len(s))
<1>1. p \in 1..Len(s) /\ Len(s) \in Nat
  BY PosOf, LenProperties
<1>2. \A i \in 1..Len(s) : s[i] \in S
  BY ElementOfSeq
<1> HIDE DEF p
<1>3. l \in Seq(S) /\ Len(l) = p - 1 /\ \A i \in 1..(p - 1) : l[i] = s[i]
  <2>1. \A i \in 1..(p - 1) : s[i] \in S
    BY <1>1, <1>2
  <2>2. /\ SubSeq(s, 1, p - 1) \in Seq(S)
        /\ Len(SubSeq(s, 1, p - 1)) = IF 1 <= p - 1 THEN p - 1 - 1 + 1 ELSE 0
        /\ \A i \in 1..(p - 1 - 1 + 1) : SubSeq(s, 1, p - 1)[i] = s[1 + i - 1]
    BY <1>1, <2>1, SubSeqProperties
  <2> QED
    BY <1>1, <2>2
<1>4. r \in Seq(S) /\ Len(r) = Len(s) - p /\ \A i \in 1..(Len(s) - p) : r[i] = s[p + i]
  <2>1. \A i \in (p + 1)..Len(s) : s[i] \in S
    BY <1>1, <1>2
  <2>2. /\ SubSeq(s, p + 1, Len(s)) \in Seq(S)
        /\ Len(SubSeq(s, p + 1, Len(s))) =
             IF p + 1 <= Len(s) THEN Len(s) - (p + 1) + 1 ELSE 0
        /\ \A i \in 1..(Len(s) - (p + 1) + 1) :
             SubSeq(s, p + 1, Len(s))[i] = s[p + 1 + i - 1]
    BY <1>1, <2>1, SubSeqProperties
  <2> QED
    BY <1>1, <2>2
<1> HIDE DEF l, r
<1>5. /\ l \o r \in Seq(S)
      /\ Len(l \o r) = Len(l) + Len(r)
      /\ \A i \in 1..(Len(l) + Len(r)) :
           (l \o r)[i] = IF i <= Len(l) THEN l[i] ELSE r[i - Len(l)]
  BY <1>3, <1>4, ConcatProperties
<1>6. Erase(s, n) = l \o r
  BY DEF Erase, RemoveAt, l, r, p
<1>7. \A j \in 1..(Len(s) - 1) : (l \o r)[j] = s[IF j < p THEN j ELSE j + 1]
  BY <1>1, <1>3, <1>4, <1>5
<1> QED
  BY <1>1, <1>3, <1>4, <1>5, <1>6, <1>7 DEF p

\* Erasing n from a list without duplicates removes n and nothing else, and
\* keeps the others in order.
LEMMA EraseList ==
  ASSUME NEW S, NEW s \in Seq(S), NEW n, Contains(s, n), IsInjective(s)
  PROVE  /\ Erase(s, n) \in Seq(S)
         /\ Len(Erase(s, n)) = Len(s) - 1
         /\ IsInjective(Erase(s, n))
         /\ \A m : Contains(Erase(s, n), m) <=> Contains(s, m) /\ m # n
         /\ \A a, b : Before(Erase(s, n), a, b) => Before(s, a, b)
<1> DEFINE p == Pos(s, n)
           e == Erase(s, n)
           from(j) == IF j < p THEN j ELSE j + 1
<1>1. p \in 1..Len(s) /\ s[p] = n /\ Len(s) \in Nat /\ DOMAIN s = 1..Len(s)
  BY PosOf, LenProperties
<1>2. e \in Seq(S) /\ Len(e) = Len(s) - 1 /\ \A j \in 1..(Len(s) - 1) : e[j] = s[from(j)]
  BY EraseIs
<1>3. DOMAIN e = 1..Len(e)
  BY <1>2, LenProperties
<1> HIDE DEF p, e
<1>4. \A j \in 1..Len(e) : from(j) \in 1..Len(s) /\ from(j) # p /\ e[j] = s[from(j)]
  BY <1>1, <1>2
<1>5. \A i, j \in 1..Len(e) : i < j => from(i) < from(j)
  BY <1>1, <1>2
<1>6. IsInjective(e)
  <2> SUFFICES ASSUME NEW i \in 1..Len(e), NEW j \in 1..Len(e), e[i] = e[j]
               PROVE  i = j
    BY <1>3 DEF IsInjective
  <2>1. from(i) = from(j)
    BY <1>1, <1>4 DEF IsInjective
  <2> QED
    BY <1>1, <1>2, <2>1
<1>7. ASSUME NEW m PROVE Contains(e, m) <=> Contains(s, m) /\ m # n
  <2>1. Contains(e, m) => Contains(s, m) /\ m # n
    BY <1>1, <1>4 DEF Contains, IsInjective
  <2>2. ASSUME Contains(s, m), m # n PROVE Contains(e, m)
    <3>1. PICK i \in 1..Len(s) : s[i] = m
      BY <2>2 DEF Contains
    <3>2. i # p
      BY <1>1, <2>2, <3>1
    <3>3. CASE i < p
      BY <1>1, <1>2, <3>1, <3>3 DEF Contains
    <3>4. CASE i > p
      <4>1. i - 1 \in 1..Len(e) /\ from(i - 1) = i
        BY <1>1, <1>2, <3>4
      <4> QED
        BY <1>4, <3>1, <4>1 DEF Contains
    <3> QED
      BY <1>1, <3>2, <3>3, <3>4
  <2> QED
    BY <2>1, <2>2
<1>8. \A a, b : Before(e, a, b) => Before(s, a, b)
  BY <1>4, <1>5 DEF Before
<1> QED
  BY <1>2, <1>6, <1>7, <1>8 DEF e

\* Pushing a new element to the front adds it, before all others.
LEMMA PushList ==
  ASSUME NEW S, NEW s \in Seq(S), NEW n \in S, ~Contains(s, n), IsInjective(s)
  PROVE  /\ <<n>> \o s \in Seq(S)
         /\ Len(<<n>> \o s) = Len(s) + 1
         /\ IsInjective(<<n>> \o s)
         /\ \A m : Contains(<<n>> \o s, m) <=> Contains(s, m) \/ m = n
         /\ \A a, b : Before(<<n>> \o s, a, b) =>
              Before(s, a, b) \/ (a = n /\ Contains(s, b))
<1> DEFINE t == <<n>> \o s
<1>1. Len(s) \in Nat /\ DOMAIN s = 1..Len(s)
  BY LenProperties
<1>2. <<n>> \in Seq(S) /\ Len(<<n>>) = 1 /\ <<n>>[1] = n
  OBVIOUS
<1>3. t \in Seq(S) /\ Len(t) = Len(s) + 1
  BY <1>1, <1>2, ConcatProperties
<1>4. \A i \in 1..Len(t) : t[i] = IF i = 1 THEN n ELSE s[i - 1]
  <2>1. \A i \in 1..(1 + Len(s)) : t[i] = IF i <= 1 THEN <<n>>[i] ELSE s[i - 1]
    BY <1>2, ConcatProperties
  <2> QED
    BY <1>1, <1>2, <1>3, <2>1
<1>5. DOMAIN t = 1..Len(t)
  BY <1>3, LenProperties
<1> HIDE DEF t
<1>6. \A i \in 2..Len(t) : i - 1 \in 1..Len(s) /\ t[i] = s[i - 1]
  BY <1>1, <1>3, <1>4
<1>7. 1 \in 1..Len(t) /\ t[1] = n
  BY <1>1, <1>3, <1>4
<1>8. IsInjective(t)
  <2> SUFFICES ASSUME NEW i \in 1..Len(t), NEW j \in 1..Len(t), t[i] = t[j]
               PROVE  i = j
    BY <1>5 DEF IsInjective
  <2>1. CASE i = 1 \/ j = 1
    BY <1>1, <1>3, <1>6, <1>7, <2>1 DEF Contains
  <2>2. CASE i # 1 /\ j # 1
    <3>1. i - 1 \in 1..Len(s) /\ j - 1 \in 1..Len(s) /\ s[i - 1] = s[j - 1]
      BY <1>1, <1>3, <1>6, <2>2
    <3>2. i - 1 = j - 1
      BY <1>1, <3>1 DEF IsInjective
    <3> QED
      BY <3>2
  <2> QED
    BY <2>1, <2>2
<1>9. ASSUME NEW m PROVE Contains(t, m) <=> Contains(s, m) \/ m = n
  <2>1. ASSUME NEW i \in 1..Len(s) PROVE i + 1 \in 1..Len(t) /\ t[i + 1] = s[i]
    BY <1>1, <1>3, <1>4
  <2>2. Contains(s, m) \/ m = n => Contains(t, m)
    BY <1>7, <2>1 DEF Contains
  <2>3. Contains(t, m) => Contains(s, m) \/ m = n
    <3> SUFFICES ASSUME NEW i \in 1..Len(t), t[i] = m PROVE Contains(s, m) \/ m = n
      BY DEF Contains
    <3>1. CASE i = 1
      BY <1>7, <3>1
    <3>2. CASE i # 1
      BY <1>1, <1>3, <1>6, <3>2 DEF Contains
    <3> QED
      BY <3>1, <3>2
  <2> QED
    BY <2>2, <2>3
<1>10. ASSUME NEW a, NEW b, Before(t, a, b)
       PROVE  Before(s, a, b) \/ (a = n /\ Contains(s, b))
  <2>1. PICK i \in 1..Len(t), j \in 1..Len(t) : i < j /\ t[i] = a /\ t[j] = b
    BY <1>10 DEF Before
  <2>2. j - 1 \in 1..Len(s) /\ s[j - 1] = b
    BY <1>1, <1>3, <1>6, <2>1
  <2>3. CASE i = 1
    BY <1>7, <2>1, <2>2, <2>3 DEF Contains
  <2>4. CASE i # 1
    <3>1. i - 1 \in 1..Len(s) /\ s[i - 1] = a /\ i - 1 < j - 1
      BY <1>1, <1>3, <1>6, <2>1, <2>4
    <3> QED
      BY <2>2, <3>1 DEF Before
  <2> QED
    BY <2>3, <2>4
<1> QED
  BY <1>3, <1>8, <1>9, <1>10 DEF t

\* evict() erases the node at the end of the list.
LEMMA FrontIsErase ==
  ASSUME NEW S, NEW s \in Seq(S), s # <<>>, IsInjective(s)
  PROVE  Contains(s, Last(s)) /\ Front(s) = Erase(s, Last(s))
<1>1. Len(s) \in Nat \ {0} /\ DOMAIN s = 1..Len(s) /\ Last(s) = s[Len(s)]
  BY EmptySeq, LenProperties DEF Last
<1>2. Contains(s, Last(s))
  BY <1>1 DEF Contains
<1>3. Pos(s, Last(s)) = Len(s)
  BY <1>1, <1>2, PosOf DEF IsInjective
<1>4. /\ Erase(s, Last(s)) \in Seq(S)
      /\ Len(Erase(s, Last(s))) = Len(s) - 1
      /\ \A j \in 1..(Len(s) - 1) : Erase(s, Last(s))[j] = s[j]
  <2>1. /\ Erase(s, Last(s)) \in Seq(S)
        /\ Len(Erase(s, Last(s))) = Len(s) - 1
        /\ \A j \in 1..(Len(s) - 1) :
             Erase(s, Last(s))[j] = s[IF j < Pos(s, Last(s)) THEN j ELSE j + 1]
    BY <1>2, EraseIs
  <2>2. \A j \in 1..(Len(s) - 1) : j < Pos(s, Last(s))
    BY <1>1, <1>3
  <2> QED
    BY <2>1, <2>2
<1>5. /\ Front(s) \in Seq(S)
      /\ Len(Front(s)) = Len(s) - 1
      /\ \A j \in 1..(Len(s) - 1) : Front(s)[j] = s[j]
  <2>1. \A i \in 1..(Len(s) - 1) : s[i] \in S
    BY <1>1, ElementOfSeq
  <2>2. /\ SubSeq(s, 1, Len(s) - 1) \in Seq(S)
        /\ Len(SubSeq(s, 1, Len(s) - 1)) =
             IF 1 <= Len(s) - 1 THEN Len(s) - 1 - 1 + 1 ELSE 0
        /\ \A i \in 1..(Len(s) - 1 - 1 + 1) : SubSeq(s, 1, Len(s) - 1)[i] = s[1 + i - 1]
    BY <1>1, <2>1, SubSeqProperties
  <2> QED
    BY <1>1, <2>2 DEF Front
<1>6. Front(s) = Erase(s, Last(s))
  BY <1>4, <1>5, SeqEqual
<1> QED
  BY <1>2, <1>6

\* What is before or after something is in the list.
LEMMA BeforeContains ==
  ASSUME NEW s, NEW a, NEW b, Before(s, a, b)
  PROVE  Contains(s, a) /\ Contains(s, b)
BY DEF Before, Contains

\* Splicing an element to the front keeps the others in order behind it.
LEMMA SpliceList ==
  ASSUME NEW S, NEW s \in Seq(S), NEW n \in S, Contains(s, n), IsInjective(s)
  PROVE  /\ Splice(s, n) \in Seq(S)
         /\ Len(Splice(s, n)) = Len(s)
         /\ IsInjective(Splice(s, n))
         /\ \A m : Contains(Splice(s, n), m) <=> Contains(s, m)
         /\ \A a, b : Before(Splice(s, n), a, b) =>
              /\ Contains(s, b) /\ b # n
              /\ a = n \/ (Before(s, a, b) /\ a # n)
<1> DEFINE e == Erase(s, n)
<1>1. /\ e \in Seq(S) /\ Len(e) = Len(s) - 1 /\ IsInjective(e)
      /\ \A m : Contains(e, m) <=> Contains(s, m) /\ m # n
      /\ \A a, b : Before(e, a, b) => Before(s, a, b)
  BY EraseList
<1>2. Len(s) \in Nat
  BY LenProperties
<1> HIDE DEF e
<1>3. /\ <<n>> \o e \in Seq(S) /\ Len(<<n>> \o e) = Len(e) + 1 /\ IsInjective(<<n>> \o e)
      /\ \A m : Contains(<<n>> \o e, m) <=> Contains(e, m) \/ m = n
      /\ \A a, b : Before(<<n>> \o e, a, b) => Before(e, a, b) \/ (a = n /\ Contains(e, b))
  BY <1>1, PushList
<1>4. Splice(s, n) = <<n>> \o e
  BY DEF Splice, e
<1> HIDE DEF Splice
<1>5. \A a, b : Before(<<n>> \o e, a, b) =>
        /\ Contains(s, b) /\ b # n
        /\ a = n \/ (Before(s, a, b) /\ a # n)
  BY <1>1, <1>3, BeforeContains
<1>6. Len(<<n>> \o e) = Len(s)
  BY <1>1, <1>2, <1>3
<1> QED
  BY <1>1, <1>3, <1>4, <1>5, <1>6

-----------------------------------------------------------------------------
(* The inductive invariant.                                                *)

\* No use is dated after the last one.
UsesBounded == \A d \in Domain : used[d] <= uses

\* The properties of LRUCache that every step preserves together: the order of
\* the list speaks of the domains of its nodes, which only Consistent ties to
\* the nodes, and a hit or a put dates the front of the list after all others
\* because no earlier use has a later date.
IInv == TypeOK /\ Consistent /\ WithinCapacity /\ SortedByUse /\ UsesBounded

\* A node of the list holds an entry, a node that is not in it holds none.
LEMMA LiveNodes ==
  ASSUME IInv
  PROVE  /\ entries \in Seq(Node) /\ Len(entries) \in Nat /\ IsInjective(entries)
         /\ \A n \in Node : node[n] # Absent <=> Contains(entries, n)
         /\ \A n : Contains(entries, n) => n \in Node
         /\ \A n \in Node : node[n] # Absent => node[n] \in CacheEntry /\ node[n].domain \in Domain
         /\ \A d \in Domain : lookup[d] # NoNode =>
              /\ lookup[d] \in Node /\ node[lookup[d]] # Absent
              /\ node[lookup[d]].domain = d /\ Contains(entries, lookup[d])
<1>1. entries \in Seq(Node) /\ Len(entries) \in Nat /\ IsInjective(entries)
  BY LenProperties DEF IInv, TypeOK, Consistent, ListOfLiveNodes
<1>2. \A n \in Node : node[n] # Absent <=> Contains(entries, n)
  BY DEF IInv, Consistent, ListOfLiveNodes
<1>3. \A n : Contains(entries, n) => n \in Node
  BY <1>1, ElementOfSeq DEF Contains
<1>4. \A n \in Node : node[n] # Absent => node[n] \in CacheEntry /\ node[n].domain \in Domain
  BY DEF IInv, TypeOK, CacheEntry
<1>5. \A d \in Domain : lookup[d] # NoNode => lookup[d] \in Node
  BY DEF IInv, TypeOK
<1> QED
  BY <1>1, <1>2, <1>3, <1>4, <1>5 DEF IInv, Consistent, IteratorsValid

LEMMA InitInv == Init => IInv
<1> SUFFICES ASSUME Init PROVE IInv
  OBVIOUS
<1>1. entries \in Seq(Node) /\ Len(entries) = 0 /\ DOMAIN entries = {}
  BY EmptySeq DEF Init
<1>2. TypeOK
  BY <1>1 DEF Init, TypeOK, CacheStats
<1>3. Consistent
  BY <1>1 DEF Init, Consistent, ListOfLiveNodes, IteratorsValid, EntriesReachable,
              IsInjective, Contains
<1>4. WithinCapacity
  BY <1>1, CacheAssumption DEF WithinCapacity, Capacity
<1>5. SortedByUse /\ UsesBounded
  BY <1>1 DEF Init, SortedByUse, UsesBounded, Before
<1> QED
  BY <1>2, <1>3, <1>4, <1>5 DEF IInv

\* One lemma for each action: it preserves the invariant.
LEMMA UnchangedInv == IInv /\ UNCHANGED vars => IInv'
BY DEF vars, IInv, TypeOK, Consistent, ListOfLiveNodes, IteratorsValid, EntriesReachable,
       WithinCapacity, SortedByUse, UsesBounded

\* Counting keeps the counters natural numbers.
LEMMA Counting ==
  ASSUME NEW c \in CacheStats
  PROVE  /\ [c EXCEPT !.hits = @ + 1] \in CacheStats
         /\ [c EXCEPT !.misses = @ + 1] \in CacheStats
         /\ [c EXCEPT !.evictions = @ + 1] \in CacheStats
BY DEF CacheStats

LEMMA GetMissInv == ASSUME IInv, NEW d \in Domain, GetMiss(d) PROVE IInv'
<1>1. UNCHANGED <<entries, node, lookup, now, used, uses>>
  BY DEF GetMiss
<1>2. TypeOK'
  BY <1>1 DEF GetMiss, IInv, TypeOK, CacheStats
<1> QED
  BY <1>1, <1>2 DEF IInv, Consistent, ListOfLiveNodes, IteratorsValid, EntriesReachable,
       WithinCapacity, SortedByUse, UsesBounded

LEMMA TickInv == ASSUME IInv, Tick PROVE IInv'
<1>1. UNCHANGED <<entries, node, lookup, stats, ret, used, uses>>
  BY DEF Tick
<1>2. TypeOK'
  BY <1>1 DEF Tick, IInv, TypeOK
<1> QED
  BY <1>1, <1>2 DEF IInv, Consistent, ListOfLiveNodes, IteratorsValid, EntriesReachable,
       WithinCapacity, SortedByUse, UsesBounded

LEMMA ClearInv == ASSUME IInv, Clear PROVE IInv'
<1>1. /\ entries' = <<>> /\ node' = [n \in Node |-> Absent]
      /\ lookup' = [d \in Domain |-> NoNode] /\ UNCHANGED <<stats, now, ret, used, uses>>
  BY DEF Clear
<1>2. entries' \in Seq(Node) /\ Len(entries') = 0 /\ DOMAIN entries' = {}
  BY <1>1, EmptySeq
<1>3. TypeOK'
  BY <1>1, <1>2 DEF IInv, TypeOK
<1>4. Consistent'
  BY <1>1, <1>2 DEF Consistent, ListOfLiveNodes, IteratorsValid, EntriesReachable,
                    IsInjective, Contains
<1>5. WithinCapacity'
  BY <1>2, CacheAssumption DEF WithinCapacity, Capacity
<1>6. SortedByUse' /\ UsesBounded'
  BY <1>1, <1>2 DEF IInv, SortedByUse, UsesBounded, Before
<1> QED
  BY <1>3, <1>4, <1>5, <1>6 DEF IInv

LEMMA GetExpiredInv == ASSUME IInv, NEW d \in Domain, GetExpired(d) PROVE IInv'
<1> DEFINE it == lookup[d]
<1>1. /\ it # NoNode
      /\ entries' = Erase(entries, it)
      /\ node' = [node EXCEPT ![it] = Absent]
      /\ lookup' = [lookup EXCEPT ![d] = NoNode]
      /\ stats' = [stats EXCEPT !.misses = @ + 1]
      /\ ret' = nullopt
      /\ UNCHANGED <<now, used, uses>>
  BY DEF GetExpired
<1>2. TypeOK
  BY DEF IInv
<1>3. it \in Node /\ Contains(entries, it) /\ node[it] # Absent /\ node[it].domain = d
  BY <1>1, LiveNodes
<1>4. /\ entries' \in Seq(Node) /\ Len(entries') = Len(entries) - 1 /\ IsInjective(entries')
      /\ \A m : Contains(entries', m) <=> Contains(entries, m) /\ m # it
      /\ \A a, b : Before(entries', a, b) => Before(entries, a, b)
  BY <1>1, <1>3, LiveNodes, EraseList
<1>5. TypeOK'
  <2>1. stats' \in CacheStats
    BY <1>1, <1>2, Counting DEF TypeOK
  <2>2. /\ node' \in [Node -> CacheEntry \cup {Absent}]
        /\ lookup' \in [Domain -> Node \cup {NoNode}]
    BY <1>1, <1>2, <1>3 DEF TypeOK
  <2> QED
    BY <1>1, <1>2, <1>4, <2>1, <2>2 DEF TypeOK
<1>6. \A n \in Node : node'[n] = IF n = it THEN Absent ELSE node[n]
  BY <1>1, <1>2, <1>3 DEF TypeOK
<1>7. \A e \in Domain : lookup'[e] = IF e = d THEN NoNode ELSE lookup[e]
  BY <1>1, <1>2 DEF TypeOK
<1>8. ListOfLiveNodes'
  BY <1>4, <1>6, LiveNodes DEF ListOfLiveNodes
<1>9. IteratorsValid'
  <2> SUFFICES ASSUME NEW e \in Domain, lookup'[e] # NoNode
               PROVE  node'[lookup'[e]] # Absent /\ node'[lookup'[e]].domain = e
    BY DEF IteratorsValid
  <2>1. e # d /\ lookup'[e] = lookup[e] /\ lookup[e] # NoNode
    BY <1>7
  <2>2. lookup[e] \in Node /\ node[lookup[e]] # Absent /\ node[lookup[e]].domain = e
    BY <2>1, LiveNodes
  <2>3. lookup[e] # it
    BY <1>3, <2>1, <2>2
  <2> QED
    BY <1>6, <2>1, <2>2, <2>3
<1>10. EntriesReachable'
  <2> SUFFICES ASSUME NEW n \in Node, node'[n] # Absent
               PROVE  lookup'[node'[n].domain] = n
    BY DEF EntriesReachable
  <2>1. n # it /\ node'[n] = node[n] /\ node[n] # Absent
    BY <1>6
  <2>2. node[n].domain \in Domain /\ lookup[node[n].domain] = n
    BY <2>1, LiveNodes DEF IInv, Consistent, EntriesReachable
  <2> QED
    BY <1>7, <2>1, <2>2
<1>11. WithinCapacity'
  <2>1. Len(entries) <= Capacity /\ Len(entries) \in Nat /\ Capacity \in Nat
    BY LiveNodes, CacheAssumption DEF IInv, WithinCapacity, Capacity
  <2> QED
    BY <1>4, <2>1 DEF WithinCapacity, Capacity
<1>12. SortedByUse'
  <2> SUFFICES ASSUME NEW m \in Node, NEW n \in Node, Before(entries', m, n)
               PROVE  used'[node'[m].domain] > used'[node'[n].domain]
    BY DEF SortedByUse
  <2>1. Before(entries, m, n) /\ m # it /\ n # it
    BY <1>4, BeforeContains
  <2> QED
    BY <1>1, <1>6, <2>1 DEF IInv, SortedByUse
<1>13. UsesBounded'
  BY <1>1 DEF IInv, UsesBounded
<1> QED
  BY <1>5, <1>8, <1>9, <1>10, <1>11, <1>12, <1>13 DEF IInv, Consistent

\* What GetHit and PutUpdate share: a node of the list is spliced to its front,
\* its domain dated last, and no node changes its domain.
LEMMA TouchInv ==
  ASSUME IInv, NEW d \in Domain, lookup[d] # NoNode,
         entries' = Splice(entries, lookup[d]),
         Touch(d),
         lookup' = lookup,
         \A n \in Node : /\ node'[n] # Absent <=> node[n] # Absent
                         /\ node[n] # Absent => node'[n].domain = node[n].domain,
         TypeOK'
  PROVE  IInv'
<1> DEFINE it == lookup[d]
<1>1. it \in Node /\ Contains(entries, it) /\ node[it] # Absent /\ node[it].domain = d
  BY LiveNodes
<1>2. /\ entries' \in Seq(Node) /\ Len(entries') = Len(entries) /\ IsInjective(entries')
      /\ \A m : Contains(entries', m) <=> Contains(entries, m)
      /\ \A a, b : Before(entries', a, b) =>
           /\ Contains(entries, b) /\ b # it
           /\ a = it \/ (Before(entries, a, b) /\ a # it)
  BY <1>1, LiveNodes, SpliceList
<1>3. /\ uses \in Nat /\ uses' = uses + 1 /\ used \in [Domain -> Nat]
      /\ \A e \in Domain : used'[e] = IF e = d THEN uses + 1 ELSE used[e]
  BY DEF IInv, TypeOK, Touch
<1>4. ListOfLiveNodes'
  BY <1>2, LiveNodes DEF ListOfLiveNodes
<1>5. IteratorsValid'
  BY LiveNodes DEF IteratorsValid
<1>6. EntriesReachable'
  BY DEF IInv, Consistent, EntriesReachable
<1>7. WithinCapacity'
  BY <1>2 DEF IInv, WithinCapacity, Capacity
<1>8. SortedByUse'
  <2> SUFFICES ASSUME NEW m \in Node, NEW n \in Node, Before(entries', m, n)
               PROVE  used'[node'[m].domain] > used'[node'[n].domain]
    BY DEF SortedByUse
  <2>1. Contains(entries, n) /\ n # it /\ (m = it \/ (Before(entries, m, n) /\ m # it))
    BY <1>2
  <2>2. /\ node[n] # Absent /\ node[n].domain \in Domain
        /\ lookup[node[n].domain] = n /\ node'[n].domain = node[n].domain
    BY <2>1, LiveNodes DEF IInv, Consistent, EntriesReachable
  <2>3. used'[node'[n].domain] = used[node[n].domain] /\ used[node[n].domain] <= uses
    BY <1>3, <2>1, <2>2 DEF IInv, UsesBounded
  <2>4. CASE m = it
    <3>1. used'[node'[m].domain] = uses + 1
      BY <1>1, <1>3, <2>4
    <3>2. used[node[n].domain] \in Nat
      BY <1>3, <2>2
    <3> QED
      BY <1>3, <2>3, <3>1, <3>2
  <2>5. CASE Before(entries, m, n) /\ m # it
    <3>1. /\ node[m] # Absent /\ node[m].domain \in Domain
          /\ lookup[node[m].domain] = m /\ node'[m].domain = node[m].domain
      BY <2>5, LiveNodes, BeforeContains DEF IInv, Consistent, EntriesReachable
    <3>2. used'[node'[m].domain] = used[node[m].domain]
      BY <1>3, <2>5, <3>1
    <3>3. used[node[m].domain] > used[node[n].domain]
      BY <2>5 DEF IInv, SortedByUse
    <3> QED
      BY <2>3, <3>2, <3>3
  <2> QED
    BY <2>1, <2>4, <2>5
<1>9. UsesBounded'
  <2>1. \A e \in Domain : used[e] \in Nat /\ used[e] <= uses
    BY <1>3 DEF IInv, UsesBounded
  <2> QED
    BY <1>3, <2>1 DEF UsesBounded
<1> QED
  BY <1>4, <1>5, <1>6, <1>7, <1>8, <1>9 DEF IInv, Consistent

LEMMA GetHitInv == ASSUME IInv, NEW d \in Domain, GetHit(d) PROVE IInv'
<1>1. /\ lookup[d] # NoNode
      /\ entries' = Splice(entries, lookup[d])
      /\ stats' = [stats EXCEPT !.hits = @ + 1]
      /\ ret' = node[lookup[d]].response
      /\ Touch(d)
      /\ UNCHANGED <<node, lookup, now>>
  BY DEF GetHit
<1>2. /\ lookup[d] \in Node /\ Contains(entries, lookup[d])
      /\ node[lookup[d]] \in CacheEntry
  BY <1>1, LiveNodes
<1>3. entries' \in Seq(Node)
  BY <1>1, <1>2, LiveNodes, SpliceList
<1>4. TypeOK'
  <2>1. stats' \in CacheStats /\ ret' \in Response
    BY <1>1, <1>2, Counting DEF IInv, TypeOK, CacheEntry
  <2>2. used' \in [Domain -> Nat] /\ uses' \in Nat
    BY <1>1 DEF IInv, TypeOK, Touch
  <2> QED
    BY <1>1, <1>3, <2>1, <2>2 DEF IInv, TypeOK
<1> QED
  BY <1>1, <1>4, TouchInv

LEMMA PutUpdateInv ==
  ASSUME IInv, NEW d \in Domain, NEW r \in Response, NEW t \in TTL, PutUpdate(d, r, t)
  PROVE  IInv'
<1> DEFINE it == lookup[d]
<1>1. /\ it # NoNode
      /\ entries' = Splice(entries, it)
      /\ node' = [node EXCEPT ![it] = [domain |-> @.domain, response |-> r, expiry |-> now + t]]
      /\ Touch(d)
      /\ UNCHANGED <<lookup, stats, now, ret>>
  BY DEF PutUpdate
<1>2. it \in Node /\ Contains(entries, it) /\ node[it] \in CacheEntry /\ node[it] # Absent
  BY <1>1, LiveNodes
<1>3. entries' \in Seq(Node)
  BY <1>1, <1>2, LiveNodes, SpliceList
<1>4. now + t \in Nat
  BY CacheAssumption DEF IInv, TypeOK
<1>5. \A n \in Node :
        node'[n] = IF n = it THEN [domain |-> node[it].domain, response |-> r, expiry |-> now + t]
                   ELSE node[n]
  BY <1>1, <1>2 DEF IInv, TypeOK
<1>6. [domain |-> node[it].domain, response |-> r, expiry |-> now + t] \in CacheEntry
  BY <1>2, <1>4 DEF CacheEntry
<1>7. node' \in [Node -> CacheEntry \cup {Absent}]
  <2>1. DOMAIN node' = Node /\ node' = [n \in Node |-> node'[n]]
    BY <1>1 DEF IInv, TypeOK
  <2>2. \A n \in Node : node'[n] \in CacheEntry \cup {Absent}
    BY <1>5, <1>6 DEF IInv, TypeOK
  <2> QED
    BY <2>1, <2>2
<1>8. TypeOK'
  BY <1>1, <1>3, <1>7 DEF IInv, TypeOK, Touch
<1>9. \A n \in Node : /\ node'[n] # Absent <=> node[n] # Absent
                      /\ node[n] # Absent => node'[n].domain = node[n].domain
  <2>1. Absent \notin CacheEntry
    BY CacheAssumption DEF CacheEntry
  <2> QED
    BY <1>2, <1>5, <1>6, <2>1
<1> QED
  BY <1>1, <1>8, <1>9, TouchInv

\* What PutInsert and PutEvict share: n gets an entry for d and goes in front of
\* the list l, which is the list of before, or what an eviction left of it.
LEMMA InsertInv ==
  ASSUME IInv, NEW d \in Domain, NEW r \in Response, NEW t \in TTL, NEW n \in Node, NEW l,
         l \in Seq(Node), IsInjective(l), Len(l) < Capacity, ~Contains(l, n),
         \A m : Contains(l, m) => Contains(entries, m),
         \A a, b : Before(l, a, b) => Before(entries, a, b),
         lookup[d] = NoNode,
         entries' = <<n>> \o l,
         \A m \in Node : node'[m] =
            IF m = n THEN [domain |-> d, response |-> r, expiry |-> now + t]
            ELSE IF Contains(l, m) THEN node[m] ELSE Absent,
         \A e \in Domain : lookup'[e] =
            IF e = d THEN n ELSE IF Contains(l, lookup[e]) THEN lookup[e] ELSE NoNode,
         Touch(d),
         TypeOK'
  PROVE  IInv'
<1> DEFINE new == [domain |-> d, response |-> r, expiry |-> now + t]
<1>1. new \in CacheEntry /\ new.domain = d /\ new # Absent
  <2>1. now + t \in Nat
    BY CacheAssumption DEF IInv, TypeOK
  <2>2. new \in CacheEntry /\ new.domain = d
    BY <2>1 DEF CacheEntry
  <2> QED
    BY <2>2, CacheAssumption DEF CacheEntry
<1> HIDE DEF new
<1>2. node'[n] = new /\ \A m \in Node \ {n} : node'[m] = IF Contains(l, m) THEN node[m] ELSE Absent
  BY DEF new
<1>3. /\ entries' \in Seq(Node) /\ Len(entries') = Len(l) + 1 /\ IsInjective(entries')
      /\ \A m : Contains(entries', m) <=> Contains(l, m) \/ m = n
      /\ \A a, b : Before(entries', a, b) => Before(l, a, b) \/ (a = n /\ Contains(l, b))
  BY PushList
<1>4. NoNode \notin Node /\ \A m : Contains(l, m) => m \in Node
  BY LiveNodes, CacheAssumption
<1>5. ASSUME NEW m, Contains(l, m)
      PROVE  /\ m \in Node /\ m # n /\ node'[m] = node[m] /\ node[m] # Absent
             /\ node[m].domain \in Domain /\ node[m].domain # d
             /\ lookup[node[m].domain] = m /\ lookup'[node[m].domain] = m
  <2>1. m \in Node /\ m # n /\ node'[m] = node[m] /\ node[m] # Absent
    BY <1>2, <1>4, <1>5, LiveNodes
  <2>2. node[m].domain \in Domain /\ lookup[node[m].domain] = m
    BY <2>1, LiveNodes DEF IInv, Consistent, EntriesReachable
  <2>3. node[m].domain # d
    BY <1>4, <2>1, <2>2
  <2> QED
    BY <1>5, <2>1, <2>2, <2>3
<1>6. /\ uses \in Nat /\ uses' = uses + 1 /\ used \in [Domain -> Nat]
      /\ \A e \in Domain : used'[e] = IF e = d THEN uses + 1 ELSE used[e]
  BY DEF IInv, TypeOK, Touch
<1>7. ListOfLiveNodes'
  BY <1>1, <1>2, <1>3, <1>5 DEF ListOfLiveNodes
<1>8. IteratorsValid'
  <2> SUFFICES ASSUME NEW e \in Domain, lookup'[e] # NoNode
               PROVE  node'[lookup'[e]] # Absent /\ node'[lookup'[e]].domain = e
    BY DEF IteratorsValid
  <2>1. CASE e = d
    BY <1>1, <1>2, <2>1
  <2>2. CASE e # d
    <3>1. Contains(l, lookup[e]) /\ lookup'[e] = lookup[e]
      BY <2>2
    <3>2. node[lookup[e]].domain = e
      BY <1>4, <3>1, LiveNodes
    <3> QED
      BY <1>5, <3>1, <3>2
  <2> QED
    BY <2>1, <2>2
<1>9. EntriesReachable'
  <2> SUFFICES ASSUME NEW m \in Node, node'[m] # Absent
               PROVE  lookup'[node'[m].domain] = m
    BY DEF EntriesReachable
  <2>1. CASE m = n
    BY <1>1, <1>2, <2>1
  <2>2. CASE m # n
    BY <1>2, <1>5, <2>2
  <2> QED
    BY <2>1, <2>2
<1>10. WithinCapacity'
  <2>1. Len(l) \in Nat /\ Capacity \in Nat
    BY LenProperties, CacheAssumption DEF Capacity
  <2> QED
    BY <1>3, <2>1 DEF WithinCapacity, Capacity
<1>11. \A m : Contains(l, m) =>
          /\ used'[node'[m].domain] = used[node[m].domain]
          /\ used[node[m].domain] \in Nat /\ used[node[m].domain] <= uses
  BY <1>5, <1>6 DEF IInv, UsesBounded
<1>12. SortedByUse'
  <2> SUFFICES ASSUME NEW a \in Node, NEW b \in Node, Before(entries', a, b)
               PROVE  used'[node'[a].domain] > used'[node'[b].domain]
    BY DEF SortedByUse
  <2>1. CASE Before(l, a, b)
    <3>1. Contains(l, a) /\ Contains(l, b)
      BY <2>1, BeforeContains
    <3>2. used[node[a].domain] > used[node[b].domain]
      BY <2>1 DEF IInv, SortedByUse
    <3> QED
      BY <1>11, <3>1, <3>2
  <2>2. CASE a = n /\ Contains(l, b)
    <3>1. used'[node'[a].domain] = uses + 1
      BY <1>1, <1>2, <1>6, <2>2
    <3> QED
      BY <1>6, <1>11, <2>2, <3>1
  <2> QED
    BY <1>3, <2>1, <2>2
<1>13. UsesBounded'
  <2>1. \A e \in Domain : used[e] \in Nat /\ used[e] <= uses
    BY <1>6 DEF IInv, UsesBounded
  <2> QED
    BY <1>6, <2>1 DEF UsesBounded
<1> QED
  BY <1>7, <1>8, <1>9, <1>10, <1>12, <1>13 DEF IInv, Consistent

LEMMA PutInsertInv ==
  ASSUME IInv, NEW d \in Domain, NEW r \in Response, NEW t \in TTL, PutInsert(d, r, t)
  PROVE  IInv'
<1>1. PICK n \in Node :
        /\ node[n] = Absent
        /\ entries' = <<n>> \o entries
        /\ node' = [node EXCEPT ![n] = [domain |-> d, response |-> r, expiry |-> now + t]]
        /\ lookup' = [lookup EXCEPT ![d] = n]
  BY DEF PutInsert
<1>2. /\ lookup[d] = NoNode
      /\ Len(entries) < MaxSize \/ entries = <<>>
      /\ Touch(d)
      /\ UNCHANGED <<stats, now, ret>>
  BY DEF PutInsert
<1>3. ~Contains(entries, n)
  BY <1>1, LiveNodes
<1>4. Len(entries) < Capacity
  BY <1>2, EmptySeq, LiveNodes, CacheAssumption DEF Capacity
<1>5. entries' \in Seq(Node)
  BY <1>1, <1>3, LiveNodes, PushList
<1>6. [domain |-> d, response |-> r, expiry |-> now + t] \in CacheEntry
  BY CacheAssumption DEF IInv, TypeOK, CacheEntry
<1>7. TypeOK'
  BY <1>1, <1>2, <1>5, <1>6 DEF IInv, TypeOK, Touch
<1>8. \A m \in Node : node'[m] =
        IF m = n THEN [domain |-> d, response |-> r, expiry |-> now + t]
        ELSE IF Contains(entries, m) THEN node[m] ELSE Absent
  BY <1>1, LiveNodes DEF IInv, TypeOK
<1>9. \A e \in Domain : lookup'[e] =
        IF e = d THEN n ELSE IF Contains(entries, lookup[e]) THEN lookup[e] ELSE NoNode
  BY <1>1, LiveNodes DEF IInv, TypeOK
<1> QED
  BY <1>1, <1>2, <1>3, <1>4, <1>7, <1>8, <1>9, LiveNodes, InsertInv

LEMMA PutEvictInv ==
  ASSUME IInv, NEW d \in Domain, NEW r \in Response, NEW t \in TTL, PutEvict(d, r, t)
  PROVE  IInv'
<1> DEFINE last == Last(entries)
           l == Front(entries)
<1>1. PICK n \in {m \in Node : node[m] = Absent} \cup {last} :
        /\ entries' = <<n>> \o l
        /\ node' = [node EXCEPT ![last] = Absent,
                      ![n] = [domain |-> d, response |-> r, expiry |-> now + t]]
        /\ lookup' = [lookup EXCEPT ![node[last].domain] = NoNode, ![d] = n]
  BY DEF PutEvict
<1>2. /\ lookup[d] = NoNode
      /\ entries # <<>>
      /\ stats' = [stats EXCEPT !.evictions = @ + 1]
      /\ Touch(d)
      /\ UNCHANGED <<now, ret>>
  BY DEF PutEvict
<1>3. Contains(entries, last) /\ l = Erase(entries, last)
  BY <1>2, LiveNodes, FrontIsErase
<1>4. last \in Node /\ node[last] # Absent /\ node[last].domain \in Domain
  BY <1>3, LiveNodes
<1>5. n \in Node /\ (node[n] = Absent \/ n = last)
  BY <1>1, <1>4
<1>6. /\ l \in Seq(Node) /\ Len(l) = Len(entries) - 1 /\ IsInjective(l)
      /\ \A m : Contains(l, m) <=> Contains(entries, m) /\ m # last
      /\ \A a, b : Before(l, a, b) => Before(entries, a, b)
  BY <1>3, LiveNodes, EraseList
<1> HIDE DEF last, l
<1>7. ~Contains(l, n)
  BY <1>5, <1>6, LiveNodes
<1>8. Len(l) < Capacity
  BY <1>6, LiveNodes, CacheAssumption DEF IInv, WithinCapacity, Capacity
<1>9. entries' \in Seq(Node)
  BY <1>1, <1>5, <1>6, <1>7, PushList
<1>10. [domain |-> d, response |-> r, expiry |-> now + t] \in CacheEntry
  BY CacheAssumption DEF IInv, TypeOK, CacheEntry
<1>11. TypeOK'
  <2>1. stats' \in CacheStats
    BY <1>2, Counting DEF IInv, TypeOK
  <2>2. node' \in [Node -> CacheEntry \cup {Absent}]
    BY <1>1, <1>4, <1>5, <1>10 DEF IInv, TypeOK
  <2>3. lookup' \in [Domain -> Node \cup {NoNode}]
    BY <1>1, <1>4, <1>5 DEF IInv, TypeOK
  <2>4. used' \in [Domain -> Nat] /\ uses' \in Nat
    BY <1>2 DEF IInv, TypeOK, Touch
  <2> QED
    BY <1>2, <1>9, <2>1, <2>2, <2>3, <2>4 DEF IInv, TypeOK
<1>12. \A m \in Node : node'[m] =
        IF m = n THEN [domain |-> d, response |-> r, expiry |-> now + t]
        ELSE IF Contains(l, m) THEN node[m] ELSE Absent
  <2>1. \A m \in Node : node'[m] =
         IF m = n THEN [domain |-> d, response |-> r, expiry |-> now + t]
         ELSE IF m = last THEN Absent ELSE node[m]
    BY <1>1, <1>4, <1>5 DEF IInv, TypeOK
  <2> QED
    BY <1>6, <2>1, LiveNodes
<1>13. \A e \in Domain : lookup'[e] =
        IF e = d THEN n ELSE IF Contains(l, lookup[e]) THEN lookup[e] ELSE NoNode
  <2>1. \A e \in Domain : lookup'[e] =
          IF e = d THEN n ELSE IF e = node[last].domain THEN NoNode ELSE lookup[e]
    BY <1>1, <1>4, <1>5 DEF IInv, TypeOK
  <2>2. \A e \in Domain : lookup[e] # NoNode =>
          (Contains(l, lookup[e]) <=> e # node[last].domain)
    <3> SUFFICES ASSUME NEW e \in Domain, lookup[e] # NoNode
                 PROVE  lookup[e] # last <=> e # node[last].domain
      BY <1>6, LiveNodes
    <3>1. node[lookup[e]].domain = e
      BY LiveNodes
    <3>2. lookup[node[last].domain] = last
      BY <1>4 DEF IInv, Consistent, EntriesReachable
    <3> QED
      BY <3>1, <3>2
  <2> QED
    BY <2>1, <2>2
<1>14. \A m : Contains(l, m) => Contains(entries, m)
  BY <1>6
<1>15. n \in Node /\ l \in Seq(Node) /\ IsInjective(l)
  BY <1>5, <1>6
<1>16. \A a, b : Before(l, a, b) => Before(entries, a, b)
  BY <1>6
<1>17. entries' = <<n>> \o l /\ lookup[d] = NoNode /\ Touch(d)
  BY <1>1, <1>2
<1> QED
  BY <1>7, <1>8, <1>11, <1>12, <1>13, <1>14, <1>15, <1>16, <1>17, InsertInv

LEMMA NextInv == IInv /\ [Next]_vars => IInv'
<1> SUFFICES ASSUME IInv, [Next]_vars PROVE IInv'
  OBVIOUS
<1>1. ASSUME NEW d \in Domain, GetMiss(d) \/ GetExpired(d) \/ GetHit(d) PROVE IInv'
  BY <1>1, GetMissInv, GetExpiredInv, GetHitInv
<1>2. ASSUME NEW d \in Domain, NEW r \in Response, NEW t \in TTL,
             PutUpdate(d, r, t) \/ PutInsert(d, r, t) \/ PutEvict(d, r, t)
      PROVE  IInv'
  BY <1>2, PutUpdateInv, PutInsertInv, PutEvictInv
<1>3. CASE Clear
  BY <1>3, ClearInv
<1>4. CASE Tick
  BY <1>4, TickInv
<1>5. CASE UNCHANGED vars
  BY <1>5, UnchangedInv
<1> QED
  BY <1>1, <1>2, <1>3, <1>4, <1>5 DEF Next

\* The invariant holds in every state: whatever the calls and their order, the
\* list and the hash map of the cache describe the same entries, no iterator
\* dangles, the list is within its capacity and sorted by last use
\* (lru_cache.cpp, lines 13-92).
THEOREM Invariant == Spec => []IInv
<1>1. Init => IInv
  BY InitInv
<1>2. IInv /\ [Next]_vars => IInv'
  BY NextInv
<1> QED
  BY <1>1, <1>2, PTL DEF Spec

\* Every variable keeps its type (lru_cache.hpp, lines 61-66).
THEOREM TypeCorrect == Spec => []TypeOK
<1>1. IInv => TypeOK
  BY DEF IInv
<1> QED
  BY <1>1, Invariant, PTL

\* The list and the hash map describe the same entries (lru_cache.cpp, lines
\* 28-29, 66-67, 79-80, 90-91).
THEOREM ListAndMapAgree == Spec => []Consistent
<1>1. IInv => Consistent
  BY DEF IInv
<1> QED
  BY <1>1, Invariant, PTL

\* The cache never holds more than max_size_ entries, one if that is 0
\* (lru_cache.cpp, lines 61-63 and 76).
THEOREM CapacityRespected == Spec => []WithinCapacity
<1>1. IInv => WithinCapacity
  BY DEF IInv
<1> QED
  BY <1>1, Invariant, PTL

\* The list is sorted by last use, the most recent first (lru_cache.cpp, lines
\* 35, 56 and 66).
THEOREM MostRecentFirst == Spec => []SortedByUse
<1>1. IInv => SortedByUse
  BY DEF IInv
<1> QED
  BY <1>1, Invariant, PTL

-----------------------------------------------------------------------------
(* Eviction.                                                               *)

\* put() evicts only from a full cache, one domain, the least recently used one
\* (lru_cache.cpp, lines 61-63 and 75-82).
THEOREM EvictsLeastRecentlyUsed == Spec => EvictsLRU
<1> DEFINE A == \A d \in Domain :
              lookup[d] # NoNode /\ lookup'[d] = NoNode /\ uses' # uses =>
                /\ Len(entries) >= Capacity
                /\ \A e \in Domain \ {d} : lookup[e] # NoNode =>
                     used[d] < used[e] /\ lookup'[e] # NoNode
<1>1. IInv /\ [Next]_vars => [A]_vars
  <2> SUFFICES ASSUME IInv, Next,
                      NEW d \in Domain, lookup[d] # NoNode, lookup'[d] = NoNode, uses' # uses
               PROVE  /\ Len(entries) >= Capacity
                      /\ \A e \in Domain \ {d} : lookup[e] # NoNode =>
                           used[d] < used[e] /\ lookup'[e] # NoNode
    OBVIOUS
  <2>1. PICK c \in Domain, r \in Response, t \in TTL : PutInsert(c, r, t) \/ PutEvict(c, r, t)
    BY DEF Next, GetMiss, GetExpired, GetHit, PutUpdate, Clear, Tick
  <2>2. NoNode \notin Node
    BY CacheAssumption
  <2>3. ~PutInsert(c, r, t)
    BY <2>2 DEF PutInsert, IInv, TypeOK
  <2>4. PutEvict(c, r, t)
    BY <2>1, <2>3
  <2> DEFINE last == Last(entries)
  <2>5. PICK n \in {m \in Node : node[m] = Absent} \cup {last} :
          lookup' = [lookup EXCEPT ![node[last].domain] = NoNode, ![c] = n]
    BY <2>4 DEF PutEvict
  <2>6. lookup[c] = NoNode /\ Len(entries) >= MaxSize /\ entries # <<>>
    BY <2>4 DEF PutEvict
  <2>7. /\ Contains(entries, last) /\ last \in Node
        /\ node[last].domain \in Domain /\ lookup[node[last].domain] = last
    BY <2>6, FrontIsErase, LiveNodes DEF IInv, Consistent, EntriesReachable
  <2>8. n \in Node
    BY <2>5, <2>7
  <2>9. \A e \in Domain : lookup'[e] =
          IF e = c THEN n ELSE IF e = node[last].domain THEN NoNode ELSE lookup[e]
    BY <2>5, <2>7 DEF IInv, TypeOK
  <2>10. d = node[last].domain
    BY <2>2, <2>8, <2>9
  <2>11. Len(entries) >= Capacity
    BY <2>6, EmptySeq, LiveNodes, CacheAssumption DEF Capacity
  <2>12. ASSUME NEW e \in Domain \ {d}, lookup[e] # NoNode
         PROVE  used[d] < used[e] /\ lookup'[e] # NoNode
    <3>1. lookup'[e] # NoNode
      BY <2>2, <2>8, <2>9, <2>10, <2>12
    <3>2. Contains(entries, lookup[e]) /\ lookup[e] \in Node /\ node[lookup[e]].domain = e
      BY <2>12, LiveNodes
    <3>3. lookup[e] # last
      BY <2>10, <2>12, <3>2
    <3>4. Before(entries, lookup[e], last)
      <4>1. PICK i \in 1..Len(entries) : entries[i] = lookup[e]
        BY <3>2 DEF Contains
      <4>2. Len(entries) \in Nat \ {0} /\ last = entries[Len(entries)]
        BY <2>6, EmptySeq, LiveNodes DEF Last
      <4>3. i < Len(entries)
        BY <3>3, <4>1, <4>2
      <4> QED
        BY <4>1, <4>2, <4>3 DEF Before
    <3>5. used[e] > used[d]
      BY <2>7, <2>10, <3>2, <3>4 DEF IInv, SortedByUse
    <3> QED
      BY <3>1, <3>5 DEF IInv, TypeOK
  <2> QED
    BY <2>11, <2>12
<1> QED
  BY <1>1, Invariant, PTL DEF Spec, EvictsLRU

-----------------------------------------------------------------------------
(* Refinement: LRUCache implements TTLCache.                               *)

ItemOf(d) == [response |-> node[lookup[d]].response, expiry |-> node[lookup[d]].expiry]

\* The store the cache stands for has an entry exactly for the domains in the
\* hash map.
LEMMA StoreIs ==
  ASSUME IInv
  PROVE  /\ \A d \in Domain : Store[d] = IF lookup[d] = NoNode THEN Absent ELSE ItemOf(d)
         /\ \A d \in Domain : lookup[d] # NoNode =>
              /\ Store[d] # Absent
              /\ Store[d].response = node[lookup[d]].response
              /\ Store[d].expiry = node[lookup[d]].expiry
         /\ Abs!Present(Store) = {d \in Domain : lookup[d] # NoNode}
<1>1. \A d \in Domain : Store[d] = IF lookup[d] = NoNode THEN Absent ELSE ItemOf(d)
  BY DEF Store, ItemOf
<1>2. ASSUME NEW d \in Domain, lookup[d] # NoNode
      PROVE  /\ Store[d] # Absent
             /\ Store[d].response = node[lookup[d]].response
             /\ Store[d].expiry = node[lookup[d]].expiry
  <2>1. node[lookup[d]] \in CacheEntry
    BY <1>2, LiveNodes
  <2>2. ItemOf(d) \in [response : Response, expiry : Nat]
    BY <2>1 DEF ItemOf, CacheEntry
  <2>3. Store[d] = ItemOf(d)
    BY <1>1, <1>2
  <2> QED
    BY <2>2, <2>3, CacheAssumption DEF ItemOf
<1>3. Abs!Present(Store) = {d \in Domain : lookup[d] # NoNode}
  BY <1>1, <1>2 DEF Abs!Present
<1> QED
  BY <1>1, <1>2, <1>3

\* TTLCache counts as this module does.
LEMMA SameCardinality == \A S : Abs!Cardinality(S) = Cardinality(S)
BY DEF Cardinality, Abs!Cardinality

\* The store has as many entries as the list has nodes.
LEMMA StoreSize ==
  ASSUME IInv
  PROVE  Cardinality(Abs!Present(Store)) = Len(entries)
<1> DEFINE L == Len(entries)
           live == {d \in Domain : lookup[d] # NoNode}
           f == [i \in 1..L |-> node[entries[i]].domain]
<1>1. L \in Nat /\ DOMAIN entries = 1..L
  BY LiveNodes, LenProperties
<1>2. \A i \in 1..L : /\ entries[i] \in Node /\ node[entries[i]] # Absent
                      /\ f[i] \in Domain /\ lookup[f[i]] = entries[i]
  <2> SUFFICES ASSUME NEW i \in 1..L
               PROVE  /\ entries[i] \in Node /\ node[entries[i]] # Absent
                      /\ f[i] \in Domain /\ lookup[f[i]] = entries[i]
    OBVIOUS
  <2>1. Contains(entries, entries[i])
    BY DEF Contains
  <2> QED
    BY <2>1, LiveNodes DEF IInv, Consistent, EntriesReachable
<1>3. f \in [1..L -> live]
  BY <1>2, CacheAssumption
<1>4. \A i, j \in 1..L : f[i] = f[j] => i = j
  BY <1>1, <1>2, LiveNodes DEF IsInjective
<1>5. \A d \in live : \E i \in 1..L : f[i] = d
  BY LiveNodes DEF Contains
<1> HIDE DEF f, live
<1>6. f \in Bijection(1..L, live)
  BY <1>3, <1>4, <1>5 DEF Bijection, Injection, Surjection, IsInjective
<1>7. IsFiniteSet(1..L) /\ Cardinality(1..L) = L
  <2>1. /\ IsFiniteSet(1..L)
        /\ Cardinality(1..L) = IF 1 > L THEN 0 ELSE L - 1 + 1
    BY <1>1, FS_Interval
  <2> QED
    BY <1>1, <2>1
<1>8. Cardinality(live) = L
  BY <1>6, <1>7, FS_Bijection DEF ExistsBijection
<1> QED
  BY <1>8, StoreIs DEF live

LEMMA InitRefines == Init => Abs!AInit
BY DEF Init, Abs!AInit, Abs!EmptyStore, Store

\* What a get() that finds an entry does to the store.
LEMMA GetRefines ==
  ASSUME IInv, IInv', NEW d \in Domain, GetMiss(d) \/ GetExpired(d) \/ GetHit(d)
  PROVE  Abs!AGet(d)
<1>1. CASE GetMiss(d)
  <2>1. UNCHANGED <<entries, node, lookup, now>> /\ ret' = nullopt /\ lookup[d] = NoNode
    BY <1>1 DEF GetMiss
  <2>2. Store' = Store /\ Store[d] = Absent
    BY <2>1, StoreIs DEF Store
  <2>3. [Store EXCEPT ![d] = Absent] = Store
    BY <2>2 DEF Store
  <2> QED
    BY <2>1, <2>2, <2>3 DEF Abs!AGet, Abs!AfterGet, Abs!Fresh
<1>2. CASE GetExpired(d)
  <2>1. /\ lookup[d] # NoNode /\ now > node[lookup[d]].expiry
        /\ node' = [node EXCEPT ![lookup[d]] = Absent]
        /\ lookup' = [lookup EXCEPT ![d] = NoNode]
        /\ ret' = nullopt /\ now' = now
    BY <1>2 DEF GetExpired
  <2>2. ~Abs!Fresh(Store, d, now)
    <3>1. Store[d].expiry = node[lookup[d]].expiry /\ node[lookup[d]] \in CacheEntry
      BY <2>1, StoreIs, LiveNodes
    <3> QED
      BY <2>1, <3>1 DEF Abs!Fresh, CacheEntry, IInv, TypeOK
  <2>3. ASSUME NEW e \in Domain
        PROVE  Store'[e] = IF e = d THEN Absent ELSE Store[e]
    <3>1. CASE e = d \/ lookup[e] = NoNode
      BY <2>1, <3>1 DEF Store, IInv, TypeOK
    <3>2. CASE e # d /\ lookup[e] # NoNode
      <4>1. lookup[e] # lookup[d] /\ lookup[e] \in Node
        BY <2>1, <3>2, LiveNodes
      <4>2. lookup'[e] = lookup[e] /\ node'[lookup[e]] = node[lookup[e]]
        BY <2>1, <3>2, <4>1 DEF IInv, TypeOK
      <4> QED
        BY <3>2, <4>2 DEF Store
    <3> QED
      BY <3>1, <3>2
  <2>4. Store' = [Store EXCEPT ![d] = Absent]
    BY <2>3 DEF Store
  <2> QED
    BY <2>1, <2>2, <2>4 DEF Abs!AGet, Abs!AfterGet
<1>3. CASE GetHit(d)
  <2>1. /\ lookup[d] # NoNode /\ now <= node[lookup[d]].expiry
        /\ ret' = node[lookup[d]].response
        /\ UNCHANGED <<node, lookup, now>>
    BY <1>3 DEF GetHit
  <2>2. Abs!Fresh(Store, d, now) /\ ret' = Store[d].response
    BY <2>1, StoreIs DEF Abs!Fresh
  <2>3. Store' = Store
    BY <2>1 DEF Store
  <2> QED
    BY <2>1, <2>2, <2>3 DEF Abs!AGet, Abs!AfterGet
<1> QED
  BY <1>1, <1>2, <1>3

\* A put() of a domain that is in the cache, or that finds room, drops nothing.
LEMMA PutInPlaceRefines ==
  ASSUME IInv, IInv', NEW d \in Domain, NEW r \in Response, NEW t \in TTL,
         PutUpdate(d, r, t) \/ PutInsert(d, r, t)
  PROVE  Abs!APut(d, r, t)
<1> DEFINE item == [response |-> r, expiry |-> now + t]
<1>1. Abs!Victims(Store, d) = {d}
  <2>1. CASE PutUpdate(d, r, t)
    BY <2>1, StoreIs DEF PutUpdate, Abs!Victims
  <2>2. CASE PutInsert(d, r, t)
    <3>1. CASE entries = <<>>
      <4>1. Abs!Present(Store) = {}
        <5>1. \A m : ~Contains(entries, m)
          BY <3>1, EmptySeq DEF Contains
        <5> QED
          BY <5>1, StoreIs, LiveNodes
      <4> QED
        BY <4>1 DEF Abs!Victims
    <3>2. CASE Len(entries) < MaxSize
      <4>1. ~(Cardinality(Abs!Present(Store)) >= MaxSize)
        BY <3>2, StoreSize, LiveNodes, CacheAssumption
      <4> QED
        BY <4>1, SameCardinality DEF Abs!Victims
    <3> QED
      BY <2>2, <3>1, <3>2 DEF PutInsert
  <2> QED
    BY <2>1, <2>2
<1>2. \A e \in Domain : Store'[e] = IF e = d THEN item ELSE Store[e]
  <2>1. CASE PutUpdate(d, r, t)
    <3> SUFFICES ASSUME NEW e \in Domain PROVE Store'[e] = IF e = d THEN item ELSE Store[e]
      OBVIOUS
    <3>1. /\ lookup[d] # NoNode /\ lookup' = lookup
          /\ node' = [node EXCEPT ![lookup[d]] =
                         [domain |-> @.domain, response |-> r, expiry |-> now + t]]
      BY <2>1 DEF PutUpdate
    <3>2. CASE e = d
      BY <3>1, <3>2, LiveNodes DEF Store, IInv, TypeOK
    <3>3. CASE e # d
      <4>1. lookup[e] # NoNode => node'[lookup[e]] = node[lookup[e]]
        BY <3>1, <3>3, LiveNodes DEF IInv, TypeOK
      <4> QED
        BY <3>1, <3>3, <4>1 DEF Store
    <3> QED
      BY <3>2, <3>3
  <2>2. CASE PutInsert(d, r, t)
    <3> SUFFICES ASSUME NEW e \in Domain PROVE Store'[e] = IF e = d THEN item ELSE Store[e]
      OBVIOUS
    <3>1. PICK n \in Node :
            /\ node[n] = Absent
            /\ node' = [node EXCEPT ![n] = [domain |-> d, response |-> r, expiry |-> now + t]]
            /\ lookup' = [lookup EXCEPT ![d] = n]
      BY <2>2 DEF PutInsert
    <3>2. CASE e = d
      BY <3>1, <3>2, CacheAssumption DEF Store, IInv, TypeOK
    <3>3. CASE e # d
      <4>1. lookup'[e] = lookup[e]
        BY <3>1, <3>3 DEF IInv, TypeOK
      <4>2. lookup[e] # NoNode => node'[lookup[e]] = node[lookup[e]]
        BY <3>1, LiveNodes DEF IInv, TypeOK
      <4> QED
        BY <3>3, <4>1, <4>2 DEF Store
    <3> QED
      BY <3>2, <3>3
  <2> QED
    BY <2>1, <2>2
<1>3. Store' = [Store EXCEPT ![d] = Absent, ![d] = item]
  BY <1>2 DEF Store
<1>4. UNCHANGED <<ret, now>>
  BY DEF PutUpdate, PutInsert
<1> QED
  BY <1>1, <1>3, <1>4 DEF Abs!APut, Abs!AfterPut

\* A put() that evicts drops the domain at the end of the list.
LEMMA PutEvictRefines ==
  ASSUME IInv, IInv', NEW d \in Domain, NEW r \in Response, NEW t \in TTL, PutEvict(d, r, t)
  PROVE  Abs!APut(d, r, t)
<1> DEFINE last == Last(entries)
           v == node[last].domain
           item == [response |-> r, expiry |-> now + t]
<1>1. PICK n \in {m \in Node : node[m] = Absent} \cup {last} :
        /\ node' = [node EXCEPT ![last] = Absent,
                      ![n] = [domain |-> d, response |-> r, expiry |-> now + t]]
        /\ lookup' = [lookup EXCEPT ![v] = NoNode, ![d] = n]
  BY DEF PutEvict
<1>2. lookup[d] = NoNode /\ Len(entries) >= MaxSize /\ entries # <<>> /\ UNCHANGED <<ret, now>>
  BY DEF PutEvict
<1>3. last \in Node /\ node[last] # Absent /\ v \in Domain /\ lookup[v] = last
  BY <1>2, FrontIsErase, LiveNodes DEF IInv, Consistent, EntriesReachable
<1>4. n \in Node /\ (node[n] = Absent \/ n = last)
  BY <1>1, <1>3
<1>5. v \in Abs!Victims(Store, d)
  <2>1. v \in Abs!Present(Store)
    BY <1>3, StoreIs, CacheAssumption
  <2>2. Store[d] = Absent
    BY <1>2, StoreIs
  <2>3. Cardinality(Abs!Present(Store)) >= MaxSize
    BY <1>2, StoreSize
  <2> QED
    BY <2>1, <2>2, <2>3, SameCardinality DEF Abs!Victims
<1> HIDE DEF last, v
<1>6. \A e \in Domain : lookup'[e] = IF e = d THEN n ELSE IF e = v THEN NoNode ELSE lookup[e]
  BY <1>1, <1>3, <1>4 DEF IInv, TypeOK
<1>7. \A m \in Node : node'[m] =
        IF m = n THEN [domain |-> d, response |-> r, expiry |-> now + t]
        ELSE IF m = last THEN Absent ELSE node[m]
  BY <1>1, <1>3, <1>4 DEF IInv, TypeOK
<1>8. ASSUME NEW e \in Domain
      PROVE  Store'[e] = IF e = d THEN item ELSE IF e = v THEN Absent ELSE Store[e]
  <2>1. CASE e = d
    BY <1>4, <1>6, <1>7, <2>1, CacheAssumption DEF Store
  <2>2. CASE e # d /\ e = v
    BY <1>6, <2>2 DEF Store
  <2>3. CASE e # d /\ e # v
    <3>1. lookup'[e] = lookup[e]
      BY <1>6, <2>3
    <3>2. lookup[e] # NoNode => node'[lookup[e]] = node[lookup[e]]
      <4> SUFFICES ASSUME lookup[e] # NoNode PROVE node'[lookup[e]] = node[lookup[e]]
        OBVIOUS
      <4>1. /\ lookup[e] \in Node /\ node[lookup[e]] # Absent
            /\ node[lookup[e]].domain = e
        BY LiveNodes
      <4>2. lookup[e] # last
        BY <2>3, <4>1 DEF v
      <4> QED
        BY <1>4, <1>7, <4>1, <4>2
    <3> QED
      BY <2>3, <3>1, <3>2 DEF Store
  <2> QED
    BY <2>1, <2>2, <2>3
<1>9. Store' = [Store EXCEPT ![v] = Absent, ![d] = item]
  BY <1>8 DEF Store
<1> QED
  BY <1>2, <1>5, <1>9 DEF Abs!APut, Abs!AfterPut

\* The list and the hash map implement the bounded map with expiry times of
\* TTLCache: every call does to the map what lru_cache.hpp, lines 37-49,
\* says, whatever was called before.
THEOREM Refinement == Spec => ImplementsTTLCache
<1>1. Init => Abs!AInit
  BY InitRefines
<1>2. IInv /\ IInv' /\ [Next]_vars => [Abs!ANext]_(Abs!aVars)
  <2> SUFFICES ASSUME IInv, IInv', [Next]_vars PROVE [Abs!ANext]_(Abs!aVars)
    OBVIOUS
  <2>1. ASSUME NEW d \in Domain, GetMiss(d) \/ GetExpired(d) \/ GetHit(d) PROVE Abs!ANext
    BY <2>1, GetRefines DEF Abs!ANext
  <2>2. ASSUME NEW d \in Domain, NEW r \in Response, NEW t \in TTL,
               PutUpdate(d, r, t) \/ PutInsert(d, r, t) \/ PutEvict(d, r, t)
        PROVE  Abs!ANext
    BY <2>2, PutInPlaceRefines, PutEvictRefines DEF Abs!ANext
  <2>3. CASE Clear
    <3>1. Store' = Abs!EmptyStore
      BY <2>3 DEF Clear, Store, Abs!EmptyStore
    <3> QED
      BY <2>3, <3>1 DEF Clear, Abs!AClear, Abs!ANext
  <2>4. CASE Tick
    BY <2>4 DEF Tick, Store, Abs!ATick, Abs!ANext
  <2>5. CASE UNCHANGED vars
    BY <2>5 DEF vars, Store, Abs!aVars
  <2> QED
    BY <2>1, <2>2, <2>3, <2>4, <2>5 DEF Next
<1> QED
  BY <1>1, <1>2, Invariant, PTL DEF Spec, ImplementsTTLCache, Abs!ASpec
=============================================================================
