------------------------------ MODULE CacheOps ------------------------------
(***************************************************************************)
(* What one call of the response cache does, as operators on a store: a    *)
(* function from domains to entries.  TTLCache.tla makes a state machine   *)
(* of them, DNSServer.tla uses them for the cache its workers share, and   *)
(* LRUCache.tla, the list and hash map of src/cache/lru_cache.cpp, is      *)
(* shown to implement them.                                                *)
(***************************************************************************)
EXTENDS Naturals, FiniteSets

CONSTANTS Domain,      \* domain names, the keys
          MaxSize,     \* max_size_
          Absent       \* a domain without an entry

Present(s) == {d \in Domain : s[d] # Absent}

\* An entry is served up to and including its expiry second.
Fresh(s, d, t) == s[d] # Absent /\ t <= s[d].expiry

\* get() drops the entry it finds expired.
AfterGet(s, d, t) == IF Fresh(s, d, t) THEN s ELSE [s EXCEPT ![d] = Absent]

\* put() of a new domain first drops one entry of a full cache.  Which one is
\* left open here.
Victims(s, d) ==
  IF s[d] = Absent /\ Present(s) # {} /\ Cardinality(Present(s)) >= MaxSize
  THEN Present(s) ELSE {d}

AfterPut(s, d, item, v) == [s EXCEPT ![v] = Absent, ![d] = item]

EmptyStore == [d \in Domain |-> Absent]
=============================================================================
