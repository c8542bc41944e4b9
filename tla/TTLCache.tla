------------------------------ MODULE TTLCache ------------------------------
(***************************************************************************)
(* What LRUCache promises to its callers (src/cache/lru_cache.hpp): a      *)
(* partial map from domains to responses, each with a time after which it  *)
(* is no longer served, that holds a bounded number of domains.            *)
(***************************************************************************)
EXTENDS CacheOps

CONSTANTS Response,    \* the cached response bytes
          TTL,         \* the values put() receives as ttl_seconds
          nullopt      \* get() found nothing

VARIABLES store,       \* the entry of each domain, or Absent
          ret,         \* what the last get() returned
          now          \* steady_clock::now(), in seconds

aVars == <<store, ret, now>>

AInit == /\ store = EmptyStore
         /\ ret = nullopt
         /\ now = 0

AGet(d) == /\ ret' = IF Fresh(store, d, now) THEN store[d].response ELSE nullopt
           /\ store' = AfterGet(store, d, now)
           /\ UNCHANGED now

APut(d, r, t) ==
  /\ \E v \in Victims(store, d) :
       store' = AfterPut(store, d, [response |-> r, expiry |-> now + t], v)
  /\ UNCHANGED <<ret, now>>

AClear == store' = EmptyStore /\ UNCHANGED <<ret, now>>

ATick == now' = now + 1 /\ UNCHANGED <<store, ret>>

ANext == \/ \E d \in Domain : AGet(d)
         \/ \E d \in Domain, r \in Response, t \in TTL : APut(d, r, t)
         \/ AClear
         \/ ATick

ASpec == AInit /\ [][ANext]_aVars
=============================================================================
