----------------------------- MODULE MCLRUCache -----------------------------
(* LRUCache with its counters bounded, for TLC. *)
EXTENDS LRUCache

CONSTANTS MaxUses, MaxMisses, MaxNow

\* The clock, the hits and puts, and the misses are counted up to a bound: a
\* state beyond it is checked but not explored further.
Bounds == now <= MaxNow /\ uses <= MaxUses /\ stats.misses <= MaxMisses

Symmetric == Permutations(Response) \cup Permutations(Node)
=============================================================================
