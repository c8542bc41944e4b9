---------------------------- MODULE MCDNSServer ----------------------------
(* DNSServer with its counters bounded, for TLC. *)
EXTENDS DNSServer, TLC

CONSTANTS MaxQueries, MaxErrors, MaxNow

\* A state beyond the bounds is checked but not explored further.
Bounds == total <= MaxQueries /\ errors <= MaxErrors /\ now <= MaxNow

Symmetric == Permutations(Worker) \cup Permutations(Id)
=============================================================================
