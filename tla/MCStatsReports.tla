--------------------------- MODULE MCStatsReports ---------------------------
(* StatsReports with its counters bounded, for TLC. *)
EXTENDS StatsReports

CONSTANTS MaxQueries, MaxErrors

\* As many queries as MaxQueries; time passes only while somebody waits, which
\* bounds the clock as well.
BoundedServe ==
  \/ \E w \in Worker : \/ Work(w) \/ Upstream(w)
                       \/ errors < MaxErrors /\ Malformed(w)
                       \/ total < MaxQueries /\ \E q \in Query : Receive(w, q)
  \/ ReloadClear \/ Reload
  \/ Resolving # {} /\ Tick

\* The two readers share nothing: one of them at a time makes a report.
OneReport == \A r, s \in Reader : at[r] # "wait" /\ at[s] # "wait" => r = s

LiveSpec ==
  /\ ReportsInit
  /\ [][(BoundedServe /\ UNCHANGED reporting) \/ (ReadStep /\ OneReport')]_allVars
  /\ Fairness
=============================================================================
