---------------------------- MODULE StatsReports ----------------------------
(***************************************************************************)
(* stats_loop() and api_loop() of src/dns/dns_server.cpp as readers of the *)
(* counters that the workers of DNSServer.tla change.  A report takes its  *)
(* numbers in three calls, each with a mutex of its own: cache_.stats(),   *)
(* logger_.get_stats(), cache_.size().  Queries go on in between.          *)
(*                                                                         *)
(* The server runs all the time here; how the two threads end is in        *)
(* Lifecycle.tla.                                                          *)
(***************************************************************************)
EXTENDS DNSServer

CONSTANT Reader        \* "stats" and "api", the two threads

ASSUME ReaderAssumption == Reader \subseteq {"stats", "api"}

VARIABLES at,          \* where each thread is
          report       \* the numbers it has taken for the report it makes

reporting == <<at, report>>
allVars == <<vars, reporting>>

\* hits and misses of CacheStats; the cached and the other queries of QueryStats;
\* and, as history, how many queries were then looked up and not yet logged, and
\* how many had been given up
NoReport == [hits |-> 0, misses |-> 0, cached |-> 0, others |-> 0, open |-> 0, lost |-> 0]

Open == {w \in Worker : pc[w] \in {"check", "resolve", "put", "log"}}

ReportsInit ==
  /\ Init
  /\ at = [r \in Reader |-> "wait"]
  /\ report = [r \in Reader |-> NoReport]

Move(r, from, to) == at[r] = from /\ at' = [at EXCEPT ![r] = to] /\ UNCHANGED vars
Take(r, numbers) == report' = [report EXCEPT ![r] = numbers]

-----------------------------------------------------------------------------
\* The statistics thread wakes up when the interval is over.
Interval == "stats" \in Reader /\ Move("stats", "wait", "stats") /\ UNCHANGED report

\* The API thread waits in accept() and then in recv(), both without a timeout.
Accept == "api" \in Reader /\ Move("api", "wait", "recv") /\ UNCHANGED report

\* The buffer is searched for "GET /stats", also when nothing was received and it
\* holds what happened to be there: a report is made or the dashboard is sent.
Request(answer) == "api" \in Reader /\ Move("api", "recv", answer) /\ UNCHANGED report

CacheStats(r, from, to) ==
  Move(r, from, to) /\ Take(r, [report[r] EXCEPT !.hits = hits, !.misses = misses])

GetStats(r, from, to) ==
  Move(r, from, to) /\ Take(r, [report[r] EXCEPT !.cached = log["CACHED"],
                                                !.others = Logged - log["CACHED"],
                                                !.open = Cardinality(Open), !.lost = failed])

\* A faulty variant: the two calls change places.
SnapshotSwapped(r) == GetStats(r, "stats", "logger") \/ CacheStats(r, "logger", "size")

Snapshot(r) == CacheStats(r, "stats", "logger") \/ GetStats(r, "logger", "size")

\* The rest of the numbers, and the line is logged or the answer sent.
CacheSize(r) == Move(r, "size", "wait") /\ Take(r, NoReport)

-----------------------------------------------------------------------------
ReadStep == \/ Interval \/ Accept \/ Request("stats") \/ Request("wait")
            \/ \E r \in Reader : Snapshot(r) \/ CacheSize(r)
Serve == Next /\ UNCHANGED reporting

ReportsNext == Serve \/ ReadStep
ReportsSpec == ReportsInit /\ [][ReportsNext]_allVars

-----------------------------------------------------------------------------
\* The types of the two variables, beside those of DNSServer.
ReportsTypeOK ==
  /\ TypeOK
  /\ at \in [Reader -> {"wait", "recv", "stats", "logger", "size"}]
  /\ report \in [Reader -> [hits : Nat, misses : Nat, cached : Nat, others : Nat,
                               open : Nat, lost : Nat]]

\* Although the numbers of a report are of different moments, the cache claims no
\* lookup that the log does not know, but for the queries that were under way when
\* the log was read: each hit has been logged as CACHED, each miss as another
\* action or given up.  It holds because the cache is read first, in both threads
\* (dns_server.cpp, lines 318-319 and 409-410).
LookupsAreLogged ==
  \A r \in Reader : at[r] = "size" =>
    /\ report[r].hits <= report[r].cached + report[r].open
    /\ report[r].misses <= report[r].others + report[r].lost + report[r].open
=============================================================================
