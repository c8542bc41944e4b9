----------------------------- MODULE Benchmark -----------------------------
(***************************************************************************)
(* tools/benchmark.cpp: main() shares its queries among threads, each of   *)
(* which sends them over a socket of its own, one after the other, and     *)
(* waits for an answer; then main() joins the threads and reports.         *)
(*                                                                         *)
(* The network and the server may lose a query or its answer, or bring the *)
(* answer at any later time.  The receive timeout is a step of its own.    *)
(* send_query() takes the next datagram that comes for the answer, without *)
(* a look at its transaction id.                                           *)
(***************************************************************************)
EXTENDS Integers, Sequences, FiniteSets, Functions

CONSTANTS MaxQueries, MaxThreads,   \* bounds on the arguments --queries and --threads
          Latency,                  \* what the clock may measure, in microseconds
          Blocked, Allowed, Cached  \* how many domains each list holds: 8

ASSUME BenchmarkAssumption ==
  /\ MaxQueries \in Nat /\ MaxThreads \in Nat
  /\ Latency \subseteq Nat
  /\ Blocked \in Nat \ {0} /\ Allowed \in Nat \ {0} /\ Cached \in Nat \ {0}

VARIABLES queries, threads,     \* the arguments, 0 for any that is not positive
          host_ok,              \* does inet_pton() accept --host?
          mpc, next,            \* where main() is, and the thread it launches or joins next
          tpc,                  \* where each thread is
          i,                    \* the loop variable of each thread
          coming,               \* the queries of which an answer may still come to its socket
          local_latencies,
          latencies_out,        \* all_latencies of main()
          count, us_total,      \* the six atomic counters, by category
          missed                \* history: how many queries of each thread got no answer in time

args == <<queries, threads, host_ok>>
main == <<mpc, next>>
sums == <<latencies_out, count, us_total>>
vars == <<args, main, tpc, i, coming, local_latencies, sums, missed>>

Thread == 1..threads
Category == {"blocked", "allowed", "cached"}

\* Round-robin over the three lists
CategoryOf(n) ==
  LET idx == n % (Blocked + Allowed + Cached) IN
  IF idx < Blocked THEN "blocked" ELSE IF idx < Blocked + Allowed THEN "allowed" ELSE "cached"

\* The last thread gets what is left over.
Share(q, n, t) == q \div n + (IF t = n THEN q % n ELSE 0)
ShareOf(t) == Share(queries, threads, t)

-----------------------------------------------------------------------------
Init ==
  /\ queries \in 0..MaxQueries /\ threads \in 0..MaxThreads /\ host_ok \in BOOLEAN
  /\ mpc = "args" /\ next = 1
  /\ tpc = [t \in Thread |-> "none"]
  /\ i = [t \in Thread |-> 0]
  /\ coming = [t \in Thread |-> {}]
  /\ local_latencies = [t \in Thread |-> <<>>]
  /\ latencies_out = <<>>
  /\ count = [c \in Category |-> 0] /\ us_total = [c \in Category |-> 0]
  /\ missed = [t \in Thread |-> 0]

-----------------------------------------------------------------------------
\* main()

Main(from, to) ==
  mpc = from /\ mpc' = to /\ UNCHANGED <<args, i, coming, local_latencies, sums, missed>>

Usage == (queries = 0 \/ threads = 0) /\ Main("args", "exited") /\ UNCHANGED <<next, tpc>>

Begin == queries > 0 /\ threads > 0 /\ Main("args", "launch") /\ UNCHANGED <<next, tpc>>

\* On to the next thread, or from the first one with what comes after
Advance(from, to) ==
  IF next < threads THEN Main(from, from) /\ next' = next + 1 ELSE Main(from, to) /\ next' = 1

Launch == Advance("launch", "join") /\ tpc' = [tpc EXCEPT ![next] = "socket"]

Join == mpc = "join" /\ tpc[next] = "done" /\ Advance("join", "report") /\ UNCHANGED tpc

Report == Main("report", "exited") /\ UNCHANGED <<next, tpc>>

-----------------------------------------------------------------------------
\* worker_thread()

Go(t, from, to) == tpc[t] = from /\ tpc' = [tpc EXCEPT ![t] = to] /\ UNCHANGED <<args, main>>

\* socket() or inet_pton() fails, and the thread returns.
NoSocket(t) == Go(t, "socket", "done") /\ UNCHANGED <<i, coming, local_latencies, sums, missed>>

Socket(t) ==
  /\ host_ok /\ Go(t, "socket", "loop")
  /\ UNCHANGED <<i, coming, local_latencies, sums, missed>>

Send(t) ==
  /\ i[t] < ShareOf(t) /\ Go(t, "loop", "recv")
  /\ coming' = [coming EXCEPT ![t] = @ \cup {i[t]}]
  /\ UNCHANGED <<i, local_latencies, sums, missed>>

\* send_query() returns -1: the loop goes on with the next query.
NoAnswer(t) ==
  /\ i' = [i EXCEPT ![t] = @ + 1]
  /\ missed' = [missed EXCEPT ![t] = @ + 1]
  /\ UNCHANGED <<coming, local_latencies, sums>>

SendFails(t) == i[t] < ShareOf(t) /\ Go(t, "loop", "loop") /\ NoAnswer(t)

\* Faulty variants: a timeout waits again for the same answer; the thread returns
\* on a timeout; the threads share a socket.
TimeoutRepeats(t) == Go(t, "recv", "recv") /\ UNCHANGED vars
TimeoutReturns(t) == Go(t, "recv", "done") /\ NoAnswer(t)
ReceiveShared(t, n, lat) ==
  /\ \E u \in Thread :
       /\ n \in coming[u]
       /\ coming' = [coming EXCEPT ![u] = @ \ {n}]
  /\ Go(t, "recv", "count")
  /\ local_latencies' = [local_latencies EXCEPT ![t] = Append(@, lat)]
  /\ UNCHANGED <<i, sums, missed>>

Timeout(t) == Go(t, "recv", "loop") /\ NoAnswer(t)

Receive(t, n, lat) ==
  /\ n \in coming[t] /\ Go(t, "recv", "count")
  /\ coming' = [coming EXCEPT ![t] = @ \ {n}]
  /\ local_latencies' = [local_latencies EXCEPT ![t] = Append(@, lat)]
  /\ UNCHANGED <<i, sums, missed>>

CountQuery(t) ==
  /\ Go(t, "count", "add")
  /\ count' = [count EXCEPT ![CategoryOf(i[t])] = @ + 1]
  /\ UNCHANGED <<i, coming, local_latencies, latencies_out, us_total, missed>>

AddTime(t) ==
  /\ Go(t, "add", "loop")
  /\ LET lat == local_latencies[t][Len(local_latencies[t])] IN
     us_total' = [us_total EXCEPT ![CategoryOf(i[t])] = @ + lat]
  /\ i' = [i EXCEPT ![t] = @ + 1]
  /\ UNCHANGED <<coming, local_latencies, latencies_out, count, missed>>

Close(t) ==
  /\ i[t] >= ShareOf(t) /\ Go(t, "loop", "merge")
  /\ coming' = [coming EXCEPT ![t] = {}]
  /\ UNCHANGED <<i, local_latencies, sums, missed>>

\* With the mutex held
Merge(t) ==
  /\ Go(t, "merge", "done")
  /\ latencies_out' = latencies_out \o local_latencies[t]
  /\ UNCHANGED <<i, coming, local_latencies, count, us_total, missed>>

-----------------------------------------------------------------------------
\* The network or the server loses a query or its answer.
Lose(t, n) ==
  /\ n \in coming[t] /\ coming' = [coming EXCEPT ![t] = @ \ {n}]
  /\ UNCHANGED <<args, main, tpc, i, local_latencies, sums, missed>>

MainStep == Usage \/ Begin \/ Launch \/ Join \/ Report

ThreadStep(t) ==
  \/ NoSocket(t) \/ Socket(t) \/ Send(t) \/ SendFails(t) \/ Timeout(t)
  \/ CountQuery(t) \/ AddTime(t) \/ Close(t) \/ Merge(t)

Answer(t) == \E n \in coming[t] : Lose(t, n) \/ \E lat \in Latency : Receive(t, n, lat)

Exited == mpc = "exited" /\ UNCHANGED vars

Next == MainStep \/ (\E t \in Thread : ThreadStep(t) \/ Answer(t)) \/ Exited

\* Every thread goes on; the network owes nobody anything.
Spec == /\ Init /\ [][Next]_vars
        /\ WF_vars(MainStep)
        /\ \A t \in 1..MaxThreads : WF_vars(t \in Thread /\ ThreadStep(t))

-----------------------------------------------------------------------------
\* What main() prints

\* The element at index idx, from 0, of s once it is sorted
Sorted(s, idx) ==
  CHOOSE v \in Range(s) : /\ Cardinality({n \in 1..Len(s) : s[n] < v}) <= idx
                          /\ idx < Cardinality({n \in 1..Len(s) : s[n] <= v})

\* Faulty variant: the vector is not sorted.
percentileUnsorted(s, pct) ==
  IF s = <<>> THEN 0 ELSE s[(pct * (Len(s) - 1) + 50) \div 100 + 1]

\* The index pct / 100 * (size - 1), rounded; the rounding errors of the doubles
\* are left out.
percentile(s, pct) ==
  IF s = <<>> THEN 0
  ELSE LET idx == (pct * (Len(s) - 1) + 50) \div 100 IN
       Sorted(s, IF idx >= Len(s) THEN Len(s) - 1 ELSE idx)

back(s) == Sorted(s, Len(s) - 1)

-----------------------------------------------------------------------------
\* The type of every variable.
TypeOK ==
  /\ queries \in 0..MaxQueries /\ threads \in 0..MaxThreads /\ host_ok \in BOOLEAN
  /\ mpc \in {"args", "launch", "join", "report", "exited"} /\ next \in 1..(MaxThreads + 1)
  /\ tpc \in [Thread -> {"none", "socket", "loop", "recv", "count", "add", "merge", "done"}]
  /\ i \in [Thread -> Nat] /\ \A t \in Thread : i[t] <= ShareOf(t)
  /\ coming \in [Thread -> SUBSET Nat]
  /\ local_latencies \in [Thread -> Seq(Latency)] /\ latencies_out \in Seq(Latency)
  /\ count \in [Category -> Nat] /\ us_total \in [Category -> Nat]
  /\ missed \in [Thread -> Nat]

\* No latency is measured with an answer to another query unless an earlier query
\* of the same thread was given up: at most so many answers to earlier queries can
\* still come to its socket (benchmark.cpp, lines 108-131, 203).
StaleAnswers ==
  \A t \in Thread : Cardinality({n \in coming[t] : n # i[t]}) <= missed[t]

\* What main() reports agrees, although the threads update the counters of a
\* category one after the other, merge at different times, or return early: each
\* query is completed, was given up, or is in the share of a thread without a
\* socket; the categories count the completed ones and add up their latencies
\* (lines 205-225, 325-369).
Total(f) == FoldFunction(LAMBDA x, y : x + y, 0, f)
NotSent == Total([t \in Thread |-> ShareOf(t) - i[t]])

ReportAgrees ==
  mpc = "report" =>
    /\ queries = Len(latencies_out) + Total(missed) + NotSent
    /\ Len(latencies_out) = Total(count)
    /\ Total(latencies_out) = Total(us_total)

\* A thread without a socket or with a share of none leaves the report without
\* latencies, and else the percentiles are latencies in increasing order, up to
\* the greatest one (lines 232-237, 351-357).
PercentilesInOrder ==
  mpc = "report" /\ latencies_out # <<>> =>
    LET p == <<percentile(latencies_out, 50), percentile(latencies_out, 90),
               percentile(latencies_out, 95), percentile(latencies_out, 99), back(latencies_out)>>
    IN /\ \A n \in 1..4 : p[n] <= p[n + 1]
       /\ Range(p) \subseteq Range(latencies_out)
       /\ \A v \in Range(latencies_out) : v <= p[5]

\* The run ends although the server may answer nothing at all.
BenchmarkEnds == <>(mpc = "exited")
=============================================================================
