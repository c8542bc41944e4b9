----------------------------- MODULE DNSServer -----------------------------
(***************************************************************************)
(* handle_query() of src/dns/dns_server.cpp on every worker of the pool,   *)
(* with what the workers share: the response cache, the blocklist, the     *)
(* counters and the logger; and reload_handler() of src/main.cpp, which    *)
(* replaces the lists while the workers run.                               *)
(*                                                                         *)
(* The cache, the lists and the logger lock their own mutex in each call,  *)
(* so a call is one step and a query is a sequence of such steps.  Between *)
(* two steps of a worker the other workers and the reload may run.  The    *)
(* cache is the one of CacheOps.tla: which entry is evicted is left open.  *)
(***************************************************************************)
EXTENDS CacheOps

CONSTANTS Worker,      \* the pool's threads
          QType,       \* types of question: A, AAAA, MX ...
          AddressType, \* those of addresses: A and AAAA
          Id,          \* transaction ids
          LongTTL,     \* 300, of an answer
          ShortTTL,    \* 60, of an NXDOMAIN
          Timeout,     \* UpstreamResolver::TIMEOUT_SECONDS
          BlockFiles,  \* what blocklist.txt may hold when it is read
          WhiteFiles,  \* what whitelist.txt may hold when it is read
          OpenMayFail, \* may one of the two files be missing?
          Never, None

ASSUME ServerAssumption ==
  /\ IsFiniteSet(Worker)
  /\ AddressType \subseteq QType
  /\ ShortTTL \in Nat /\ LongTTL \in Nat /\ ShortTTL <= LongTTL /\ Timeout \in Nat
  /\ BlockFiles \subseteq SUBSET Domain /\ WhiteFiles \subseteq SUBSET Domain
  /\ OpenMayFail \in BOOLEAN
  /\ Never \notin Nat

VARIABLES now,         \* seconds
          cache,       \* cache_
          hits, misses,   \* its CacheStats
          blocked, white, \* the domains the blocklist and the whitelist match
          rpc,         \* where reload_handler() is
          blockedSince,   \* history: since when is_blocked() holds of a domain
          pc,          \* where each worker is in handle_query()
          query,       \* the question it handles
          reply,       \* the response it holds, then the one it sent
          action,      \* what it logs
          since,       \* when it called resolve()
          total,       \* total_queries_
          count,       \* the other five counters of DNSServer
          log,         \* the logger's stats_, by action
          errors,      \* its error_count
          failed       \* history: queries given up without a reply

lists == <<blocked, white, rpc, blockedSince>>
cacheVars == <<cache, hits, misses>>
worker == <<pc, query, reply, action, since>>
stats == <<total, count, log, errors, failed>>
vars == <<now, lists, cacheVars, worker, stats>>

\* NOERROR stands for all other codes.  SHORT is an answer too short for the id
\* to be patched, for which get_rcode() returns 0xFF.
Rcode == {"NOERROR", "NXDOMAIN", "SERVFAIL", "SHORT"}
Action == {"CACHED", "BLOCKED", "ALLOWED", "NXDOMAIN", "SERVFAIL"}
Query == [domain : Domain, qtype : QType, id : Id]
Answer == [domain : Domain, qtype : QType, id : Id, rcode : Rcode]
WorkerPC == {"idle", "lookup", "check", "resolve", "put", "log", "count"}

\* is_blocked(): the whitelist wins.  That a listed domain also covers its
\* subdomains and that patterns cover what they match is part of what the two
\* sets stand for.
IsBlocked(d) == d \in blocked /\ d \notin white

ToQuery(a, id) == IF a.rcode = "SHORT" THEN a ELSE [a EXCEPT !.id = id]
AnswerTo(q, rc) == [domain |-> q.domain, qtype |-> q.qtype, id |-> q.id, rcode |-> rc]
\* build_blocked_response(): an all-zeros address, or NXDOMAIN for other types
Sinkhole(q) == AnswerTo(q, IF q.qtype \in AddressType THEN "NOERROR" ELSE "NXDOMAIN")
TTLOf(rc) == IF rc = "NXDOMAIN" THEN ShortTTL ELSE LongTTL

\* What a file may hold when it is opened; nothing when it cannot be.
Read(files) == files \cup (IF OpenMayFail THEN {{}} ELSE {})

-----------------------------------------------------------------------------
\* main() has loaded both lists; it goes on without a list it cannot open.
Init ==
  /\ now = 0
  /\ cache = EmptyStore /\ hits = 0 /\ misses = 0
  /\ blocked \in Read(BlockFiles) /\ white \in Read(WhiteFiles)
  /\ rpc = "idle"
  /\ blockedSince = [d \in Domain |-> IF IsBlocked(d) THEN 0 ELSE Never]
  /\ pc = [w \in Worker |-> "idle"]
  /\ query = [w \in Worker |-> None]
  /\ reply = [w \in Worker |-> None]
  /\ action = [w \in Worker |-> None]
  /\ since = [w \in Worker |-> Never]
  /\ total = 0
  /\ count = [a \in Action |-> 0]
  /\ log = [a \in Action |-> 0]
  /\ errors = 0 /\ failed = 0

Goto(w, label) == pc' = [pc EXCEPT ![w] = label]

\* sendto(), then on to log_query()
Send(w, a, what) ==
  /\ reply' = [reply EXCEPT ![w] = a]
  /\ action' = [action EXCEPT ![w] = what]
  /\ Goto(w, "log")

\* handle_query() returns: its locals are gone.
Return(w) ==
  /\ Goto(w, "idle")
  /\ query' = [query EXCEPT ![w] = None]
  /\ reply' = [reply EXCEPT ![w] = None]
  /\ action' = [action EXCEPT ![w] = None]
  /\ since' = [since EXCEPT ![w] = Never]

-----------------------------------------------------------------------------
\* Faulty variants of some steps: with one of them in place of the operation it is named
\* after, TLC finds a property violated (PROJECT.json says which).

\* The id of the client that filled the cache is left in the answer.
LookupHitOldId(w) ==
  LET q == query[w] IN
  /\ pc[w] = "lookup" /\ Fresh(cache, q.domain, now)
  /\ hits' = hits + 1
  /\ Send(w, cache[q.domain].response, "CACHED")
  /\ UNCHANGED <<now, lists, cache, misses, query, since, stats>>

\* A hit renews the entry.
LookupHitRenews(w) ==
  LET q == query[w]
      a == cache[q.domain].response IN
  /\ pc[w] = "lookup" /\ Fresh(cache, q.domain, now)
  /\ hits' = hits + 1
  /\ cache' = [cache EXCEPT ![q.domain].expiry = now + TTLOf(a.rcode)]
  /\ Send(w, ToQuery(a, q.id), "CACHED")
  /\ UNCHANGED <<now, lists, misses, query, since, stats>>

\* An entry that is found expired is no miss.
LookupMissUncounted(w) ==
  LET q == query[w] IN
  /\ pc[w] = "lookup" /\ ~Fresh(cache, q.domain, now)
  /\ cache' = AfterGet(cache, q.domain, now)
  /\ misses' = IF cache[q.domain] = Absent THEN misses + 1 ELSE misses
  /\ Goto(w, "check")
  /\ UNCHANGED <<now, lists, hits, query, reply, action, since, stats>>

\* A SERVFAIL is cached.
ResolveServfailCached(w) ==
  /\ pc[w] = "resolve"
  /\ reply' = [reply EXCEPT ![w] = AnswerTo(query[w], "SERVFAIL")]
  /\ Goto(w, "put")
  /\ UNCHANGED <<now, lists, cacheVars, query, action, since, stats>>

\* The socket has no SO_RCVTIMEO.
ResolveForever(w) == pc[w] = "resolve" /\ FALSE /\ UNCHANGED vars

\* The code is logged for the action.
PutLogsCode(w) ==
  LET a == reply[w]
      entry == [response |-> a, expiry |-> now + TTLOf(a.rcode)] IN
  /\ pc[w] = "put"
  /\ \E v \in Victims(cache, a.domain) : cache' = AfterPut(cache, a.domain, entry, v)
  /\ Send(w, ToQuery(a, query[w].id), a.rcode)
  /\ UNCHANGED <<now, lists, hits, misses, query, since, stats>>

-----------------------------------------------------------------------------
\* parse_packet() throws.  (A packet without a domain changes nothing.)
Malformed(w) ==
  /\ pc[w] = "idle"
  /\ errors' = errors + 1
  /\ UNCHANGED <<now, lists, cacheVars, worker, total, count, log, failed>>

Receive(w, q) ==
  /\ pc[w] = "idle"
  /\ query' = [query EXCEPT ![w] = q]
  /\ total' = total + 1
  /\ Goto(w, "lookup")
  /\ UNCHANGED <<now, lists, cacheVars, reply, action, since, count, log, errors, failed>>

LookupHit(w) ==
  LET q == query[w] IN
  /\ pc[w] = "lookup" /\ Fresh(cache, q.domain, now)
  /\ hits' = hits + 1
  /\ Send(w, ToQuery(cache[q.domain].response, q.id), "CACHED")
  /\ UNCHANGED <<now, lists, cache, misses, query, since, stats>>

LookupMiss(w) ==
  LET q == query[w] IN
  /\ pc[w] = "lookup" /\ ~Fresh(cache, q.domain, now)
  /\ cache' = AfterGet(cache, q.domain, now)
  /\ misses' = misses + 1
  /\ Goto(w, "check")
  /\ UNCHANGED <<now, lists, hits, query, reply, action, since, stats>>

CheckBlocked(w) ==
  /\ pc[w] = "check" /\ IsBlocked(query[w].domain)
  /\ Send(w, Sinkhole(query[w]), "BLOCKED")
  /\ UNCHANGED <<now, lists, cacheVars, query, since, stats>>

CheckAllowed(w) ==
  /\ pc[w] = "check" /\ ~IsBlocked(query[w].domain)
  /\ since' = [since EXCEPT ![w] = now]
  /\ Goto(w, "resolve")
  /\ UNCHANGED <<now, lists, cacheVars, query, reply, action, stats>>

\* The upstream server answers.  SERVFAIL is passed on and not cached.
ResolveServfail(w) ==
  /\ pc[w] = "resolve"
  /\ Send(w, ToQuery(AnswerTo(query[w], "SERVFAIL"), query[w].id), "SERVFAIL")
  /\ UNCHANGED <<now, lists, cacheVars, query, since, stats>>

ResolveAnswer(w, rc) ==
  /\ pc[w] = "resolve" /\ rc # "SERVFAIL"
  /\ reply' = [reply EXCEPT ![w] = AnswerTo(query[w], rc)]
  /\ Goto(w, "put")
  /\ UNCHANGED <<now, lists, cacheVars, query, action, since, stats>>

\* resolve() throws, and the catch clause logs an error: no reply is sent.
GiveUp(w) ==
  /\ errors' = errors + 1
  /\ failed' = failed + 1
  /\ Return(w)
  /\ UNCHANGED <<now, lists, cacheVars, total, count, log>>

ResolveError(w) == pc[w] = "resolve" /\ GiveUp(w)     \* a socket call failed
ResolveTimeout(w) == pc[w] = "resolve" /\ now >= since[w] + Timeout /\ GiveUp(w)

Put(w) ==
  LET a == reply[w]
      entry == [response |-> a, expiry |-> now + TTLOf(a.rcode)] IN
  /\ pc[w] = "put"
  /\ \E v \in Victims(cache, a.domain) : cache' = AfterPut(cache, a.domain, entry, v)
  /\ Send(w, ToQuery(a, query[w].id), IF a.rcode = "NXDOMAIN" THEN "NXDOMAIN" ELSE "ALLOWED")
  /\ UNCHANGED <<now, lists, hits, misses, query, since, stats>>

LogQuery(w) ==
  /\ pc[w] = "log"
  /\ log' = [log EXCEPT ![action[w]] = @ + 1]
  /\ Goto(w, "count")
  /\ UNCHANGED <<now, lists, cacheVars, query, reply, action, since, total, count, errors, failed>>

CountQuery(w) ==
  /\ pc[w] = "count"
  /\ count' = [count EXCEPT ![action[w]] = @ + 1]
  /\ Return(w)
  /\ UNCHANGED <<now, lists, cacheVars, total, log, errors, failed>>

-----------------------------------------------------------------------------
\* reload_handler(): three calls, each with the blocklist's mutex held.  The
\* results of the last two are not looked at.

SetLists(b, wl) ==
  /\ blocked' = b /\ white' = wl
  /\ blockedSince' = [d \in Domain |-> IF d \in b /\ d \notin wl
                                       THEN IF IsBlocked(d) THEN blockedSince[d] ELSE now
                                       ELSE Never]
  /\ UNCHANGED <<now, cacheVars, worker, stats>>

ReloadClear ==
  rpc = "idle" /\ rpc' = "load" /\ SetLists({}, {})

ReloadLoad(f) ==
  rpc = "load" /\ rpc' = "loadWhitelist" /\ SetLists(blocked \cup f, white)

ReloadLoadWhitelist(f) ==
  rpc = "loadWhitelist" /\ rpc' = "idle" /\ SetLists(blocked, white \cup f)

\* Time passes while the workers wait for work or for an answer from upstream,
\* for Timeout seconds at most.  A worker's other steps take no time to speak of.
Tick ==
  /\ \A w \in Worker : \/ pc[w] = "idle"
                       \/ pc[w] = "resolve" /\ now < since[w] + Timeout
  /\ now' = now + 1
  /\ UNCHANGED <<lists, cacheVars, worker, stats>>

-----------------------------------------------------------------------------
\* The steps a worker takes without waiting for anybody
Work(w) ==
  \/ LookupHit(w) \/ LookupMiss(w) \/ CheckBlocked(w) \/ CheckAllowed(w)
  \/ ResolveTimeout(w) \/ Put(w) \/ LogQuery(w) \/ CountQuery(w)

Upstream(w) ==
  ResolveServfail(w) \/ ResolveError(w) \/ \E rc \in Rcode : ResolveAnswer(w, rc)

Reload == \/ \E f \in Read(BlockFiles) : ReloadLoad(f)
          \/ \E f \in Read(WhiteFiles) : ReloadLoadWhitelist(f)

Arrive(w) == Malformed(w) \/ \E q \in Query : Receive(w, q)

Next == \/ \E w \in Worker : Work(w) \/ Upstream(w) \/ Arrive(w)
        \/ ReloadClear \/ Reload
        \/ Tick

Spec == Init /\ [][Next]_vars

\* A worker that is not waiting goes on, time passes for the one that waits, and
\* a reload that was begun is finished.  Upstream owes nobody an answer.
Resolving == {w \in Worker : pc[w] = "resolve"}
Fairness == /\ \A w \in Worker : WF_vars(Work(w))
            /\ WF_vars(Resolving # {} /\ Tick)
            /\ WF_vars(Reload)

-----------------------------------------------------------------------------
\* The type of every variable.
Entry == [response : Answer, expiry : Nat]

TypeOK ==
  /\ now \in Nat
  /\ cache \in [Domain -> Entry \cup {Absent}] /\ hits \in Nat /\ misses \in Nat
  /\ blocked \subseteq Domain /\ white \subseteq Domain
  /\ rpc \in {"idle", "load", "loadWhitelist"}
  /\ blockedSince \in [Domain -> Nat \cup {Never}]
  /\ pc \in [Worker -> WorkerPC]
  /\ query \in [Worker -> Query \cup {None}]
  /\ reply \in [Worker -> Answer \cup {None}]
  /\ action \in [Worker -> Action \cup {None}]
  /\ since \in [Worker -> Nat \cup {Never}]
  /\ total \in Nat /\ count \in [Action -> Nat] /\ log \in [Action -> Nat]
  /\ errors \in Nat /\ failed \in Nat

Sent(w) == pc[w] \in {"log", "count"}
At(label) == {w \in Worker : pc[w] = label}

\* A client gets an answer about the domain it asked for and with its own id,
\* also when the answer was fetched for another client and comes from the cache,
\* unless upstream's answer was too short to hold an id (dns_server.cpp, 226-230,
\* 273-276).
ReplyMatchesQuery ==
  \A w \in Worker : Sent(w) =>
    /\ reply[w].domain = query[w].domain
    /\ reply[w].rcode # "SHORT" => reply[w].id = query[w].id

\* With workers that miss the same domain at the same time and put its answer
\* one after the other, the cache holds under each domain an answer about that
\* domain, never a SERVFAIL, and an NXDOMAIN for ShortTTL seconds at most
\* (dns_server.cpp, 254-270).
CacheSound ==
  \A d \in Present(cache) :
    LET a == cache[d].response IN
    /\ a.domain = d
    /\ a.rcode # "SERVFAIL"
    /\ cache[d].expiry <= now + TTLOf(a.rcode)

\* A domain that becomes blocked by a reload is answered from upstream for a
\* bounded time only: the queries that passed is_blocked() before may wait for
\* Timeout seconds and then cache the answer for LongTTL seconds, because the
\* cache is asked before the blocklist and no reload empties it.
BlockTakesEffect ==
  \A w \in Worker :
    LET d == query[w].domain IN
    pc[w] = "log" /\ action[w] # "BLOCKED" /\ IsBlocked(d) =>
      now <= blockedSince[d] + Timeout + (IF action[w] = "CACHED" THEN LongTTL ELSE 0)

\* Whatever the workers do between each other's steps, no query is counted twice
\* or forgotten: every counted query is in flight, logged once or given up, and
\* only those given up have no record in the log (dns_server.cpp, lines 287-291:
\* EveryQueryLogged, below, is what the documentation says of them); it was looked
\* up once; the cache's hits are the queries logged as CACHED; and the counters of
\* the server follow those of the logger.
Logged == log["CACHED"] + log["BLOCKED"] + log["ALLOWED"] + log["NXDOMAIN"] + log["SERVFAIL"]

Accounting ==
  /\ total = Logged + failed
             + Cardinality({w \in Worker : pc[w] \notin {"idle", "count"}})
  /\ total = hits + misses + Cardinality(At("lookup"))
  /\ hits = log["CACHED"] + Cardinality({w \in At("log") : action[w] = "CACHED"})
  /\ \A a \in Action : log[a] = count[a] + Cardinality({w \in At("count") : action[w] = a})
  /\ failed <= errors

\* Every query comes to an end, answered or given up, although upstream may never
\* answer and reloads may come at any time: the timeout of the socket sees to it.
EveryQueryEnds == \A w \in Worker : pc[w] # "idle" ~> pc[w] = "idle"

-----------------------------------------------------------------------------
\* What the documentation says and the code does not do.

\* The server answers the type of question it was asked ("Handles A, AAAA, MX,
\* TXT, and CNAME records", README.md, line 40).
AnswersTheType == \A w \in Worker : Sent(w) => reply[w].qtype = query[w].qtype

\* Every query that was counted and is not in flight has a record of its own: "Log
\* every query with domain, action (BLOCKED/ALLOWED/CACHED), client IP, and
\* timestamp" (docs/requirements.md, line 9).
EveryQueryLogged ==
  total = Logged + Cardinality({w \in Worker : pc[w] \notin {"idle", "count"}})
=============================================================================
