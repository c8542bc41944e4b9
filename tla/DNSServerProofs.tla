-------------------------- MODULE DNSServerProofs --------------------------
(***************************************************************************)
(* Theorems about DNSServer and, at the end, StatsReports, for every       *)
(* number of workers, every set of domains, ids and types, and all TTLs,   *)
(* timeouts and files.                                                     *)
(*                                                                         *)
(* The inductive invariant says of each worker what it knows at the place  *)
(* where it is: the answer it holds is about its own question, and the     *)
(* question was allowed when the worker called resolve(), no more than     *)
(* Timeout seconds ago.  That, with the expiry of the entries of a blocked *)
(* domain, is what bounds the time for which a block has no effect.        *)
(***************************************************************************)
EXTENDS StatsReports, FiniteSetTheorems, TLAPS

\* A worker that asks upstream passed is_blocked() at most Timeout seconds ago,
\* before the domain was blocked if it is blocked now.
AskedInTime(w) ==
  LET d == query[w].domain IN
  /\ since[w] \in Nat /\ since[w] <= now /\ now <= since[w] + Timeout
  /\ IsBlocked(d) => since[w] <= blockedSince[d]

\* The answer that a worker holds, and the one it has sent
Fetched(w) ==
  reply[w] \in Answer /\ reply[w].domain = query[w].domain /\ reply[w].rcode # "SERVFAIL"
Answered(w) ==
  /\ action[w] \in Action
  /\ reply[w] \in Answer /\ reply[w].domain = query[w].domain
  /\ reply[w].rcode # "SHORT" => reply[w].id = query[w].id
SentInTime(w) ==
  LET d == query[w].domain IN
  action[w] # "BLOCKED" /\ IsBlocked(d) =>
    now <= blockedSince[d] + Timeout + (IF action[w] = "CACHED" THEN LongTTL ELSE 0)

WorkerOK(w) ==
  /\ pc[w] # "idle" => query[w] \in Query
  /\ pc[w] \in {"resolve", "put"} => AskedInTime(w)
  /\ pc[w] = "put" => Fetched(w)
  /\ Sent(w) => Answered(w)
  /\ pc[w] = "log" => SentInTime(w)

ListsOK ==
  \A d \in Domain : IsBlocked(d) =>
    /\ blockedSince[d] \in Nat /\ blockedSince[d] <= now
    /\ d \in Present(cache) => cache[d].expiry <= blockedSince[d] + Timeout + LongTTL

IInv == TypeOK /\ CacheSound /\ ListsOK /\ \A w \in Worker : WorkerOK(w)

-----------------------------------------------------------------------------
(* The data *)

LEMMA TTLs ==
  ASSUME NEW rc PROVE TTLOf(rc) \in Nat /\ TTLOf(rc) <= LongTTL
BY ServerAssumption DEF TTLOf

LEMMA AnswerIs ==
  ASSUME NEW q \in Query, NEW rc \in Rcode
  PROVE  /\ AnswerTo(q, rc) \in Answer
         /\ AnswerTo(q, rc).domain = q.domain
         /\ AnswerTo(q, rc).id = q.id
         /\ AnswerTo(q, rc).rcode = rc
BY DEF AnswerTo, Query, Answer

\* Patching the id leaves the rest of an answer, and an answer that is too short
\* as it is.
LEMMA Patched ==
  ASSUME NEW a \in Answer, NEW id \in Id
  PROVE  /\ ToQuery(a, id) \in Answer
         /\ ToQuery(a, id).domain = a.domain
         /\ ToQuery(a, id).rcode = a.rcode
         /\ a.rcode # "SHORT" => ToQuery(a, id).id = id
BY DEF ToQuery, Answer

LEMMA SinkholeIs ==
  ASSUME NEW q \in Query
  PROVE  /\ Sinkhole(q) \in Answer
         /\ Sinkhole(q).domain = q.domain
         /\ Sinkhole(q).id = q.id
<1>1. CASE q.qtype \in AddressType
  BY <1>1, AnswerIs DEF Sinkhole, Rcode
<1>2. CASE q.qtype \notin AddressType
  BY <1>2, AnswerIs DEF Sinkhole, Rcode
<1> QED  BY <1>1, <1>2

-----------------------------------------------------------------------------
(* What the steps of one worker have in common *)

\* Nobody else's part of the state changes.
Others(w) ==
  \A v \in Worker : v # w =>
    /\ pc'[v] = pc[v] /\ query'[v] = query[v] /\ reply'[v] = reply[v]
    /\ action'[v] = action[v] /\ since'[v] = since[v]

LEMMA OneWorker ==
  ASSUME IInv, NEW w \in Worker, UNCHANGED <<now, lists>>, Others(w),
         TypeOK', CacheSound', ListsOK', WorkerOK(w)'
  PROVE  IInv'
<1>1. now' = now /\ blocked' = blocked /\ white' = white /\ blockedSince' = blockedSince
  BY DEF lists
<1>2. ASSUME NEW v \in Worker, v # w PROVE WorkerOK(v)'
  <2>1. /\ pc'[v] = pc[v] /\ query'[v] = query[v] /\ reply'[v] = reply[v]
        /\ action'[v] = action[v] /\ since'[v] = since[v]
    BY <1>2 DEF Others
  <2>2. WorkerOK(v)  BY DEF IInv
  <2> QED
    BY <1>1, <2>1, <2>2
    DEF WorkerOK, AskedInTime, Fetched, Sent, Answered, SentInTime, IsBlocked
<1> QED  BY <1>2 DEF IInv

LEMMA SameCache ==
  ASSUME IInv, UNCHANGED <<now, lists, cache>>
  PROVE  CacheSound' /\ ListsOK'
BY DEF IInv, CacheSound, ListsOK, lists, IsBlocked, Present

\* Dropping an entry changes nothing for the others.
LEMMA FewerEntries ==
  ASSUME IInv, UNCHANGED <<now, lists>>, NEW d \in Domain, cache' = AfterGet(cache, d, now)
  PROVE  CacheSound' /\ ListsOK' /\ cache' \in [Domain -> Entry \cup {Absent}]
<1>1. now' = now /\ blocked' = blocked /\ white' = white /\ blockedSince' = blockedSince
  BY DEF lists
<1>2. cache \in [Domain -> Entry \cup {Absent}]  BY DEF IInv, TypeOK
<1>3. /\ cache' \in [Domain -> Entry \cup {Absent}]
      /\ \A e \in Domain : cache'[e] # Absent => cache[e] # Absent /\ cache'[e] = cache[e]
  BY <1>2 DEF AfterGet
<1>4. \A e \in Present(cache)' : e \in Present(cache) /\ cache'[e] = cache[e] /\ e \in Domain
  BY <1>3 DEF Present
<1>5. CacheSound'  BY <1>1, <1>4 DEF IInv, CacheSound
<1>6. ListsOK'  BY <1>1, <1>4 DEF IInv, ListsOK, IsBlocked
<1> QED  BY <1>3, <1>5, <1>6

\* An entry for a domain about which the worker asked in time.
LEMMA NewEntry ==
  ASSUME IInv, UNCHANGED <<now, lists>>, NEW w \in Worker, pc[w] = "put",
         NEW entry, entry = [response |-> reply[w], expiry |-> now + TTLOf(reply[w].rcode)],
         NEW v \in Victims(cache, reply[w].domain),
         cache' = AfterPut(cache, reply[w].domain, entry, v)
  PROVE  CacheSound' /\ ListsOK' /\ cache' \in [Domain -> Entry \cup {Absent}]
<1> DEFINE d == reply[w].domain
<1>1. now' = now /\ blocked' = blocked /\ white' = white /\ blockedSince' = blockedSince
  BY DEF lists
<1>2. cache \in [Domain -> Entry \cup {Absent}] /\ now \in Nat  BY DEF IInv, TypeOK
<1>3. WorkerOK(w)  BY DEF IInv
<1>4. /\ reply[w] \in Answer /\ d = query[w].domain /\ reply[w].rcode # "SERVFAIL"
      /\ AskedInTime(w)
  BY <1>3 DEF WorkerOK, Fetched
<1>5. d \in Domain  BY <1>4 DEF Answer
<1>6. v \in Domain  BY <1>5 DEF Victims, Present
<1>7. TTLOf(reply[w].rcode) \in Nat /\ TTLOf(reply[w].rcode) <= LongTTL  BY TTLs
<1>8. entry.response = reply[w] /\ entry.expiry = now + TTLOf(reply[w].rcode)
  OBVIOUS
<1>9. entry \in Entry
  <2>1. now + TTLOf(reply[w].rcode) \in Nat  BY <1>2, <1>7
  <2> QED  BY <1>4, <2>1 DEF Entry
<1> HIDE DEF d
<1>10. cache' = [cache EXCEPT ![v] = Absent, ![d] = entry]  BY DEF AfterPut, d
<1>11. /\ cache' \in [Domain -> Entry \cup {Absent}] /\ cache'[d] = entry
       /\ \A e \in Domain : e # d /\ cache'[e] # Absent => cache'[e] = cache[e]
  BY <1>2, <1>5, <1>6, <1>9, <1>10
<1>12. \A e \in Present(cache)' : e \in Domain /\ (e = d \/ (e \in Present(cache) /\ cache'[e] = cache[e]))
  BY <1>11 DEF Present
<1>13. CacheSound'
  <2> SUFFICES ASSUME NEW e \in Present(cache)'
               PROVE  /\ cache'[e].response.domain = e
                      /\ cache'[e].response.rcode # "SERVFAIL"
                      /\ cache'[e].expiry <= now' + TTLOf(cache'[e].response.rcode)
    BY DEF CacheSound
  <2>1. CASE e = d  BY <1>1, <1>2, <1>4, <1>7, <1>8, <1>11, <2>1 DEF d
  <2>2. CASE e # d  BY <1>1, <1>12, <2>2 DEF IInv, CacheSound
  <2> QED  BY <2>1, <2>2
<1>14. ListsOK'
  <2> SUFFICES ASSUME NEW e \in Domain, IsBlocked(e)'
               PROVE  /\ blockedSince[e] \in Nat /\ blockedSince[e] <= now
                      /\ e \in Present(cache)' =>
                           cache'[e].expiry <= blockedSince[e] + Timeout + LongTTL
    BY <1>1 DEF ListsOK
  <2>1. IsBlocked(e)  BY <1>1 DEF IsBlocked
  <2>2. blockedSince[e] \in Nat /\ blockedSince[e] <= now  BY <2>1 DEF IInv, ListsOK
  <2>3. CASE e # d  BY <1>12, <2>1, <2>2, <2>3 DEF IInv, ListsOK
  <2>4. CASE e = d
    <3>1. /\ since[w] \in Nat /\ now <= since[w] + Timeout /\ since[w] <= blockedSince[e]
      BY <1>4, <2>1, <2>4 DEF AskedInTime
    <3>2. Timeout \in Nat /\ LongTTL \in Nat  BY ServerAssumption
    <3>3. now + TTLOf(reply[w].rcode) <= blockedSince[e] + Timeout + LongTTL
      BY <1>2, <1>7, <2>2, <3>1, <3>2
    <3> QED  BY <1>8, <1>11, <2>2, <2>4, <3>3
  <2> QED  BY <2>3, <2>4
<1> QED  BY <1>11, <1>13, <1>14

\* A reload: who was blocked before keeps its time, who becomes blocked begins now.
LEMMA ListsStep ==
  ASSUME IInv, NEW b \in SUBSET Domain, NEW wl \in SUBSET Domain, SetLists(b, wl),
         rpc' \in {"idle", "load", "loadWhitelist"}
  PROVE  IInv'
<1>1. /\ blocked' = b /\ white' = wl /\ now' = now /\ cache' = cache
      /\ pc' = pc /\ query' = query /\ reply' = reply /\ action' = action /\ since' = since
      /\ hits' = hits /\ misses' = misses
      /\ UNCHANGED <<total, count, log, errors, failed>>
  BY DEF SetLists, cacheVars, worker, stats
<1>2. /\ now \in Nat /\ Timeout \in Nat /\ LongTTL \in Nat
      /\ cache \in [Domain -> Entry \cup {Absent}]
  BY ServerAssumption DEF IInv, TypeOK
<1>3. \A d \in Domain : blockedSince'[d] = IF d \in b /\ d \notin wl
                                           THEN IF IsBlocked(d) THEN blockedSince[d] ELSE now
                                           ELSE Never
  BY DEF SetLists
<1>4. \A d \in Domain : IsBlocked(d)' =>
        blockedSince'[d] = IF IsBlocked(d) THEN blockedSince[d] ELSE now
  BY <1>1, <1>3 DEF IsBlocked
<1>5. TypeOK'
  <2>1. blockedSince \in [Domain -> Nat \cup {Never}]  BY DEF IInv, TypeOK
  <2>2. blockedSince' \in [Domain -> Nat \cup {Never}]  BY <1>2, <2>1 DEF SetLists
  <2> QED  BY <1>1, <2>2 DEF IInv, TypeOK
<1>6. CacheSound'  BY <1>1 DEF IInv, CacheSound, Present
<1>7. ListsOK'
  <2> SUFFICES ASSUME NEW d \in Domain, IsBlocked(d)'
               PROVE  /\ blockedSince'[d] \in Nat /\ blockedSince'[d] <= now
                      /\ d \in Present(cache) =>
                           cache[d].expiry <= blockedSince'[d] + Timeout + LongTTL
    BY <1>1 DEF ListsOK, Present
  <2>1. CASE IsBlocked(d)  BY <1>4, <2>1 DEF IInv, ListsOK
  <2>2. CASE ~IsBlocked(d)
    <3>1. blockedSince'[d] = now  BY <1>4, <2>2
    <3>2. ASSUME d \in Present(cache) PROVE cache[d].expiry <= now + Timeout + LongTTL
      <4>1. cache[d].expiry <= now + TTLOf(cache[d].response.rcode)
        BY <3>2 DEF IInv, CacheSound
      <4>2. cache[d] \in Entry  BY <1>2, <3>2 DEF Present
      <4>3. cache[d].expiry \in Nat  BY <4>2 DEF Entry
      <4> QED  BY <1>2, <4>1, <4>3, TTLs
    <3> QED  BY <1>2, <3>1, <3>2
  <2> QED  BY <2>1, <2>2
<1>8. ASSUME NEW w \in Worker PROVE WorkerOK(w)'
  <2> DEFINE d == query[w].domain
  <2>0. WorkerOK(w)  BY DEF IInv
  <2>1. (pc[w] \in {"resolve", "put"} => AskedInTime(w))'
    <3> SUFFICES ASSUME pc[w] \in {"resolve", "put"}, d \in b, d \notin wl
                 PROVE  since[w] <= blockedSince'[d]
      BY <1>1, <2>0 DEF WorkerOK, AskedInTime, IsBlocked
    <3>1. d \in Domain  BY <2>0 DEF WorkerOK, Query
    <3>2. AskedInTime(w)  BY <2>0 DEF WorkerOK
    <3>3. CASE IsBlocked(d)  BY <1>3, <3>1, <3>2, <3>3 DEF AskedInTime
    <3>4. CASE ~IsBlocked(d)
      <4>1. blockedSince'[d] = now  BY <1>3, <3>1, <3>4
      <4> QED  BY <4>1, <3>2 DEF AskedInTime
    <3> QED  BY <3>3, <3>4
  <2>2. (pc[w] = "log" => SentInTime(w))'
    <3> SUFFICES ASSUME pc[w] = "log", action[w] # "BLOCKED", d \in b, d \notin wl
                 PROVE  now <= blockedSince'[d] + Timeout
                               + (IF action[w] = "CACHED" THEN LongTTL ELSE 0)
      BY <1>1 DEF SentInTime, IsBlocked
    <3>1. d \in Domain  BY <2>0 DEF WorkerOK, Query
    <3>2. CASE IsBlocked(d)
      <4>1. blockedSince'[d] = blockedSince[d]  BY <1>3, <3>1, <3>2
      <4> QED  BY <2>0, <3>2, <4>1 DEF WorkerOK, SentInTime
    <3>3. CASE ~IsBlocked(d)
      <4>1. blockedSince'[d] = now  BY <1>3, <3>1, <3>3
      <4> QED  BY <1>2, <4>1
    <3> QED  BY <3>2, <3>3
  <2> QED
    BY <1>1, <2>0, <2>1, <2>2 DEF WorkerOK, Fetched, Answered, Sent
<1> QED  BY <1>5, <1>6, <1>7, <1>8 DEF IInv

-----------------------------------------------------------------------------
(* The steps *)

\* A reply is sent.
LEMMA Sends ==
  ASSUME IInv, NEW w \in Worker, pc[w] # "idle",
         NEW a \in Answer, NEW what \in Action, Send(w, a, what),
         UNCHANGED <<now, lists, query, since, stats>>,
         a.domain = query[w].domain,
         a.rcode # "SHORT" => a.id = query[w].id,
         what # "BLOCKED" /\ IsBlocked(query[w].domain) =>
           now <= blockedSince[query[w].domain] + Timeout
                  + (IF what = "CACHED" THEN LongTTL ELSE 0),
         cache' \in [Domain -> Entry \cup {Absent}], hits' \in Nat, misses' \in Nat,
         CacheSound', ListsOK'
  PROVE  IInv'
<1>0. WorkerOK(w) /\ TypeOK  BY DEF IInv
<1>1. UNCHANGED <<now, blocked, white, rpc, blockedSince, query, since, total, count, log,
                  errors, failed>>
  BY DEF lists, stats
<1>2. reply' = [reply EXCEPT ![w] = a] /\ action' = [action EXCEPT ![w] = what]
      /\ pc' = [pc EXCEPT ![w] = "log"]
  BY DEF Send, Goto
<1>3. reply'[w] = a /\ action'[w] = what /\ pc'[w] = "log"  BY <1>0, <1>2 DEF TypeOK
<1>4. /\ reply' \in [Worker -> Answer \cup {None}] /\ action' \in [Worker -> Action \cup {None}]
      /\ pc' \in [Worker -> WorkerPC]
  BY <1>0, <1>2 DEF TypeOK, WorkerPC
<1>5. TypeOK'  BY <1>0, <1>1, <1>4 DEF TypeOK
<1>6. Others(w)  BY <1>0, <1>1, <1>2 DEF Others, TypeOK
<1>7. SentInTime(w)'  BY <1>1, <1>3 DEF SentInTime, IsBlocked
<1>8. Answered(w)'  BY <1>1, <1>3 DEF Answered
<1>9. WorkerOK(w)'  BY <1>0, <1>1, <1>3, <1>7, <1>8 DEF WorkerOK
<1> QED  BY <1>1, <1>5, <1>6, <1>9, OneWorker DEF lists

\* handle_query() returns.
LEMMA Returns ==
  ASSUME IInv, NEW w \in Worker, Return(w), UNCHANGED <<now, lists, cacheVars, total>>,
         count' \in [Action -> Nat], log' \in [Action -> Nat], errors' \in Nat, failed' \in Nat
  PROVE  IInv'
<1>0. TypeOK  BY DEF IInv
<1>1. UNCHANGED <<now, blocked, white, rpc, blockedSince, cache, hits, misses, total>>
  BY DEF lists, cacheVars
<1>2. /\ pc' = [pc EXCEPT ![w] = "idle"] /\ query' = [query EXCEPT ![w] = None]
      /\ reply' = [reply EXCEPT ![w] = None] /\ action' = [action EXCEPT ![w] = None]
      /\ since' = [since EXCEPT ![w] = Never]
  BY DEF Return, Goto
<1>3. /\ pc' \in [Worker -> WorkerPC] /\ query' \in [Worker -> Query \cup {None}]
      /\ reply' \in [Worker -> Answer \cup {None}]
      /\ action' \in [Worker -> Action \cup {None}]
      /\ since' \in [Worker -> Nat \cup {Never}]
  BY <1>0, <1>2 DEF TypeOK, WorkerPC
<1>4. TypeOK'  BY <1>0, <1>1, <1>3 DEF TypeOK
<1>5. Others(w)  BY <1>0, <1>2 DEF Others, TypeOK
<1>6. WorkerOK(w)'
  <2>1. pc'[w] = "idle"  BY <1>0, <1>2 DEF TypeOK
  <2> QED  BY <2>1 DEF WorkerOK, Sent
<1>7. CacheSound' /\ ListsOK'  BY <1>1, SameCache DEF lists
<1> QED  BY <1>1, <1>4, <1>5, <1>6, <1>7, OneWorker DEF lists

LEMMA MalformedStep == ASSUME IInv, NEW w \in Worker, Malformed(w) PROVE IInv'
<1>1. UNCHANGED <<now, lists, cache, hits, misses, pc, query, reply, action, since, total, count,
                  log, failed>>
      /\ errors' = errors + 1
  BY DEF Malformed, cacheVars, worker
<1>2. TypeOK'  BY <1>1 DEF IInv, TypeOK, lists
<1>3. CacheSound' /\ ListsOK'  BY <1>1, SameCache
<1>4. Others(w)  BY <1>1 DEF Others
<1>5. WorkerOK(w)'
  <2>1. pc'[w] = "idle"  BY <1>1 DEF Malformed
  <2> QED  BY <2>1 DEF WorkerOK, Sent
<1> QED  BY <1>1, <1>2, <1>3, <1>4, <1>5, OneWorker

LEMMA ReceiveStep == ASSUME IInv, NEW w \in Worker, NEW q \in Query, Receive(w, q) PROVE IInv'
<1>0. TypeOK  BY DEF IInv
<1>1. /\ UNCHANGED <<now, lists, cache, hits, misses, reply, action, since, count, log, errors,
                     failed>>
      /\ query' = [query EXCEPT ![w] = q] /\ total' = total + 1
      /\ pc' = [pc EXCEPT ![w] = "lookup"]
  BY DEF Receive, Goto, cacheVars
<1>2. query' \in [Worker -> Query \cup {None}] /\ pc' \in [Worker -> WorkerPC]
      /\ query'[w] = q /\ pc'[w] = "lookup"
  BY <1>0, <1>1 DEF TypeOK, WorkerPC
<1>3. TypeOK'  BY <1>0, <1>1, <1>2 DEF TypeOK, lists
<1>4. CacheSound' /\ ListsOK'  BY <1>1, SameCache
<1>5. Others(w)  BY <1>0, <1>1 DEF Others, TypeOK
<1>6. WorkerOK(w)'  BY <1>2 DEF WorkerOK, Sent
<1> QED  BY <1>1, <1>3, <1>4, <1>5, <1>6, OneWorker

LEMMA LookupHitStep == ASSUME IInv, NEW w \in Worker, LookupHit(w) PROVE IInv'
<1> DEFINE q == query[w]
           d == q.domain
           a == cache[d].response
<1>0. WorkerOK(w) /\ TypeOK  BY DEF IInv
<1>1. q \in Query /\ d \in Domain /\ q.id \in Id  BY <1>0 DEF LookupHit, WorkerOK, Query
<1>2. d \in Present(cache) /\ cache[d] \in Entry /\ now <= cache[d].expiry
  BY <1>0, <1>1 DEF LookupHit, Fresh, Present, TypeOK
<1>3. a \in Answer /\ a.domain = d /\ cache[d].expiry \in Nat
  BY <1>2 DEF Entry, IInv, CacheSound
<1>4. /\ UNCHANGED <<now, lists, cache, misses, query, since, stats>>
      /\ hits' = hits + 1 /\ Send(w, ToQuery(a, q.id), "CACHED") /\ pc[w] # "idle"
  BY DEF LookupHit
<1>5. IsBlocked(d) => now <= blockedSince[d] + Timeout + LongTTL
  <2> SUFFICES ASSUME IsBlocked(d) PROVE now <= blockedSince[d] + Timeout + LongTTL
    OBVIOUS
  <2>1. blockedSince[d] \in Nat /\ cache[d].expiry <= blockedSince[d] + Timeout + LongTTL
    BY <1>1, <1>2 DEF IInv, ListsOK
  <2>2. Timeout \in Nat /\ LongTTL \in Nat /\ now \in Nat  BY <1>0, ServerAssumption DEF TypeOK
  <2> HIDE DEF d
  <2> QED  BY <1>2, <1>3, <2>1, <2>2
<1>6. CacheSound' /\ ListsOK'  BY <1>4, SameCache
<1>7. /\ ToQuery(a, q.id) \in Answer /\ ToQuery(a, q.id).domain = d
      /\ ToQuery(a, q.id).rcode # "SHORT" => ToQuery(a, q.id).id = q.id
  BY <1>1, <1>3, Patched
<1>8. cache' \in [Domain -> Entry \cup {Absent}] /\ hits' \in Nat /\ misses' \in Nat
  BY <1>0, <1>4 DEF TypeOK
<1>9. "CACHED" \in Action  BY DEF Action
<1> HIDE DEF a
<1> QED  BY <1>4, <1>5, <1>6, <1>7, <1>8, <1>9, Sends

LEMMA LookupMissStep == ASSUME IInv, NEW w \in Worker, LookupMiss(w) PROVE IInv'
<1>0. WorkerOK(w) /\ TypeOK  BY DEF IInv
<1>1. query[w] \in Query /\ query[w].domain \in Domain  BY <1>0 DEF LookupMiss, WorkerOK, Query
<1>2. /\ UNCHANGED <<now, lists, hits, query, reply, action, since, total, count, log, errors,
                     failed>>
      /\ cache' = AfterGet(cache, query[w].domain, now) /\ misses' = misses + 1
      /\ pc' = [pc EXCEPT ![w] = "check"]
  BY DEF LookupMiss, Goto, stats
<1>3. CacheSound' /\ ListsOK' /\ cache' \in [Domain -> Entry \cup {Absent}]
  BY <1>1, <1>2, FewerEntries
<1>4. pc' \in [Worker -> WorkerPC] /\ pc'[w] = "check"  BY <1>0, <1>2 DEF TypeOK, WorkerPC
<1>5. TypeOK'  BY <1>0, <1>2, <1>3, <1>4 DEF TypeOK, lists
<1>6. Others(w)  BY <1>0, <1>2 DEF Others, TypeOK
<1>7. WorkerOK(w)'  BY <1>1, <1>2, <1>4 DEF WorkerOK, Sent
<1> QED  BY <1>2, <1>3, <1>5, <1>6, <1>7, OneWorker

LEMMA CheckBlockedStep == ASSUME IInv, NEW w \in Worker, CheckBlocked(w) PROVE IInv'
<1>0. WorkerOK(w) /\ TypeOK  BY DEF IInv
<1>1. query[w] \in Query  BY <1>0 DEF CheckBlocked, WorkerOK
<1>2. /\ UNCHANGED <<now, lists, cache, hits, misses, query, since, stats>>
      /\ Send(w, Sinkhole(query[w]), "BLOCKED") /\ pc[w] # "idle"
  BY DEF CheckBlocked, cacheVars
<1>3. CacheSound' /\ ListsOK'  BY <1>2, SameCache
<1>4. cache' \in [Domain -> Entry \cup {Absent}] /\ hits' \in Nat /\ misses' \in Nat
  BY <1>0, <1>2 DEF TypeOK
<1>5. "BLOCKED" \in Action  BY DEF Action
<1> QED  BY <1>1, <1>2, <1>3, <1>4, <1>5, SinkholeIs, Sends

LEMMA CheckAllowedStep == ASSUME IInv, NEW w \in Worker, CheckAllowed(w) PROVE IInv'
<1>0. WorkerOK(w) /\ TypeOK  BY DEF IInv
<1>1. query[w] \in Query /\ ~IsBlocked(query[w].domain)  BY <1>0 DEF CheckAllowed, WorkerOK
<1>2. /\ UNCHANGED <<now, lists, cache, hits, misses, query, reply, action, total, count, log,
                     errors, failed>>
      /\ since' = [since EXCEPT ![w] = now] /\ pc' = [pc EXCEPT ![w] = "resolve"]
  BY DEF CheckAllowed, Goto, cacheVars, stats
<1>3. CacheSound' /\ ListsOK'  BY <1>2, SameCache
<1>4. pc' \in [Worker -> WorkerPC] /\ pc'[w] = "resolve" /\ since'[w] = now
      /\ since' \in [Worker -> Nat \cup {Never}] /\ now \in Nat /\ Timeout \in Nat
  BY <1>0, <1>2, ServerAssumption DEF TypeOK, WorkerPC
<1>5. TypeOK'  BY <1>0, <1>2, <1>4 DEF TypeOK, lists
<1>6. Others(w)  BY <1>0, <1>2 DEF Others, TypeOK
<1>7. AskedInTime(w)'
  <2>1. ~IsBlocked(query[w].domain)'  BY <1>1, <1>2 DEF IsBlocked, lists
  <2>2. (since[w] \in Nat /\ since[w] <= now /\ now <= since[w] + Timeout)'  BY <1>2, <1>4
  <2> QED  BY <2>1, <2>2 DEF AskedInTime
<1>8. WorkerOK(w)'  BY <1>1, <1>2, <1>4, <1>7 DEF WorkerOK, Sent
<1> QED  BY <1>2, <1>3, <1>5, <1>6, <1>8, OneWorker

LEMMA ResolveServfailStep == ASSUME IInv, NEW w \in Worker, ResolveServfail(w) PROVE IInv'
<1> DEFINE q == query[w]
           a == AnswerTo(q, "SERVFAIL")
<1>0. WorkerOK(w) /\ TypeOK  BY DEF IInv
<1>1. q \in Query /\ q.id \in Id /\ q.domain \in Domain /\ AskedInTime(w)
  BY <1>0 DEF ResolveServfail, WorkerOK, Query
<1>2. /\ UNCHANGED <<now, lists, cache, hits, misses, query, since, stats>>
      /\ Send(w, ToQuery(a, q.id), "SERVFAIL") /\ pc[w] # "idle"
  BY DEF ResolveServfail, cacheVars
<1>3. a \in Answer /\ a.domain = q.domain  BY <1>1, AnswerIs DEF Rcode
<1>4. /\ ToQuery(a, q.id) \in Answer /\ ToQuery(a, q.id).domain = q.domain
      /\ ToQuery(a, q.id).rcode # "SHORT" => ToQuery(a, q.id).id = q.id
  <2> HIDE DEF a
  <2> QED  BY <1>1, <1>3, Patched
<1>5. IsBlocked(q.domain) => now <= blockedSince[q.domain] + Timeout + 0
  <2> SUFFICES ASSUME IsBlocked(q.domain) PROVE now <= blockedSince[q.domain] + Timeout + 0
    OBVIOUS
  <2>1. blockedSince[q.domain] \in Nat  BY <1>1 DEF IInv, ListsOK
  <2> QED  BY <1>0, <1>1, <2>1, ServerAssumption DEF AskedInTime, TypeOK
<1>6. CacheSound' /\ ListsOK'  BY <1>2, SameCache
<1>7. cache' \in [Domain -> Entry \cup {Absent}] /\ hits' \in Nat /\ misses' \in Nat
  BY <1>0, <1>2 DEF TypeOK
<1>8. "SERVFAIL" \in Action  BY DEF Action
<1> HIDE DEF a
<1> QED  BY <1>2, <1>4, <1>5, <1>6, <1>7, <1>8, Sends

LEMMA ResolveAnswerStep ==
  ASSUME IInv, NEW w \in Worker, NEW rc \in Rcode, ResolveAnswer(w, rc) PROVE IInv'
<1> DEFINE a == AnswerTo(query[w], rc)
<1>0. WorkerOK(w) /\ TypeOK  BY DEF IInv
<1>1. query[w] \in Query /\ AskedInTime(w) /\ rc # "SERVFAIL"
  BY <1>0 DEF ResolveAnswer, WorkerOK
<1>2. a \in Answer /\ a.domain = query[w].domain /\ a.rcode # "SERVFAIL"  BY <1>1, AnswerIs
<1> HIDE DEF a
<1>3. /\ UNCHANGED <<now, lists, cache, hits, misses, query, action, since, total, count, log,
                     errors, failed>>
      /\ reply' = [reply EXCEPT ![w] = a] /\ pc' = [pc EXCEPT ![w] = "put"]
  BY DEF ResolveAnswer, Goto, cacheVars, stats, a
<1>4. CacheSound' /\ ListsOK'  BY <1>3, SameCache
<1>5. pc' \in [Worker -> WorkerPC] /\ pc'[w] = "put" /\ reply'[w] = a
      /\ reply' \in [Worker -> Answer \cup {None}]
  BY <1>0, <1>2, <1>3 DEF TypeOK, WorkerPC
<1>6. TypeOK'  BY <1>0, <1>3, <1>5 DEF TypeOK, lists
<1>7. Others(w)  BY <1>0, <1>3 DEF Others, TypeOK
<1>8. AskedInTime(w)'  BY <1>1, <1>3 DEF AskedInTime, IsBlocked, lists
<1>9. WorkerOK(w)'  BY <1>1, <1>2, <1>3, <1>5, <1>8 DEF WorkerOK, Sent, Fetched
<1> QED  BY <1>3, <1>4, <1>6, <1>7, <1>9, OneWorker

LEMMA GiveUpStep == ASSUME IInv, NEW w \in Worker, GiveUp(w) PROVE IInv'
<1>1. count' \in [Action -> Nat] /\ log' \in [Action -> Nat] /\ errors' \in Nat /\ failed' \in Nat
  BY DEF IInv, TypeOK, GiveUp
<1>2. Return(w) /\ UNCHANGED <<now, lists, cacheVars, total>>  BY DEF GiveUp
<1> QED  BY <1>1, <1>2, Returns

LEMMA PutStep == ASSUME IInv, NEW w \in Worker, Put(w) PROVE IInv'
<1> DEFINE q == query[w]
           a == reply[w]
           entry == [response |-> a, expiry |-> now + TTLOf(a.rcode)]
           what == IF a.rcode = "NXDOMAIN" THEN "NXDOMAIN" ELSE "ALLOWED"
<1>0. WorkerOK(w) /\ TypeOK  BY DEF IInv
<1>1. q \in Query /\ q.id \in Id /\ q.domain \in Domain /\ AskedInTime(w)
      /\ a \in Answer /\ a.domain = q.domain
  BY <1>0 DEF Put, WorkerOK, Query, Fetched
<1>2. /\ UNCHANGED <<now, lists, hits, misses, query, since, stats>>
      /\ Send(w, ToQuery(a, q.id), what) /\ pc[w] = "put"
  BY DEF Put
<1>3. PICK v \in Victims(cache, a.domain) : cache' = AfterPut(cache, a.domain, entry, v)
  BY DEF Put
<1>4. CacheSound' /\ ListsOK' /\ cache' \in [Domain -> Entry \cup {Absent}]
  BY <1>2, <1>3, NewEntry
<1>5. /\ ToQuery(a, q.id) \in Answer /\ ToQuery(a, q.id).domain = q.domain
      /\ ToQuery(a, q.id).rcode # "SHORT" => ToQuery(a, q.id).id = q.id
  BY <1>1, Patched
<1>6. IsBlocked(q.domain) => now <= blockedSince[q.domain] + Timeout + 0
  <2> SUFFICES ASSUME IsBlocked(q.domain) PROVE now <= blockedSince[q.domain] + Timeout + 0
    OBVIOUS
  <2>1. blockedSince[q.domain] \in Nat  BY <1>1 DEF IInv, ListsOK
  <2> QED  BY <1>0, <1>1, <2>1, ServerAssumption DEF AskedInTime, TypeOK
<1>7. hits' \in Nat /\ misses' \in Nat  BY <1>0, <1>2 DEF TypeOK
<1>8. what \in Action /\ what # "CACHED"  BY DEF Action
<1> HIDE DEF what
<1> QED  BY <1>2, <1>4, <1>5, <1>6, <1>7, <1>8, Sends

LEMMA LogQueryStep == ASSUME IInv, NEW w \in Worker, LogQuery(w) PROVE IInv'
<1>0. WorkerOK(w) /\ TypeOK  BY DEF IInv
<1>1. /\ UNCHANGED <<now, lists, cache, hits, misses, query, reply, action, since, total, count,
                     errors, failed>>
      /\ log' = [log EXCEPT ![action[w]] = @ + 1] /\ pc' = [pc EXCEPT ![w] = "count"]
  BY DEF LogQuery, Goto, cacheVars
<1>2. Answered(w) /\ query[w] \in Query  BY <1>0 DEF LogQuery, WorkerOK, Sent
<1>3. log' \in [Action -> Nat]  BY <1>0, <1>1, <1>2 DEF TypeOK, Answered
<1>4. pc' \in [Worker -> WorkerPC] /\ pc'[w] = "count"  BY <1>0, <1>1 DEF TypeOK, WorkerPC
<1>5. TypeOK'  BY <1>0, <1>1, <1>3, <1>4 DEF TypeOK, lists
<1>6. CacheSound' /\ ListsOK'  BY <1>1, SameCache
<1>7. Others(w)  BY <1>0, <1>1 DEF Others, TypeOK
<1>8. WorkerOK(w)'  BY <1>1, <1>2, <1>4 DEF WorkerOK, Sent, Answered
<1> QED  BY <1>1, <1>5, <1>6, <1>7, <1>8, OneWorker

LEMMA CountQueryStep == ASSUME IInv, NEW w \in Worker, CountQuery(w) PROVE IInv'
<1>0. WorkerOK(w) /\ TypeOK  BY DEF IInv
<1>1. action[w] \in Action  BY <1>0 DEF CountQuery, WorkerOK, Sent, Answered
<1>2. count' \in [Action -> Nat] /\ log' \in [Action -> Nat] /\ errors' \in Nat /\ failed' \in Nat
  BY <1>0, <1>1 DEF CountQuery, TypeOK
<1>3. Return(w) /\ UNCHANGED <<now, lists, cacheVars, total>>  BY DEF CountQuery
<1> QED  BY <1>2, <1>3, Returns

\* Time passes: every worker is idle or waits for upstream, within its Timeout.
LEMMA TickStep == ASSUME IInv, Tick PROVE IInv'
<1>0. TypeOK /\ now \in Nat /\ Timeout \in Nat /\ LongTTL \in Nat
  BY ServerAssumption DEF IInv, TypeOK
<1>1. /\ UNCHANGED <<blocked, white, rpc, blockedSince, cache, hits, misses, pc, query, reply,
                     action, since, total, count, log, errors, failed>>
      /\ now' = now + 1
  BY DEF Tick, lists, cacheVars, worker, stats
<1>2. TypeOK'  BY <1>0, <1>1 DEF TypeOK
<1>3. CacheSound'
  <2> SUFFICES ASSUME NEW d \in Present(cache)
               PROVE  /\ cache[d].response.domain = d
                      /\ cache[d].response.rcode # "SERVFAIL"
                      /\ cache[d].expiry <= now + 1 + TTLOf(cache[d].response.rcode)
    BY <1>1 DEF CacheSound, Present, TTLOf
  <2>1. /\ cache[d].response.domain = d
        /\ cache[d].response.rcode # "SERVFAIL"
        /\ cache[d].expiry <= now + TTLOf(cache[d].response.rcode)
    BY DEF IInv, CacheSound
  <2>2. cache[d] \in Entry  BY <1>0 DEF TypeOK, Present
  <2>3. cache[d].expiry \in Nat  BY <2>2 DEF Entry
  <2>4. TTLOf(cache[d].response.rcode) \in Nat  BY TTLs
  <2> QED  BY <1>0, <2>1, <2>3, <2>4
<1>4. ListsOK'  BY <1>0, <1>1 DEF IInv, ListsOK, IsBlocked, Present
<1>5. ASSUME NEW w \in Worker PROVE WorkerOK(w)'
  <2>0. WorkerOK(w)  BY DEF IInv
  <2>1. CASE pc[w] = "idle"  BY <1>1, <2>1 DEF WorkerOK, Sent
  <2>2. CASE pc[w] = "resolve" /\ now < since[w] + Timeout
    <3>1. AskedInTime(w)  BY <2>0, <2>2 DEF WorkerOK
    <3>2. AskedInTime(w)'  BY <1>0, <1>1, <2>2, <3>1 DEF AskedInTime, IsBlocked
    <3> QED  BY <1>1, <2>0, <2>2, <3>2 DEF WorkerOK, Sent
  <2> QED  BY <2>1, <2>2 DEF Tick
<1> QED  BY <1>2, <1>3, <1>4, <1>5 DEF IInv

LEMMA Initially == Init => IInv
<1> SUFFICES ASSUME Init PROVE IInv  OBVIOUS
<1>1. Read(BlockFiles) \subseteq SUBSET Domain /\ Read(WhiteFiles) \subseteq SUBSET Domain
  BY ServerAssumption DEF Read
<1>2. TypeOK
  <2>1. blocked \subseteq Domain /\ white \subseteq Domain  BY <1>1 DEF Init
  <2>2. blockedSince \in [Domain -> Nat \cup {Never}]  BY DEF Init
  <2>3. cache \in [Domain -> Entry \cup {Absent}]  BY DEF Init, EmptyStore
  <2>4. /\ now \in Nat /\ hits \in Nat /\ misses \in Nat /\ total \in Nat /\ errors \in Nat
        /\ failed \in Nat /\ rpc \in {"idle", "load", "loadWhitelist"}
    BY DEF Init
  <2>5. /\ pc \in [Worker -> WorkerPC] /\ query \in [Worker -> Query \cup {None}]
        /\ reply \in [Worker -> Answer \cup {None}]
        /\ action \in [Worker -> Action \cup {None}]
        /\ since \in [Worker -> Nat \cup {Never}]
    BY DEF Init, WorkerPC
  <2>6. count \in [Action -> Nat] /\ log \in [Action -> Nat]  BY DEF Init
  <2> QED  BY <2>1, <2>2, <2>3, <2>4, <2>5, <2>6 DEF TypeOK
<1>3. Present(cache) = {}  BY DEF Init, EmptyStore, Present
<1>4. CacheSound  BY <1>3 DEF CacheSound
<1>5. ListsOK  BY <1>3 DEF Init, ListsOK
<1>6. \A w \in Worker : WorkerOK(w)  BY DEF Init, WorkerOK, Sent
<1> QED  BY <1>2, <1>4, <1>5, <1>6 DEF IInv

LEMMA ReloadStep == ASSUME IInv, ReloadClear \/ Reload PROVE IInv'
<1>1. blocked \subseteq Domain /\ white \subseteq Domain  BY DEF IInv, TypeOK
<1>2. \A f \in Read(BlockFiles) \cup Read(WhiteFiles) : f \subseteq Domain
  BY ServerAssumption DEF Read
<1>3. CASE ReloadClear
  <2>1. {} \in SUBSET Domain  OBVIOUS
  <2> QED  BY <1>3, <2>1, ListsStep DEF ReloadClear
<1>4. ASSUME NEW f \in Read(BlockFiles), ReloadLoad(f) PROVE IInv'
  <2>1. blocked \cup f \in SUBSET Domain /\ white \in SUBSET Domain  BY <1>1, <1>2
  <2> QED  BY <1>4, <2>1, ListsStep DEF ReloadLoad
<1>5. ASSUME NEW f \in Read(WhiteFiles), ReloadLoadWhitelist(f) PROVE IInv'
  <2>1. blocked \in SUBSET Domain /\ white \cup f \in SUBSET Domain  BY <1>1, <1>2
  <2> QED  BY <1>5, <2>1, ListsStep DEF ReloadLoadWhitelist
<1> QED  BY <1>3, <1>4, <1>5 DEF Reload

LEMMA StutterStep == ASSUME IInv, UNCHANGED vars PROVE IInv'
<1>1. UNCHANGED <<now, blocked, white, rpc, blockedSince, cache, hits, misses, pc, query, reply,
                  action, since, total, count, log, errors, failed>>
  BY DEF vars, lists, cacheVars, worker, stats
<1>2. TypeOK'  BY <1>1 DEF IInv, TypeOK
<1>3. CacheSound' /\ ListsOK'  BY <1>1, SameCache DEF lists
<1>4. \A w \in Worker : WorkerOK(w)'
  BY <1>1 DEF IInv, WorkerOK, AskedInTime, Fetched, Sent, Answered, SentInTime, IsBlocked
<1> QED  BY <1>2, <1>3, <1>4 DEF IInv

LEMMA Inductive == IInv /\ [Next]_vars => IInv'
<1> SUFFICES ASSUME IInv, [Next]_vars PROVE IInv'  OBVIOUS
<1>1. ASSUME NEW w \in Worker, Work(w) PROVE IInv'
  BY <1>1, LookupHitStep, LookupMissStep, CheckBlockedStep, CheckAllowedStep, GiveUpStep,
     PutStep, LogQueryStep, CountQueryStep
  DEF Work, ResolveTimeout
<1>2. ASSUME NEW w \in Worker, Upstream(w) PROVE IInv'
  BY <1>2, ResolveServfailStep, GiveUpStep, ResolveAnswerStep DEF Upstream, ResolveError
<1>3. ASSUME NEW w \in Worker, Arrive(w) PROVE IInv'
  BY <1>3, MalformedStep, ReceiveStep DEF Arrive
<1>4. CASE ReloadClear \/ Reload  BY <1>4, ReloadStep
<1>5. CASE Tick  BY <1>5, TickStep
<1>6. CASE UNCHANGED vars  BY <1>6, StutterStep
<1> QED  BY <1>1, <1>2, <1>3, <1>4, <1>5, <1>6 DEF Next

-----------------------------------------------------------------------------
\* The inductive invariant holds in every state.
THEOREM Invariant == Spec => []IInv
<1>1. Init => IInv  BY Initially
<1>2. IInv /\ [Next]_vars => IInv'  BY Inductive
<1> QED  BY <1>1, <1>2, PTL DEF Spec

\* Every variable keeps its type.
THEOREM TypeCorrect == Spec => []TypeOK
<1>1. IInv => TypeOK  BY DEF IInv
<1> QED  BY <1>1, Invariant, PTL

\* Clients get answers about their own question and with their own id, however
\* many workers share the cache.
THEOREM RepliesMatch == Spec => []ReplyMatchesQuery
<1>1. IInv => ReplyMatchesQuery  BY DEF IInv, WorkerOK, Answered, ReplyMatchesQuery
<1> QED  BY <1>1, Invariant, PTL

\* Each entry of the cache is an answer about its domain, no SERVFAIL, and is
\* kept for the time its code allows.
THEOREM CacheIsSound == Spec => []CacheSound
<1>1. IInv => CacheSound  BY DEF IInv
<1> QED  BY <1>1, Invariant, PTL

\* A block that a reload brings takes effect within Timeout + LongTTL seconds, on
\* every query whatever its worker was doing when the list was replaced.
THEOREM BlockIsEffective == Spec => []BlockTakesEffect
<1>1. IInv => BlockTakesEffect  BY DEF IInv, WorkerOK, SentInTime, BlockTakesEffect
<1> QED  BY <1>1, Invariant, PTL

-----------------------------------------------------------------------------
(* The accounts.  Accounting is inductive with IInv: in each step of a      *)
(* worker what it adds to a counter is what it changes in one of the sets   *)
(* of workers below.                                                        *)

InFlight == {w \in Worker : pc[w] \notin {"idle", "count"}}
HitsToLog == {w \in At("log") : action[w] = "CACHED"}
ToCount(a) == {w \in At("count") : action[w] = a}

One(p) == IF p THEN 1 ELSE 0

LEMMA OneInOrOut ==
  ASSUME NEW S, NEW T, NEW w, IsFiniteSet(S), S \ {w} = T \ {w}
  PROVE  /\ Cardinality(S) \in Nat /\ Cardinality(T) \in Nat
         /\ Cardinality(T) + One(w \in S) = Cardinality(S) + One(w \in T)
<1> DEFINE R == S \ {w}
<1>1. IsFiniteSet(R) /\ Cardinality(R) \in Nat /\ w \notin R
  BY FS_Difference, FS_CardinalityType
<1>2. IsFiniteSet(R \cup {w}) /\ Cardinality(R \cup {w}) = Cardinality(R) + 1
  BY <1>1, FS_AddElement
<1>3. ASSUME NEW U, U \ {w} = R
      PROVE  Cardinality(U) = Cardinality(R) + One(w \in U) /\ Cardinality(U) \in Nat
  <2>1. CASE w \in U
    <3>1. U = R \cup {w}  BY <1>3, <2>1
    <3> HIDE DEF R
    <3> QED  BY <1>1, <1>2, <2>1, <3>1 DEF One
  <2>2. CASE w \notin U
    <3>1. U = R  BY <1>3, <2>2
    <3> HIDE DEF R
    <3> QED  BY <1>1, <2>2, <3>1 DEF One
  <2> QED  BY <2>1, <2>2
<1>4. /\ Cardinality(S) = Cardinality(R) + One(w \in S) /\ Cardinality(S) \in Nat
      /\ Cardinality(T) = Cardinality(R) + One(w \in T) /\ Cardinality(T) \in Nat
  BY <1>3
<1> HIDE DEF R
<1> QED  BY <1>1, <1>4 DEF One

\* How a step of one worker changes the four numbers
LEMMA Moves ==
  ASSUME NEW w \in Worker, Others(w)
  PROVE  /\ Cardinality(InFlight)' + One(w \in InFlight)
             = Cardinality(InFlight) + One(w \in InFlight')
         /\ Cardinality(At("lookup"))' + One(w \in At("lookup"))
             = Cardinality(At("lookup")) + One(w \in At("lookup")')
         /\ Cardinality(HitsToLog)' + One(w \in HitsToLog)
             = Cardinality(HitsToLog) + One(w \in HitsToLog')
         /\ \A a \in Action :
              Cardinality(ToCount(a))' + One(w \in ToCount(a))
                = Cardinality(ToCount(a)) + One(w \in ToCount(a)')
<1>1. IsFiniteSet(Worker)  BY ServerAssumption
<1>2. IsFiniteSet(InFlight) /\ InFlight \ {w} = InFlight' \ {w}
  <2>1. InFlight \subseteq Worker  BY DEF InFlight
  <2> QED  BY <1>1, <2>1, FS_Subset DEF Others, InFlight
<1>3. IsFiniteSet(At("lookup")) /\ At("lookup") \ {w} = At("lookup")' \ {w}
  <2>1. At("lookup") \subseteq Worker  BY DEF At
  <2> QED  BY <1>1, <2>1, FS_Subset DEF Others, At
<1>4. IsFiniteSet(HitsToLog) /\ HitsToLog \ {w} = HitsToLog' \ {w}
  <2>1. HitsToLog \subseteq Worker  BY DEF HitsToLog, At
  <2> QED  BY <1>1, <2>1, FS_Subset DEF Others, HitsToLog, At
<1>5. ASSUME NEW a \in Action
      PROVE  IsFiniteSet(ToCount(a)) /\ ToCount(a) \ {w} = ToCount(a)' \ {w}
  <2>1. ToCount(a) \subseteq Worker  BY DEF ToCount, At
  <2> QED  BY <1>1, <2>1, FS_Subset DEF Others, ToCount, At
<1> QED  BY <1>2, <1>3, <1>4, <1>5, OneInOrOut

LEMMA Numbers ==
  /\ Cardinality(InFlight) \in Nat /\ Cardinality(At("lookup")) \in Nat
  /\ Cardinality(HitsToLog) \in Nat
  /\ \A a \in Action : Cardinality(ToCount(a)) \in Nat
<1>1. IsFiniteSet(Worker)  BY ServerAssumption
<1>2. /\ InFlight \subseteq Worker /\ At("lookup") \subseteq Worker /\ HitsToLog \subseteq Worker
      /\ \A a : ToCount(a) \subseteq Worker
  BY DEF InFlight, At, HitsToLog, ToCount
<1> QED  BY <1>1, <1>2, FS_Subset, FS_CardinalityType

LEMMA NumbersAfter ==
  /\ Cardinality(InFlight)' \in Nat /\ Cardinality(At("lookup"))' \in Nat
  /\ Cardinality(HitsToLog)' \in Nat
  /\ \A a \in Action : Cardinality(ToCount(a))' \in Nat
<1>1. IsFiniteSet(Worker)  BY ServerAssumption
<1>2. /\ InFlight' \subseteq Worker /\ At("lookup")' \subseteq Worker /\ HitsToLog' \subseteq Worker
      /\ \A a : ToCount(a)' \subseteq Worker
  BY DEF InFlight, At, HitsToLog, ToCount
<1> QED  BY <1>1, <1>2, FS_Subset, FS_CardinalityType

\* The parts of Accounting
EachHasAPlace == total = Logged + failed + Cardinality(InFlight)
EachIsLookedUp == total = hits + misses + Cardinality(At("lookup"))
HitsAreLogged == hits = log["CACHED"] + Cardinality(HitsToLog)
LoggedIsCounted == \A a \in Action : log[a] = count[a] + Cardinality(ToCount(a))

LEMMA AccountingParts ==
  Accounting <=> /\ EachHasAPlace /\ EachIsLookedUp /\ HitsAreLogged /\ LoggedIsCounted
                 /\ failed <= errors
BY DEF Accounting, EachHasAPlace, EachIsLookedUp, HitsAreLogged, LoggedIsCounted,
       InFlight, HitsToLog, ToCount

LEMMA AccountingPartsAfter ==
  ASSUME EachHasAPlace', EachIsLookedUp', HitsAreLogged', LoggedIsCounted', (failed <= errors)'
  PROVE  Accounting'
BY DEF Accounting, EachHasAPlace, EachIsLookedUp, HitsAreLogged, LoggedIsCounted,
       InFlight, HitsToLog, ToCount

LEMMA LoggedIsNat == ASSUME TypeOK PROVE Logged \in Nat
<1>1. /\ log["CACHED"] \in Nat /\ log["BLOCKED"] \in Nat /\ log["ALLOWED"] \in Nat
      /\ log["NXDOMAIN"] \in Nat /\ log["SERVFAIL"] \in Nat
  BY DEF TypeOK, Action
<1> QED  BY <1>1 DEF Logged

\* Where a worker is counted
LEMMA Places ==
  ASSUME NEW w \in Worker
  PROVE  /\ w \in InFlight <=> pc[w] \notin {"idle", "count"}
         /\ w \in At("lookup") <=> pc[w] = "lookup"
         /\ w \in HitsToLog <=> pc[w] = "log" /\ action[w] = "CACHED"
         /\ \A a : w \in ToCount(a) <=> pc[w] = "count" /\ action[w] = a
BY DEF InFlight, At, HitsToLog, ToCount

LEMMA PlacesAfter ==
  ASSUME NEW w \in Worker
  PROVE  /\ w \in InFlight' <=> pc'[w] \notin {"idle", "count"}
         /\ w \in At("lookup")' <=> pc'[w] = "lookup"
         /\ w \in HitsToLog' <=> pc'[w] = "log" /\ action'[w] = "CACHED"
         /\ \A a : w \in ToCount(a)' <=> pc'[w] = "count" /\ action'[w] = a
BY DEF InFlight, At, HitsToLog, ToCount

LEMMA SendMoves ==
  ASSUME TypeOK, NEW w \in Worker, NEW a, NEW what, Send(w, a, what), UNCHANGED <<query, since>>
  PROVE  Others(w) /\ pc'[w] = "log" /\ action'[w] = what
BY DEF TypeOK, Send, Goto, Others

LEMMA ReturnMoves ==
  ASSUME TypeOK, NEW w \in Worker, Return(w)
  PROVE  Others(w) /\ pc'[w] = "idle"
BY DEF TypeOK, Return, Goto, Others

\* A query begins.
LEMMA CountReceived ==
  ASSUME TypeOK, TypeOK', Accounting, NEW w \in Worker, NEW q \in Query, Receive(w, q)
  PROVE  Accounting'
<1>1. /\ UNCHANGED <<hits, misses, count, log, errors, failed>> /\ total' = total + 1
      /\ Others(w) /\ pc[w] = "idle" /\ pc'[w] = "lookup"
  BY DEF TypeOK, Receive, Goto, Others, cacheVars
<1>2. /\ Cardinality(InFlight)' = Cardinality(InFlight) + 1
      /\ Cardinality(At("lookup"))' = Cardinality(At("lookup")) + 1
      /\ Cardinality(HitsToLog)' = Cardinality(HitsToLog)
      /\ \A a \in Action : Cardinality(ToCount(a))' = Cardinality(ToCount(a))
  BY <1>1, Moves, Places, PlacesAfter, Numbers, NumbersAfter DEF One
<1>3. Logged' = Logged /\ Logged \in Nat  BY <1>1, LoggedIsNat DEF Logged
<1>4. EachHasAPlace'
  BY <1>1, <1>2, <1>3, Numbers, AccountingParts DEF TypeOK, EachHasAPlace
<1>5. EachIsLookedUp'
  BY <1>1, <1>2, Numbers, AccountingParts DEF TypeOK, EachIsLookedUp
<1>6. HitsAreLogged'  BY <1>1, <1>2, AccountingParts DEF HitsAreLogged
<1>7. LoggedIsCounted'  BY <1>1, <1>2, AccountingParts DEF LoggedIsCounted
<1>8. (failed <= errors)'  BY <1>1, AccountingParts
<1> QED  BY <1>4, <1>5, <1>6, <1>7, <1>8, AccountingPartsAfter

\* A query is served from the cache.
LEMMA CountHit ==
  ASSUME TypeOK, TypeOK', Accounting, NEW w \in Worker, LookupHit(w)
  PROVE  Accounting'
<1>1. /\ UNCHANGED <<misses, total, count, log, errors, failed>> /\ hits' = hits + 1
      /\ Others(w) /\ pc[w] = "lookup" /\ pc'[w] = "log" /\ action'[w] = "CACHED"
  BY SendMoves DEF LookupHit, stats
<1>2. /\ Cardinality(InFlight)' = Cardinality(InFlight)
      /\ Cardinality(At("lookup"))' = Cardinality(At("lookup")) - 1
      /\ Cardinality(HitsToLog)' = Cardinality(HitsToLog) + 1
      /\ \A a \in Action : Cardinality(ToCount(a))' = Cardinality(ToCount(a))
  BY <1>1, Moves, Places, PlacesAfter, Numbers, NumbersAfter DEF One
<1>3. Logged' = Logged /\ Logged \in Nat  BY <1>1, LoggedIsNat DEF Logged
<1>4. EachHasAPlace'
  BY <1>1, <1>2, <1>3, Numbers, AccountingParts DEF TypeOK, EachHasAPlace
<1>5. EachIsLookedUp'
  BY <1>1, <1>2, Numbers, AccountingParts DEF TypeOK, EachIsLookedUp
<1>6. HitsAreLogged'  BY <1>1, <1>2, Numbers, AccountingParts DEF TypeOK, Action, HitsAreLogged
<1>7. LoggedIsCounted'  BY <1>1, <1>2, AccountingParts DEF LoggedIsCounted
<1>8. (failed <= errors)'  BY <1>1, AccountingParts DEF TypeOK
<1> QED  BY <1>4, <1>5, <1>6, <1>7, <1>8, AccountingPartsAfter

\* A query is not in the cache.
LEMMA CountMiss ==
  ASSUME TypeOK, TypeOK', Accounting, NEW w \in Worker, LookupMiss(w)
  PROVE  Accounting'
<1>1. /\ UNCHANGED <<hits, total, count, log, errors, failed>> /\ misses' = misses + 1
      /\ Others(w) /\ pc[w] = "lookup" /\ pc'[w] = "check"
  BY DEF TypeOK, LookupMiss, Goto, Others, stats
<1>2. /\ Cardinality(InFlight)' = Cardinality(InFlight)
      /\ Cardinality(At("lookup"))' = Cardinality(At("lookup")) - 1
      /\ Cardinality(HitsToLog)' = Cardinality(HitsToLog)
      /\ \A a \in Action : Cardinality(ToCount(a))' = Cardinality(ToCount(a))
  BY <1>1, Moves, Places, PlacesAfter, Numbers, NumbersAfter DEF One
<1>3. Logged' = Logged /\ Logged \in Nat  BY <1>1, LoggedIsNat DEF Logged
<1>4. EachHasAPlace'
  BY <1>1, <1>2, <1>3, Numbers, AccountingParts DEF TypeOK, EachHasAPlace
<1>5. EachIsLookedUp'
  BY <1>1, <1>2, Numbers, AccountingParts DEF TypeOK, EachIsLookedUp
<1>6. HitsAreLogged'  BY <1>1, <1>2, AccountingParts DEF HitsAreLogged
<1>7. LoggedIsCounted'  BY <1>1, <1>2, AccountingParts DEF LoggedIsCounted
<1>8. (failed <= errors)'  BY <1>1, AccountingParts DEF TypeOK
<1> QED  BY <1>4, <1>5, <1>6, <1>7, <1>8, AccountingPartsAfter

\* Between the lookup and the log nothing is counted.
LEMMA CountNothing ==
  ASSUME TypeOK, TypeOK', Accounting, NEW w \in Worker, Others(w),
         pc[w] \in {"check", "resolve", "put"}, pc'[w] \in {"log", "resolve", "put"},
         pc'[w] = "log" => action'[w] # "CACHED",
         UNCHANGED <<hits, misses, stats>>
  PROVE  Accounting'
<1>1. UNCHANGED <<hits, misses, total, count, log, errors, failed>>
  BY DEF stats
<1>2. /\ Cardinality(InFlight)' = Cardinality(InFlight)
      /\ Cardinality(At("lookup"))' = Cardinality(At("lookup"))
      /\ Cardinality(HitsToLog)' = Cardinality(HitsToLog)
      /\ \A a \in Action : Cardinality(ToCount(a))' = Cardinality(ToCount(a))
  BY <1>1, Moves, Places, PlacesAfter, Numbers, NumbersAfter DEF One
<1>3. Logged' = Logged /\ Logged \in Nat  BY <1>1, LoggedIsNat DEF Logged
<1>4. EachHasAPlace'
  BY <1>1, <1>2, <1>3, Numbers, AccountingParts DEF TypeOK, EachHasAPlace
<1>5. EachIsLookedUp'
  BY <1>1, <1>2, Numbers, AccountingParts DEF TypeOK, EachIsLookedUp
<1>6. HitsAreLogged'  BY <1>1, <1>2, AccountingParts DEF HitsAreLogged
<1>7. LoggedIsCounted'  BY <1>1, <1>2, AccountingParts DEF LoggedIsCounted
<1>8. (failed <= errors)'  BY <1>1, AccountingParts DEF TypeOK
<1> QED  BY <1>4, <1>5, <1>6, <1>7, <1>8, AccountingPartsAfter

\* A query is given up.
LEMMA CountGivenUp ==
  ASSUME TypeOK, TypeOK', Accounting, NEW w \in Worker, pc[w] = "resolve", GiveUp(w)
  PROVE  Accounting'
<1>1. /\ UNCHANGED <<hits, misses, total, count, log>>
      /\ errors' = errors + 1 /\ failed' = failed + 1 /\ Others(w) /\ pc'[w] = "idle"
  BY ReturnMoves DEF GiveUp, cacheVars
<1>2. /\ Cardinality(InFlight)' = Cardinality(InFlight) - 1
      /\ Cardinality(At("lookup"))' = Cardinality(At("lookup"))
      /\ Cardinality(HitsToLog)' = Cardinality(HitsToLog)
      /\ \A a \in Action : Cardinality(ToCount(a))' = Cardinality(ToCount(a))
  BY <1>1, Moves, Places, PlacesAfter, Numbers, NumbersAfter DEF One
<1>3. Logged' = Logged /\ Logged \in Nat  BY <1>1, LoggedIsNat DEF Logged
<1>4. EachHasAPlace'
  BY <1>1, <1>2, <1>3, Numbers, AccountingParts DEF TypeOK, EachHasAPlace
<1>5. EachIsLookedUp'
  BY <1>1, <1>2, Numbers, AccountingParts DEF TypeOK, EachIsLookedUp
<1>6. HitsAreLogged'  BY <1>1, <1>2, AccountingParts DEF HitsAreLogged
<1>7. LoggedIsCounted'  BY <1>1, <1>2, AccountingParts DEF LoggedIsCounted
<1>8. (failed <= errors)'  BY <1>1, AccountingParts DEF TypeOK
<1> QED  BY <1>4, <1>5, <1>6, <1>7, <1>8, AccountingPartsAfter

\* A query is logged under its action.
LEMMA OneMoreLogged ==
  ASSUME TypeOK, NEW a \in Action, log' = [log EXCEPT ![a] = @ + 1]
  PROVE  Logged' = Logged + 1
<1>1. \A b \in Action : log[b] \in Nat /\ log'[b] = IF b = a THEN log[b] + 1 ELSE log[b]
  BY DEF TypeOK
<1>2. /\ log["CACHED"] \in Nat /\ log["BLOCKED"] \in Nat /\ log["ALLOWED"] \in Nat
      /\ log["NXDOMAIN"] \in Nat /\ log["SERVFAIL"] \in Nat
  BY <1>1 DEF Action
<1>3. log'["CACHED"] = IF a = "CACHED" THEN log["CACHED"] + 1 ELSE log["CACHED"]
  BY <1>1 DEF Action
<1>4. log'["BLOCKED"] = IF a = "BLOCKED" THEN log["BLOCKED"] + 1 ELSE log["BLOCKED"]
  BY <1>1 DEF Action
<1>5. log'["ALLOWED"] = IF a = "ALLOWED" THEN log["ALLOWED"] + 1 ELSE log["ALLOWED"]
  BY <1>1 DEF Action
<1>6. log'["NXDOMAIN"] = IF a = "NXDOMAIN" THEN log["NXDOMAIN"] + 1 ELSE log["NXDOMAIN"]
  BY <1>1 DEF Action
<1>7. log'["SERVFAIL"] = IF a = "SERVFAIL" THEN log["SERVFAIL"] + 1 ELSE log["SERVFAIL"]
  BY <1>1 DEF Action
<1> QED  BY <1>2, <1>3, <1>4, <1>5, <1>6, <1>7 DEF Action, Logged

\* It leaves the queries in flight for those that the server still counts.
LEMMA CountLogged ==
  ASSUME TypeOK, TypeOK', Accounting, NEW w \in Worker, LogQuery(w), action[w] \in Action
  PROVE  Accounting'
<1>1. /\ UNCHANGED <<hits, misses, total, count, errors, failed>>
      /\ log' = [log EXCEPT ![action[w]] = @ + 1] /\ action' = action
      /\ Others(w) /\ pc[w] = "log" /\ pc'[w] = "count"
  BY DEF TypeOK, LogQuery, Goto, Others, cacheVars
<1>2. /\ Cardinality(InFlight)' = Cardinality(InFlight) - 1
      /\ Cardinality(At("lookup"))' = Cardinality(At("lookup"))
      /\ Cardinality(HitsToLog)' = Cardinality(HitsToLog) - One(action[w] = "CACHED")
      /\ \A a \in Action : Cardinality(ToCount(a))' = Cardinality(ToCount(a)) + One(a = action[w])
  BY <1>1, Moves, Places, PlacesAfter, Numbers, NumbersAfter DEF One
<1>3. Logged' = Logged + 1 /\ Logged \in Nat  BY <1>1, OneMoreLogged, LoggedIsNat
<1>9. \A b \in Action : log[b] \in Nat /\ log'[b] = log[b] + One(b = action[w])
  BY <1>1 DEF TypeOK, One
<1>4. EachHasAPlace'
  BY <1>1, <1>2, <1>3, Numbers, AccountingParts DEF TypeOK, EachHasAPlace
<1>5. EachIsLookedUp'
  BY <1>1, <1>2, Numbers, AccountingParts DEF TypeOK, EachIsLookedUp
<1>6. HitsAreLogged'
  <2>1. /\ "CACHED" \in Action /\ One("CACHED" = action[w]) = One(action[w] = "CACHED")
        /\ One(action[w] = "CACHED") \in {0, 1}
    BY DEF Action, One
  <2>2. log["CACHED"] \in Nat /\ log'["CACHED"] = log["CACHED"] + One(action[w] = "CACHED")
    BY <1>9, <2>1
  <2>3. hits = log["CACHED"] + Cardinality(HitsToLog)  BY AccountingParts DEF HitsAreLogged
  <2> QED  BY <1>1, <1>2, <2>1, <2>2, <2>3, Numbers DEF HitsAreLogged
<1>7. LoggedIsCounted'
  <2> SUFFICES ASSUME NEW a \in Action
               PROVE  log'[a] = count'[a] + Cardinality(ToCount(a))'
    BY DEF LoggedIsCounted
  <2>1. One(a = action[w]) \in {0, 1}  BY DEF One
  <2>2. log[a] = count[a] + Cardinality(ToCount(a))  BY AccountingParts DEF LoggedIsCounted
  <2>3. count[a] \in Nat /\ count'[a] = count[a]  BY <1>1 DEF TypeOK
  <2> QED  BY <1>2, <1>9, <2>1, <2>2, <2>3, Numbers
<1>8. (failed <= errors)'  BY <1>1, AccountingParts DEF TypeOK
<1> QED  BY <1>4, <1>5, <1>6, <1>7, <1>8, AccountingPartsAfter

\* The server counts the query and is done with it.
LEMMA CountCounted ==
  ASSUME TypeOK, TypeOK', Accounting, NEW w \in Worker, CountQuery(w), action[w] \in Action
  PROVE  Accounting'
<1>1. /\ UNCHANGED <<hits, misses, total, log, errors, failed>>
      /\ count' = [count EXCEPT ![action[w]] = @ + 1]
      /\ Others(w) /\ pc[w] = "count" /\ pc'[w] = "idle"
  BY ReturnMoves DEF CountQuery, cacheVars
<1>2. /\ Cardinality(InFlight)' = Cardinality(InFlight)
      /\ Cardinality(At("lookup"))' = Cardinality(At("lookup"))
      /\ Cardinality(HitsToLog)' = Cardinality(HitsToLog)
      /\ \A a \in Action : Cardinality(ToCount(a))' = Cardinality(ToCount(a)) - One(a = action[w])
  BY <1>1, Moves, Places, PlacesAfter, Numbers, NumbersAfter DEF One
<1>3. Logged' = Logged /\ Logged \in Nat  BY <1>1, LoggedIsNat DEF Logged
<1>9. \A b \in Action : count[b] \in Nat /\ count'[b] = count[b] + One(b = action[w])
  BY <1>1 DEF TypeOK, One
<1>4. EachHasAPlace'
  BY <1>1, <1>2, <1>3, Numbers, AccountingParts DEF TypeOK, EachHasAPlace
<1>5. EachIsLookedUp'
  BY <1>1, <1>2, Numbers, AccountingParts DEF TypeOK, EachIsLookedUp
<1>6. HitsAreLogged'  BY <1>1, <1>2, AccountingParts DEF HitsAreLogged
<1>7. LoggedIsCounted'
  <2> SUFFICES ASSUME NEW a \in Action
               PROVE  log'[a] = count'[a] + Cardinality(ToCount(a))'
    BY DEF LoggedIsCounted
  <2>1. One(a = action[w]) \in {0, 1}  BY DEF One
  <2>2. log[a] = count[a] + Cardinality(ToCount(a))  BY AccountingParts DEF LoggedIsCounted
  <2>3. log'[a] = log[a]  BY <1>1
  <2> QED  BY <1>2, <1>9, <2>1, <2>2, <2>3, Numbers
<1>8. (failed <= errors)'  BY <1>1, AccountingParts DEF TypeOK
<1> QED  BY <1>4, <1>5, <1>6, <1>7, <1>8, AccountingPartsAfter

\* Where no query is counted and no worker moves
LEMMA CountsStay ==
  ASSUME TypeOK, Accounting,
         UNCHANGED <<pc, action, hits, misses, total, count, log, failed>>,
         errors' \in {errors, errors + 1}
  PROVE  Accounting'
<1>1. Logged' = Logged  BY DEF Logged
<1>2. /\ InFlight' = InFlight /\ At("lookup")' = At("lookup") /\ HitsToLog' = HitsToLog
      /\ \A a : ToCount(a)' = ToCount(a)
  BY DEF InFlight, At, HitsToLog, ToCount
<1>3. EachHasAPlace' /\ EachIsLookedUp' /\ HitsAreLogged' /\ LoggedIsCounted'
  BY <1>1, <1>2, AccountingParts
  DEF EachHasAPlace, EachIsLookedUp, HitsAreLogged, LoggedIsCounted
<1>4. (failed <= errors)'  BY AccountingParts DEF TypeOK
<1> QED  BY <1>3, <1>4, AccountingPartsAfter

LEMMA AccountingKept == IInv /\ IInv' /\ Accounting /\ [Next]_vars => Accounting'
<1> SUFFICES ASSUME IInv, IInv', Accounting, [Next]_vars PROVE Accounting'  OBVIOUS
<1>0. TypeOK /\ TypeOK' /\ \A w \in Worker : WorkerOK(w)  BY DEF IInv
<1>1. ASSUME NEW w \in Worker, Work(w) PROVE Accounting'
  <2>1. CASE LookupHit(w)  BY <1>0, <2>1, CountHit
  <2>2. CASE LookupMiss(w)  BY <1>0, <2>2, CountMiss
  <2>3. CASE CheckBlocked(w)
    <3>1. Send(w, Sinkhole(query[w]), "BLOCKED") /\ pc[w] = "check"
          /\ UNCHANGED <<query, since, hits, misses, stats>>
      BY <2>3 DEF CheckBlocked, cacheVars
    <3> QED  BY <1>0, <3>1, SendMoves, CountNothing
  <2>4. CASE CheckAllowed(w)
    <3>1. Others(w) /\ pc[w] = "check" /\ pc'[w] = "resolve" /\ UNCHANGED <<hits, misses, stats>>
      BY <1>0, <2>4 DEF TypeOK, CheckAllowed, Goto, Others, cacheVars
    <3> QED  BY <1>0, <3>1, CountNothing
  <2>5. CASE ResolveTimeout(w)  BY <1>0, <2>5, CountGivenUp DEF ResolveTimeout
  <2>6. CASE Put(w)
    <3>1. PICK what : /\ what # "CACHED" /\ Send(w, ToQuery(reply[w], query[w].id), what)
                      /\ pc[w] = "put" /\ UNCHANGED <<query, since, hits, misses, stats>>
      BY <2>6 DEF Put
    <3> QED  BY <1>0, <3>1, SendMoves, CountNothing
  <2>7. CASE LogQuery(w)
    <3>1. action[w] \in Action  BY <1>0, <2>7 DEF LogQuery, WorkerOK, Sent, Answered
    <3> QED  BY <1>0, <2>7, <3>1, CountLogged
  <2>8. CASE CountQuery(w)
    <3>1. action[w] \in Action  BY <1>0, <2>8 DEF CountQuery, WorkerOK, Sent, Answered
    <3> QED  BY <1>0, <2>8, <3>1, CountCounted
  <2> QED  BY <1>1, <2>1, <2>2, <2>3, <2>4, <2>5, <2>6, <2>7, <2>8 DEF Work
<1>2. ASSUME NEW w \in Worker, Upstream(w) PROVE Accounting'
  <2>1. CASE ResolveServfail(w)
    <3>1. Send(w, ToQuery(AnswerTo(query[w], "SERVFAIL"), query[w].id), "SERVFAIL")
          /\ pc[w] = "resolve" /\ UNCHANGED <<query, since, hits, misses, stats>>
      BY <2>1 DEF ResolveServfail, cacheVars
    <3> QED  BY <1>0, <3>1, SendMoves, CountNothing
  <2>2. CASE ResolveError(w)  BY <1>0, <2>2, CountGivenUp DEF ResolveError
  <2>3. ASSUME NEW rc \in Rcode, ResolveAnswer(w, rc) PROVE Accounting'
    <3>1. Others(w) /\ pc[w] = "resolve" /\ pc'[w] = "put" /\ UNCHANGED <<hits, misses, stats>>
      BY <1>0, <2>3 DEF TypeOK, ResolveAnswer, Goto, Others, cacheVars
    <3> QED  BY <1>0, <3>1, CountNothing
  <2> QED  BY <1>2, <2>1, <2>2, <2>3 DEF Upstream
<1>3. ASSUME NEW w \in Worker, Arrive(w) PROVE Accounting'
  <2>1. CASE Malformed(w)
    BY <1>0, <2>1, CountsStay DEF Malformed, cacheVars, worker
  <2> QED  BY <1>0, <1>3, <2>1, CountReceived DEF Arrive
<1>4. CASE ReloadClear \/ Reload
  BY <1>0, <1>4, CountsStay
  DEF ReloadClear, Reload, ReloadLoad, ReloadLoadWhitelist, SetLists, cacheVars, worker, stats
<1>5. CASE Tick  BY <1>0, <1>5, CountsStay DEF Tick, cacheVars, worker, stats
<1>6. CASE UNCHANGED vars  BY <1>0, <1>6, CountsStay DEF vars, cacheVars, worker, stats
<1> QED  BY <1>1, <1>2, <1>3, <1>4, <1>5, <1>6 DEF Next

LEMMA AccountingInitially == Init => Accounting
<1> SUFFICES ASSUME Init PROVE Accounting  OBVIOUS
<1>1. /\ {w \in Worker : pc[w] \notin {"idle", "count"}} = {} /\ At("lookup") = {}
      /\ {w \in At("log") : action[w] = "CACHED"} = {}
      /\ \A a : {w \in At("count") : action[w] = a} = {}
  BY DEF Init, At
<1>2. Logged = 0  BY DEF Init, Logged, Action
<1>3. Cardinality({}) = 0  BY FS_EmptySet
<1>4. /\ total = 0 /\ hits = 0 /\ misses = 0 /\ failed = 0 /\ errors = 0
      /\ \A a \in Action : log[a] = 0 /\ count[a] = 0
      /\ log["CACHED"] = 0
  BY DEF Init, Action
<1> QED  BY <1>1, <1>2, <1>3, <1>4 DEF Accounting

\* Whatever the workers do between each other's steps, the counters of the
\* server, the cache and the logger agree on every query.
THEOREM QueriesAreAccounted == Spec => []Accounting
<1>1. Init => IInv /\ Accounting  BY Initially, AccountingInitially
<1>2. (IInv /\ Accounting) /\ [Next]_vars => (IInv /\ Accounting)'
  BY Inductive, AccountingKept
<1> QED  BY <1>1, <1>2, PTL DEF Spec

-----------------------------------------------------------------------------
(***************************************************************************)
(* StatsReports.  The readers change nothing of the server, so what is     *)
(* shown above of every state holds when they read too: that the accounts  *)
(* of cache and logger agree at each moment is what bounds how far two     *)
(* numbers taken at different moments can be apart.                        *)
(***************************************************************************)

\* What a report holds was true when it was taken.
ReportOK(r) ==
  /\ at[r] = "logger" => report[r].hits <= hits /\ report[r].misses <= misses
  /\ at[r] = "size" =>
       /\ report[r].hits <= report[r].cached + report[r].open
       /\ report[r].misses <= report[r].others + report[r].lost + report[r].open

ReportTypes ==
  /\ at \in [Reader -> {"wait", "recv", "stats", "logger", "size"}]
  /\ report \in [Reader -> [hits : Nat, misses : Nat, cached : Nat, others : Nat,
                               open : Nat, lost : Nat]]

RInv == ReportTypes /\ \A r \in Reader : ReportOK(r)

-----------------------------------------------------------------------------
(* The server below the readers                                            *)

LEMMA ServerStep == [ReportsNext]_allVars => [Next]_vars
BY DEF ReportsNext, Serve, ReadStep, Interval, Accept, Request, Snapshot, CacheStats, GetStats,
       CacheSize, Move, allVars

LEMMA ServerRuns == ReportsSpec => Spec
<1>1. ReportsInit => Init
  BY DEF ReportsInit
<1> QED
  BY <1>1, ServerStep, PTL DEF ReportsSpec, Spec

LEMMA ServerInvariant == ReportsSpec => [](TypeOK /\ Accounting)
BY ServerRuns, TypeCorrect, QueriesAreAccounted, PTL

\* The cache never takes a lookup back.
LEMMA LookupsGrow ==
  ASSUME TypeOK, [Next]_vars
  PROVE  hits <= hits' /\ misses <= misses'
<1>1. hits \in Nat /\ misses \in Nat
  BY DEF TypeOK
<1>2. CASE UNCHANGED <<hits, misses>>
  BY <1>1, <1>2
<1>3. ASSUME NEW w \in Worker, Work(w) \/ Upstream(w) \/ Arrive(w)
      PROVE  hits' \in {hits, hits + 1} /\ misses' \in {misses, misses + 1}
  BY <1>3 DEF Work, Upstream, Arrive, LookupHit, LookupMiss, CheckBlocked, CheckAllowed,
              ResolveTimeout, ResolveServfail, ResolveError, ResolveAnswer, GiveUp, Put, LogQuery,
              CountQuery, Malformed, Receive, cacheVars
<1>4. CASE ReloadClear \/ Reload \/ Tick \/ UNCHANGED vars
  BY <1>2, <1>4 DEF ReloadClear, Reload, ReloadLoad, ReloadLoadWhitelist, SetLists, Tick,
                    vars, cacheVars
<1> QED
  BY <1>1, <1>3, <1>4 DEF Next

\* At every moment the lookups that are not logged yet are those of open queries.
LEMMA OpenLookups ==
  ASSUME TypeOK, Accounting
  PROVE  /\ Cardinality(Open) \in Nat /\ Logged - log["CACHED"] \in Nat
         /\ log["CACHED"] \in Nat /\ failed \in Nat
         /\ hits <= log["CACHED"] + Cardinality(Open)
         /\ misses <= (Logged - log["CACHED"]) + failed + Cardinality(Open)
<1>1. IsFiniteSet(Worker)
  BY ServerAssumption
<1>2. Open \subseteq Worker /\ At("lookup") \subseteq Worker /\ HitsToLog \subseteq Open
  BY DEF Open, At, HitsToLog
<1>3. IsFiniteSet(Open) /\ IsFiniteSet(At("lookup")) /\ Cardinality(Open) \in Nat
  BY <1>1, <1>2, FS_Subset, FS_CardinalityType
<1>4. Cardinality(HitsToLog) <= Cardinality(Open) /\ Cardinality(HitsToLog) \in Nat
  BY <1>2, <1>3, FS_Subset, FS_CardinalityType
<1>5. Cardinality(InFlight) = Cardinality(Open) + Cardinality(At("lookup"))
  <2>1. InFlight = Open \cup At("lookup") /\ Open \cap At("lookup") = {}
    BY DEF InFlight, Open, At, TypeOK, WorkerPC
  <2>2. Cardinality(Open \cap At("lookup")) = 0
    BY <2>1, FS_EmptySet
  <2>3. Cardinality(Open \cup At("lookup"))
          = Cardinality(Open) + Cardinality(At("lookup")) - Cardinality(Open \cap At("lookup"))
    BY <1>3, FS_Union
  <2>4. Cardinality(At("lookup")) \in Nat
    BY <1>3, FS_CardinalityType
  <2> QED
    BY <1>3, <2>1, <2>2, <2>3, <2>4
<1>6. Cardinality(At("lookup")) \in Nat
  BY <1>3, FS_CardinalityType
<1>7. /\ log["CACHED"] \in Nat /\ log["BLOCKED"] \in Nat /\ log["ALLOWED"] \in Nat
      /\ log["NXDOMAIN"] \in Nat /\ log["SERVFAIL"] \in Nat
      /\ hits \in Nat /\ misses \in Nat /\ total \in Nat /\ failed \in Nat
  BY DEF TypeOK, Action
<1>8. EachHasAPlace /\ EachIsLookedUp /\ HitsAreLogged
  BY AccountingParts
<1>9. Logged - log["CACHED"] \in Nat /\ Logged \in Nat
  BY <1>7 DEF Logged
<1> QED
  BY <1>3, <1>4, <1>5, <1>6, <1>7, <1>8, <1>9 DEF EachHasAPlace, EachIsLookedUp, HitsAreLogged

-----------------------------------------------------------------------------
(* The readers                                                             *)

LEMMA ReportsInitially == ReportsInit => RInv
BY DEF ReportsInit, RInv, ReportTypes, ReportOK, NoReport

LEMMA CacheStatsStep ==
  ASSUME TypeOK, RInv, NEW r \in Reader, CacheStats(r, "stats", "logger")
  PROVE  RInv'
<1>1. hits \in Nat /\ misses \in Nat /\ hits' = hits /\ misses' = misses
  BY DEF TypeOK, CacheStats, Move, vars, cacheVars
<1>2. ReportTypes'
  BY <1>1 DEF RInv, ReportTypes, CacheStats, Move, Take
<1>3. /\ at'[r] = "logger" /\ report'[r].hits = hits /\ report'[r].misses = misses
      /\ \A s \in Reader \ {r} : at'[s] = at[s] /\ report'[s] = report[s]
  BY DEF RInv, ReportTypes, CacheStats, Move, Take
<1> QED
  BY <1>1, <1>2, <1>3 DEF RInv, ReportOK

LEMMA GetStatsStep ==
  ASSUME TypeOK, Accounting, RInv, NEW r \in Reader, GetStats(r, "logger", "size")
  PROVE  RInv'
<1> DEFINE after == [report[r] EXCEPT !.cached = log["CACHED"], !.others = Logged - log["CACHED"],
                                      !.open = Cardinality(Open), !.lost = failed]
<1>1. /\ at'[r] = "size" /\ at[r] = "logger" /\ report'[r] = after
      /\ \A s \in Reader \ {r} : at'[s] = at[s] /\ report'[s] = report[s]
      /\ hits' = hits /\ misses' = misses
  BY DEF RInv, ReportTypes, GetStats, Move, Take, vars, cacheVars
<1>2. report[r].hits <= hits /\ report[r].misses <= misses
  BY <1>1 DEF RInv, ReportOK
<1>3. report[r] \in [hits : Nat, misses : Nat, cached : Nat, others : Nat, open : Nat, lost : Nat]
  BY DEF RInv, ReportTypes
<1>4. /\ after.hits = report[r].hits /\ after.misses = report[r].misses
      /\ after.cached = log["CACHED"] /\ after.others = Logged - log["CACHED"]
      /\ after.open = Cardinality(Open) /\ after.lost = failed
  BY <1>3
<1>5. after \in [hits : Nat, misses : Nat, cached : Nat, others : Nat, open : Nat, lost : Nat]
  BY <1>3, OpenLookups
<1>6. report[r].hits \in Nat /\ report[r].misses \in Nat /\ hits \in Nat /\ misses \in Nat
  BY <1>3 DEF TypeOK
<1>7. /\ after.hits <= after.cached + after.open
      /\ after.misses <= after.others + after.lost + after.open
  BY <1>2, <1>4, <1>6, OpenLookups
<1> HIDE DEF after
<1>8. ReportTypes'
  BY <1>1, <1>5 DEF RInv, ReportTypes, GetStats, Move, Take
<1> QED
  BY <1>1, <1>7, <1>8 DEF RInv, ReportOK

\* The other steps of a reader keep or discard what it has taken.
LEMMA OtherReads ==
  ASSUME RInv,
         \/ Interval \/ Accept \/ Request("stats") \/ Request("wait")
         \/ \E r \in Reader : CacheSize(r)
  PROVE  RInv'
<1>1. UNCHANGED <<hits, misses>>
  BY DEF Interval, Accept, Request, CacheSize, Move, vars, cacheVars
<1>2. PICK r \in Reader, to \in {"wait", "recv", "stats"} :
        at' = [at EXCEPT ![r] = to] /\ report' \in {report, [report EXCEPT ![r] = NoReport]}
  BY DEF Interval, Accept, Request, CacheSize, Move, Take
<1>3. NoReport \in [hits : Nat, misses : Nat, cached : Nat, others : Nat, open : Nat, lost : Nat]
  BY DEF NoReport
<1>4. ReportTypes'
  BY <1>2, <1>3 DEF RInv, ReportTypes
<1>5. /\ at'[r] = to
      /\ \A s \in Reader \ {r} : at'[s] = at[s] /\ report'[s] = report[s]
  BY <1>2 DEF RInv, ReportTypes
<1> QED
  BY <1>1, <1>4, <1>5 DEF RInv, ReportOK

LEMMA ServeStep ==
  ASSUME TypeOK, TypeOK', RInv, [Next]_vars, UNCHANGED reporting
  PROVE  RInv'
<1>1. hits <= hits' /\ misses <= misses'
  BY LookupsGrow
<1>2. hits \in Nat /\ misses \in Nat /\ hits' \in Nat /\ misses' \in Nat
  BY DEF TypeOK
<1>3. \A r \in Reader : report[r].hits \in Nat /\ report[r].misses \in Nat
  BY DEF RInv, ReportTypes
<1>4. at' = at /\ report' = report
  BY DEF reporting
<1>5. \A r \in Reader : ReportOK(r)'
  BY <1>1, <1>2, <1>3, <1>4 DEF RInv, ReportOK
<1> QED
  BY <1>4, <1>5 DEF RInv, ReportTypes

LEMMA ReportsStep ==
  TypeOK /\ TypeOK' /\ Accounting /\ RInv /\ [ReportsNext]_allVars => RInv'
<1> SUFFICES ASSUME TypeOK, TypeOK', Accounting, RInv, [ReportsNext]_allVars PROVE RInv'
  OBVIOUS
<1>1. CASE Serve \/ UNCHANGED allVars
  BY <1>1, ServeStep DEF Serve, allVars
<1>2. CASE ReadStep
  BY <1>2, CacheStatsStep, GetStatsStep, OtherReads DEF ReadStep, Snapshot
<1> QED
  BY <1>1, <1>2 DEF ReportsNext

LEMMA ReportsInvariant == ReportsSpec => [](TypeOK /\ RInv)
BY ServerInvariant, ReportsInitially, ReportsStep, PTL DEF ReportsSpec

\* The variables of the readers keep their types, and those of the server do while
\* they read.
THEOREM ReportsTypeCorrect == ReportsSpec => []ReportsTypeOK
<1>1. TypeOK /\ RInv => ReportsTypeOK
  BY DEF RInv, ReportTypes, ReportsTypeOK
<1> QED
  BY <1>1, ReportsInvariant, PTL

\* For any number of workers and both readers, whatever happens between the calls
\* of a report, it shows no lookup of the cache that the log does not account for
\* (dns_server.cpp, lines 318-319 and 409-410).
THEOREM ReportsAreConsistent == ReportsSpec => []LookupsAreLogged
<1>1. RInv => LookupsAreLogged
  BY DEF RInv, ReportOK, LookupsAreLogged
<1> QED
  BY <1>1, ReportsInvariant, PTL

=============================================================================
