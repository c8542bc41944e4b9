# A TLA+ verification of dns-ad-blocker

The program is a DNS forwarder for a home network: it receives questions over
UDP, answers from a cache, answers questions about blocked domains with a
sinkhole address, and forwards the others to an upstream resolver. It is
multi-threaded C++17. This directory holds TLA+ models of it, TLC configurations
that check them on small instances, and proofs (TLAPS) of the most important
properties for every size. All models are translated from the code under
`src/src/` and `src/tools/`; paths below are relative to `src/`.

## 1. The system

| Component | Code | State | Operations |
|---|---|---|---|
| LRU response cache | `src/cache/lru_cache.*` | list of entries in order of use, hash map from domain to list iterator, three counters; one mutex | `get`, `put` (update, insert, evict), `clear`; `size`, `stats` read |
| Thread pool | `src/thread_pool/thread_pool.*` | queue of tasks, `stop_`, the workers; a mutex and a condition variable | `submit`, `shutdown`, `worker_loop` |
| Query pipeline | `src/dns/dns_server.cpp`, `handle_query` | six counters of its own; uses the cache, the lists, the resolver and the logger | one call per query, on a worker |
| Server life cycle | `src/dns/dns_server.cpp`, `start`, `stop`, `stats_loop`, `api_loop`; `src/main.cpp` | `running_`, three descriptors, two threads, the pool | `start`, `stop` (also from the signal handler), the end of `main` |
| Statistics and API | `src/dns/dns_server.cpp`, `stats_loop`, `api_loop` | the numbers of the report being made | three locked calls per report, HTTP answers |
| Blocklist and whitelist | `src/blocker/blocklist.*` | exact domains and compiled wildcards, for each of the two lists; one mutex | `load`, `load_whitelist`, `clear`, `is_blocked`, `add`, `remove`, `whitelist`, `unwhitelist` |
| Upstream resolver | `src/resolver/*` | none; a socket per call | `resolve`, 5 s timeout |
| Logger | `src/logger/*` | counters, a mutex, a file | `log_query`, `log_error`, `log_info`, `log_warning` |
| DNS packet codec | `src/dns/dns_packet.*` | none | `parse_packet`, `parse_domain_name`, `encode_domain_name`, `build_*`, `get_rcode` |
| Benchmark tool | `tools/benchmark.cpp` | a socket and a vector of latencies per thread; six atomic counters, a merged vector with a mutex | `main`, `worker_thread`, `send_query`, `percentile` |
| Configuration, memory statistics, dashboard | `src/config`, `src/utils`, HTML in `dns_server.cpp` | - | start-up and I/O only |

How they interact. The main thread receives datagrams in `start()` and submits a
closure per datagram to the pool. A worker runs `handle_query`: `parse_packet`,
then `cache_.get`, `blocklist_.is_blocked`, `resolver_.resolve`, `cache_.put`,
`sendto`, `logger_.log_query`, each with its own lock or none, so that other
workers run between any two of them. SIGHUP runs `reload_handler` on the main
thread, on top of whatever it was doing: `clear`, `load` and `load_whitelist` as
three locked calls. SIGINT and SIGTERM run `stop()` in the same place. Two more
threads, statistics and API, loop until `running_` is false; each takes the numbers of
a report in three calls, with queries going on in between. The benchmark is a
process of its own that talks to the server over UDP.

What is hard here:

- *Interleavings*: workers that miss the same domain at once; a reload between
  the check of the lists and the answer of upstream; a lost wakeup of a worker or
  of the statistics thread; a descriptor that two threads close.
- *Signals*: `stop()` runs on top of code that holds mutexes, before the threads
  exist, or before `running_` is set.
- *Time*: expiry of entries, the socket timeout, and how they add up when a domain
  becomes blocked.
- *Sequences of calls*: the list and the hash map of the cache must agree after
  every order of calls, with list nodes freed and reused.
- *Reports*: numbers of one report that are taken at different moments.
- *Late answers*: the benchmark's next query can be answered by the answer to an
  earlier one that was given up.
- *Bytes*: compression pointers that form cycles or lead behind the packet; names
  that are turned into strings and back, with dots inside of labels.

What makes each part correct:

- cache: list and map describe the same entries, never more than the capacity,
  the least recently used one is evicted, nothing is served after its expiry;
- pool: each task runs once, starts in order, no task waits while all workers
  sleep, and `shutdown` returns after all of them;
- pipeline: every client gets an answer to its own question with its own id, the
  cache holds what it should, a block takes effect in bounded time, the counters
  agree, every query ends;
- life cycle: after `stop()` nothing runs, `stop()` returns, nothing is destroyed
  while it is used;
- lists: a verdict is what the entries that cover the name say, the whitelist
  first, and a reload leaves nothing of the old lists;
- reports: no lookup of the cache is reported that the log cannot account for;
- responses: what the server builds can be read again and asks the same;
- benchmark: each query is counted once and everywhere alike, and the run ends;
- parser: nothing is read outside the packet, names are bounded, parsing resumes
  at the right place and ends.

`PROJECT.json` lists the hazards, each at its line, with the properties that
would catch it.

## 2. The modules

| Module | Models | Kind |
|---|---|---|
| `CacheOps` | what a call of the cache does to a map from domains to entries | operators |
| `TTLCache` | the cache as promised: a bounded map with expiry | abstract specification |
| `LRUCache` | `lru_cache.cpp`: list, hash map, node addresses, counters | state machine, implements `TTLCache` |
| `TaskService` | the pool as promised: a FIFO service | abstract specification |
| `ThreadPool` | `thread_pool.cpp`: workers, callers, mutex, condition variable | state machine, implements `TaskService` |
| `DNSServer` | `handle_query` on all workers, the shared state, `reload_handler` | composition; the cache is `CacheOps` |
| `Lifecycle` | `start`, `stop`, `stats_loop`, `api_loop`, signal handlers, end of `main` | composition of threads, the pool as a queue and a mutex |
| `NameLists` | the blocklist as promised: two sets of names | abstract specification |
| `Blocklist` | `blocklist.cpp`: matching, files, loads, `clear`, the other calls; the loads of `main.cpp` | state machine, implements `NameLists` |
| `StatsReports` | the reporting side of `stats_loop` and `api_loop` | composition with `DNSServer` |
| `PacketParser` | `parse_packet` and `parse_domain_name` byte by byte | state machine |
| `ResponseCodec` | `encode_domain_name`, `build_blocked_response`, between two runs of the parser | composition with `PacketParser` |
| `Benchmark` | `tools/benchmark.cpp` and a network that loses and delays | state machine |
| `MCLRUCache`, `MCDNSServer`, `MCStatsReports`, `MCBlocklist`, `MCResponseCodec` | the bounds, the inputs and the symmetry that TLC needs; the other modules are checked as they are | model checking |
| `LRUCacheProofs`, `ThreadPoolProofs`, `DNSServerProofs` (with `StatsReports`), `LifecycleProofs`, `BlocklistProofs`, `PacketParserProofs`, `ResponseCodecProofs`, `BenchmarkProofs` | theorems | proofs |

How state and actions correspond to the code:

- **`LRUCache`**. `entries` is the list `entries_` from front to back, a sequence
  of addresses of nodes; `node` is what the node at an address holds, `lookup` the
  iterators of `lookup_`. A call is one action because it holds the mutex throughout:
  `GetMiss`, `GetExpired` and `GetHit` are the three ways through `get`;
  `PutUpdate`, `PutInsert` and `PutEvict` those through `put`, with `evict`
  inside. Freed addresses may be used again, so a dangling iterator would
  be seen. A `max_size` of zero is included, where `evict()` meets an empty list.
- **`ThreadPool`**. A section with the mutex held is one action: `Wait` is the
  predicate and the release of the mutex on the way to sleep, `WakeUp` a wakeup,
  spurious or notified, `Pop`, `Exit` and `Finish` the rest of `worker_loop`.
  `Submit` and `NotifyOne`, `Shutdown` and `NotifyAll` are separate actions since
  the code notifies after it has released the mutex. Several callers may call
  both functions at any time.
- **`DNSServer`**. `pc[w]` is where the worker is in `handle_query`; each locked
  call is an action, and the branches of a call are actions of their own
  (`LookupHit`/`LookupMiss`, `CheckBlocked`/`CheckAllowed`, `Resolve...`). Which
  entry the cache evicts is left open, which `LRUCache` then settles. The lists
  are the sets of domains they match. Counters that the code increments at the
  end of a query are one function of the action logged. An answer is its domain,
  type, id and code; `SHORT` is an answer of fewer bytes than a header.
- **`Lifecycle`**. One program counter per thread and one for the handler that
  runs on top of the main thread; `reload` says what `reload_handler` has
  interrupted, `start()` or `stop()`, since nothing masks SIGHUP while `stop()` runs
  (`main.cpp:115-118`), nor a stop signal during a reload. The mutexes are operators that
  say who holds them from the program counters (`LoggerHeld`, `PoolHeld`, `BlocklistHeld`).
  `RecvFails` is any error of `recvfrom()`, certain on a closed socket (`RecvClosed`) and
  possible on an open one.
  `api_fd` says whether `api_socket_fd_` holds a number, `number` who has that
  number: once it is closed the kernel may give it to the socket of a query to upstream
  (`WorkerSocket`), and the first task that gets it is followed. `stop()` and the API
  thread test, close and reset the variable in separate steps (`TestApi`, `CloseApi`,
  `ResetApi`; `ApiClose`, `ApiReset`). `cut` (history) records that one of them
  closed a worker's socket, `came` where the main thread was when the stop signal
  came. `Quiet` are the places of the receive loop at which it holds no mutex and
  has done all that `stop()` undoes; two properties are about signals that find it there.
- **`PacketParser`**. A pass of the loop over a name is an action; `touched` is a
  history variable for how far into the packet bytes were read. The sizes of the
  header and of a question's fields are constants so that short packets hold
  whole questions.
- **`NameLists`, `Blocklist`**. A call holds the mutex and is one action: `Load` and
  `LoadWhitelist` read a whole file, `Clear` empties four containers, `AddDomain`,
  `AddWildcard`, `Remove`, `Whitelist...` and `Unwhitelist` are the rest of the
  interface. `rpc` is where `main()` or `reload_handler()` is between its calls. A
  name is a sequence over the alphabet `Char`, since matching is about where the
  dots are: `Parents` is the loop over them, `Matches` the regular expression
  that a wildcard is compiled to. `[` stands for what `std::regex` rejects;
  `load()` then throws with the earlier lines kept, and the process ends. The sets
  of names in `DNSServer` are those that `ImplementsNameLists` maps the lists to.
- **`StatsReports`**. The steps of `DNSServer` go on (`Serve`) while each of the two
  readers goes from one locked call to the next: `CacheStats`, `GetStats`,
  `CacheSize`. `report` is what it has taken so far, and as history how many
  queries were between the cache and the log at that moment.
- **`ResponseCodec`**. The server's parser runs on a query; `Respond` builds the
  response down to its bytes, and the same parser runs on it as the client. `Text`
  is the string that `parse_domain_name` makes of the labels, `Encode` cuts it
  again at its dots. The header, the class and the data of answers are filler; the
  type of a question is the first byte of its fields.
- **`Benchmark`**. `mpc` is `main()`, `tpc[t]` a thread, whose `Send`, `Timeout` and
  `Receive` are the three ways through `send_query`; `CountQuery` and `AddTime` are
  the two atomic updates, `Merge` the section with the mutex. `coming` is what may still
  arrive at a thread's socket; `Lose` drops any of it. `missed` is a history variable.

Definitions named in a section "Faulty variants" are plausible bugs; each one, put in
place of the operation it is named after, makes a property of a run fail.
They are not part of any specification.

## 3. The runs

| Run | Checks | Bounds |
|---|---|---|
| `lru_cache` | `Consistent`, `WithinCapacity`, `SortedByUse`, `EvictsLRU`, implements `TTLCache` | 3 domains for 2 places, so that inserts evict and updates do not; reused addresses |
| `thread_pool` | `NoLostWakeup`, `NoneSleepsThroughStop`, `ExactlyOnceInOrder`, `ShutdownDrains`, implements `TaskService` with its fairness | 3 workers, 2 callers, 4 tasks: more tasks than workers, two submits or a submit and a shutdown at once |
| `queries` | `ReplyMatchesQuery`, `CacheSound`, `BlockTakesEffect`, `Accounting` | 2 workers, 2 domains for one place, 2 ids, 3 queries, 3 seconds, reloads without limit |
| `queries_end` | `EveryQueryEnds`, `LookupsAreLogged` | `MCStatsReports`: the same machine with fairness and with the two reporting threads, one report at a time; 2 workers, 1 domain, 2 queries |
| `blocklist` | `VerdictIsRight`, `ReloadIsComplete`, `ReloadWindow`, implements `NameLists` | 5 names of up to 3 labels, 4 arguments, 3 blocklists and 2 whitelists with comments, blanks, wildcards and one that does not compile; reloads without limit |
| `lifecycle` | `StopIsComplete`, `GracefulStop` for stop signals that find the main thread at a place in `Quiet`; `StopHolds` for those after `running_ = true` and outside of a reload; `ExitLeavesNothing`, `WorkerSocketKept`, `ApiSocketKnown` for those at any place | the stop signal anywhere, SIGHUP anywhere and again, up to 2 tasks; API clients come |
| `packet_parser` | `NoReadPastEnd`, `NamesInPacket`, `ResumesAfterName`, `Terminates`; `SameQuestions`, `ResponseReadable`, `AnswersFit` | `MCResponseCodec`: all packets of up to 6 bytes over the root, labels of 1 to 3 bytes, dots and pointers; longer ones of one or two names with dots in labels, pointers and cut names; 4 passes |
| `benchmark` | `StaleAnswers`, `ReportAgrees`, `PercentilesInOrder`, `BenchmarkEnds` | up to 5 queries of up to 2 threads, arguments of 0 included; 2 latencies; lists of one domain each |

`lru_cache`, `thread_pool` and `queries` also check the module's `TypeOK`; those of
`Lifecycle`, `Blocklist`, `PacketParser`, `Benchmark` and `StatsReports` are proved
and not part of a run. Four more runs end with a counterexample (section 4).
The largest run, `packet_parser`, has some 760 000 states; every run takes minutes at most.

Why the bounds are enough. The cache's properties relate two entries at most and
one eviction; three domains and two places give every order of them. Two workers
are enough for each race on the shared state of the pipeline, since every
property of it speaks of one worker, one domain and what others did to it; three
queries let two of them race on the entry of the third. Three seconds exceed
`Timeout + LongTTL`, so the bound in `BlockTakesEffect` is reached and passed. A
packet of six bytes holds a cycle of pointers, a pointer to a pointer, a pointer
behind the end and two questions; the longer packets hold what a rebuilt name can
differ in. The names of `blocklist` include one that ends like a listed one without
being below it, one with capitals, and one two levels below an entry. Five queries
shared by two threads leave a remainder, and let a thread give up one query,
take its answer for the next, and give up again. One report at a time in
`queries_end` is enough because the readers share nothing and
`LookupsAreLogged` is about each alone; the theorem has no such bound. For what is
proved (section 5) the bounds do not matter.

`queries` and `lru_cache` use a state constraint (`Bounds`): a state beyond it is
checked and not explored further, which is sound for invariants and for the step
properties. Symmetry is used in runs without liveness only. `CHECK_DEADLOCK FALSE`
is set in the life-cycle runs alone: the process ends, and a signal that comes at
the wrong place makes it hang, which is what `SafeInHandler` is about. A capacity of zero
has no run; the theorems of section 5 cover it.

Fairness. `TaskService`/`ThreadPool`: a worker that can take a step takes it, a
caller that began a call goes on, as with any scheduler that runs every runnable
thread; no one is obliged to call. `DNSServer`: a worker that does not wait goes
on, time passes while one waits, a reload that was begun ends; upstream owes no
answer, so `EveryQueryEnds` rests on the timeout alone. `Lifecycle`: every thread
that is not blocked goes on, and in `PolledSpec` API clients come again and again (the
dashboard polls every few seconds); no fairness for signals, datagrams, spurious wakeups
or an error of `recvfrom()` on the open socket; but SIGHUP does not come for ever, or
reloads on top of `stop()` could keep it from going on. `PacketParser`, `ResponseCodec`: the walk goes on (`Parse`); whether
a response is built is left open. `Benchmark`: `main()` and each thread go on,
which includes the receive timeout of a thread that waits; the network owes nobody
an answer, so `BenchmarkEnds` rests on that timeout. `Blocklist` and the
readers of `StatsReports` have none: nobody is obliged to call or to report.

Assumptions of the models: sequentially consistent memory (the code uses mutexes
and default-ordered atomics for what the models share, except `api_socket_fd_`);
in `DNSServer` all steps other than the wait for upstream take no time compared to a
second; in `Lifecycle` signals are delivered to the main thread and there is one
stop signal.

## 4. Where the code departs from its documents

Each is a run that TLC ends with a counterexample; quotes and lines are in
`PROJECT.json`.

| Run | What happens |
|---|---|
| `queries_types` | the cache is keyed by domain only: a AAAA question gets a cached A answer |
| `queries_unlogged` | a query whose resolution fails is counted and has no query record in the log |
| `lifecycle_idle_api` | `stop()` joins the API thread, which `close()` does not wake from `accept()` or `recv()` |
| `lifecycle_handler` | `stop()` in a signal handler waits for a mutex its own thread holds |

`queries_unlogged` is about the catch clause of `handle_query` (`dns_server.cpp:288`);
`Accounting` counts such queries as `failed` and says that no others are without a record.
`lifecycle_idle_api` also explains `PolledSpec`: `GracefulStop` holds in run
`lifecycle` because an API client eventually connects.

More behaviours are in the models and have no such run of their own, because few
lines of the code show them, or the documents disagree or say nothing:

- the cache is asked before the blocklist and no reload empties it, so a newly blocked
  domain is served from it for a while (`dns_server.cpp:223`, `239`): `dns_server.hpp:17-18`
  says so, `README.md:24-25` puts the blocklist first. `BlockTakesEffect` bounds the while;
- between `load()` and `load_whitelist()` of a reload a whitelisted domain is
  blocked (`main.cpp:29-31`); `ReloadWindow` says that there and nowhere else;
- a `stop()` before `running_ = true` is undone by it (`dns_server.cpp:127`);
  `StopHolds` is about those that come later, and not into a reload, which may have
  interrupted `start()` before the assignment;
- a reload that cannot open a file leaves that list empty and reports completion all the
  same (`main.cpp:30`); `OpenMayFail` lets it happen, no property excludes it;
- `resolve()` compares neither the id nor the question of what it receives
  (`upstream_resolver.cpp:53-65`). `AnswerTo` assumes that upstream's datagram is about the
  question that was asked; `ReplyMatchesQuery` and `CacheSound` rest on that;
- a pool made with no worker accepts tasks that never run, and its `shutdown()` returns
  with them in the queue (`thread_pool.cpp:9`); the runs have one worker or more, and the
  theorem on `ShutdownDrains` assumes one;
- the benchmark never compares transaction ids, so after a timeout a late answer is
  counted for the next query (`tools/benchmark.cpp:125`); `StaleAnswers` bounds how often;
- every answer of a blocked response names the first question and has its type
  (`dns_packet.cpp:205`, `292`), whereas `dns_packet.hpp:49` speaks of a response that
  "answers all questions": the second question of a query has no answer to it.
  `AnswersFit` says whose the answer is for a single question only, which is what
  clients send, and for several that their number, size and type agree;
- the byte of a dot inside a label becomes a separator when the name is rebuilt, and
  enough of them make a name that the parser itself refuses: the exception in
  `ResponseReadable`;
- `load()` throws on a wildcard that does not compile (`blocklist.cpp:62`), which ends
  the process, in `main()` as in the signal handler (`"terminated"`);
- after a failed `recv()` the API thread searches an uninitialised buffer
  (`dns_server.cpp:394`): `Request` of `StatsReports` allows either answer;
- when the port of the API is taken and `stop()` comes meanwhile, `stop()` and the API
  thread close the same number twice, the second time perhaps a socket on which a
  worker waits for upstream (`dns_server.cpp:175`, `dns_server.cpp:357-378`);
  `WorkerSocketKept` says in this case only;
- a `stop()` that tests `api_socket_fd_` before the API thread has made its socket leaves
  that socket open (`dns_server.cpp:175`): `StopIsComplete` speaks of the query socket, and
  `ApiSocketKnown` says that this is the only way, since the number is never lost;
- `stop()` closes the query socket before the pool is drained, so the queries
  still in the pool are handled and their answers go nowhere (`dns_server.cpp:170`);
  `StopIsComplete` promises no more than that;
- a second `shutdown()` would return at once while the first still drains
  (`thread_pool.cpp:74`); the server makes its calls one after the other, and
  `ShutdownDrains` is about the call that stopped the pool;
- a `stop()` before the two threads are launched leaves them unjoined, and the
  destructor ends the process with `std::terminate` (`dns_server.cpp:131`);
  `Destroy` then leads to `"aborted"`;
- the notification of the statistics thread can fall between its test of
  `running_` and its sleep (`dns_server.cpp:168`), which delays the end by up to a
  report interval; this is the place `"falling asleep"`, and the timeout of
  `wait_for` is why `GracefulStop` holds all the same.

## 5. What is proved

The proofs hold for every value of the constants that satisfies the `ASSUME`s of
the modules (TLC evaluates those on each run).

- **`LRUCacheProofs`**: type correctness, `Consistent`, `WithinCapacity`,
  `SortedByUse`, `EvictsLRU`, and that `LRUCache` implements `TTLCache` (initial
  states and every step). The invariants are nearly inductive together; the lemmas
  say what erasing from and pushing to a list without duplicates does to its
  members and their order.
- **`ThreadPoolProofs`**: type correctness, `NoLostWakeup`,
  `NoneSleepsThroughStop`, `ExactlyOnceInOrder`, `ShutdownDrains`. The inductive
  invariant counts the notifications under way: when tasks are queued, some worker is awake
  or a caller is about to notify; and it places every accepted task in the queue, with
  a worker, or among the finished ones. With it every step is one of `TaskService`'s or is
  not seen there (`PoolIsTaskService`, the safety of `ImplementsTaskService`). That
  theorem and `ShutdownDrains` need at least one worker, the only assumption beyond
  types, and the code does not enforce it.
- **`DNSServerProofs`**: type correctness, `ReplyMatchesQuery`, `CacheSound`,
  `BlockTakesEffect`, `Accounting`. `BlockTakesEffect` alone is not inductive: a
  worker may hold an answer it has not yet cached. The invariant (`WorkerOK`,
  `ListsOK`) records that a worker which asked upstream did so before the domain
  was blocked and at most `Timeout` seconds ago, and that a cached entry of a
  blocked domain expires at most `Timeout + LongTTL` after the block. `Accounting` is
  inductive on top of that; its proof follows, step by step, the four sets of
  workers whose sizes are the difference of two counters.
  `LookupsAreLogged` of `StatsReports` is in the same module, on top of that invariant.
  A report's numbers were true at some moment; the hits and misses only grow until the
  log is read, and what the cache has counted and the log has not yet is the set of
  workers between the two (`OpenLookups`, from `Accounting`).
- **`PacketParserProofs`**: type correctness, `NoReadPastEnd`, `NamesInPacket`,
  `ResumesAfterName`, for every packet length, header size and limit. The invariant adds
  that a name has no more labels than passes were counted. `EndsAt`, the reference of
  `ResumesAfterName`, is a recursive function; `WalkExists` shows that a function with
  its equation exists, and then the invariant `Resumes` follows the walk with one
  unfolding per step: until a pointer is followed the name ends where it did, after that
  its end is kept. `WorkIsBounded` is the half of `Terminates` that is no liveness: each
  step takes one of `MaxQuestions * (MaxIterations + 3) + 1`, pointer cycles or not.
- **`ResponseCodecProofs`**: `SameQuestions`, `ResponseReadable`, `AnswersFit`, and the
  parser's three invariants and its bound on both sides, for every query and all sizes.
  First what the recursive functions of the model compute: `Labelled` part by part of a
  name, `FlattenSeq` place by place of a response (`Layout` says where each name, field and
  answer is). Then that no name the server read has a part too long for a label
  (`Short`), because each of its labels was short enough and a dot only makes parts
  shorter. The invariant of the client (`Again`) says, in a name, which part comes next:
  what is read so far is the squeezed name up to there (`InName`), and what comes next in
  the packet is the rest of what `Encode` wrote. `HeaderSize` is at most 255 because the
  answers point to it with the second byte of a pointer (the code has 12).
- **`LifecycleProofs`**: type correctness, `StopIsComplete`, `ExitLeavesNothing`,
  `StopHolds`, `WorkerSocketKept`, `ApiSocketKnown`, for any bound on the tasks. The
  invariant says that the interrupted thread stands still (`Frozen`), that `start()`
  only goes forward (`Forward`), what each step of `stop()` has achieved (`Achieved`),
  and who can have the API's number at each place of the API thread and of `stop()`
  (`Owned`).
- **`BlocklistProofs`**: type correctness, `VerdictIsRight`, `ReloadIsComplete`,
  `ReloadWindow`, and that `Blocklist` implements `NameLists`, for any alphabet, names
  and files. The matching lemmas compare the loop over the dots with "the entry is the
  name or what follows one of its dots"; the invariant says what the lists hold
  at each place of a reload that nobody disturbs (`Reloaded`).
- **`BenchmarkProofs`**: type correctness, `StaleAnswers`, `PercentilesInOrder`,
  `ReportAgrees`, for any arguments and latencies. `Owed` counts, per thread, the answers
  on the way beside the one it waits for; for the percentiles, the element of a sorted
  vector at an index is shown to exist and to grow with the index, from the sizes of the
  sets below it. `ReportAgrees` speaks of the end only; its invariant (`Books`) says at
  every moment what the shared sums hold: of each thread what it counted, timed and
  merged so far, one less than it measured while it is between the updates. The lemmas on
  sums (`SumOver` and those after it) say that a sum is that of its parts in any order.
  `ThreadsAreBounded` is the half of `BenchmarkEnds` that is no liveness: a thread has four
  steps per query and five more, and nothing gives it steps back.

Every safety invariant of the runs, and every action property, is stated by one of
these theorems. Only model-checked: liveness (the fairness in `ImplementsTaskService`,
`EveryQueryEnds`, `GracefulStop`, `Terminates`, `BenchmarkEnds`), which the prover does
not reach.

Recursion and induction. The provers cannot apply an induction rule to a predicate, so
induction is over a set of numbers or of finite sets: the set of those of which the claim
holds is shown to contain the least one and to be closed under the next
(`NumberInduction`, `SubsetInduction`). A recursive function is a `CHOOSE`; before its equation is
used, a function that satisfies it is shown to exist.

## 6. What is not modelled

- The text of log lines, HTTP answers and the dashboard: layout without state to protect.
- Configuration and the parsing of arguments: sequential code that runs before any
  thread exists. Its values are constants of the modules, which take any that
  the code may hand on (a capacity of zero included); not what they are when a number
  does not fit (`--port` is cast to 16 bits).
- Memory statistics: `/proc/self/status` read and formatted.
- Characters with a meaning in a regular expression other than `*`, `.` and one that does
  not compile; `size()`, `whitelist_size()`, `estimated_memory()`, which only read.
- Truncation of an upstream answer to 512 bytes; what `sendto()` returns, which the
  code does not look at either (`dns_server.cpp:241`); the numbers of descriptors
  other than the API's, and who else gets that one after the first task that does (the
  query socket's may go to a worker too, to which a late answer is then handed); a
  second stop signal.
- The bound that the queue of tasks does not have: the models take any length.
- In the benchmark, the bytes of a query (built as in `encode_domain_name`) and the
  rounding of the doubles in an index.

## 7. Plan

Done, in this order, because the later parts rest on the earlier ones: the cache
and its abstract specification; the thread pool and its abstract specification; the
query pipeline over the abstract cache; the life cycle; the parser; the lists and
their abstract specification; the reports beside the pipeline; the responses beside
the parser; the benchmark; the number of the API's descriptor in the life cycle;
proofs of each of them.

To do:

1. The bound on a query's steps in `DNSServer`, as `WorkIsBounded` is the parser's: what
   is left of a query falls with each step of its worker and with the seconds it waits.
2. The same for `stop()` in `Lifecycle`, for signals that find the main thread in `Quiet`.
3. The number of the query socket in `Lifecycle`, as that of the API's is there, and
   the answer that is sent through it after `stop()` has closed it.
4. A second stop signal in `Lifecycle`, which needs a stack of handlers.
5. Configuration, as a fold over lines, if a value it hands on ever comes to matter
   to a property.
