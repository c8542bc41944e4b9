----------------------------- MODULE Lifecycle -----------------------------
(***************************************************************************)
(* The life of the process: start() and stop() of src/dns/dns_server.cpp,  *)
(* the statistics and API threads, and the signal handlers of src/main.cpp.*)
(*                                                                         *)
(* A handler runs on the main thread, on top of whatever that thread was   *)
(* doing: until it returns what it interrupted does not go on, and keeps   *)
(* the mutexes it holds.  SIGHUP may interrupt the handler of a stop       *)
(* signal, and a stop signal that of SIGHUP.  The kernel prefers the main  *)
(* thread for signals sent to the process.  One stop signal arrives at     *)
(* most.                                                                   *)
(*                                                                         *)
(* The pool (ThreadPool.tla) is a count of accepted tasks that are not     *)
(* finished; what a task does is in DNSServer.tla.  One thing of it is     *)
(* here: the kernel gives the number of a closed descriptor away again, so *)
(* a task that asks upstream may get the number that api_socket_fd_ has or *)
(* had.  The first task that gets it is followed.                          *)
(***************************************************************************)
EXTENDS Naturals

CONSTANT MaxTasks      \* bound on the tasks in the pool

ASSUME LifecycleAssumption == MaxTasks \in Nat

VARIABLES running,     \* running_
          sock,        \* socket_fd_: "none" (-1, not opened yet), "open", "closed" (-1 again, or
                       \* the old number after a failed bind(), when no task will ever run)
          api_fd,      \* does api_socket_fd_ hold a descriptor number, and not -1?
          number,      \* who has that number: "unused" before socket(), "api", "free" once it is
                       \* closed, "worker" as the socket of a query to upstream, "gone" after that
          cut,         \* history: was a worker's socket closed by another thread?
          mpc,         \* where the main thread is in start()
          reload,      \* what it left for reload_handler(), where it holds the blocklist's
                       \* mutex: "none" when it is not there, "start" or "stop"
          hpc,         \* where it is in stop(), called by signal_handler()
          spc,         \* where the statistics thread is
          apc,         \* where the API thread is
          joined,      \* which of the two have been joined
          tasks,       \* accepted and unfinished tasks
          stopped,     \* the pool's stop_
          came         \* history: where the main thread was when the stop signal came

fds == <<api_fd, number, cut>>
flags == <<running, sock, fds>>
main == <<mpc, reload, hpc, came>>
threads == <<spc, apc, joined>>
pool == <<tasks, stopped>>
vars == <<flags, main, threads, pool>>

MainPC == {"main", "opened", "bound", "announce", "announcing", "launchStats", "launchApi",
           "loop", "recv", "warn", "warning", "submit", "submitting",
           "returned", "exited", "aborted"}
StopPC == {"none", "stop", "notify", "closeSock", "testApi", "closeApi", "resetApi", "joinStats",
           "joinApi", "shutdown", "drain", "done"}
StatsPC == {"none", "check", "predicate", "falling asleep", "asleep", "awake", "report", "exited"}
ApiPC == {"none", "socket", "bind", "announce", "loop", "accept", "recv", "reply", "exited",
          "close", "reset", "failed"}

Init ==
  /\ running = FALSE /\ sock = "none"
  /\ api_fd = FALSE /\ number = "unused" /\ cut = FALSE
  /\ mpc = "main" /\ reload = "none" /\ hpc = "none"
  /\ spc = "none" /\ apc = "none" /\ joined = {}
  /\ tasks = 0 /\ stopped = FALSE
  /\ came = "nowhere"

\* The mutexes the main thread holds, also while a handler runs on top of it.
LoggerHeld == mpc \in {"announcing", "warning"}
PoolHeld == mpc = "submitting"
BlocklistHeld == reload # "none"

\* Where a stop signal finds or has found it
Where == IF reload = "start" THEN "reload" ELSE mpc

\* Between two calls of the receive loop, or blocked in recvfrom(): the main
\* thread holds no mutex and what stop() undoes has been done.
Quiet == {"loop", "recv", "warn", "submit", "returned"}

\* close() of the number that api_socket_fd_ held, whoever has it by now
CloseNumber ==
  /\ number' = CASE number = "api" -> "free" [] number = "worker" -> "gone" [] OTHER -> number
  /\ cut' = (cut \/ number = "worker")

\* accept() finds the socket that listens.
Listening == api_fd /\ number = "api"

-----------------------------------------------------------------------------
\* Faulty variants of some steps: with one of them in place of the operation it is named
\* after, TLC finds a property violated (PROJECT.json says which).

\* A task is pushed after shutdown().
SubmitAfterStop ==
  /\ mpc = "submitting" /\ mpc' = "loop"
  /\ reload = "none" /\ hpc \in {"none", "done"}
  /\ tasks' = tasks + 1
  /\ UNCHANGED <<reload, hpc, came, flags, threads, stopped>>

\* running_ is set when the threads are launched.
LaunchRunning ==
  /\ mpc = "launchApi" /\ mpc' = "loop"
  /\ reload = "none" /\ hpc \in {"none", "done"}
  /\ running' = TRUE /\ apc' = "socket"
  /\ UNCHANGED <<reload, hpc, came, sock, fds, spc, joined, pool>>

\* The statistics thread is detached.
DetachStats ==
  /\ hpc = "joinStats" /\ hpc' = "joinApi" /\ reload # "stop"
  /\ joined' = joined \cup {"stats"}
  /\ UNCHANGED <<mpc, reload, came, flags, spc, apc, pool>>

\* The number is closed and reset without the test.
TestApiNever ==
  /\ hpc = "testApi" /\ hpc' = "closeApi" /\ reload # "stop"
  /\ UNCHANGED <<mpc, reload, came, flags, threads, pool>>

\* running_ is not looked at after accept() has failed.
ApiLoopForever ==
  /\ apc = "loop" /\ apc' = IF Listening THEN "accept" ELSE "loop"
  /\ UNCHANGED <<flags, main, spc, joined, pool>>

\* api_loop() closes its socket at its end, as it does after bind() has failed.
ApiLoopCloses ==
  /\ apc = "loop" /\ apc' = IF ~running THEN "exited" ELSE IF Listening THEN "accept" ELSE "loop"
  /\ IF ~running /\ api_fd THEN CloseNumber ELSE UNCHANGED <<number, cut>>
  /\ UNCHANGED <<running, sock, api_fd, main, spc, joined, pool>>

-----------------------------------------------------------------------------
\* start(), and the end of main()

Main(from, to) ==
  /\ mpc = from /\ mpc' = to
  /\ reload = "none" /\ hpc \in {"none", "done"}
  /\ UNCHANGED <<reload, hpc, came>>

OpenSocket ==
  /\ Main("main", "opened")
  /\ sock' = "open"
  /\ UNCHANGED <<running, fds, threads, pool>>

Bind == sock = "open" /\ Main("opened", "bound") /\ UNCHANGED <<flags, threads, pool>>

\* bind() fails (or socket() did): start() throws; main() reports it and returns.
BindFails ==
  /\ Main("opened", "returned")
  /\ sock' = "closed"
  /\ UNCHANGED <<running, fds, threads, pool>>

SetRunning ==
  /\ Main("bound", "announce")
  /\ running' = TRUE
  /\ UNCHANGED <<sock, fds, threads, pool>>

Announce ==
  /\ Main("announce", "announcing") \/ Main("announcing", "launchStats")
  /\ UNCHANGED <<flags, threads, pool>>

LaunchStats ==
  /\ Main("launchStats", "launchApi")
  /\ spc' = "check"
  /\ UNCHANGED <<flags, apc, joined, pool>>

LaunchApi ==
  /\ Main("launchApi", "loop")
  /\ apc' = "socket"
  /\ UNCHANGED <<flags, spc, joined, pool>>

LoopTest ==
  /\ Main("loop", IF running THEN "recv" ELSE "returned")
  /\ UNCHANGED <<flags, threads, pool>>

Datagram ==
  /\ sock = "open" /\ tasks < MaxTasks
  /\ Main("recv", "submit")
  /\ UNCHANGED <<flags, threads, pool>>

\* recvfrom() fails: always on a closed descriptor, and sometimes on an open one.
RecvFails ==
  /\ Main("recv", IF running THEN "warn" ELSE "returned")
  /\ UNCHANGED <<flags, threads, pool>>

RecvClosed == sock # "open" /\ RecvFails

Warn ==
  /\ Main("warn", "warning") \/ Main("warning", "loop")
  /\ UNCHANGED <<flags, threads, pool>>

LockPool == Main("submit", "submitting") /\ UNCHANGED <<flags, threads, pool>>

\* submit() discards the task once the pool is stopped.
Submit ==
  /\ Main("submitting", "loop")
  /\ tasks' = IF stopped THEN tasks ELSE tasks + 1
  /\ UNCHANGED <<flags, threads, stopped>>

Unjoined == {t \in {"stats", "api"} \ joined : IF t = "stats" THEN spc # "none" ELSE apc # "none"}

\* main() returns and destroys the server: a std::thread that was not joined
\* ends the process by std::terminate, the pool's destructor drains the pool.
Destroy ==
  /\ Unjoined = {} => tasks = 0
  /\ Main("returned", IF Unjoined = {} THEN "exited" ELSE "aborted")
  /\ stopped' = TRUE
  /\ UNCHANGED <<flags, threads, tasks>>

-----------------------------------------------------------------------------
\* The signals

Hangup ==
  /\ reload = "none" /\ mpc \notin {"exited", "aborted"}
  /\ reload' = IF hpc \in {"none", "done"} THEN "start" ELSE "stop"
  /\ UNCHANGED <<flags, mpc, hpc, came, threads, pool>>

ReloadDone ==
  /\ reload = "stop" \/ (reload = "start" /\ hpc \in {"none", "done"})
  /\ reload' = "none"
  /\ UNCHANGED <<flags, mpc, hpc, came, threads, pool>>

Signal ==
  /\ hpc = "none" /\ Where \notin {"exited", "aborted"}
  /\ hpc' = "stop" /\ came' = Where
  /\ UNCHANGED <<flags, mpc, reload, threads, pool>>

Handler(from, to) ==
  /\ hpc = from /\ hpc' = to
  /\ reload # "stop"
  /\ UNCHANGED <<mpc, reload, came>>

StopRunning ==
  /\ Handler("stop", "notify")
  /\ running' = FALSE
  /\ UNCHANGED <<sock, fds, threads, pool>>

\* stats_cv_mutex_ is not held.
NotifyStats ==
  /\ Handler("notify", "closeSock")
  /\ spc' = IF spc = "asleep" THEN "predicate" ELSE spc
  /\ UNCHANGED <<flags, apc, joined, pool>>

CloseSocket ==
  /\ Handler("closeSock", "testApi")
  /\ sock' = IF sock = "open" THEN "closed" ELSE sock
  /\ UNCHANGED <<running, fds, threads, pool>>

TestApi ==
  /\ Handler("testApi", IF api_fd THEN "closeApi" ELSE "joinStats")
  /\ UNCHANGED <<flags, threads, pool>>

\* close() does not wake a thread that is blocked in accept().  It is called with
\* the number that was tested or, when api_socket_fd_ is read again, with a -1
\* that the API thread has put there.
CloseApi ==
  /\ Handler("closeApi", "resetApi")
  /\ CloseNumber \/ (~api_fd /\ UNCHANGED <<number, cut>>)
  /\ UNCHANGED <<running, sock, api_fd, threads, pool>>

ResetApi ==
  /\ Handler("resetApi", "joinStats")
  /\ api_fd' = FALSE
  /\ UNCHANGED <<running, sock, number, cut, threads, pool>>

JoinStats ==
  /\ spc \in {"none", "exited"}
  /\ Handler("joinStats", "joinApi")
  /\ joined' = IF spc = "none" THEN joined ELSE joined \cup {"stats"}
  /\ UNCHANGED <<flags, spc, apc, pool>>

JoinApi ==
  /\ apc \in {"none", "exited", "failed"}
  /\ Handler("joinApi", "shutdown")
  /\ joined' = IF apc = "none" THEN joined ELSE joined \cup {"api"}
  /\ UNCHANGED <<flags, spc, apc, pool>>

ShutdownPool ==
  /\ ~PoolHeld
  /\ Handler("shutdown", "drain")
  /\ stopped' = TRUE
  /\ UNCHANGED <<flags, threads, tasks>>

Drain ==
  /\ tasks = 0
  /\ Handler("drain", "done")
  /\ UNCHANGED <<flags, threads, pool>>

-----------------------------------------------------------------------------
\* The other threads

\* resolve() opens a socket of its own and closes it; in between its task goes on.
WorkerSocket ==
  /\ tasks > 0 /\ number = "free" /\ number' = "worker"
  /\ UNCHANGED <<running, sock, api_fd, cut, main, threads, pool>>

WorkerClose ==
  /\ number = "worker" /\ number' = "gone"
  /\ UNCHANGED <<running, sock, api_fd, cut, main, threads, pool>>

\* A worker finishes a task: it asks the blocklist, takes from the pool's queue
\* and logs.
FinishTask ==
  /\ tasks > 0 /\ (number = "worker" => tasks > 1)
  /\ ~LoggerHeld /\ ~BlocklistHeld /\ ~PoolHeld
  /\ tasks' = tasks - 1
  /\ UNCHANGED <<flags, main, threads, stopped>>

Stats(from, to) == spc = from /\ spc' = to /\ UNCHANGED <<flags, main, apc, joined, pool>>

StatsTest == \/ Stats("check", IF running THEN "predicate" ELSE "exited")
             \/ Stats("awake", IF running THEN "report" ELSE "exited")

\* wait_for() evaluates its predicate and enters the wait set while it holds
\* stats_cv_mutex_, but stop() does not take that mutex.
StatsPredicate == Stats("predicate", IF running THEN "falling asleep" ELSE "awake")
StatsSleep == Stats("falling asleep", "asleep")
StatsTimeout == Stats("asleep", "awake")
StatsSpurious == Stats("asleep", "predicate")
StatsReport == ~LoggerHeld /\ ~BlocklistHeld /\ Stats("report", "check")

Api(from, to) == apc = from /\ apc' = to /\ UNCHANGED <<running, sock, main, spc, joined, pool>>

ApiSocket == Api("socket", "bind") /\ api_fd' = TRUE /\ number' = "api" /\ UNCHANGED cut
ApiSocketFails == Api("socket", "failed") /\ UNCHANGED fds

\* bind() and listen(), which fail when stop() has closed the socket
ApiBind == Listening /\ Api("bind", "announce") /\ UNCHANGED fds
ApiBindFails == Api("bind", "close") /\ UNCHANGED fds

ApiClose ==
  /\ Api("close", "reset")
  /\ IF api_fd THEN CloseNumber ELSE UNCHANGED <<number, cut>>
  /\ UNCHANGED api_fd
ApiReset == Api("reset", "failed") /\ api_fd' = FALSE /\ UNCHANGED <<number, cut>>

ApiAnnounce == ~LoggerHeld /\ Api("announce", "loop") /\ UNCHANGED fds

\* accept() on anything but the listening socket fails and running_ is tested again.
ApiLoopTest ==
  /\ Api("loop", IF ~running THEN "exited" ELSE IF Listening THEN "accept" ELSE "loop")
  /\ UNCHANGED fds

ApiConnect == Api("accept", "recv") /\ UNCHANGED fds
ApiRequest == Api("recv", "reply") /\ UNCHANGED fds       \* or a hang-up
ApiReply == ~LoggerHeld /\ ~BlocklistHeld /\ Api("reply", "loop") /\ UNCHANGED fds

-----------------------------------------------------------------------------
MainStep == \/ OpenSocket \/ Bind \/ BindFails \/ SetRunning \/ Announce \/ LaunchStats \/ LaunchApi
            \/ LoopTest \/ RecvClosed \/ Warn \/ LockPool \/ Submit \/ Destroy \/ ReloadDone
HandlerStep == \/ StopRunning \/ NotifyStats \/ CloseSocket \/ TestApi \/ CloseApi \/ ResetApi
               \/ JoinStats \/ JoinApi \/ ShutdownPool \/ Drain
StatsStep == StatsTest \/ StatsPredicate \/ StatsSleep \/ StatsTimeout \/ StatsReport
ApiStep == \/ ApiSocket \/ ApiSocketFails \/ ApiBind \/ ApiBindFails \/ ApiClose \/ ApiReset
           \/ ApiAnnounce \/ ApiLoopTest \/ ApiReply
ApiClient == ApiConnect \/ ApiRequest
WorkerStep == FinishTask \/ WorkerClose

Terminated == mpc \in {"exited", "aborted"} /\ UNCHANGED vars

Next == \/ MainStep \/ HandlerStep \/ StatsStep \/ ApiStep \/ WorkerStep
        \/ Datagram \/ RecvFails \/ Hangup \/ Signal \/ StatsSpurious
        \/ WorkerSocket \/ ApiClient
        \/ Terminated

\* Threads that are not blocked go on; the wait of the statistics thread times
\* out.  Nobody has to send a datagram or a signal, or to use the API, and nobody
\* sends SIGHUP for ever.
Fairness == /\ <>[][~Hangup]_vars
            /\ WF_vars(MainStep) /\ WF_vars(HandlerStep)
            /\ WF_vars(StatsStep) /\ WF_vars(ApiStep) /\ WF_vars(WorkerStep)

Spec == Init /\ [][Next]_vars /\ Fairness

\* The same when somebody keeps using the API, as the dashboard does.
PolledSpec == Spec /\ WF_vars(ApiClient)

-----------------------------------------------------------------------------
\* The type of every variable.
TypeOK ==
  /\ running \in BOOLEAN /\ stopped \in BOOLEAN
  /\ reload \in {"none", "start", "stop"}
  /\ sock \in {"none", "open", "closed"}
  /\ api_fd \in BOOLEAN /\ number \in {"unused", "api", "free", "worker", "gone"} /\ cut \in BOOLEAN
  /\ mpc \in MainPC /\ hpc \in StopPC /\ spc \in StatsPC /\ apc \in ApiPC
  /\ joined \subseteq {"stats", "api"}
  /\ tasks \in 0..MaxTasks
  /\ came \in MainPC \cup {"reload", "nowhere"}

\* When stop() returns, and from then on, nothing is left of the server but its
\* main thread: the other threads have ended and were joined, every accepted
\* query was handled (those after the socket was closed without an answer), no new
\* one is accepted and the query socket is closed (dns_server.cpp, 163-193).  Of
\* the API's socket, which may stay open, ApiSocketKnown speaks.
StopIsComplete ==
  hpc = "done" /\ came \in Quiet =>
    /\ spc \in {"none", "exited"} /\ apc \in {"none", "exited", "failed"} /\ Unjoined = {}
    /\ tasks = 0 /\ stopped /\ sock = "closed"

\* Wherever the stop signal comes, no thread runs and no task is left when main()
\* ends and destroys the objects they use (dns_server.cpp, 181-192).
ExitLeavesNothing ==
  mpc = "exited" =>
    spc \in {"none", "exited"} /\ apc \in {"none", "exited", "failed"} /\ tasks = 0

\* Once stop() has returned the server does not run again, unless the signal came
\* before start() had set running_, or into a reload, which may have interrupted
\* start() there: its "runs until stop() is called" (dns_server.hpp, line 28) holds
\* from that assignment on only (dns_server.cpp, line 127).
StopHolds == hpc = "done" /\ running => came \in {"main", "opened", "bound", "reload"}

\* stop() and the API thread write api_socket_fd_ and close it without a lock.  They
\* close the same number twice, the second time the socket on which a worker waits
\* for upstream, only when stop() comes while the API thread gives up for want of a
\* port: a thread that got to listen leaves the close to stop() (dns_server.cpp,
\* lines 175-178, 357-378).
WorkerSocketKept ==
  cut => /\ apc \in {"reset", "failed"}
         /\ hpc \notin {"none", "stop", "notify", "closeSock", "testApi"}

\* The socket on which the API listens is never lost: while it is open api_socket_fd_
\* has its number, although two threads write that variable without a lock and
\* stop() tests it, closes it and sets it to -1 in three steps.  So stop() leaves
\* the socket open only when it came before the API thread had made it
\* (dns_server.cpp, lines 175-178 and 357).
ApiSocketKnown == number = "api" => api_fd

\* A signal at a place in Quiet ends the process ("Handle SIGINT and SIGTERM to shut
\* down the server cleanly", docs/requirements.md, line 11).
GracefulStop == came \in Quiet ~> mpc = "exited"

-----------------------------------------------------------------------------
\* What the documentation says and the code does not do.

\* stop() is "safe to call from a signal handler" (dns_server.hpp, line 31),
\* wherever the signal comes: it never waits for what only the thread it interrupted
\* can give, a mutex that thread holds or a thread or task that waits for one.
SafeInHandler ==
  LET ListsHeld == reload = "start" IN
  /\ hpc = "shutdown" => ~PoolHeld
  /\ hpc = "joinStats" /\ spc = "report" => ~LoggerHeld /\ ~ListsHeld
  /\ hpc = "joinApi" /\ apc = "announce" => ~LoggerHeld
  /\ hpc = "joinApi" /\ apc = "reply" => ~LoggerHeld /\ ~ListsHeld
  /\ hpc = "drain" /\ tasks > 0 => ~LoggerHeld /\ ~ListsHeld /\ ~PoolHeld
=============================================================================
