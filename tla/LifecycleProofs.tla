-------------------------- MODULE LifecycleProofs --------------------------
(***************************************************************************)
(* Theorems about Lifecycle, for any bound on the tasks.                   *)
(***************************************************************************)
EXTENDS Lifecycle, TLAPS

\* While stop() runs, the main thread stays where the signal found it.
Frozen == hpc \notin {"none", "done"} => came = Where

\* start() goes forward: the threads are launched late, the socket is opened
\* first, and what a signal interrupted is never done again.
Later == {"loop", "recv", "warn", "warning", "submit", "submitting", "returned",
          "exited", "aborted"}
Early == {"main", "opened", "bound"}
Starting == Early \cup {"announce", "announcing", "launchStats"}

Forward ==
  /\ mpc \in Starting => spc = "none"
  /\ mpc \in Starting \cup {"launchApi"} => apc = "none"
  /\ mpc # "main" => sock # "none"
  /\ came \in Quiet => mpc \in Later
  /\ hpc # "none" /\ mpc \in Early => came \in Early \cup {"reload"}

\* What each step of stop() has achieved so far
Achieved ==
  /\ hpc \notin {"none", "stop"} /\ running => came \in Early \cup {"reload"}
  /\ hpc \notin {"none", "stop", "notify", "closeSock"} /\ came \in Quiet => sock = "closed"
  /\ hpc \in {"joinApi", "shutdown", "drain", "done"} /\ came \in Quiet =>
       spc = "none" \/ (spc = "exited" /\ "stats" \in joined)
  /\ hpc \in {"shutdown", "drain", "done"} /\ came \in Quiet =>
       apc = "none" \/ (apc \in {"exited", "failed"} /\ "api" \in joined)
  /\ hpc \in {"drain", "done"} => stopped
  /\ hpc = "done" => tasks = 0

\* A thread is joined after its end, and main() ends after all of them.
Joined ==
  /\ "stats" \in joined => spc = "exited"
  /\ "api" \in joined => apc \in {"exited", "failed"}
  /\ mpc = "exited" => /\ spc = "none" \/ "stats" \in joined
                       /\ apc = "none" \/ "api" \in joined
                       /\ tasks = 0

\* The types of TypeOK, but for the number of tasks
Names ==
  /\ running \in BOOLEAN /\ stopped \in BOOLEAN
  /\ reload \in {"none", "start", "stop"}
  /\ sock \in {"none", "open", "closed"}
  /\ api_fd \in BOOLEAN /\ number \in {"unused", "api", "free", "worker", "gone"} /\ cut \in BOOLEAN
  /\ mpc \in MainPC /\ hpc \in StopPC /\ spc \in StatsPC /\ apc \in ApiPC
  /\ joined \subseteq {"stats", "api"}
  /\ came \in MainPC \cup {"reload", "nowhere"}

\* A datagram is taken only when a task may be added.
Counted ==
  /\ tasks \in 0..MaxTasks
  /\ mpc \in {"submit", "submitting"} => tasks < MaxTasks

\* Until stop() has closed it, the number is that of the API's socket while the API
\* thread is somewhere between socket() and its own close().
Untouched == {"none", "stop", "notify", "closeSock", "testApi"}
Owning == {"bind", "announce", "loop", "accept", "recv", "reply", "exited", "close"}

Owned ==
  /\ apc \in {"none", "socket"} => number = "unused" /\ ~api_fd /\ hpc \notin {"closeApi", "resetApi"}
  /\ number = "unused" => apc \in {"none", "socket", "failed"} /\ ~api_fd
  /\ apc \in Owning /\ hpc \in Untouched \cup {"closeApi"} => number = "api" /\ api_fd
  /\ cut => apc \in {"reset", "failed"} /\ hpc \notin Untouched
  /\ number = "api" => api_fd
  /\ hpc = "resetApi" \/ apc = "reset" => number # "api"

IInv == Names /\ Counted /\ Frozen /\ Forward /\ Achieved /\ Joined /\ Owned

-----------------------------------------------------------------------------
LEMMA UnjoinedEmpty ==
  Unjoined = {} <=> /\ spc = "none" \/ "stats" \in joined
                    /\ apc = "none" \/ "api" \in joined
BY DEF Unjoined

LEMMA InitInvariant == Init => IInv
<1> SUFFICES ASSUME Init PROVE IInv
  OBVIOUS
<1> USE DEF Init
<1>1. Names
  BY DEF Names, MainPC, StopPC, StatsPC, ApiPC
<1>2. Counted
  BY LifecycleAssumption DEF Counted
<1>3. Frozen /\ Forward
  BY DEF Frozen, Forward, Quiet, Early
<1>4. Achieved /\ Joined
  BY DEF Achieved, Joined
<1>5. Owned
  BY DEF Owned, Owning, Untouched
<1> QED
  BY <1>1, <1>2, <1>3, <1>4, <1>5 DEF IInv

\* The steps of the main thread
LEMMA MainInvariant ==
  ASSUME IInv, MainStep \/ Datagram \/ RecvFails
  PROVE  IInv'
<1> USE DEF IInv, Main, flags, fds, threads, pool
<1>1. CASE OpenSocket
  <2> USE <1>1 DEF OpenSocket
  <2>1. Names'
    BY DEF Names, MainPC
  <2>2. Counted'
    BY LifecycleAssumption DEF Counted
  <2>3. Frozen'
    BY DEF Names, Frozen, Where
  <2>4. Forward'
    BY DEF Names, Forward, Frozen, Where, Later, Early, Starting, Quiet, MainPC
  <2>5. Achieved'
    BY DEF Names, Achieved, Forward, Joined, Early, Later, Starting, Quiet, StopPC
  <2>6. Joined'
    BY DEF Names, Joined, Forward, Frozen, Where, Starting, MainPC
  <2>7. Owned'
    BY DEF Names, Owned, Owning, Untouched, MainPC, StopPC, ApiPC
  <2> QED
    BY <2>1, <2>2, <2>3, <2>4, <2>5, <2>6, <2>7
<1>2. CASE Bind
  <2> USE <1>2 DEF Bind
  <2>1. Names'
    BY DEF Names, MainPC
  <2>2. Counted'
    BY LifecycleAssumption DEF Counted
  <2>3. Frozen'
    BY DEF Names, Frozen, Where
  <2>4. Forward'
    BY DEF Names, Forward, Frozen, Where, Later, Early, Starting, Quiet, MainPC
  <2>5. Achieved'
    BY DEF Names, Achieved, Forward, Joined, Early, Later, Starting, Quiet, StopPC
  <2>6. Joined'
    BY DEF Names, Joined, Forward, Frozen, Where, Starting, MainPC
  <2>7. Owned'
    BY DEF Names, Owned, Owning, Untouched, MainPC, StopPC, ApiPC
  <2> QED
    BY <2>1, <2>2, <2>3, <2>4, <2>5, <2>6, <2>7
<1>3. CASE BindFails
  <2> USE <1>3 DEF BindFails
  <2>1. Names'
    BY DEF Names, MainPC
  <2>2. Counted'
    BY LifecycleAssumption DEF Counted
  <2>3. Frozen'
    BY DEF Names, Frozen, Where
  <2>4. Forward'
    BY DEF Names, Forward, Frozen, Where, Later, Early, Starting, Quiet, MainPC
  <2>5. Achieved'
    BY DEF Names, Achieved, Forward, Joined, Early, Later, Starting, Quiet, StopPC
  <2>6. Joined'
    BY DEF Names, Joined, Forward, Frozen, Where, Starting, MainPC
  <2>7. Owned'
    BY DEF Names, Owned, Owning, Untouched, MainPC, StopPC, ApiPC
  <2> QED
    BY <2>1, <2>2, <2>3, <2>4, <2>5, <2>6, <2>7
<1>4. CASE SetRunning
  <2> USE <1>4 DEF SetRunning
  <2>1. Names'
    BY DEF Names, MainPC
  <2>2. Counted'
    BY LifecycleAssumption DEF Counted
  <2>3. Frozen'
    BY DEF Names, Frozen, Where
  <2>4. Forward'
    BY DEF Names, Forward, Frozen, Where, Later, Early, Starting, Quiet, MainPC
  <2>5. Achieved'
    BY DEF Names, Achieved, Forward, Joined, Early, Later, Starting, Quiet, StopPC
  <2>6. Joined'
    BY DEF Names, Joined, Forward, Frozen, Where, Starting, MainPC
  <2>7. Owned'
    BY DEF Names, Owned, Owning, Untouched, MainPC, StopPC, ApiPC
  <2> QED
    BY <2>1, <2>2, <2>3, <2>4, <2>5, <2>6, <2>7
<1>5. CASE Announce
  <2> USE <1>5 DEF Announce
  <2>1. Names'
    BY DEF Names, MainPC
  <2>2. Counted'
    BY LifecycleAssumption DEF Counted
  <2>3. Frozen'
    BY DEF Names, Frozen, Where
  <2>4. Forward'
    BY DEF Names, Forward, Frozen, Where, Later, Early, Starting, Quiet, MainPC
  <2>5. Achieved'
    BY DEF Names, Achieved, Forward, Joined, Early, Later, Starting, Quiet, StopPC
  <2>6. Joined'
    BY DEF Names, Joined, Forward, Frozen, Where, Starting, MainPC
  <2>7. Owned'
    BY DEF Names, Owned, Owning, Untouched, MainPC, StopPC, ApiPC
  <2> QED
    BY <2>1, <2>2, <2>3, <2>4, <2>5, <2>6, <2>7
<1>6. CASE LaunchStats
  <2> USE <1>6 DEF LaunchStats
  <2>8. mpc' \in MainPC /\ spc' \in StatsPC
    BY DEF MainPC, StatsPC
  <2>1. Names'
    BY <2>8 DEF Names
  <2>2. Counted'
    BY LifecycleAssumption DEF Counted
  <2>3. Frozen'
    BY DEF Names, Frozen, Where
  <2>4. Forward'
    BY DEF Names, Forward, Frozen, Where, Later, Early, Starting, Quiet, MainPC
  <2>5. Achieved'
    BY DEF Names, Achieved, Forward, Joined, Early, Later, Starting, Quiet, StopPC
  <2>6. Joined'
    BY DEF Names, Joined, Forward, Frozen, Where, Starting, MainPC
  <2>7. Owned'
    BY DEF Names, Owned, Owning, Untouched, MainPC, StopPC, ApiPC
  <2> QED
    BY <2>1, <2>2, <2>3, <2>4, <2>5, <2>6, <2>7
<1>7. CASE LaunchApi
  <2> USE <1>7 DEF LaunchApi
  <2>1. Names'
    BY DEF Names, MainPC, ApiPC
  <2>2. Counted'
    BY LifecycleAssumption DEF Counted
  <2>3. Frozen'
    BY DEF Names, Frozen, Where
  <2>4. Forward'
    BY DEF Names, Forward, Frozen, Where, Later, Early, Starting, Quiet, MainPC
  <2>5. Achieved'
    BY DEF Names, Achieved, Forward, Joined, Early, Later, Starting, Quiet, StopPC
  <2>6. Joined'
    BY DEF Names, Joined, Forward, Frozen, Where, Starting, MainPC
  <2>7. Owned'
    BY DEF Names, Owned, Owning, Untouched, MainPC, StopPC, ApiPC, Forward, Starting
  <2> QED
    BY <2>1, <2>2, <2>3, <2>4, <2>5, <2>6, <2>7
<1>8. CASE LoopTest
  <2> USE <1>8 DEF LoopTest
  <2>1. Names'
    BY DEF Names, MainPC
  <2>2. Counted'
    BY LifecycleAssumption DEF Counted
  <2>3. Frozen'
    BY DEF Names, Frozen, Where
  <2>4. Forward'
    BY DEF Names, Forward, Frozen, Where, Later, Early, Starting, Quiet, MainPC
  <2>5. Achieved'
    BY DEF Names, Achieved, Forward, Joined, Early, Later, Starting, Quiet, StopPC
  <2>6. Joined'
    BY DEF Names, Joined, Forward, Frozen, Where, Starting, MainPC
  <2>7. Owned'
    BY DEF Names, Owned, Owning, Untouched, MainPC, StopPC, ApiPC
  <2> QED
    BY <2>1, <2>2, <2>3, <2>4, <2>5, <2>6, <2>7
<1>9. CASE RecvFails
  <2> USE <1>9 DEF RecvFails
  <2>1. Names'
    BY DEF Names, MainPC
  <2>2. Counted'
    BY LifecycleAssumption DEF Counted
  <2>3. Frozen'
    BY DEF Names, Frozen, Where
  <2>4. Forward'
    BY DEF Names, Forward, Frozen, Where, Later, Early, Starting, Quiet, MainPC
  <2>5. Achieved'
    BY DEF Names, Achieved, Forward, Joined, Early, Later, Starting, Quiet, StopPC
  <2>6. Joined'
    BY DEF Names, Joined, Forward, Frozen, Where, Starting, MainPC
  <2>7. Owned'
    BY DEF Names, Owned, Owning, Untouched, MainPC, StopPC, ApiPC
  <2> QED
    BY <2>1, <2>2, <2>3, <2>4, <2>5, <2>6, <2>7
<1>10. CASE Warn
  <2> USE <1>10 DEF Warn
  <2>1. Names'
    BY DEF Names, MainPC
  <2>2. Counted'
    BY LifecycleAssumption DEF Counted
  <2>3. Frozen'
    BY DEF Names, Frozen, Where
  <2>4. Forward'
    BY DEF Names, Forward, Frozen, Where, Later, Early, Starting, Quiet, MainPC
  <2>5. Achieved'
    BY DEF Names, Achieved, Forward, Joined, Early, Later, Starting, Quiet, StopPC
  <2>6. Joined'
    BY DEF Names, Joined, Forward, Frozen, Where, Starting, MainPC
  <2>7. Owned'
    BY DEF Names, Owned, Owning, Untouched, MainPC, StopPC, ApiPC
  <2> QED
    BY <2>1, <2>2, <2>3, <2>4, <2>5, <2>6, <2>7
<1>11. CASE LockPool
  <2> USE <1>11 DEF LockPool
  <2>1. Names'
    BY DEF Names, MainPC
  <2>2. Counted'
    BY LifecycleAssumption DEF Counted
  <2>3. Frozen'
    BY DEF Names, Frozen, Where
  <2>4. Forward'
    BY DEF Names, Forward, Frozen, Where, Later, Early, Starting, Quiet, MainPC
  <2>5. Achieved'
    BY DEF Names, Achieved, Forward, Joined, Early, Later, Starting, Quiet, StopPC
  <2>6. Joined'
    BY DEF Names, Joined, Forward, Frozen, Where, Starting, MainPC
  <2>7. Owned'
    BY DEF Names, Owned, Owning, Untouched, MainPC, StopPC, ApiPC
  <2> QED
    BY <2>1, <2>2, <2>3, <2>4, <2>5, <2>6, <2>7
<1>12. CASE Submit
  <2> USE <1>12 DEF Submit
  <2>1. Names'
    BY DEF Names, MainPC
  <2>2. Counted'
    BY LifecycleAssumption DEF Counted
  <2>3. Frozen'
    BY DEF Names, Frozen, Where
  <2>4. Forward'
    BY DEF Names, Forward, Frozen, Where, Later, Early, Starting, Quiet, MainPC
  <2>5. Achieved'
    BY DEF Names, Achieved, Forward, Joined, Early, Later, Starting, Quiet, StopPC
  <2>6. Joined'
    BY DEF Names, Joined, Forward, Frozen, Where, Starting, MainPC
  <2>7. Owned'
    BY DEF Names, Owned, Owning, Untouched, MainPC, StopPC, ApiPC
  <2> QED
    BY <2>1, <2>2, <2>3, <2>4, <2>5, <2>6, <2>7
<1>13. CASE Destroy
  <2> USE <1>13 DEF Destroy
  <2>1. Names'
    BY DEF Names, MainPC
  <2>2. Counted'
    BY LifecycleAssumption DEF Counted
  <2>3. Frozen'
    BY DEF Names, Frozen, Where
  <2>4. Forward'
    BY DEF Names, Forward, Frozen, Where, Later, Early, Starting, Quiet, MainPC
  <2>5. Achieved'
    BY DEF Names, Achieved, Forward, Joined, Early, Later, Starting, Quiet, StopPC
  <2>6. Joined'
    BY UnjoinedEmpty DEF Names, Joined, Forward, Frozen, Where, Starting, MainPC
  <2>7. Owned'
    BY DEF Names, Owned, Owning, Untouched, MainPC, StopPC, ApiPC
  <2> QED
    BY <2>1, <2>2, <2>3, <2>4, <2>5, <2>6, <2>7
<1>14. CASE ReloadDone
  <2> USE <1>14 DEF ReloadDone
  <2>1. Names'
    BY DEF Names, flags
  <2>2. Counted'
    BY LifecycleAssumption DEF Counted
  <2>3. Frozen'
    BY DEF Names, Frozen, Where
  <2>4. Forward'
    BY DEF Names, Forward, Frozen, Where, Later, Early, Starting, Quiet, MainPC
  <2>5. Achieved'
    BY DEF Names, Achieved, Forward, Joined, Early, Later, Starting, Quiet, StopPC
  <2>6. Joined'
    BY DEF Names, Joined, Forward, Frozen, Where, Starting, MainPC
  <2>7. Owned'
    BY DEF Names, Owned, Owning, Untouched, MainPC, StopPC, ApiPC
  <2> QED
    BY <2>1, <2>2, <2>3, <2>4, <2>5, <2>6, <2>7
<1>15. CASE Datagram
  <2> USE <1>15 DEF Datagram
  <2>1. Names'
    BY DEF Names, MainPC
  <2>2. Counted'
    BY LifecycleAssumption DEF Counted
  <2>3. Frozen'
    BY DEF Names, Frozen, Where
  <2>4. Forward'
    BY DEF Names, Forward, Frozen, Where, Later, Early, Starting, Quiet, MainPC
  <2>5. Achieved'
    BY DEF Names, Achieved, Forward, Joined, Early, Later, Starting, Quiet, StopPC
  <2>6. Joined'
    BY DEF Names, Joined, Forward, Frozen, Where, Starting, MainPC
  <2>7. Owned'
    BY DEF Names, Owned, Owning, Untouched, MainPC, StopPC, ApiPC
  <2> QED
    BY <2>1, <2>2, <2>3, <2>4, <2>5, <2>6, <2>7
<1> QED
  BY <1>1, <1>2, <1>3, <1>4, <1>5, <1>6, <1>7, <1>8, <1>9, <1>10, <1>11, <1>12, <1>13, <1>14, <1>15 DEF MainStep, RecvClosed

\* The signals, and the steps of stop() on top of the main thread
LEMMA HandlerInvariant ==
  ASSUME IInv, Signal \/ Hangup \/ HandlerStep
  PROVE  IInv'
<1> USE DEF IInv, Handler, flags, fds, threads, pool
<1>1. CASE Signal
  <2> USE <1>1 DEF Signal
  <2>1. Names'
    BY DEF Names, StopPC, Where
  <2>2. Counted'
    BY LifecycleAssumption DEF Counted
  <2>3. Frozen'
    BY DEF Names, Frozen, Where
  <2>4. Forward'
    BY DEF Names, Forward, Frozen, Where, Later, Early, Starting, Quiet, MainPC
  <2>5. Achieved'
    BY DEF Names, Achieved, Forward, Joined, Early, Later, Starting, Quiet, StopPC
  <2>6. Joined'
    BY DEF Names, Joined, Forward, Frozen, Where, Starting, MainPC
  <2>7. Owned'
    BY DEF Names, Owned, Owning, Untouched, MainPC, StopPC, ApiPC
  <2> QED
    BY <2>1, <2>2, <2>3, <2>4, <2>5, <2>6, <2>7
<1>2. CASE Hangup
  <2> USE <1>2 DEF Hangup
  <2>1. Names'
    BY DEF Names, StopPC
  <2>2. Counted'
    BY LifecycleAssumption DEF Counted
  <2>3. Frozen'
    BY DEF Names, Frozen, Where
  <2>4. Forward'
    BY DEF Names, Forward, Frozen, Where, Later, Early, Starting, Quiet, MainPC
  <2>5. Achieved'
    BY DEF Names, Achieved, Forward, Joined, Early, Later, Starting, Quiet, StopPC
  <2>6. Joined'
    BY DEF Names, Joined, Forward, Frozen, Where, Starting, MainPC
  <2>7. Owned'
    BY DEF Names, Owned, Owning, Untouched, MainPC, StopPC, ApiPC
  <2> QED
    BY <2>1, <2>2, <2>3, <2>4, <2>5, <2>6, <2>7
<1>3. CASE StopRunning
  <2> USE <1>3 DEF StopRunning
  <2>1. Names'
    BY DEF Names, StopPC
  <2>2. Counted'
    BY LifecycleAssumption DEF Counted
  <2>3. Frozen'
    BY DEF Names, Frozen, Where
  <2>4. Forward'
    BY DEF Names, Forward, Frozen, Where, Later, Early, Starting, Quiet, MainPC
  <2>5. Achieved'
    BY DEF Names, Achieved, Forward, Joined, Early, Later, Starting, Quiet, StopPC
  <2>6. Joined'
    BY DEF Names, Joined, Forward, Frozen, Where, Starting, MainPC
  <2>7. Owned'
    BY DEF Names, Owned, Owning, Untouched, MainPC, StopPC, ApiPC
  <2> QED
    BY <2>1, <2>2, <2>3, <2>4, <2>5, <2>6, <2>7
<1>4. CASE NotifyStats
  <2> USE <1>4 DEF NotifyStats
  <2>1. Names'
    BY DEF Names, StopPC, StatsPC
  <2>2. Counted'
    BY LifecycleAssumption DEF Counted
  <2>3. Frozen'
    BY DEF Names, Frozen, Where
  <2>4. Forward'
    BY DEF Names, Forward, Frozen, Where, Later, Early, Starting, Quiet, MainPC
  <2>5. Achieved'
    BY DEF Names, Achieved, Forward, Joined, Early, Later, Starting, Quiet, StopPC
  <2>6. Joined'
    BY DEF Names, Joined, Forward, Frozen, Where, Starting, MainPC
  <2>7. Owned'
    BY DEF Names, Owned, Owning, Untouched, MainPC, StopPC, ApiPC
  <2> QED
    BY <2>1, <2>2, <2>3, <2>4, <2>5, <2>6, <2>7
<1>5. CASE CloseSocket
  <2> USE <1>5 DEF CloseSocket
  <2>1. Names'
    BY DEF Names, StopPC
  <2>2. Counted'
    BY LifecycleAssumption DEF Counted
  <2>3. Frozen'
    BY DEF Names, Frozen, Where
  <2>4. Forward'
    BY DEF Names, Forward, Frozen, Where, Later, Early, Starting, Quiet, MainPC
  <2>5. Achieved'
    BY DEF Names, Achieved, Forward, Joined, Early, Later, Starting, Quiet, StopPC
  <2>6. Joined'
    BY DEF Names, Joined, Forward, Frozen, Where, Starting, MainPC
  <2>7. Owned'
    BY DEF Names, Owned, Owning, Untouched, MainPC, StopPC, ApiPC
  <2> QED
    BY <2>1, <2>2, <2>3, <2>4, <2>5, <2>6, <2>7
<1>6. CASE TestApi
  <2> USE <1>6 DEF TestApi
  <2>1. Names'
    BY DEF Names, StopPC
  <2>2. Counted'
    BY LifecycleAssumption DEF Counted
  <2>3. Frozen'
    BY DEF Names, Frozen, Where
  <2>4. Forward'
    BY DEF Names, Forward, Frozen, Where, Later, Early, Starting, Quiet, MainPC
  <2>5. Achieved'
    BY DEF Names, Achieved, Forward, Joined, Early, Later, Starting, Quiet, StopPC
  <2>6. Joined'
    BY DEF Names, Joined, Forward, Frozen, Where, Starting, MainPC
  <2>7. Owned'
    BY DEF Names, Owned, Owning, Untouched, MainPC, StopPC, ApiPC
  <2> QED
    BY <2>1, <2>2, <2>3, <2>4, <2>5, <2>6, <2>7
<1>7. CASE CloseApi
  <2> USE <1>7 DEF CloseApi, CloseNumber
  <2>1. Names'
    BY DEF Names, StopPC
  <2>2. Counted'
    BY LifecycleAssumption DEF Counted
  <2>3. Frozen'
    BY DEF Names, Frozen, Where
  <2>4. Forward'
    BY DEF Names, Forward, Frozen, Where, Later, Early, Starting, Quiet, MainPC
  <2>5. Achieved'
    BY DEF Names, Achieved, Forward, Joined, Early, Later, Starting, Quiet, StopPC
  <2>6. Joined'
    BY DEF Names, Joined, Forward, Frozen, Where, Starting, MainPC
  <2>7. Owned'
    BY DEF Names, Owned, Owning, Untouched, MainPC, StopPC, ApiPC
  <2> QED
    BY <2>1, <2>2, <2>3, <2>4, <2>5, <2>6, <2>7
<1>8. CASE ResetApi
  <2> USE <1>8 DEF ResetApi
  <2>1. Names'
    BY DEF Names, StopPC
  <2>2. Counted'
    BY LifecycleAssumption DEF Counted
  <2>3. Frozen'
    BY DEF Names, Frozen, Where
  <2>4. Forward'
    BY DEF Names, Forward, Frozen, Where, Later, Early, Starting, Quiet, MainPC
  <2>5. Achieved'
    BY DEF Names, Achieved, Forward, Joined, Early, Later, Starting, Quiet, StopPC
  <2>6. Joined'
    BY DEF Names, Joined, Forward, Frozen, Where, Starting, MainPC
  <2>7. Owned'
    BY DEF Names, Owned, Owning, Untouched, MainPC, StopPC, ApiPC
  <2> QED
    BY <2>1, <2>2, <2>3, <2>4, <2>5, <2>6, <2>7
<1>9. CASE JoinStats
  <2> USE <1>9 DEF JoinStats
  <2>1. Names'
    BY DEF Names, StopPC
  <2>2. Counted'
    BY LifecycleAssumption DEF Counted
  <2>3. Frozen'
    BY DEF Names, Frozen, Where
  <2>4. Forward'
    BY DEF Names, Forward, Frozen, Where, Later, Early, Starting, Quiet, MainPC
  <2>5. Achieved'
    BY DEF Names, Achieved, Forward, Joined, Early, Later, Starting, Quiet, StopPC
  <2>6. Joined'
    BY DEF Names, Joined, Forward, Frozen, Where, Starting, MainPC
  <2>7. Owned'
    BY DEF Names, Owned, Owning, Untouched, MainPC, StopPC, ApiPC
  <2> QED
    BY <2>1, <2>2, <2>3, <2>4, <2>5, <2>6, <2>7
<1>10. CASE JoinApi
  <2> USE <1>10 DEF JoinApi
  <2>1. Names'
    BY DEF Names, StopPC
  <2>2. Counted'
    BY LifecycleAssumption DEF Counted
  <2>3. Frozen'
    BY DEF Names, Frozen, Where
  <2>4. Forward'
    BY DEF Names, Forward, Frozen, Where, Later, Early, Starting, Quiet, MainPC
  <2>5. Achieved'
    BY DEF Names, Achieved, Forward, Joined, Early, Later, Starting, Quiet, StopPC
  <2>6. Joined'
    BY DEF Names, Joined, Forward, Frozen, Where, Starting, MainPC
  <2>7. Owned'
    BY DEF Names, Owned, Owning, Untouched, MainPC, StopPC, ApiPC
  <2> QED
    BY <2>1, <2>2, <2>3, <2>4, <2>5, <2>6, <2>7
<1>11. CASE ShutdownPool
  <2> USE <1>11 DEF ShutdownPool
  <2>1. Names'
    BY DEF Names, StopPC
  <2>2. Counted'
    BY LifecycleAssumption DEF Counted
  <2>3. Frozen'
    BY DEF Names, Frozen, Where
  <2>4. Forward'
    BY DEF Names, Forward, Frozen, Where, Later, Early, Starting, Quiet, MainPC
  <2>5. Achieved'
    BY DEF Names, Achieved, Forward, Joined, Early, Later, Starting, Quiet, StopPC
  <2>6. Joined'
    BY DEF Names, Joined, Forward, Frozen, Where, Starting, MainPC
  <2>7. Owned'
    BY DEF Names, Owned, Owning, Untouched, MainPC, StopPC, ApiPC
  <2> QED
    BY <2>1, <2>2, <2>3, <2>4, <2>5, <2>6, <2>7
<1>12. CASE Drain
  <2> USE <1>12 DEF Drain
  <2>1. Names'
    BY DEF Names, StopPC
  <2>2. Counted'
    BY LifecycleAssumption DEF Counted
  <2>3. Frozen'
    BY DEF Names, Frozen, Where
  <2>4. Forward'
    BY DEF Names, Forward, Frozen, Where, Later, Early, Starting, Quiet, MainPC
  <2>5. Achieved'
    BY DEF Names, Achieved, Forward, Joined, Early, Later, Starting, Quiet, StopPC
  <2>6. Joined'
    BY DEF Names, Joined, Forward, Frozen, Where, Starting, MainPC
  <2>7. Owned'
    BY DEF Names, Owned, Owning, Untouched, MainPC, StopPC, ApiPC
  <2> QED
    BY <2>1, <2>2, <2>3, <2>4, <2>5, <2>6, <2>7
<1> QED
  BY <1>1, <1>2, <1>3, <1>4, <1>5, <1>6, <1>7, <1>8, <1>9, <1>10, <1>11, <1>12 DEF HandlerStep

\* The steps of the other threads
LEMMA ThreadInvariant ==
  ASSUME IInv, StatsStep \/ StatsSpurious \/ ApiStep \/ ApiClient \/ WorkerStep \/ WorkerSocket
  PROVE  IInv'
<1> USE DEF IInv, flags, fds, main, threads, pool
<1>1. CASE StatsTest
  <2> USE <1>1 DEF StatsTest, Stats
  <2>1. Names'
    BY DEF Names, StatsPC
  <2>2. Counted'
    BY LifecycleAssumption DEF Counted
  <2>3. Frozen'
    BY DEF Names, Frozen, Where
  <2>4. Forward'
    BY DEF Names, Forward, Frozen, Where, Later, Early, Starting, Quiet, MainPC
  <2>5. Achieved'
    BY DEF Names, Achieved, Forward, Joined, Early, Later, Starting, Quiet, StopPC
  <2>6. Joined'
    BY DEF Names, Joined, Forward, Frozen, Where, Starting, MainPC
  <2>7. Owned'
    BY DEF Names, Owned, Owning, Untouched, MainPC, StopPC, ApiPC
  <2> QED
    BY <2>1, <2>2, <2>3, <2>4, <2>5, <2>6, <2>7
<1>2. CASE StatsPredicate
  <2> USE <1>2 DEF StatsPredicate, Stats
  <2>1. Names'
    BY DEF Names, StatsPC
  <2>2. Counted'
    BY LifecycleAssumption DEF Counted
  <2>3. Frozen'
    BY DEF Names, Frozen, Where
  <2>4. Forward'
    BY DEF Names, Forward, Frozen, Where, Later, Early, Starting, Quiet, MainPC
  <2>5. Achieved'
    BY DEF Names, Achieved, Forward, Joined, Early, Later, Starting, Quiet, StopPC
  <2>6. Joined'
    BY DEF Names, Joined, Forward, Frozen, Where, Starting, MainPC
  <2>7. Owned'
    BY DEF Names, Owned, Owning, Untouched, MainPC, StopPC, ApiPC
  <2> QED
    BY <2>1, <2>2, <2>3, <2>4, <2>5, <2>6, <2>7
<1>3. CASE StatsSleep
  <2> USE <1>3 DEF StatsSleep, Stats
  <2>1. Names'
    BY DEF Names, StatsPC
  <2>2. Counted'
    BY LifecycleAssumption DEF Counted
  <2>3. Frozen'
    BY DEF Names, Frozen, Where
  <2>4. Forward'
    BY DEF Names, Forward, Frozen, Where, Later, Early, Starting, Quiet, MainPC
  <2>5. Achieved'
    BY DEF Names, Achieved, Forward, Joined, Early, Later, Starting, Quiet, StopPC
  <2>6. Joined'
    BY DEF Names, Joined, Forward, Frozen, Where, Starting, MainPC
  <2>7. Owned'
    BY DEF Names, Owned, Owning, Untouched, MainPC, StopPC, ApiPC
  <2> QED
    BY <2>1, <2>2, <2>3, <2>4, <2>5, <2>6, <2>7
<1>4. CASE StatsTimeout
  <2> USE <1>4 DEF StatsTimeout, Stats
  <2>1. Names'
    BY DEF Names, StatsPC
  <2>2. Counted'
    BY LifecycleAssumption DEF Counted
  <2>3. Frozen'
    BY DEF Names, Frozen, Where
  <2>4. Forward'
    BY DEF Names, Forward, Frozen, Where, Later, Early, Starting, Quiet, MainPC
  <2>5. Achieved'
    BY DEF Names, Achieved, Forward, Joined, Early, Later, Starting, Quiet, StopPC
  <2>6. Joined'
    BY DEF Names, Joined, Forward, Frozen, Where, Starting, MainPC
  <2>7. Owned'
    BY DEF Names, Owned, Owning, Untouched, MainPC, StopPC, ApiPC
  <2> QED
    BY <2>1, <2>2, <2>3, <2>4, <2>5, <2>6, <2>7
<1>5. CASE StatsSpurious
  <2> USE <1>5 DEF StatsSpurious, Stats
  <2>1. Names'
    BY DEF Names, StatsPC
  <2>2. Counted'
    BY LifecycleAssumption DEF Counted
  <2>3. Frozen'
    BY DEF Names, Frozen, Where
  <2>4. Forward'
    BY DEF Names, Forward, Frozen, Where, Later, Early, Starting, Quiet, MainPC
  <2>5. Achieved'
    BY DEF Names, Achieved, Forward, Joined, Early, Later, Starting, Quiet, StopPC
  <2>6. Joined'
    BY DEF Names, Joined, Forward, Frozen, Where, Starting, MainPC
  <2>7. Owned'
    BY DEF Names, Owned, Owning, Untouched, MainPC, StopPC, ApiPC
  <2> QED
    BY <2>1, <2>2, <2>3, <2>4, <2>5, <2>6, <2>7
<1>6. CASE StatsReport
  <2> USE <1>6 DEF StatsReport, Stats
  <2>1. Names'
    BY DEF Names, StatsPC
  <2>2. Counted'
    BY LifecycleAssumption DEF Counted
  <2>3. Frozen'
    BY DEF Names, Frozen, Where
  <2>4. Forward'
    BY DEF Names, Forward, Frozen, Where, Later, Early, Starting, Quiet, MainPC
  <2>5. Achieved'
    BY DEF Names, Achieved, Forward, Joined, Early, Later, Starting, Quiet, StopPC
  <2>6. Joined'
    BY DEF Names, Joined, Forward, Frozen, Where, Starting, MainPC
  <2>7. Owned'
    BY DEF Names, Owned, Owning, Untouched, MainPC, StopPC, ApiPC
  <2> QED
    BY <2>1, <2>2, <2>3, <2>4, <2>5, <2>6, <2>7
<1>7. CASE ApiSocket
  <2> USE <1>7 DEF ApiSocket, Api
  <2>1. Names'
    BY DEF Names, ApiPC
  <2>2. Counted'
    BY LifecycleAssumption DEF Counted
  <2>3. Frozen'
    BY DEF Names, Frozen, Where
  <2>4. Forward'
    BY DEF Names, Forward, Frozen, Where, Later, Early, Starting, Quiet, MainPC
  <2>5. Achieved'
    BY DEF Names, Achieved, Forward, Joined, Early, Later, Starting, Quiet, StopPC
  <2>6. Joined'
    BY DEF Names, Joined, Forward, Frozen, Where, Starting, MainPC
  <2>7. Owned'
    BY DEF Names, Owned, Owning, Untouched, MainPC, StopPC, ApiPC
  <2> QED
    BY <2>1, <2>2, <2>3, <2>4, <2>5, <2>6, <2>7
<1>8. CASE ApiSocketFails
  <2> USE <1>8 DEF ApiSocketFails, Api
  <2>1. Names'
    BY DEF Names, ApiPC
  <2>2. Counted'
    BY LifecycleAssumption DEF Counted
  <2>3. Frozen'
    BY DEF Names, Frozen, Where
  <2>4. Forward'
    BY DEF Names, Forward, Frozen, Where, Later, Early, Starting, Quiet, MainPC
  <2>5. Achieved'
    BY DEF Names, Achieved, Forward, Joined, Early, Later, Starting, Quiet, StopPC
  <2>6. Joined'
    BY DEF Names, Joined, Forward, Frozen, Where, Starting, MainPC
  <2>7. Owned'
    BY DEF Names, Owned, Owning, Untouched, MainPC, StopPC, ApiPC
  <2> QED
    BY <2>1, <2>2, <2>3, <2>4, <2>5, <2>6, <2>7
<1>9. CASE ApiBind
  <2> USE <1>9 DEF ApiBind, Api, Listening
  <2>1. Names'
    BY DEF Names, ApiPC
  <2>2. Counted'
    BY LifecycleAssumption DEF Counted
  <2>3. Frozen'
    BY DEF Names, Frozen, Where
  <2>4. Forward'
    BY DEF Names, Forward, Frozen, Where, Later, Early, Starting, Quiet, MainPC
  <2>5. Achieved'
    BY DEF Names, Achieved, Forward, Joined, Early, Later, Starting, Quiet, StopPC
  <2>6. Joined'
    BY DEF Names, Joined, Forward, Frozen, Where, Starting, MainPC
  <2>7. Owned'
    BY DEF Names, Owned, Owning, Untouched, MainPC, StopPC, ApiPC
  <2> QED
    BY <2>1, <2>2, <2>3, <2>4, <2>5, <2>6, <2>7
<1>10. CASE ApiBindFails
  <2> USE <1>10 DEF ApiBindFails, Api
  <2>1. Names'
    BY DEF Names, ApiPC
  <2>2. Counted'
    BY LifecycleAssumption DEF Counted
  <2>3. Frozen'
    BY DEF Names, Frozen, Where
  <2>4. Forward'
    BY DEF Names, Forward, Frozen, Where, Later, Early, Starting, Quiet, MainPC
  <2>5. Achieved'
    BY DEF Names, Achieved, Forward, Joined, Early, Later, Starting, Quiet, StopPC
  <2>6. Joined'
    BY DEF Names, Joined, Forward, Frozen, Where, Starting, MainPC
  <2>7. Owned'
    BY DEF Names, Owned, Owning, Untouched, MainPC, StopPC, ApiPC
  <2> QED
    BY <2>1, <2>2, <2>3, <2>4, <2>5, <2>6, <2>7
<1>11. CASE ApiClose
  <2> USE <1>11 DEF ApiClose, Api, CloseNumber
  <2>1. Names'
    BY DEF Names, ApiPC
  <2>2. Counted'
    BY LifecycleAssumption DEF Counted
  <2>3. Frozen'
    BY DEF Names, Frozen, Where
  <2>4. Forward'
    BY DEF Names, Forward, Frozen, Where, Later, Early, Starting, Quiet, MainPC
  <2>5. Achieved'
    BY DEF Names, Achieved, Forward, Joined, Early, Later, Starting, Quiet, StopPC
  <2>6. Joined'
    BY DEF Names, Joined, Forward, Frozen, Where, Starting, MainPC
  <2>7. Owned'
    BY DEF Names, Owned, Owning, Untouched, MainPC, StopPC, ApiPC
  <2> QED
    BY <2>1, <2>2, <2>3, <2>4, <2>5, <2>6, <2>7
<1>12. CASE ApiReset
  <2> USE <1>12 DEF ApiReset, Api
  <2>1. Names'
    BY DEF Names, ApiPC
  <2>2. Counted'
    BY LifecycleAssumption DEF Counted
  <2>3. Frozen'
    BY DEF Names, Frozen, Where
  <2>4. Forward'
    BY DEF Names, Forward, Frozen, Where, Later, Early, Starting, Quiet, MainPC
  <2>5. Achieved'
    BY DEF Names, Achieved, Forward, Joined, Early, Later, Starting, Quiet, StopPC
  <2>6. Joined'
    BY DEF Names, Joined, Forward, Frozen, Where, Starting, MainPC
  <2>7. Owned'
    BY DEF Names, Owned, Owning, Untouched, MainPC, StopPC, ApiPC
  <2> QED
    BY <2>1, <2>2, <2>3, <2>4, <2>5, <2>6, <2>7
<1>13. CASE ApiAnnounce
  <2> USE <1>13 DEF ApiAnnounce, Api
  <2>1. Names'
    BY DEF Names, ApiPC
  <2>2. Counted'
    BY LifecycleAssumption DEF Counted
  <2>3. Frozen'
    BY DEF Names, Frozen, Where
  <2>4. Forward'
    BY DEF Names, Forward, Frozen, Where, Later, Early, Starting, Quiet, MainPC
  <2>5. Achieved'
    BY DEF Names, Achieved, Forward, Joined, Early, Later, Starting, Quiet, StopPC
  <2>6. Joined'
    BY DEF Names, Joined, Forward, Frozen, Where, Starting, MainPC
  <2>7. Owned'
    BY DEF Names, Owned, Owning, Untouched, MainPC, StopPC, ApiPC
  <2> QED
    BY <2>1, <2>2, <2>3, <2>4, <2>5, <2>6, <2>7
<1>14. CASE ApiLoopTest
  <2> USE <1>14 DEF ApiLoopTest, Api, Listening
  <2>1. Names'
    BY DEF Names, ApiPC
  <2>2. Counted'
    BY LifecycleAssumption DEF Counted
  <2>3. Frozen'
    BY DEF Names, Frozen, Where
  <2>4. Forward'
    BY DEF Names, Forward, Frozen, Where, Later, Early, Starting, Quiet, MainPC
  <2>5. Achieved'
    BY DEF Names, Achieved, Forward, Joined, Early, Later, Starting, Quiet, StopPC
  <2>6. Joined'
    BY DEF Names, Joined, Forward, Frozen, Where, Starting, MainPC
  <2>7. Owned'
    BY DEF Names, Owned, Owning, Untouched, MainPC, StopPC, ApiPC
  <2> QED
    BY <2>1, <2>2, <2>3, <2>4, <2>5, <2>6, <2>7
<1>15. CASE ApiConnect
  <2> USE <1>15 DEF ApiConnect, Api
  <2>1. Names'
    BY DEF Names, ApiPC
  <2>2. Counted'
    BY LifecycleAssumption DEF Counted
  <2>3. Frozen'
    BY DEF Names, Frozen, Where
  <2>4. Forward'
    BY DEF Names, Forward, Frozen, Where, Later, Early, Starting, Quiet, MainPC
  <2>5. Achieved'
    BY DEF Names, Achieved, Forward, Joined, Early, Later, Starting, Quiet, StopPC
  <2>6. Joined'
    BY DEF Names, Joined, Forward, Frozen, Where, Starting, MainPC
  <2>7. Owned'
    BY DEF Names, Owned, Owning, Untouched, MainPC, StopPC, ApiPC
  <2> QED
    BY <2>1, <2>2, <2>3, <2>4, <2>5, <2>6, <2>7
<1>16. CASE ApiRequest
  <2> USE <1>16 DEF ApiRequest, Api
  <2>1. Names'
    BY DEF Names, ApiPC
  <2>2. Counted'
    BY LifecycleAssumption DEF Counted
  <2>3. Frozen'
    BY DEF Names, Frozen, Where
  <2>4. Forward'
    BY DEF Names, Forward, Frozen, Where, Later, Early, Starting, Quiet, MainPC
  <2>5. Achieved'
    BY DEF Names, Achieved, Forward, Joined, Early, Later, Starting, Quiet, StopPC
  <2>6. Joined'
    BY DEF Names, Joined, Forward, Frozen, Where, Starting, MainPC
  <2>7. Owned'
    BY DEF Names, Owned, Owning, Untouched, MainPC, StopPC, ApiPC
  <2> QED
    BY <2>1, <2>2, <2>3, <2>4, <2>5, <2>6, <2>7
<1>17. CASE ApiReply
  <2> USE <1>17 DEF ApiReply, Api
  <2>1. Names'
    BY DEF Names, ApiPC
  <2>2. Counted'
    BY LifecycleAssumption DEF Counted
  <2>3. Frozen'
    BY DEF Names, Frozen, Where
  <2>4. Forward'
    BY DEF Names, Forward, Frozen, Where, Later, Early, Starting, Quiet, MainPC
  <2>5. Achieved'
    BY DEF Names, Achieved, Forward, Joined, Early, Later, Starting, Quiet, StopPC
  <2>6. Joined'
    BY DEF Names, Joined, Forward, Frozen, Where, Starting, MainPC
  <2>7. Owned'
    BY DEF Names, Owned, Owning, Untouched, MainPC, StopPC, ApiPC
  <2> QED
    BY <2>1, <2>2, <2>3, <2>4, <2>5, <2>6, <2>7
<1>18. CASE FinishTask
  <2> USE <1>18 DEF FinishTask
  <2>1. Names'
    BY DEF Names
  <2>2. Counted'
    BY LifecycleAssumption DEF Counted
  <2>3. Frozen'
    BY DEF Names, Frozen, Where
  <2>4. Forward'
    BY DEF Names, Forward, Frozen, Where, Later, Early, Starting, Quiet, MainPC
  <2>5. Achieved'
    BY DEF Names, Achieved, Forward, Joined, Early, Later, Starting, Quiet, StopPC
  <2>6. Joined'
    BY DEF Names, Joined, Forward, Frozen, Where, Starting, MainPC
  <2>7. Owned'
    BY DEF Names, Owned, Owning, Untouched, MainPC, StopPC, ApiPC
  <2> QED
    BY <2>1, <2>2, <2>3, <2>4, <2>5, <2>6, <2>7
<1>19. CASE WorkerClose
  <2> USE <1>19 DEF WorkerClose
  <2>1. Names'
    BY DEF Names, StatsPC
  <2>2. Counted'
    BY LifecycleAssumption DEF Counted
  <2>3. Frozen'
    BY DEF Names, Frozen, Where
  <2>4. Forward'
    BY DEF Names, Forward, Frozen, Where, Later, Early, Starting, Quiet, MainPC
  <2>5. Achieved'
    BY DEF Names, Achieved, Forward, Joined, Early, Later, Starting, Quiet, StopPC
  <2>6. Joined'
    BY DEF Names, Joined, Forward, Frozen, Where, Starting, MainPC
  <2>7. Owned'
    BY DEF Names, Owned, Owning, Untouched, MainPC, StopPC, ApiPC
  <2> QED
    BY <2>1, <2>2, <2>3, <2>4, <2>5, <2>6, <2>7
<1>20. CASE WorkerSocket
  <2> USE <1>20 DEF WorkerSocket
  <2>1. Names'
    BY DEF Names, StatsPC
  <2>2. Counted'
    BY LifecycleAssumption DEF Counted
  <2>3. Frozen'
    BY DEF Names, Frozen, Where
  <2>4. Forward'
    BY DEF Names, Forward, Frozen, Where, Later, Early, Starting, Quiet, MainPC
  <2>5. Achieved'
    BY DEF Names, Achieved, Forward, Joined, Early, Later, Starting, Quiet, StopPC
  <2>6. Joined'
    BY DEF Names, Joined, Forward, Frozen, Where, Starting, MainPC
  <2>7. Owned'
    BY DEF Names, Owned, Owning, Untouched, MainPC, StopPC, ApiPC
  <2> QED
    BY <2>1, <2>2, <2>3, <2>4, <2>5, <2>6, <2>7
<1> QED
  BY <1>1, <1>2, <1>3, <1>4, <1>5, <1>6, <1>7, <1>8, <1>9, <1>10, <1>11, <1>12, <1>13, <1>14, <1>15, <1>16, <1>17, <1>18, <1>19, <1>20 DEF StatsStep, ApiStep, ApiClient, WorkerStep

LEMMA StepInvariant == IInv /\ [Next]_vars => IInv'
<1> SUFFICES ASSUME IInv, [Next]_vars PROVE IInv'
  OBVIOUS
<1>1. CASE Terminated \/ UNCHANGED vars
  <2>1. UNCHANGED vars
    BY <1>1 DEF Terminated
  <2>2. UNCHANGED <<Where, Unjoined>>
    BY <2>1 DEF vars, flags, fds, main, threads, pool, Where, Unjoined
  <2> QED
    BY <2>1, <2>2 DEF vars, flags, fds, main, threads, pool, IInv, Names, Counted, Frozen,
                      Forward, Achieved, Joined, Owned
<1> QED
  BY <1>1, MainInvariant, HandlerInvariant, ThreadInvariant DEF Next

LEMMA Invariant == Spec => []IInv
BY InitInvariant, StepInvariant, PTL DEF Spec

-----------------------------------------------------------------------------
\* Every variable keeps its type (dns_server.hpp, lines 34-48).
THEOREM TypeCorrect == Spec => []TypeOK
<1>1. IInv => TypeOK
  BY DEF IInv, Names, Counted, TypeOK
<1> QED
  BY <1>1, Invariant, PTL

\* When a stop() on top of the loop has returned no thread and no task is left and
\* the query socket is closed: what it has achieved nobody undoes (dns_server.cpp,
\* lines 163-193).
THEOREM StopLeavesNothing == Spec => []StopIsComplete
<1>1. IInv => StopIsComplete
  BY DEF IInv, StopIsComplete, Achieved, Joined, Unjoined
<1> QED
  BY <1>1, Invariant, PTL

\* The process does not return from main() while a thread or a task goes on,
\* wherever the signal came (dns_server.cpp, lines 181-192).
THEOREM NothingOutlivesMain == Spec => []ExitLeavesNothing
<1>1. IInv => ExitLeavesNothing
  BY DEF IInv, ExitLeavesNothing, Joined, Unjoined
<1> QED
  BY <1>1, Invariant, PTL

\* A stop signal that comes after running_ was set is not undone (dns_server.cpp,
\* lines 127 and 163-165).
THEOREM StopIsNotUndone == Spec => []StopHolds
<1>1. IInv => StopHolds
  BY DEF IInv, StopHolds, Achieved, Early
<1> QED
  BY <1>1, Invariant, PTL

\* Without a failure of the API thread to listen, no interleaving of stop() and that
\* thread closes the socket of a worker that was given the number of the closed one
\* (dns_server.cpp, lines 175-178 and 357-378).
THEOREM WorkersKeepTheirSockets == Spec => []WorkerSocketKept
<1>1. IInv => WorkerSocketKept
  BY DEF IInv, WorkerSocketKept, Owned, Untouched
<1> QED
  BY <1>1, Invariant, PTL

\* No interleaving of stop() and the API thread loses the API's listening socket: while
\* it is open, api_socket_fd_ has its number (dns_server.cpp, lines 175-178 and 357-378).
THEOREM ApiSocketIsKnown == Spec => []ApiSocketKnown
<1>1. IInv => ApiSocketKnown
  BY DEF IInv, ApiSocketKnown, Owned
<1> QED
  BY <1>1, Invariant, PTL
=============================================================================
