----------------------------- MODULE ThreadPool -----------------------------
(***************************************************************************)
(* The pool of worker threads (src/thread_pool/thread_pool.cpp).           *)
(*                                                                         *)
(* tasks_ and stop_ are touched with mutex_ held and at no other time, so  *)
(* a critical section is one step.  What the code does without the mutex   *)
(* is a step of its own: running a task, notify_one and notify_all, which  *)
(* come after the unlock, and the joins.  condition_variable::wait         *)
(* releases the mutex and enters the wait set in one step; a notified      *)
(* worker, or one that woke up for no reason, has to evaluate the          *)
(* predicate again.                                                        *)
(***************************************************************************)
EXTENDS Naturals, Sequences, FiniteSets, SequencesExt

CONSTANTS Worker,      \* workers_
          Client,      \* threads that call submit() and shutdown()
          Task,        \* the tasks; each is submitted at most once
          NoTask

ASSUME PoolAssumption ==
  /\ IsFiniteSet(Worker) /\ IsFiniteSet(Client)
  /\ NoTask \notin Task

VARIABLES tasks,       \* tasks_
          stop,        \* stop_
          wpc,         \* where each worker is in worker_loop()
          task,        \* the task each worker runs
          cpc,         \* where each client is
          started,     \* history: the tasks popped so far, in order
          finished,    \* history: the tasks that were run to their end
          accepted,    \* history: the tasks pushed so far, in order
          discarded    \* history: the tasks submitted after shutdown

vars == <<tasks, stop, wpc, task, cpc, started, finished, accepted, discarded>>
history == <<started, finished, accepted, discarded>>

\* "check": about to lock and to evaluate the predicate of the wait
WorkerPC == {"check", "waiting", "running", "exited"}

\* "joined": shutdown() returned after its joins; "ignored": it returned at
\* once, because stop_ was set already
ClientPC == {"idle", "notifyOne", "notifyAll", "joining", "joined", "ignored"}

Submitted == ToSet(accepted) \cup discarded

Init == /\ tasks = <<>> /\ stop = FALSE
        /\ wpc = [w \in Worker |-> "check"]
        /\ task = [w \in Worker |-> NoTask]
        /\ cpc = [c \in Client |-> "idle"]
        /\ started = <<>> /\ finished = {} /\ accepted = <<>> /\ discarded = {}

-----------------------------------------------------------------------------
\* Faulty variants of some operations: with one of them in place of the operation it is named
\* after, TLC finds a property violated (PROJECT.json says which).

\* The predicate of the wait forgets stop_.
WaitForTasksOnly(w) ==
  /\ wpc[w] = "check" /\ tasks = <<>>
  /\ wpc' = [wpc EXCEPT ![w] = "waiting"]
  /\ UNCHANGED <<tasks, stop, task, cpc, history>>

\* The queue is not drained.
ExitAtOnce(w) ==
  /\ wpc[w] = "check" /\ stop
  /\ wpc' = [wpc EXCEPT ![w] = "exited"]
  /\ UNCHANGED <<tasks, stop, task, cpc, history>>

\* A stack for a queue.
PopNewest(w) ==
  /\ wpc[w] = "check" /\ tasks # <<>>
  /\ task' = [task EXCEPT ![w] = Last(tasks)]
  /\ tasks' = Front(tasks)
  /\ wpc' = [wpc EXCEPT ![w] = "running"]
  /\ started' = Append(started, Last(tasks))
  /\ UNCHANGED <<stop, cpc, finished, accepted, discarded>>

\* The task that runs was moved from.
FinishMovedFrom(w) ==
  /\ wpc[w] = "running"
  /\ finished' = finished \cup {NoTask}
  /\ task' = [task EXCEPT ![w] = NoTask]
  /\ wpc' = [wpc EXCEPT ![w] = "check"]
  /\ UNCHANGED <<tasks, stop, cpc, started, accepted, discarded>>

\* Nobody is notified.
SubmitSilently(c, t) ==
  /\ cpc[c] = "idle" /\ ~stop /\ t \notin Submitted
  /\ tasks' = Append(tasks, t)
  /\ accepted' = Append(accepted, t)
  /\ UNCHANGED <<cpc, stop, wpc, task, started, finished, discarded>>

\* notify_one for notify_all.
NotifyOneOfAll(c) ==
  /\ cpc[c] = "notifyAll"
  /\ \/ wpc' = wpc /\ \A w \in Worker : wpc[w] # "waiting"
     \/ \E w \in Worker : wpc[w] = "waiting" /\ wpc' = [wpc EXCEPT ![w] = "check"]
  /\ cpc' = [cpc EXCEPT ![c] = "joining"]
  /\ UNCHANGED <<tasks, stop, task, history>>

-----------------------------------------------------------------------------
\* worker_loop

Wait(w) ==
  /\ wpc[w] = "check" /\ ~stop /\ tasks = <<>>
  /\ wpc' = [wpc EXCEPT ![w] = "waiting"]
  /\ UNCHANGED <<tasks, stop, task, cpc, history>>

WakeUp(w) ==          \* spurious
  /\ wpc[w] = "waiting"
  /\ wpc' = [wpc EXCEPT ![w] = "check"]
  /\ UNCHANGED <<tasks, stop, task, cpc, history>>

Exit(w) ==
  /\ wpc[w] = "check" /\ stop /\ tasks = <<>>
  /\ wpc' = [wpc EXCEPT ![w] = "exited"]
  /\ UNCHANGED <<tasks, stop, task, cpc, history>>

Pop(w) ==
  /\ wpc[w] = "check" /\ tasks # <<>>
  /\ task' = [task EXCEPT ![w] = Head(tasks)]
  /\ tasks' = Tail(tasks)
  /\ wpc' = [wpc EXCEPT ![w] = "running"]
  /\ started' = Append(started, Head(tasks))
  /\ UNCHANGED <<stop, cpc, finished, accepted, discarded>>

Finish(w) ==
  /\ wpc[w] = "running"
  /\ finished' = finished \cup {task[w]}
  /\ task' = [task EXCEPT ![w] = NoTask]
  /\ wpc' = [wpc EXCEPT ![w] = "check"]
  /\ UNCHANGED <<tasks, stop, cpc, started, accepted, discarded>>

-----------------------------------------------------------------------------
\* submit and shutdown

Submit(c, t) ==
  /\ cpc[c] = "idle" /\ ~stop /\ t \notin Submitted
  /\ tasks' = Append(tasks, t)
  /\ accepted' = Append(accepted, t)
  /\ cpc' = [cpc EXCEPT ![c] = "notifyOne"]
  /\ UNCHANGED <<stop, wpc, task, started, finished, discarded>>

SubmitTooLate(c, t) ==
  /\ cpc[c] = "idle" /\ stop /\ t \notin Submitted
  /\ discarded' = discarded \cup {t}
  /\ UNCHANGED <<tasks, stop, wpc, task, cpc, started, finished, accepted>>

Waiting == {w \in Worker : wpc[w] = "waiting"}

\* Wakes one worker of the wait set, or nobody.
NotifyOne(c) ==
  /\ cpc[c] = "notifyOne"
  /\ IF Waiting = {} THEN wpc' = wpc
     ELSE \E w \in Waiting : wpc' = [wpc EXCEPT ![w] = "check"]
  /\ cpc' = [cpc EXCEPT ![c] = "idle"]
  /\ UNCHANGED <<tasks, stop, task, history>>

Shutdown(c) ==
  /\ cpc[c] = "idle" /\ ~stop
  /\ stop' = TRUE
  /\ cpc' = [cpc EXCEPT ![c] = "notifyAll"]
  /\ UNCHANGED <<tasks, wpc, task, history>>

ShutdownAgain(c) ==
  /\ cpc[c] = "idle" /\ stop
  /\ cpc' = [cpc EXCEPT ![c] = "ignored"]
  /\ UNCHANGED <<tasks, stop, wpc, task, history>>

NotifyAll(c) ==
  /\ cpc[c] = "notifyAll"
  /\ wpc' = [w \in Worker |-> IF w \in Waiting THEN "check" ELSE wpc[w]]
  /\ cpc' = [cpc EXCEPT ![c] = "joining"]
  /\ UNCHANGED <<tasks, stop, task, history>>

\* The workers are joined one after the other: the last join returns when all
\* of them have returned from worker_loop().
Join(c) ==
  /\ cpc[c] = "joining" /\ \A w \in Worker : wpc[w] = "exited"
  /\ cpc' = [cpc EXCEPT ![c] = "joined"]
  /\ UNCHANGED <<tasks, stop, wpc, task, history>>

\* Every thread has returned.
Terminated ==
  /\ \A w \in Worker : wpc[w] = "exited"
  /\ \A c \in Client : cpc[c] \in {"joined", "ignored"}
  /\ UNCHANGED vars

Loop(w) == Wait(w) \/ Exit(w) \/ Pop(w) \/ Finish(w)
Call(c) == NotifyOne(c) \/ NotifyAll(c) \/ Join(c)

Next == \/ \E w \in Worker : Loop(w) \/ WakeUp(w)
        \/ \E c \in Client : Call(c) \/ Shutdown(c) \/ ShutdownAgain(c)
        \/ \E c \in Client, t \in Task : Submit(c, t) \/ SubmitTooLate(c, t)
        \/ Terminated

\* Threads that are not blocked keep running and tasks end (the server's do:
\* each of their calls is bounded in time); nobody has to call submit or
\* shutdown, and nothing has to wake up without a reason.
Fairness == /\ \A w \in Worker : WF_vars(Loop(w))
            /\ \A c \in Client : WF_vars(Call(c))

Spec == Init /\ [][Next]_vars /\ Fairness

-----------------------------------------------------------------------------
\* The type of every variable (thread_pool.hpp, lines 36-40).
TypeOK ==
  /\ tasks \in Seq(Task) /\ stop \in BOOLEAN
  /\ wpc \in [Worker -> WorkerPC]
  /\ task \in [Worker -> Task \cup {NoTask}]
  /\ cpc \in [Client -> ClientPC]
  /\ started \in Seq(Task) /\ accepted \in Seq(Task)
  /\ finished \subseteq Task /\ discarded \subseteq Task

\* No wakeup is lost although submit() notifies after the unlock: while a
\* worker sleeps, there are at least as many workers awake and looking for work,
\* or notifications on their way, as tasks in the queue.
NoLostWakeup ==
  Waiting # {} =>
    Len(tasks) <= Cardinality({w \in Worker : wpc[w] = "check"})
                  + Cardinality({c \in Client : cpc[c] = "notifyOne"})

\* No worker sleeps through a shutdown: once notify_all is done no worker is in
\* the wait set, nor enters it.
NoneSleepsThroughStop ==
  stop /\ (\A c \in Client : cpc[c] # "notifyAll") => Waiting = {}

\* Every accepted task is in one place: in the queue, on one worker or
\* finished, and tasks start in the order in which they were accepted.
ExactlyOnceInOrder ==
  /\ accepted = started \o tasks
  /\ IsInjective(accepted)
  /\ \A w \in Worker : wpc[w] = "running" <=> task[w] # NoTask
  /\ \A v, w \in Worker : task[v] = task[w] /\ task[v] # NoTask => v = w
  /\ \A w \in Worker : wpc[w] = "running" => task[w] \notin finished
  /\ ToSet(started) = finished \cup {task[w] : w \in {v \in Worker : wpc[v] = "running"}}
  /\ discarded \cap ToSet(accepted) = {}

\* The shutdown() that stopped the pool returns after every accepted task has
\* finished and every worker has returned ("Stop accepting new tasks, wait for
\* in-progress tasks to finish, then join all worker threads", hpp, line 31).
ShutdownDrains ==
  \A c \in Client : cpc[c] = "joined" =>
    finished = ToSet(accepted) /\ \A w \in Worker : wpc[w] = "exited"

-----------------------------------------------------------------------------
Phase == IF ~stop THEN "open"
         ELSE IF \E c \in Client : cpc[c] = "joined" THEN "closed" ELSE "closing"

Abs == INSTANCE TaskService
         WITH queue <- tasks, running <- {task[w] : w \in Worker} \ {NoTask},
              phase <- Phase

\* The pool is a FIFO service that runs every accepted task and whose shutdown
\* ends, for every interleaving of workers and callers.
ImplementsTaskService == Abs!ASpec
=============================================================================
