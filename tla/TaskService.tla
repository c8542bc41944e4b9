---------------------------- MODULE TaskService ----------------------------
(***************************************************************************)
(* What ThreadPool promises (src/thread_pool/thread_pool.hpp): tasks are   *)
(* started in the order in which they were accepted, each one once, and    *)
(* shutdown() returns when all of them are finished.  Nothing is said of   *)
(* threads, of the mutex or of the condition variable.                     *)
(***************************************************************************)
EXTENDS Naturals, Sequences

CONSTANT Task

VARIABLES queue,       \* accepted and not started, in order
          running,     \* started and not finished
          finished,
          discarded,   \* submitted too late
          phase        \* "open", "closing" (shutdown was called) or "closed"

aVars == <<queue, running, finished, discarded, phase>>

Queued == {queue[i] : i \in 1..Len(queue)}
Seen == Queued \cup running \cup finished \cup discarded

AInit == /\ queue = <<>>
         /\ running = {} /\ finished = {} /\ discarded = {}
         /\ phase = "open"

ASubmit(t) == /\ phase = "open" /\ t \notin Seen
              /\ queue' = Append(queue, t)
              /\ UNCHANGED <<running, finished, discarded, phase>>

ADiscard(t) == /\ phase # "open" /\ t \notin Seen
               /\ discarded' = discarded \cup {t}
               /\ UNCHANGED <<queue, running, finished, phase>>

AStart == /\ queue # <<>>
          /\ queue' = Tail(queue)
          /\ running' = running \cup {Head(queue)}
          /\ UNCHANGED <<finished, discarded, phase>>

AFinish(t) == /\ t \in running
              /\ running' = running \ {t}
              /\ finished' = finished \cup {t}
              /\ UNCHANGED <<queue, discarded, phase>>

AShutdown == /\ phase = "open" /\ phase' = "closing"
             /\ UNCHANGED <<queue, running, finished, discarded>>

AReturn == /\ phase = "closing" /\ phase' = "closed"
           /\ queue = <<>> /\ running = {}
           /\ UNCHANGED <<queue, running, finished, discarded>>

ANext == \/ \E t \in Task : ASubmit(t) \/ ADiscard(t) \/ AFinish(t)
         \/ AStart
         \/ AShutdown
         \/ AReturn

ASafety == AInit /\ [][ANext]_aVars

\* An accepted task is started and finished, and shutdown() returns.
AFairness == /\ WF_aVars(AStart)
             /\ \A t \in Task : WF_aVars(AFinish(t))
             /\ WF_aVars(AReturn)

ASpec == ASafety /\ AFairness
=============================================================================
