-------------------------- MODULE ThreadPoolProofs --------------------------
(***************************************************************************)
(* Theorems about ThreadPool, for any number of workers, callers and       *)
(* tasks.                                                                  *)
(***************************************************************************)
EXTENDS ThreadPool, SequenceTheorems, FiniteSetTheorems, TLAPS

-----------------------------------------------------------------------------
(* Queues.                                                                 *)

\* What pushing an element to the back does to the set of elements.
LEMMA AppendSet ==
  ASSUME NEW S, NEW s \in Seq(S), NEW e \in S
  PROVE  /\ ToSet(Append(s, e)) = ToSet(s) \cup {e}
         /\ IsInjective(s) /\ e \notin ToSet(s) => IsInjective(Append(s, e))
<1> DEFINE t == Append(s, e)
<1>1. Len(s) \in Nat /\ DOMAIN s = 1..Len(s)
  BY LenProperties
<1>2. /\ t \in Seq(S) /\ Len(t) = Len(s) + 1
      /\ \A i \in 1..Len(s) : t[i] = s[i]
      /\ t[Len(s) + 1] = e
  BY AppendProperties
<1>3. DOMAIN t = 1..(Len(s) + 1)
  BY <1>2, LenProperties
<1> HIDE DEF t
<1>4. \A i \in 1..(Len(s) + 1) : i \in 1..Len(s) \/ i = Len(s) + 1
  BY <1>1
<1>5. 1..Len(s) \subseteq 1..(Len(s) + 1) /\ Len(s) + 1 \in 1..(Len(s) + 1)
  BY <1>1
<1>6. ToSet(t) = ToSet(s) \cup {e}
  BY <1>1, <1>2, <1>3, <1>4, <1>5 DEF ToSet
<1>7. IsInjective(s) /\ e \notin ToSet(s) => IsInjective(t)
  BY <1>1, <1>2, <1>3, <1>4 DEF IsInjective, ToSet
<1> QED
  BY <1>6, <1>7 DEF t

\* Moving the head of a queue to the end of a list leaves their concatenation
\* as it was.
LEMMA MoveHead ==
  ASSUME NEW S, NEW s \in Seq(S), NEW q \in Seq(S), q # <<>>
  PROVE  /\ Head(q) \in S /\ Tail(q) \in Seq(S) /\ Len(Tail(q)) = Len(q) - 1
         /\ Len(q) \in Nat \ {0}
         /\ Append(s, Head(q)) \o Tail(q) = s \o q
<1>1. /\ Head(q) \in S /\ Tail(q) \in Seq(S) /\ Len(Tail(q)) = Len(q) - 1
      /\ Len(q) \in Nat \ {0}
  BY HeadTailProperties, EmptySeq
<1>2. \A i \in 1..(Len(q) - 1) : Tail(q)[i] = q[i + 1]
  BY <1>1, HeadTailProperties
<1>3. Head(q) = q[1] /\ Len(s) \in Nat
  BY <1>1, LenProperties
<1> DEFINE a == Append(s, Head(q))
           t == Tail(q)
<1>4. /\ a \in Seq(S) /\ Len(a) = Len(s) + 1
      /\ \A i \in 1..Len(s) : a[i] = s[i]
      /\ a[Len(s) + 1] = q[1]
  BY <1>1, <1>3, AppendProperties
<1>5. t \in Seq(S) /\ Len(t) = Len(q) - 1 /\ \A i \in 1..(Len(q) - 1) : t[i] = q[i + 1]
  BY <1>1, <1>2
<1> HIDE DEF a, t
<1>6. /\ a \o t \in Seq(S) /\ Len(a \o t) = Len(a) + Len(t)
      /\ \A i \in 1..(Len(a) + Len(t)) :
           (a \o t)[i] = IF i <= Len(a) THEN a[i] ELSE t[i - Len(a)]
  BY <1>4, <1>5, ConcatProperties
<1>7. /\ s \o q \in Seq(S) /\ Len(s \o q) = Len(s) + Len(q)
      /\ \A i \in 1..(Len(s) + Len(q)) :
           (s \o q)[i] = IF i <= Len(s) THEN s[i] ELSE q[i - Len(s)]
  BY ConcatProperties
<1>8. Len(a \o t) = Len(s \o q)
  BY <1>1, <1>3, <1>4, <1>5, <1>6, <1>7
<1>9. ASSUME NEW i \in 1..Len(a \o t) PROVE (a \o t)[i] = (s \o q)[i]
  <2>1. i \in 1..(Len(s) + Len(q)) /\ i \in 1..(Len(a) + Len(t))
    BY <1>6, <1>7, <1>8
  <2>2. CASE i <= Len(s)
    BY <1>3, <1>4, <1>6, <1>7, <2>1, <2>2
  <2>3. CASE i = Len(s) + 1
    BY <1>1, <1>3, <1>4, <1>6, <1>7, <2>1, <2>3
  <2>4. CASE i > Len(s) + 1
    <3>1. i - Len(a) \in 1..(Len(q) - 1) /\ i - Len(a) + 1 = i - Len(s)
      BY <1>1, <1>3, <1>4, <2>1, <2>4
    <3>2. (a \o t)[i] = t[i - Len(a)] /\ (s \o q)[i] = q[i - Len(s)]
      BY <1>1, <1>3, <1>4, <1>6, <1>7, <2>1, <2>4
    <3> QED
      BY <1>5, <3>1, <3>2
  <2> QED
    BY <1>3, <2>1, <2>2, <2>3, <2>4
<1>10. a \o t = s \o q
  BY <1>6, <1>7, <1>8, <1>9, SeqEqual
<1> QED
  BY <1>1, <1>10 DEF a, t

\* In a concatenation without duplicates, the head of the second part is not in
\* the first one.
LEMMA HeadIsNew ==
  ASSUME NEW S, NEW s \in Seq(S), NEW q \in Seq(S), q # <<>>, IsInjective(s \o q)
  PROVE  Head(q) \notin ToSet(s)
<1>1. Len(s) \in Nat /\ DOMAIN s = 1..Len(s) /\ Len(q) \in Nat \ {0} /\ Head(q) = q[1]
  BY LenProperties, EmptySeq
<1>2. /\ s \o q \in Seq(S) /\ Len(s \o q) = Len(s) + Len(q)
      /\ \A i \in 1..(Len(s) + Len(q)) :
           (s \o q)[i] = IF i <= Len(s) THEN s[i] ELSE q[i - Len(s)]
  BY ConcatProperties
<1>3. DOMAIN (s \o q) = 1..(Len(s) + Len(q))
  BY <1>2, LenProperties
<1>4. (s \o q)[Len(s) + 1] = Head(q) /\ Len(s) + 1 \in 1..(Len(s) + Len(q))
  BY <1>1, <1>2
<1>5. ASSUME NEW i \in 1..Len(s), s[i] = Head(q) PROVE FALSE
  <2>1. i \in 1..(Len(s) + Len(q)) /\ (s \o q)[i] = Head(q)
    BY <1>1, <1>2, <1>5
  <2>2. i = Len(s) + 1
    BY <1>3, <1>4, <2>1 DEF IsInjective
  <2> QED
    BY <1>1, <2>2
<1> QED
  BY <1>1, <1>5 DEF ToSet

\* Pushing to the back of the queue pushes to the back of everything accepted.
LEMMA AppendConcat ==
  ASSUME NEW S, NEW s \in Seq(S), NEW q \in Seq(S), NEW e \in S
  PROVE  s \o Append(q, e) = Append(s \o q, e)
<1>1. <<e>> \in Seq(S) /\ s \o q \in Seq(S)
  BY ConcatProperties
<1>2. Append(q, e) = q \o <<e>> /\ Append(s \o q, e) = (s \o q) \o <<e>>
  BY <1>1, AppendIsConcat
<1> QED
  BY <1>1, <1>2, ConcatAssociative

-----------------------------------------------------------------------------
(* Workers that are awake.                                                 *)

Awake == {w \in Worker : wpc[w] = "check"}
Notifying == {c \in Client : cpc[c] = "notifyOne"}

\* The sets NoLostWakeup counts are finite, and so are all subsets of them.
LEMMA CountsAreNat ==
  /\ \A W \in SUBSET Worker : IsFiniteSet(W) /\ Cardinality(W) \in Nat
  /\ \A C \in SUBSET Client : IsFiniteSet(C) /\ Cardinality(C) \in Nat
BY PoolAssumption, FS_Subset, FS_CardinalityType

\* Adding one new element to a set of workers or callers counts one more.
LEMMA OneMore ==
  ASSUME NEW S, IsFiniteSet(S), NEW x, x \notin S
  PROVE  Cardinality(S \cup {x}) = Cardinality(S) + 1
BY FS_AddElement

\* Taking one out counts one less.
LEMMA OneLess ==
  ASSUME NEW S, IsFiniteSet(S), NEW x \in S
  PROVE  Cardinality(S \ {x}) = Cardinality(S) - 1
BY FS_RemoveElement

-----------------------------------------------------------------------------
(* The inductive invariant.                                                *)

\* A worker returns from worker_loop() only after the stop and from an empty
\* queue, which no submit() fills again.
ExitedLast == \A w \in Worker : wpc[w] = "exited" => stop /\ tasks = <<>>

\* A caller is inside shutdown(), or through it, only after the stop, and its
\* last join returned when the last worker had exited.
JoinedLast ==
  \A c \in Client :
    /\ cpc[c] \in {"notifyAll", "joining", "joined"} => stop
    /\ cpc[c] = "joined" => \A w \in Worker : wpc[w] = "exited"

\* What the steps preserve together: a worker that pops a task needs to know
\* that the task is new (ExactlyOnceInOrder), a sleeping worker that no task is
\* left without someone to fetch it (NoLostWakeup), and the end of shutdown()
\* that workers leave an empty queue behind (ExitedLast, JoinedLast).
IInv == /\ TypeOK
        /\ NoLostWakeup
        /\ NoneSleepsThroughStop
        /\ ExactlyOnceInOrder
        /\ ExitedLast
        /\ JoinedLast

LEMMA InitInv == Init => IInv
<1> SUFFICES ASSUME Init PROVE IInv
  OBVIOUS
<1>1. /\ tasks = <<>> /\ stop = FALSE /\ wpc = [w \in Worker |-> "check"]
      /\ task = [w \in Worker |-> NoTask] /\ cpc = [c \in Client |-> "idle"]
      /\ started = <<>> /\ finished = {} /\ accepted = <<>> /\ discarded = {}
  BY DEF Init
<1>2. <<>> \in Seq(Task) /\ <<>> \o <<>> = <<>> /\ DOMAIN <<>> = {}
  BY EmptySeq, ConcatEmptySeq
<1>3. TypeOK
  BY <1>1, <1>2 DEF TypeOK, WorkerPC, ClientPC
<1>4. Waiting = {}
  BY <1>1 DEF Waiting
<1>5. NoLostWakeup /\ NoneSleepsThroughStop
  BY <1>4 DEF NoLostWakeup, NoneSleepsThroughStop
<1>6. ExactlyOnceInOrder
  BY <1>1, <1>2, PoolAssumption DEF ExactlyOnceInOrder, IsInjective, ToSet
<1>7. ExitedLast /\ JoinedLast
  BY <1>1 DEF ExitedLast, JoinedLast
<1> QED
  BY <1>3, <1>5, <1>6, <1>7 DEF IInv

LEMMA UnchangedInv == IInv /\ UNCHANGED vars => IInv'
BY DEF vars, history, IInv, TypeOK, NoLostWakeup, NoneSleepsThroughStop, ExactlyOnceInOrder,
       ExitedLast, JoinedLast, Waiting

\* NoLostWakeup in terms of the sets it counts.
LEMMA NoLostWakeupIs ==
  /\ NoLostWakeup <=> (Waiting # {} => Len(tasks) <= Cardinality(Awake) + Cardinality(Notifying))
  /\ NoLostWakeup' <=>
       (Waiting' # {} => Len(tasks') <= Cardinality(Awake') + Cardinality(Notifying'))
BY DEF NoLostWakeup, Awake, Notifying

\* Types of what the proofs count and compare.
LEMMA Types ==
  ASSUME IInv
  PROVE  /\ tasks \in Seq(Task) /\ Len(tasks) \in Nat /\ stop \in BOOLEAN
         /\ wpc \in [Worker -> WorkerPC] /\ cpc \in [Client -> ClientPC]
         /\ task \in [Worker -> Task \cup {NoTask}]
         /\ started \in Seq(Task) /\ accepted \in Seq(Task)
         /\ IsFiniteSet(Awake) /\ Cardinality(Awake) \in Nat
         /\ IsFiniteSet(Notifying) /\ Cardinality(Notifying) \in Nat
         /\ \A w \in Worker : IsFiniteSet(Awake \ {w}) /\ Cardinality(Awake \ {w}) \in Nat
<1>1. Awake \in SUBSET Worker /\ Notifying \in SUBSET Client
  BY DEF Awake, Notifying
<1>2. \A w \in Worker : Awake \ {w} \in SUBSET Worker
  BY <1>1
<1> QED
  BY <1>1, <1>2, CountsAreNat, LenProperties DEF IInv, TypeOK

\* A change of program counters that is not about running tasks keeps the tasks
\* where they are.
LEMMA TasksStay ==
  ASSUME IInv, UNCHANGED <<tasks, task, started, finished, accepted, discarded>>,
         \A w \in Worker : wpc'[w] = "running" <=> wpc[w] = "running"
  PROVE  ExactlyOnceInOrder'
<1>1. {w \in Worker : wpc'[w] = "running"} = {w \in Worker : wpc[w] = "running"}
  OBVIOUS
<1> QED
  BY <1>1 DEF IInv, ExactlyOnceInOrder

LEMMA WaitInv == ASSUME IInv, NEW w \in Worker, Wait(w) PROVE IInv'
<1>1. /\ wpc[w] = "check" /\ ~stop /\ tasks = <<>>
      /\ wpc' = [wpc EXCEPT ![w] = "waiting"]
      /\ UNCHANGED <<tasks, stop, task, cpc, started, finished, accepted, discarded>>
  BY DEF Wait, history
<1>2. \A v \in Worker : wpc'[v] = IF v = w THEN "waiting" ELSE wpc[v]
  BY <1>1, Types
<1>3. TypeOK'
  BY <1>1 DEF IInv, TypeOK, WorkerPC
<1>4. NoLostWakeup'
  <2>1. Awake' = Awake \ {w} /\ Notifying' = Notifying
    BY <1>1, <1>2 DEF Awake, Notifying
  <2>2. Len(tasks') = 0
    BY <1>1, EmptySeq
  <2>3. Cardinality(Awake') \in Nat /\ Cardinality(Notifying') \in Nat
    BY <2>1, Types
  <2> QED
    BY <2>2, <2>3, NoLostWakeupIs
<1>5. NoneSleepsThroughStop'
  BY <1>1 DEF NoneSleepsThroughStop
<1>6. ExactlyOnceInOrder'
  BY <1>1, <1>2, TasksStay
<1>7. ExitedLast'
  BY <1>1, <1>2 DEF IInv, ExitedLast
<1>8. JoinedLast'
  BY <1>1, <1>2 DEF IInv, JoinedLast
<1> QED
  BY <1>3, <1>4, <1>5, <1>6, <1>7, <1>8 DEF IInv

LEMMA WakeUpInv == ASSUME IInv, NEW w \in Worker, WakeUp(w) PROVE IInv'
<1>1. /\ wpc[w] = "waiting"
      /\ wpc' = [wpc EXCEPT ![w] = "check"]
      /\ UNCHANGED <<tasks, stop, task, cpc, started, finished, accepted, discarded>>
  BY DEF WakeUp, history
<1>2. \A v \in Worker : wpc'[v] = IF v = w THEN "check" ELSE wpc[v]
  BY <1>1, Types
<1>3. TypeOK'
  BY <1>1 DEF IInv, TypeOK, WorkerPC
<1>4. Waiting' \subseteq Waiting /\ w \in Waiting
  BY <1>1, <1>2 DEF Waiting
<1>5. NoLostWakeup'
  <2>1. Awake' = Awake \cup {w} /\ w \notin Awake /\ Notifying' = Notifying
    BY <1>1, <1>2 DEF Awake, Notifying
  <2>2. Cardinality(Awake') = Cardinality(Awake) + 1
    BY <2>1, Types, OneMore
  <2> QED
    BY <1>1, <1>4, <2>1, <2>2, Types, NoLostWakeupIs DEF IInv
<1>6. NoneSleepsThroughStop'
  BY <1>1, <1>4 DEF IInv, NoneSleepsThroughStop
<1>7. ExactlyOnceInOrder'
  BY <1>1, <1>2, TasksStay
<1>8. ExitedLast' /\ JoinedLast'
  BY <1>1, <1>2 DEF IInv, ExitedLast, JoinedLast
<1> QED
  BY <1>3, <1>5, <1>6, <1>7, <1>8 DEF IInv

LEMMA ExitInv == ASSUME IInv, NEW w \in Worker, Exit(w) PROVE IInv'
<1>1. /\ wpc[w] = "check" /\ stop /\ tasks = <<>>
      /\ wpc' = [wpc EXCEPT ![w] = "exited"]
      /\ UNCHANGED <<tasks, stop, task, cpc, started, finished, accepted, discarded>>
  BY DEF Exit, history
<1>2. \A v \in Worker : wpc'[v] = IF v = w THEN "exited" ELSE wpc[v]
  BY <1>1, Types
<1>3. TypeOK'
  BY <1>1 DEF IInv, TypeOK, WorkerPC
<1>4. Waiting' = Waiting
  BY <1>1, <1>2 DEF Waiting
<1>5. NoLostWakeup'
  <2>1. Awake' = Awake \ {w} /\ Notifying' = Notifying
    BY <1>1, <1>2 DEF Awake, Notifying
  <2>2. Len(tasks') = 0
    BY <1>1, EmptySeq
  <2>3. Cardinality(Awake') \in Nat /\ Cardinality(Notifying') \in Nat
    BY <2>1, Types
  <2> QED
    BY <2>2, <2>3, NoLostWakeupIs
<1>6. NoneSleepsThroughStop'
  BY <1>1, <1>4 DEF IInv, NoneSleepsThroughStop
<1>7. ExactlyOnceInOrder'
  BY <1>1, <1>2, TasksStay
<1>8. ExitedLast' /\ JoinedLast'
  BY <1>1, <1>2 DEF IInv, ExitedLast, JoinedLast
<1> QED
  BY <1>3, <1>5, <1>6, <1>7, <1>8 DEF IInv

LEMMA PopInv == ASSUME IInv, NEW w \in Worker, Pop(w) PROVE IInv'
<1> DEFINE t == Head(tasks)
<1>1. /\ wpc[w] = "check" /\ tasks # <<>>
      /\ task' = [task EXCEPT ![w] = t]
      /\ tasks' = Tail(tasks)
      /\ wpc' = [wpc EXCEPT ![w] = "running"]
      /\ started' = Append(started, t)
      /\ UNCHANGED <<stop, cpc, finished, accepted, discarded>>
  BY DEF Pop
<1>2. /\ t \in Task /\ tasks' \in Seq(Task) /\ Len(tasks') = Len(tasks) - 1
      /\ Len(tasks) \in Nat \ {0}
      /\ started' \o tasks' = started \o tasks
  BY <1>1, Types, MoveHead
<1>3. /\ accepted = started \o tasks /\ IsInjective(accepted)
      /\ \A v \in Worker : wpc[v] = "running" <=> task[v] # NoTask
      /\ \A u, v \in Worker : task[u] = task[v] /\ task[u] # NoTask => u = v
      /\ \A v \in Worker : wpc[v] = "running" => task[v] \notin finished
      /\ ToSet(started) = finished \cup {task[v] : v \in {u \in Worker : wpc[u] = "running"}}
      /\ discarded \cap ToSet(accepted) = {}
  BY DEF IInv, ExactlyOnceInOrder
<1>4. t \notin ToSet(started)
  BY <1>1, <1>3, Types, HeadIsNew
<1>5. started' \in Seq(Task) /\ ToSet(started') = ToSet(started) \cup {t}
  BY <1>1, <1>2, Types, AppendSet, AppendProperties
<1>6. t # NoTask
  BY <1>2, PoolAssumption
<1> HIDE DEF t
<1>7. /\ \A v \in Worker : wpc'[v] = IF v = w THEN "running" ELSE wpc[v]
      /\ \A v \in Worker : task'[v] = IF v = w THEN t ELSE task[v]
  BY <1>1, Types
<1>8. TypeOK'
  BY <1>1, <1>2, <1>5 DEF IInv, TypeOK, WorkerPC
<1>9. Waiting' = Waiting
  BY <1>1, <1>7 DEF Waiting
<1>10. NoLostWakeup'
  <2>1. w \in Awake /\ Awake' = Awake \ {w} /\ Notifying' = Notifying
    BY <1>1, <1>7 DEF Awake, Notifying
  <2>2. Cardinality(Awake') = Cardinality(Awake) - 1
    BY <2>1, Types, OneLess
  <2> QED
    BY <1>2, <1>9, <2>1, <2>2, Types, NoLostWakeupIs DEF IInv
<1>11. NoneSleepsThroughStop'
  BY <1>1, <1>9 DEF IInv, NoneSleepsThroughStop
<1>12. ExactlyOnceInOrder'
  <2>1. {u \in Worker : wpc'[u] = "running"} = {u \in Worker : wpc[u] = "running"} \cup {w}
    BY <1>7
  <2>2. {task'[v] : v \in {u \in Worker : wpc'[u] = "running"}}
          = {task[v] : v \in {u \in Worker : wpc[u] = "running"}} \cup {t}
    BY <1>1, <1>7, <2>1
  <2>3. \A v \in Worker : wpc[v] = "running" => task[v] \in ToSet(started)
    BY <1>3
  <2>4. \A v \in Worker : wpc'[v] = "running" <=> task'[v] # NoTask
    BY <1>3, <1>6, <1>7
  <2>5. \A u, v \in Worker : task'[u] = task'[v] /\ task'[u] # NoTask => u = v
    BY <1>3, <1>4, <1>7, <2>3
  <2>6. \A v \in Worker : wpc'[v] = "running" => task'[v] \notin finished'
    BY <1>1, <1>3, <1>4, <1>7
  <2>7. ToSet(started') = finished' \cup {task'[v] : v \in {u \in Worker : wpc'[u] = "running"}}
    BY <1>1, <1>3, <1>5, <2>2
  <2>8. accepted' = started' \o tasks' /\ IsInjective(accepted') /\ discarded' \cap ToSet(accepted') = {}
    BY <1>1, <1>2, <1>3
  <2> QED
    BY <2>4, <2>5, <2>6, <2>7, <2>8 DEF ExactlyOnceInOrder
<1>13. ExitedLast' /\ JoinedLast'
  BY <1>1, <1>7 DEF IInv, ExitedLast, JoinedLast
<1> QED
  BY <1>8, <1>10, <1>11, <1>12, <1>13 DEF IInv

LEMMA FinishInv == ASSUME IInv, NEW w \in Worker, Finish(w) PROVE IInv'
<1>1. /\ wpc[w] = "running"
      /\ finished' = finished \cup {task[w]}
      /\ task' = [task EXCEPT ![w] = NoTask]
      /\ wpc' = [wpc EXCEPT ![w] = "check"]
      /\ UNCHANGED <<tasks, stop, cpc, started, accepted, discarded>>
  BY DEF Finish
<1>2. /\ \A v \in Worker : wpc'[v] = IF v = w THEN "check" ELSE wpc[v]
      /\ \A v \in Worker : task'[v] = IF v = w THEN NoTask ELSE task[v]
  BY <1>1, Types
<1>3. /\ accepted = started \o tasks /\ IsInjective(accepted)
      /\ \A v \in Worker : wpc[v] = "running" <=> task[v] # NoTask
      /\ \A u, v \in Worker : task[u] = task[v] /\ task[u] # NoTask => u = v
      /\ \A v \in Worker : wpc[v] = "running" => task[v] \notin finished
      /\ ToSet(started) = finished \cup {task[v] : v \in {u \in Worker : wpc[u] = "running"}}
      /\ discarded \cap ToSet(accepted) = {}
  BY DEF IInv, ExactlyOnceInOrder
<1>4. TypeOK'
  <2>1. task[w] \in Task
    BY <1>1, <1>3, Types
  <2> QED
    BY <1>1, <2>1 DEF IInv, TypeOK, WorkerPC
<1>5. Waiting' = Waiting
  BY <1>1, <1>2 DEF Waiting
<1>6. NoLostWakeup'
  <2>1. w \notin Awake /\ Awake' = Awake \cup {w} /\ Notifying' = Notifying
    BY <1>1, <1>2 DEF Awake, Notifying
  <2>2. Cardinality(Awake') = Cardinality(Awake) + 1
    BY <2>1, Types, OneMore
  <2> QED
    BY <1>1, <1>5, <2>1, <2>2, Types, NoLostWakeupIs DEF IInv
<1>7. NoneSleepsThroughStop'
  BY <1>1, <1>5 DEF IInv, NoneSleepsThroughStop
<1>8. ExactlyOnceInOrder'
  <2> DEFINE run == {u \in Worker : wpc[u] = "running"}
  <2>1. {u \in Worker : wpc'[u] = "running"} = run \ {w} /\ w \in run
    BY <1>1, <1>2
  <2>2. {task'[v] : v \in run \ {w}} = {task[v] : v \in run \ {w}}
    BY <1>2
  <2>3. ToSet(started) = finished \cup {task[w]} \cup {task[v] : v \in run \ {w}}
    BY <1>1, <1>3
  <2>4. ToSet(started') = finished' \cup {task'[v] : v \in {u \in Worker : wpc'[u] = "running"}}
    BY <1>1, <2>1, <2>2, <2>3
  <2>5. \A v \in Worker : wpc'[v] = "running" <=> task'[v] # NoTask
    BY <1>2, <1>3
  <2>6. \A u, v \in Worker : task'[u] = task'[v] /\ task'[u] # NoTask => u = v
    BY <1>2, <1>3
  <2>7. \A v \in Worker : wpc'[v] = "running" => task'[v] \notin finished'
    BY <1>1, <1>2, <1>3
  <2>8. /\ accepted' = started' \o tasks' /\ IsInjective(accepted')
        /\ discarded' \cap ToSet(accepted') = {}
    BY <1>1, <1>3
  <2> QED
    BY <2>4, <2>5, <2>6, <2>7, <2>8 DEF ExactlyOnceInOrder
<1>9. ExitedLast' /\ JoinedLast'
  BY <1>1, <1>2 DEF IInv, ExitedLast, JoinedLast
<1> QED
  BY <1>4, <1>6, <1>7, <1>8, <1>9 DEF IInv

LEMMA SubmitInv ==
  ASSUME IInv, NEW c \in Client, NEW t \in Task, Submit(c, t)
  PROVE  IInv'
<1>1. /\ cpc[c] = "idle" /\ ~stop /\ t \notin ToSet(accepted) /\ t \notin discarded
      /\ tasks' = Append(tasks, t) /\ accepted' = Append(accepted, t)
      /\ cpc' = [cpc EXCEPT ![c] = "notifyOne"]
      /\ UNCHANGED <<stop, wpc, task, started, finished, discarded>>
  BY DEF Submit, Submitted
<1>2. \A e \in Client : cpc'[e] = IF e = c THEN "notifyOne" ELSE cpc[e]
  BY <1>1, Types
<1>3. /\ tasks' \in Seq(Task) /\ accepted' \in Seq(Task) /\ Len(tasks') = Len(tasks) + 1
      /\ ToSet(accepted') = ToSet(accepted) \cup {t}
      /\ IsInjective(accepted) => IsInjective(accepted')
  BY <1>1, Types, AppendProperties, AppendSet
<1>4. TypeOK'
  BY <1>1, <1>3 DEF IInv, TypeOK, ClientPC
<1>5. NoLostWakeup'
  <2>1. /\ c \notin Notifying /\ Notifying' = Notifying \cup {c}
        /\ Awake' = Awake /\ Waiting' = Waiting
    BY <1>1, <1>2 DEF Awake, Notifying, Waiting
  <2>2. Cardinality(Notifying') = Cardinality(Notifying) + 1
    BY <2>1, Types, OneMore
  <2>3. Waiting # {} => Len(tasks) <= Cardinality(Awake) + Cardinality(Notifying)
    BY NoLostWakeupIs DEF IInv
  <2>4. Waiting' # {} => Len(tasks') <= Cardinality(Awake') + Cardinality(Notifying')
    BY <1>3, <2>1, <2>2, <2>3, Types
  <2> QED
    BY <2>4, NoLostWakeupIs
<1>6. NoneSleepsThroughStop'
  BY <1>1 DEF NoneSleepsThroughStop
<1>7. ExactlyOnceInOrder'
  <2>1. accepted' = started' \o tasks'
    <3>1. accepted = started \o tasks
      BY DEF IInv, ExactlyOnceInOrder
    <3>2. started \o Append(tasks, t) = Append(started \o tasks, t)
      BY Types, AppendConcat
    <3> QED
      BY <1>1, <3>1, <3>2
  <2>2. IsInjective(accepted') /\ discarded' \cap ToSet(accepted') = {}
    BY <1>1, <1>3 DEF IInv, ExactlyOnceInOrder
  <2>3. UNCHANGED <<wpc, task, started, finished>>
    BY <1>1
  <2> QED
    BY <2>1, <2>2, <2>3 DEF IInv, ExactlyOnceInOrder
<1>8. ExitedLast' /\ JoinedLast'
  BY <1>1, <1>2 DEF IInv, ExitedLast, JoinedLast
<1> QED
  BY <1>4, <1>5, <1>6, <1>7, <1>8 DEF IInv

LEMMA SubmitTooLateInv ==
  ASSUME IInv, NEW c \in Client, NEW t \in Task, SubmitTooLate(c, t)
  PROVE  IInv'
<1>1. /\ t \notin ToSet(accepted) /\ discarded' = discarded \cup {t}
      /\ UNCHANGED <<tasks, stop, wpc, task, cpc, started, finished, accepted>>
  BY DEF SubmitTooLate, Submitted
<1> QED
  BY <1>1 DEF IInv, TypeOK, NoLostWakeup, NoneSleepsThroughStop, ExactlyOnceInOrder,
              ExitedLast, JoinedLast, Waiting

LEMMA NotifyOneInv == ASSUME IInv, NEW c \in Client, NotifyOne(c) PROVE IInv'
<1>1. /\ cpc[c] = "notifyOne"
      /\ IF Waiting = {} THEN wpc' = wpc
         ELSE \E w \in Waiting : wpc' = [wpc EXCEPT ![w] = "check"]
      /\ cpc' = [cpc EXCEPT ![c] = "idle"]
      /\ UNCHANGED <<tasks, stop, task, started, finished, accepted, discarded>>
  BY DEF NotifyOne, history
<1>2. \A e \in Client : cpc'[e] = IF e = c THEN "idle" ELSE cpc[e]
  BY <1>1, Types
<1>3. c \in Notifying /\ Notifying' = Notifying \ {c}
  BY <1>1, <1>2 DEF Notifying
<1>4. Cardinality(Notifying') = Cardinality(Notifying) - 1
  BY <1>3, Types, OneLess
<1>5. CASE Waiting = {}
  <2>1. wpc' = wpc /\ Waiting' = {}
    BY <1>1, <1>5 DEF Waiting
  <2>2. TypeOK'
    BY <1>1, <2>1 DEF IInv, TypeOK, ClientPC
  <2>3. ExactlyOnceInOrder'
    BY <1>1, <2>1, TasksStay
  <2> QED
    BY <1>1, <1>2, <2>1, <2>2, <2>3
       DEF IInv, NoLostWakeup, NoneSleepsThroughStop, ExitedLast, JoinedLast
<1>6. CASE Waiting # {}
  <2>1. PICK w \in Waiting : wpc' = [wpc EXCEPT ![w] = "check"]
    BY <1>1, <1>6
  <2>2. w \in Worker /\ wpc[w] = "waiting"
    BY DEF Waiting
  <2>3. \A v \in Worker : wpc'[v] = IF v = w THEN "check" ELSE wpc[v]
    BY <2>1, <2>2, Types
  <2>4. TypeOK'
    BY <1>1, <2>1, <2>2 DEF IInv, TypeOK, ClientPC, WorkerPC
  <2>5. NoLostWakeup'
    <3>1. Awake' = Awake \cup {w} /\ w \notin Awake
      BY <2>2, <2>3 DEF Awake
    <3>2. Cardinality(Awake') = Cardinality(Awake) + 1
      BY <3>1, Types, OneMore
    <3> QED
      BY <1>1, <1>4, <1>6, <3>2, Types, NoLostWakeupIs DEF IInv
  <2>6. NoneSleepsThroughStop'
    <3>1. Waiting' \subseteq Waiting
      BY <2>3 DEF Waiting
    <3>2. ~(stop /\ \A e \in Client : cpc[e] # "notifyAll")
      BY <1>6 DEF IInv, NoneSleepsThroughStop
    <3> QED
      BY <1>1, <1>2, <3>2 DEF NoneSleepsThroughStop
  <2>7. ExactlyOnceInOrder'
    BY <1>1, <2>2, <2>3, TasksStay
  <2>8. ExitedLast' /\ JoinedLast'
    BY <1>1, <1>2, <2>2, <2>3 DEF IInv, ExitedLast, JoinedLast
  <2> QED
    BY <2>4, <2>5, <2>6, <2>7, <2>8 DEF IInv
<1> QED
  BY <1>5, <1>6

LEMMA ShutdownInv == ASSUME IInv, NEW c \in Client, Shutdown(c) PROVE IInv'
<1>1. /\ cpc[c] = "idle" /\ ~stop /\ stop' = TRUE
      /\ cpc' = [cpc EXCEPT ![c] = "notifyAll"]
      /\ UNCHANGED <<tasks, wpc, task, started, finished, accepted, discarded>>
  BY DEF Shutdown, history
<1>2. \A e \in Client : cpc'[e] = IF e = c THEN "notifyAll" ELSE cpc[e]
  BY <1>1, Types
<1>3. TypeOK'
  BY <1>1 DEF IInv, TypeOK, ClientPC
<1>4. NoLostWakeup'
  <2>1. Notifying' = Notifying /\ Awake' = Awake /\ Waiting' = Waiting
    BY <1>1, <1>2 DEF Notifying, Awake, Waiting
  <2> QED
    BY <1>1, <2>1, NoLostWakeupIs DEF IInv
<1>5. NoneSleepsThroughStop'
  BY <1>2 DEF NoneSleepsThroughStop
<1>6. ExactlyOnceInOrder'
  BY <1>1, TasksStay
<1>7. ExitedLast' /\ JoinedLast'
  BY <1>1, <1>2 DEF IInv, ExitedLast, JoinedLast
<1> QED
  BY <1>3, <1>4, <1>5, <1>6, <1>7 DEF IInv

LEMMA ShutdownAgainInv == ASSUME IInv, NEW c \in Client, ShutdownAgain(c) PROVE IInv'
<1>1. /\ cpc[c] = "idle" /\ cpc' = [cpc EXCEPT ![c] = "ignored"]
      /\ UNCHANGED <<tasks, stop, wpc, task, started, finished, accepted, discarded>>
  BY DEF ShutdownAgain, history
<1>2. \A e \in Client : cpc'[e] = IF e = c THEN "ignored" ELSE cpc[e]
  BY <1>1, Types
<1>3. TypeOK'
  BY <1>1 DEF IInv, TypeOK, ClientPC
<1>4. Notifying' = Notifying /\ Awake' = Awake /\ Waiting' = Waiting
  BY <1>1, <1>2 DEF Notifying, Awake, Waiting
<1>5. NoLostWakeup'
  BY <1>1, <1>4, NoLostWakeupIs DEF IInv
<1>6. NoneSleepsThroughStop'
  BY <1>1, <1>2, <1>4 DEF IInv, NoneSleepsThroughStop
<1>7. ExactlyOnceInOrder'
  BY <1>1, TasksStay
<1>8. ExitedLast' /\ JoinedLast'
  BY <1>1, <1>2 DEF IInv, ExitedLast, JoinedLast
<1> QED
  BY <1>3, <1>5, <1>6, <1>7, <1>8 DEF IInv

LEMMA NotifyAllInv == ASSUME IInv, NEW c \in Client, NotifyAll(c) PROVE IInv'
<1>1. /\ cpc[c] = "notifyAll"
      /\ wpc' = [w \in Worker |-> IF w \in Waiting THEN "check" ELSE wpc[w]]
      /\ cpc' = [cpc EXCEPT ![c] = "joining"]
      /\ UNCHANGED <<tasks, stop, task, started, finished, accepted, discarded>>
  BY DEF NotifyAll, history
<1>2. \A e \in Client : cpc'[e] = IF e = c THEN "joining" ELSE cpc[e]
  BY <1>1, Types
<1>3. \A w \in Worker : wpc'[w] = IF wpc[w] = "waiting" THEN "check" ELSE wpc[w]
  BY <1>1 DEF Waiting
<1>4. TypeOK'
  <2>1. wpc' \in [Worker -> WorkerPC]
    BY <1>1, Types DEF WorkerPC
  <2> QED
    BY <1>1, <2>1 DEF IInv, TypeOK, ClientPC
<1>5. Waiting' = {}
  BY <1>3 DEF Waiting
<1>6. NoLostWakeup' /\ NoneSleepsThroughStop'
  BY <1>5 DEF NoLostWakeup, NoneSleepsThroughStop
<1>7. ExactlyOnceInOrder'
  BY <1>1, <1>3, TasksStay
<1>8. ExitedLast' /\ JoinedLast'
  BY <1>1, <1>2, <1>3 DEF IInv, ExitedLast, JoinedLast
<1> QED
  BY <1>4, <1>6, <1>7, <1>8 DEF IInv

LEMMA JoinInv == ASSUME IInv, NEW c \in Client, Join(c) PROVE IInv'
<1>1. /\ cpc[c] = "joining" /\ \A w \in Worker : wpc[w] = "exited"
      /\ cpc' = [cpc EXCEPT ![c] = "joined"]
      /\ UNCHANGED <<tasks, stop, wpc, task, started, finished, accepted, discarded>>
  BY DEF Join, history
<1>2. \A e \in Client : cpc'[e] = IF e = c THEN "joined" ELSE cpc[e]
  BY <1>1, Types
<1>3. TypeOK'
  BY <1>1 DEF IInv, TypeOK, ClientPC
<1>4. Notifying' = Notifying /\ Awake' = Awake /\ Waiting' = Waiting
  BY <1>1, <1>2 DEF Notifying, Awake, Waiting
<1>5. NoLostWakeup'
  BY <1>1, <1>4, NoLostWakeupIs DEF IInv
<1>6. NoneSleepsThroughStop'
  BY <1>1, <1>2, <1>4 DEF IInv, NoneSleepsThroughStop
<1>7. ExactlyOnceInOrder'
  BY <1>1, TasksStay
<1>8. ExitedLast' /\ JoinedLast'
  BY <1>1, <1>2 DEF IInv, ExitedLast, JoinedLast
<1> QED
  BY <1>3, <1>5, <1>6, <1>7, <1>8 DEF IInv

LEMMA NextInv == IInv /\ [Next]_vars => IInv'
<1> SUFFICES ASSUME IInv, [Next]_vars PROVE IInv'
  OBVIOUS
<1>1. ASSUME NEW w \in Worker, Loop(w) \/ WakeUp(w) PROVE IInv'
  BY <1>1, WaitInv, ExitInv, PopInv, FinishInv, WakeUpInv DEF Loop
<1>2. ASSUME NEW c \in Client, Call(c) \/ Shutdown(c) \/ ShutdownAgain(c) PROVE IInv'
  BY <1>2, NotifyOneInv, NotifyAllInv, JoinInv, ShutdownInv, ShutdownAgainInv DEF Call
<1>3. ASSUME NEW c \in Client, NEW t \in Task, Submit(c, t) \/ SubmitTooLate(c, t) PROVE IInv'
  BY <1>3, SubmitInv, SubmitTooLateInv
<1>4. CASE Terminated \/ UNCHANGED vars
  BY <1>4, UnchangedInv DEF Terminated
<1> QED
  BY <1>1, <1>2, <1>3, <1>4 DEF Next

-----------------------------------------------------------------------------
\* The invariant holds in every state of every interleaving of workers and
\* callers (thread_pool.cpp, lines 27-84).
THEOREM Invariant == Spec => []IInv
<1>1. Init => IInv
  BY InitInv
<1>2. IInv /\ [Next]_vars => IInv'
  BY NextInv
<1> QED
  BY <1>1, <1>2, PTL DEF Spec

\* Every variable keeps its type (thread_pool.hpp, lines 36-40).
THEOREM TypeCorrect == Spec => []TypeOK
<1>1. IInv => TypeOK
  BY DEF IInv
<1> QED
  BY <1>1, Invariant, PTL

\* The notify_one after the unlock loses no task: a worker sleeps only while
\* enough others, or notifications on their way, take care of the queue
\* (thread_pool.cpp, lines 34 and 56-63).
THEOREM WakeupsAreNotLost == Spec => []NoLostWakeup
<1>1. IInv => NoLostWakeup
  BY DEF IInv
<1> QED
  BY <1>1, Invariant, PTL

\* The notify_all after the unlock reaches every worker (thread_pool.cpp, lines
\* 34 and 72-77).
THEOREM StopIsSeen == Spec => []NoneSleepsThroughStop
<1>1. IInv => NoneSleepsThroughStop
  BY DEF IInv
<1> QED
  BY <1>1, Invariant, PTL

\* Every accepted task is in the queue, on one worker or finished, in the order
\* of acceptance (thread_pool.cpp, lines 42-43 and 61).
THEOREM TasksRunOnceInOrder == Spec => []ExactlyOnceInOrder
<1>1. IInv => ExactlyOnceInOrder
  BY DEF IInv
<1> QED
  BY <1>1, Invariant, PTL

\* With at least one worker, the shutdown() that stopped the pool returns after
\* the last accepted task has finished (thread_pool.cpp, lines 71-84).
THEOREM ShutdownWaitsForTasks ==
  ASSUME Worker # {}
  PROVE  Spec => []ShutdownDrains
<1>1. IInv => ShutdownDrains
  <2> SUFFICES ASSUME IInv, NEW c \in Client, cpc[c] = "joined"
               PROVE  finished = ToSet(accepted) /\ \A w \in Worker : wpc[w] = "exited"
    BY DEF ShutdownDrains
  <2>1. \A w \in Worker : wpc[w] = "exited"
    BY DEF IInv, JoinedLast
  <2>2. tasks = <<>>
    BY <2>1 DEF IInv, ExitedLast
  <2>3. accepted = started
    BY <2>2, Types, ConcatEmptySeq DEF IInv, ExactlyOnceInOrder
  <2>4. {task[w] : w \in {v \in Worker : wpc[v] = "running"}} = {}
    BY <2>1
  <2> QED
    BY <2>1, <2>3, <2>4 DEF IInv, ExactlyOnceInOrder
<1> QED
  BY <1>1, Invariant, PTL

-----------------------------------------------------------------------------
(* The pool implements TaskService.                                        *)

\* The tasks that run, as TaskService sees them
Running == {task[w] : w \in Worker} \ {NoTask}

\* A task that was not submitted is nowhere in the service.
LEMMA NotSeen ==
  ASSUME IInv, NEW t, t \notin Submitted
  PROVE  t \notin Abs!Seen
<1>1. /\ accepted = started \o tasks
      /\ ToSet(started) = finished \cup {task[w] : w \in {v \in Worker : wpc[v] = "running"}}
      /\ \A w \in Worker : wpc[w] = "running" <=> task[w] # NoTask
  BY DEF IInv, ExactlyOnceInOrder
<1>2. Len(started) \in Nat /\ Len(tasks) \in Nat /\ started \in Seq(Task) /\ tasks \in Seq(Task)
  BY Types, LenProperties
<1>3. /\ Len(accepted) = Len(started) + Len(tasks)
      /\ \A i \in 1..(Len(started) + Len(tasks)) :
           accepted[i] = IF i <= Len(started) THEN started[i] ELSE tasks[i - Len(started)]
  BY <1>1, <1>2, ConcatProperties
<1>4. DOMAIN accepted = 1..(Len(started) + Len(tasks)) /\ DOMAIN started = 1..Len(started)
  BY <1>2, <1>3, Types, LenProperties
<1>5. ASSUME NEW i \in 1..Len(tasks) PROVE tasks[i] \in ToSet(accepted)
  <2>1. Len(started) + i \in 1..(Len(started) + Len(tasks)) /\ ~(Len(started) + i <= Len(started))
        /\ (Len(started) + i) - Len(started) = i
    BY <1>2
  <2>2. accepted[Len(started) + i] = tasks[i]
    BY <1>3, <2>1
  <2> QED
    BY <1>4, <2>1, <2>2 DEF ToSet
<1>6. ASSUME NEW x \in ToSet(started) PROVE x \in ToSet(accepted)
  <2>1. PICK i \in 1..Len(started) : x = started[i]
    BY <1>4 DEF ToSet
  <2>2. i \in 1..(Len(started) + Len(tasks)) /\ i <= Len(started)
    BY <1>2, <2>1
  <2> QED
    BY <1>3, <1>4, <2>1, <2>2 DEF ToSet
<1>7. Running \subseteq ToSet(started) /\ finished \subseteq ToSet(started)
  BY <1>1 DEF Running
<1> QED
  BY <1>5, <1>6, <1>7 DEF Abs!Seen, Abs!Queued, Running, Submitted

LEMMA PoolInitRefines == Init => Abs!AInit
<1> SUFFICES ASSUME Init PROVE Abs!AInit
  OBVIOUS
<1>1. {task[w] : w \in Worker} \ {NoTask} = {}
  BY DEF Init
<1> QED
  BY <1>1 DEF Init, Abs!AInit, Phase

\* A call of submit() is a submission or a discard, by what stop_ is under the lock.
LEMMA SubmitRefines ==
  ASSUME IInv, NEW c \in Client, NEW t \in Task, Submit(c, t) \/ SubmitTooLate(c, t)
  PROVE  Abs!ASubmit(t) \/ Abs!ADiscard(t)
<1>1. t \notin Abs!Seen
  BY NotSeen DEF Submit, SubmitTooLate
<1>2. CASE Submit(c, t)
  <2>1. ~stop /\ stop' = stop /\ tasks' = Append(tasks, t)
        /\ UNCHANGED <<task, finished, discarded>>
    BY <1>2 DEF Submit
  <2> QED
    BY <1>1, <2>1 DEF Abs!ASubmit, Phase
<1>3. CASE SubmitTooLate(c, t)
  BY <1>1, <1>3 DEF SubmitTooLate, Abs!ADiscard, Phase
<1> QED
  BY <1>2, <1>3

LEMMA PopRefines == ASSUME IInv, NEW w \in Worker, Pop(w) PROVE Abs!AStart
<1> DEFINE t == Head(tasks)
<1>1. /\ wpc[w] = "check" /\ tasks # <<>>
      /\ task' = [task EXCEPT ![w] = t] /\ tasks' = Tail(tasks)
      /\ UNCHANGED <<stop, cpc, finished, discarded>>
  BY DEF Pop
<1>2. t \in Task /\ t # NoTask
  BY <1>1, Types, MoveHead, PoolAssumption
<1>3. task[w] = NoTask
  BY <1>1 DEF IInv, ExactlyOnceInOrder
<1> HIDE DEF t
<1>4. \A v \in Worker : task'[v] = IF v = w THEN t ELSE task[v]
  BY <1>1, Types
<1>5. {task'[v] : v \in Worker} \ {NoTask} = ({task[v] : v \in Worker} \ {NoTask}) \cup {t}
  BY <1>2, <1>3, <1>4
<1> QED
  BY <1>1, <1>5 DEF Abs!AStart, Phase, t

\* The end of the task t that a worker runs.
LEMMA FinishRefines ==
  ASSUME IInv, NEW w \in Worker, NEW t \in Task, t = task[w], Finish(w)
  PROVE  Abs!AFinish(t)
<1>1. /\ wpc[w] = "running" /\ finished' = finished \cup {t}
      /\ task' = [task EXCEPT ![w] = NoTask]
      /\ UNCHANGED <<tasks, stop, cpc, discarded>>
  BY DEF Finish
<1>2. t # NoTask /\ \A v \in Worker : task[v] = t => v = w
  BY <1>1 DEF IInv, ExactlyOnceInOrder
<1>3. \A v \in Worker : task'[v] = IF v = w THEN NoTask ELSE task[v]
  BY <1>1, Types
<1>4. {task'[v] : v \in Worker} \ {NoTask} = ({task[v] : v \in Worker} \ {NoTask}) \ {t}
  BY <1>2, <1>3
<1>5. t \in {task[v] : v \in Worker} \ {NoTask}
  BY <1>2
<1> QED
  BY <1>1, <1>4, <1>5 DEF Abs!AFinish, Phase

LEMMA ShutdownRefines == ASSUME IInv, NEW c \in Client, Shutdown(c) PROVE Abs!AShutdown
<1>1. /\ ~stop /\ stop' = TRUE /\ cpc' = [cpc EXCEPT ![c] = "notifyAll"]
      /\ UNCHANGED <<tasks, task, finished, discarded>>
  BY DEF Shutdown, history
<1>2. \A d \in Client : cpc[d] # "joined"
  BY <1>1 DEF IInv, JoinedLast
<1>3. \A d \in Client : cpc'[d] # "joined"
  BY <1>1, <1>2, Types
<1> QED
  BY <1>1, <1>3 DEF Abs!AShutdown, Phase

\* The first shutdown() to end ends the service; it finds an empty queue and no
\* task that runs.
LEMMA JoinRefines ==
  ASSUME Worker # {}, IInv, NEW c \in Client, Join(c)
  PROVE  Abs!AReturn \/ UNCHANGED Abs!aVars
<1>1. /\ cpc[c] = "joining" /\ \A w \in Worker : wpc[w] = "exited"
      /\ cpc' = [cpc EXCEPT ![c] = "joined"]
      /\ UNCHANGED <<tasks, stop, task, finished, discarded>>
  BY DEF Join, history
<1>2. stop /\ tasks = <<>>
  BY <1>1 DEF IInv, ExitedLast
<1>3. {task[w] : w \in Worker} \ {NoTask} = {}
  BY <1>1 DEF IInv, ExactlyOnceInOrder
<1>4. cpc'[c] = "joined"
  BY <1>1, Types
<1>5. Phase' = "closed"
  BY <1>1, <1>2, <1>4 DEF Phase
<1>6. Phase \in {"closing", "closed"}
  BY <1>2 DEF Phase
<1> QED
  BY <1>1, <1>2, <1>3, <1>5, <1>6 DEF Abs!AReturn, Abs!aVars

\* Steps that the service does not see: those of the wait, the notifications and a
\* shutdown() that finds stop_ set.
LEMMA OthersStutter ==
  ASSUME IInv,
         UNCHANGED <<tasks, stop, task, finished, discarded>>,
         \A c \in Client : cpc'[c] = "joined" <=> cpc[c] = "joined"
  PROVE  UNCHANGED Abs!aVars
BY DEF Abs!aVars, Phase

\* With at least one worker, the pool is a first-in first-out service: every step of a
\* worker or a caller is one of TaskService's or is not seen there, so tasks start
\* in the order of their acceptance, once each, and shutdown() ends the service
\* after the last of them (thread_pool.cpp, lines 27-84).
THEOREM PoolIsTaskService ==
  ASSUME Worker # {}
  PROVE  Spec => Abs!ASafety
<1>1. Init => Abs!AInit
  BY PoolInitRefines
<1>2. IInv /\ [Next]_vars => [Abs!ANext]_(Abs!aVars)
  <2> SUFFICES ASSUME IInv, [Next]_vars PROVE Abs!ANext \/ UNCHANGED Abs!aVars
    OBVIOUS
  <2>1. ASSUME NEW w \in Worker, Pop(w) \/ Finish(w) PROVE Abs!ANext
    <3>1. CASE Pop(w)
      BY <3>1, PopRefines DEF Abs!ANext
    <3>2. CASE Finish(w)
      <4>1. task[w] \in Task
        BY <3>2, Types DEF Finish, IInv, ExactlyOnceInOrder
      <4>2. PICK t \in Task : t = task[w]
        BY <4>1
      <4>3. Abs!AFinish(t)
        BY <3>2, <4>2, FinishRefines
      <4> QED
        BY <4>3 DEF Abs!ANext
    <3> QED
      BY <2>1, <3>1, <3>2
  <2>2. ASSUME NEW w \in Worker, Wait(w) \/ Exit(w) \/ WakeUp(w) PROVE UNCHANGED Abs!aVars
    <3>1. UNCHANGED <<tasks, stop, task, cpc, finished, discarded>>
      BY <2>2 DEF Wait, Exit, WakeUp, history
    <3> QED
      BY <3>1, OthersStutter
  <2>3. ASSUME NEW c \in Client, Shutdown(c) \/ Join(c) PROVE Abs!ANext \/ UNCHANGED Abs!aVars
    BY <2>3, ShutdownRefines, JoinRefines DEF Abs!ANext
  <2>4. ASSUME NEW c \in Client, NotifyOne(c) \/ NotifyAll(c) \/ ShutdownAgain(c)
        PROVE  UNCHANGED Abs!aVars
    <3>1. /\ UNCHANGED <<tasks, stop, task, finished, discarded>>
          /\ cpc[c] # "joined"
          /\ \E l \in {"idle", "joining", "ignored"} : cpc' = [cpc EXCEPT ![c] = l]
      BY <2>4 DEF NotifyOne, NotifyAll, ShutdownAgain, history
    <3>2. \A d \in Client : cpc'[d] = "joined" <=> cpc[d] = "joined"
      BY <3>1, Types
    <3> QED
      BY <3>1, <3>2, OthersStutter
  <2>5. ASSUME NEW c \in Client, NEW t \in Task, Submit(c, t) \/ SubmitTooLate(c, t)
        PROVE  Abs!ANext
    BY <2>5, SubmitRefines DEF Abs!ANext
  <2>6. CASE Terminated \/ UNCHANGED vars
    <3>1. UNCHANGED <<tasks, stop, task, cpc, finished, discarded>>
      BY <2>6 DEF Terminated, vars, history
    <3> QED
      BY <3>1, OthersStutter
  <2> QED
    BY <2>1, <2>2, <2>3, <2>4, <2>5, <2>6 DEF Next, Loop, Call
<1> QED
  BY <1>1, <1>2, Invariant, PTL DEF Spec, Abs!ASafety
=============================================================================
