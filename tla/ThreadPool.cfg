\* Two callers and more tasks than workers; no symmetry: liveness is checked.
CONSTANTS
  Worker = {w1, w2, w3}
  Client = {c1, c2}
  Task = {t1, t2, t3, t4}
  NoTask = NoTask
SPECIFICATION Spec
INVARIANTS TypeOK NoLostWakeup NoneSleepsThroughStop ExactlyOnceInOrder ShutdownDrains
PROPERTY ImplementsTaskService
