\* The stop signal may come at any time, and the process may then be stuck; the
\* API is used.
CONSTANT MaxTasks = 2
SPECIFICATION PolledSpec
CHECK_DEADLOCK FALSE
INVARIANTS StopIsComplete ExitLeavesNothing StopHolds WorkerSocketKept ApiSocketKnown
PROPERTY GracefulStop
