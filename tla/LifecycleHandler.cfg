\* The stop signal may come while the main thread holds a mutex.
CONSTANT MaxTasks = 2
SPECIFICATION Spec
CHECK_DEADLOCK FALSE
INVARIANT SafeInHandler
