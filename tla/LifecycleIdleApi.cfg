\* Nobody uses the API.
CONSTANT MaxTasks = 2
SPECIFICATION Spec
CHECK_DEADLOCK FALSE
PROPERTY GracefulStop
