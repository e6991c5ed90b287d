\* main() of ex37 with three workers and four tasks.
SPECIFICATION Spec
CONSTANTS
  NumThreads = 3
  NumTasks = 4
  Free = Free
INVARIANTS
  PoolDrained
  TasksGetIdleWorkers
PROPERTIES
  Termination
  ImplementsChannel
