\* One worker, a queue of one and three operations: a completion that starts the third
\* one while the second is queued waits for a place that only its own worker could make.
\* The two that report are enough to exhaust the handle table.
CONSTANTS
  Callers = {c1}
  Workers = {w1}
  Operations = {first, second, third}
  Detached = {third}
  OperationIds = 4
  MaximumHandle = 2
  MaximumQueuedTasks = 1
  ForeignCancellation = TRUE
  NoOperation = NoOperation
SPECIFICATION FairSpec
INVARIANTS
  ShutdownReachesEverything
  ReportedResultResolves
PROPERTIES
  ImplementsContract
  EverythingEnds
