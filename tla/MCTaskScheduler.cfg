\* One worker, two outside threads and a queue of one: everything that can happen
\* to a submit, an await, a shutdown, a cancellation and waitUntilIdle, with
\* bodies that raise a foreign cancellation; completions do not submit.
CONSTANTS
  Workers = {w1}
  Clients = {c1, c2}
  Tasks = {future, callback}
  Futures = {future}
  Callbacks = {callback}
  MaximumQueuedTasks = 1
  CallbacksSubmit = FALSE
  ForeignCancellation = TRUE
  NoTask = NoTask
SPECIFICATION FairSpec
INVARIANTS
  ShutdownCancelsOutstanding
  OnlyCompletionsJam
PROPERTIES
  IdleMeansReported
  ImplementsContract
  EverythingEnds
