\* An assertion fails in a detached task.
SPECIFICATION Spec
CONSTANTS
  helper = helper
  background = background
  fetch = fetch
  w1 = w1
  w2 = w2
  Main = Main
  Workers = {w1, w2}
  Functions = {helper, background, fetch}
  Policy <- MCPolicy
  Body <- MCBody
  TopLevel <- MCTopLevel
  Initializers = 2
  MaximumCallDepth = 3
  MaximumQueuedTasks = 1
  Program = Program
  NoTask = NoTask
  Nobody = Nobody
INVARIANTS
  FalseAssertionFails
CHECK_DEADLOCK FALSE
