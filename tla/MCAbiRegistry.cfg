\* Two runtimes of one worker each and a registry with room for one; completions
\* release their own runtime.  Main may be left at any time.
SPECIFICATION FairSpec
CONSTANTS
  main = main
  reaper = reaper
  first = first
  second = second
  w1 = w1
  v1 = v1
  Callers = {main}
  Main = main
  Reaper = reaper
  Runtimes = {first, second}
  Workers = {w1, v1}
  HomeOf <- OneWorkerEach
  MaximumPending = 1
  MaximumRuntimes = 1
  CrossRelease = FALSE
  NoRuntime = NoRuntime
  NoThread = NoThread
INVARIANTS
  DestroyedElsewhere
  NoOrphan
PROPERTIES
  EverythingEnds
CHECK_DEADLOCK FALSE
