\* More requests than handles, one of which reports progress.
SPECIFICATION FairSpec
CONSTANTS
  Requests = {quiet1, quiet2, monitored}
  Monitored = {monitored}
  Handles = {h1, h2}
  TimeoutIntervals = 2
  MaximumSends = 1
  NoRequest = NoRequest
  NoHandle = NoHandle
INVARIANTS
  FreedHandlesAreIdle
  StoppingCancelsTransfers
PROPERTIES
  EverythingEnds
