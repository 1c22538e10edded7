\* uploadProgress is left out, as it is by default.
SPECIFICATION Spec
CONSTANTS
  Requests = {quiet1, monitored}
  Monitored = {monitored}
  Handles = {h1, h2}
  TimeoutIntervals = 2
  MaximumSends = 2
  NoRequest = NoRequest
  NoHandle = NoHandle
INVARIANTS
  CancelStopsTransfer
