SPECIFICATION ExchangeSpec
CONSTANTS
  Hosts <- MCHosts
  Models <- MCModels
  ReadEntry <- ReadJson
  DecodedBody <- DecodedAs
  MaximumRequests = 2
  Maximum = 536870911
  MaximumResponseBytes = 50
  MaximumJsonDepth = 2
  MaximumAbiInt = 127
  MaximumArgumentCount = 2
  MaximumPathCount = 2
  MaximumStringBytes = 10
INVARIANT
  DirectDecoderReplacesParser
CHECK_DEADLOCK FALSE
