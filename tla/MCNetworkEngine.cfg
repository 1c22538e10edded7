SPECIFICATION FairSpec
CONSTANTS
  r1 = r1
  r2 = r2
  Requests = {r1, r2}
  NoRequest = NoRequest
  Policies <- MCPolicies
  TokenSupply = 2
INVARIANTS
  SendsAreBounded
  OneExchangePerKey
  FollowerSharesOutcome
PROPERTIES
  RejectedTokenIsReplaced
  UnansweredIsNotRepeated
  RequestsReturn
