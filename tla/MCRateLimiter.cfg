SPECIFICATION Spec
CONSTANTS
  a1 = a1
  a2 = a2
  a3 = a3
  Attempts = {a1, a2, a3}
  Key <- MCKey
  Chars <- MCChars
  MaxOutput <- MCMaxOutput
  Cancellable = {a1}
  Usage <- MCUsage
  Configs <- MCConfigs
INVARIANTS
  RequestsWithinLimit
  TokensWithinLimit
  SlotsOfCalls
  CapacityReturns
CHECK_DEADLOCK FALSE
