SPECIFICATION FairSpec
CONSTANTS
  c1 = c1
  c2 = c2
  c3 = c3
  None = None
  Callers = {c1, c2, c3}
  Sessions = {1, 2, 3, 4, 5}
  MaxSize = 2
  MaxCalls = 4
INVARIANT SlotsAccounted
INVARIANT OneLease
INVARIANT NoSessionLeak
PROPERTY CallsEnd
CHECK_DEADLOCK FALSE
