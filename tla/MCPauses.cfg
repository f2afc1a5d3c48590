SPECIFICATION Spec
CONSTANTS
  w1 = w1
  w2 = w2
  a = a
  b = b
  Calls = {a, b}
  ReplaySafe = {}
  NeedsApproval = {a}
  AsksHuman = {b}
  Workers = {w1, w2}
  ProcessOf <- TwoProcesses
  MaxIterations = 2
  TextChoices = {TRUE}
  MaxOps = 3
  MaxFaults = 1
  MaxForeign = 1
INVARIANT TypeOK
INVARIANT OneUsePerCall
INVARIANT HandlerAfterToolUse
INVARIANT ApprovedBeforeStart
PROPERTY TerminalLeavesNoBatch
CHECK_DEADLOCK FALSE
