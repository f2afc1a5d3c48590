SPECIFICATION Spec
CONSTANTS
  w1 = w1
  w2 = w2
  a = a
  b = b
  Calls = {a, b}
  ReplaySafe = {}
  NeedsApproval = {}
  AsksHuman = {}
  Workers = {w1, w2}
  ProcessOf <- TwoProcesses
  MaxIterations = 1
  TextChoices = {FALSE}
  MaxOps = 2
  MaxFaults = 0
  MaxForeign = 0
INVARIANT ClaimCanFinish
CHECK_DEADLOCK FALSE
