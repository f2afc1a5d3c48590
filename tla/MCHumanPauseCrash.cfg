SPECIFICATION Spec
CONSTANTS
  w1 = w1
  w2 = w2
  a = a
  b = b
  Calls = {a, b}
  ReplaySafe = {}
  NeedsApproval = {}
  AsksHuman = {a}
  Workers = {w1}
  ProcessOf <- OneWorker
  MaxIterations = 1
  TextChoices = {FALSE}
  MaxOps = 2
  MaxFaults = 1
  MaxForeign = 0
INVARIANT HumanPauseIsResumable
CHECK_DEADLOCK FALSE
