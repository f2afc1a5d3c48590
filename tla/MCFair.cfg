SPECIFICATION FairSpec
CONSTANTS
  w1 = w1
  w2 = w2
  a = a
  b = b
  Calls = {a, b}
  ReplaySafe = {a}
  NeedsApproval = {b}
  AsksHuman = {}
  Workers = {w1, w2}
  ProcessOf <- OneProcess
  MaxIterations = 1
  TextChoices = {FALSE}
  MaxOps = 3
  MaxFaults = 1
  MaxForeign = 0
PROPERTY CallsReturn
PROPERTY RecoveryFinishes
CHECK_DEADLOCK FALSE
