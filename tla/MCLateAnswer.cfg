SPECIFICATION Spec
CONSTANTS
  w1 = w1
  w2 = w2
  a = a
  b = b
  Calls = {a, b}
  ReplaySafe = {}
  NeedsApproval = {a}
  AsksHuman = {}
  Workers = {w1, w2}
  ProcessOf <- TwoProcesses
  MaxIterations = 1
  TextChoices = {FALSE}
  MaxOps = 3
  MaxFaults = 0
  MaxForeign = 0
PROPERTY AnswerFitsPause
CHECK_DEADLOCK FALSE
