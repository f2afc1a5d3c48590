SPECIFICATION Spec
CONSTANTS
  w1 = w1
  w2 = w2
  a = a
  b = b
  Calls = {a, b}
  ReplaySafe = {a}
  NeedsApproval = {}
  AsksHuman = {}
  Workers = {w1, w2}
  ProcessOf <- TwoProcesses
  MaxIterations = 1
  TextChoices = {FALSE}
  MaxOps = 3
  MaxFaults = 2
  MaxForeign = 0
INVARIANT CopiesAreFenced
INVARIANT OneResultPerCall
INVARIANT UnsafeStartsOnce
INVARIANT RecordBehindTranscript
INVARIANT ModelSeesNoOpenToolUse
PROPERTY BatchDroppedWhenCanonical
PROPERTY TerminalIsFinal
CHECK_DEADLOCK FALSE
