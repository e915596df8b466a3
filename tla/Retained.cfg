CONSTANTS
  w1 = w1
  w2 = w2
  k1 = k1
  k2 = k2
  Commands <- MCCommands
  Controls <- MCControls
  MaxRequests = 2
  MaxWaiting = 2
  MaxCommands = 2
  MaxOutput = 4
  MaxChars = 7
  CommandChars = 1
  CwdChars = 1
  Finishes <- MCFinishes
  Tails = {4, None}
  None = None
  Places = {"work", "other"}
  Heads = {"none", "main", "topic"}
  Venvs = {"venv"}
  MaxEnded = 3
SPECIFICATION MCSpec
SYMMETRY MCSymmetry
INVARIANTS
  OnlyWhatMayBeIsRetained
  ProbesDescribeTheirCommand
  CapsuleIsTheSpan
  NoFalseAlarm
CHECK_DEADLOCK FALSE
