CONSTANTS
  s1 = s1
  w1 = w1
  Requests = {s1, w1}
  Kind <- MCKind
  MaxConcurrency = 1
  MaxRetries = 1
  Capacity = 1
  MaxEvents = 3
  Texts = {"a", "b"}
  Answers <- MCAnswers
  Lines <- MCLines
  Commands <- MCCommands
  Inserted <- MCInserted
  Dangers <- MCDangers
  ShellDangers <- MCShellDangers
  MaxTokens = 3
  MaxLine = 3
  MaxInserts = 2
SPECIFICATION MCSpec
INVARIANTS
  CallsAreFaithful
  AppliedIsReviewed
  PatchIsTheChange
  LabelIsOfTheLine
PROPERTY CallsEndInTime
CHECK_DEADLOCK FALSE
