CONSTANTS
  Commands = {"x", "y"}
  MaxRecs = 1
  QueueLength = 2
  MaxQuestions = 2
  MaxChats = 2
  MaxAll = 3
SPECIFICATION FairSpec
INVARIANT WindowIsSound
PROPERTIES QuestionIsKept WindowCatchesUp
CHECK_DEADLOCK FALSE
