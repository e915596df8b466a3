CONSTANTS
  Consoles = {"p1", "p2"}
  Loaded = {"zsh"}
  Keys = {"k1", "k2", "k3"}
  Defaults <- MCDefaults
  UserKey = "k1"
  FirstLines <- MCFirstLines
  MaxCommands = 2
  MaxOwnEdits = 1
  Procs = {p1, p2, p3}
  Stoppers = {x1}
  NoProc = NoProc
  Sessions = {"s1", "s2", "s3"}
  Shells = {"first", "again"}
  Windows = {"window"}
  ShellOf <- MCShellOf
  MaxSessions = 2
  NoConn = "no connection"
  NoSession = "no session"
  Texts = {"nothing", "ls"}
  Suggested = "fix"
  MaxRequests = 3
  MaxFrames = 2
  MaxInserts = 1
  MaxTyping = 2
  MaxBreaks = 1
SPECIFICATION MCSpec
INVARIANTS
  ReservationIsExclusive
  LateStartIsHarmless
  RemaindersAreRemoved
  TypingIsKept
  QuestionsGetTheirAnswers
  DangerSurfaces
  UserLinesAreKept
  ShellsTakeSettings
PROPERTY TableGivesUpWhatItMay
CHECK_DEADLOCK FALSE
