CONSTANTS
  Terminals = {"t1", "t2"}
  Names = {"n1", " n1", "n2", "n3"}
  Environments <- MCEnvironments
  FirstEnvironments <- MCFirstEnvironments
  FirstFiles <- MCFirstFiles
  Placed <- MCPlaced
  Relative <- MCRelative
  MaxBaselines = 2
  MaxRuns = 4
  ChangeCost = 2
  Observed = {"s"}
  CommandLines <- Typed
  Shape <- Own
  Observational = {"ls"}
  Secret = {"login"}
  Blank = {}
  Window = 0
  Retention = 0
  MaxEntries = 1
  MaxTime = 1
  MaxFinished = 3
  MaxForgets = 1
  NoMemory = NoMemory
  Unreadable = Unreadable
  Clis = {"a", "b"}
  Targets = {"x", "y"}
  Exported = {"a"}
  MaxCommands = 2
  MaxEvents = 1
  NoFile = NoFile
  Invalid = Invalid
  Idle = Idle
  None = None
  NoHistory = NoHistory
  Malformed = Malformed
  Windows = {"w"}
  Sessions <- Chats
  SessionOf <- ShownBy
  HistoryLimit = 2
  MaxSessions = 2
  MaxIssued = 3
  MaxClears = 2
  Stores <- FirstStores
  Shells = {s1, s2}
  OldShells = {s2}
  Commands = {"c1", "c2"}
  s1 = s1
  s2 = s2
  NoShell = NoShell
  NoCommand = NoCommand
SPECIFICATION MCSpec
INVARIANT StopKeepsStopped
CHECK_DEADLOCK FALSE
