CONSTANTS
  Sessions = {"one"}
  Conns = {"shell", "coach"}
  Completions = {}
  Analyses = {}
  Chats = {}
  Streams = {t1}
  SessionOf <- MCSessionOf
  OriginOf <- MCOriginOf
  OwnerOf <- MCOwnerOf
  WindowsOn <- MCWindowsOn
  MayStall = {}
  Scenarios = {{t1}}
SPECIFICATION MCSpec
CHECK_DEADLOCK FALSE
PROPERTY StreamEndIsTold
