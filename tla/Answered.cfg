CONSTANTS
  Sessions = {"one", "two"}
  Conns = {"shell", "coach", "other", "far"}
  Completions = {k1, k2}
  Analyses = {a1}
  Chats = {}
  Streams = {t1}
  SessionOf <- MCSessionOf
  OriginOf <- MCOriginOf
  OwnerOf <- MCOwnerOf
  WindowsOn <- MCWindowsOn
  MayStall = {"coach", "far"}
  Scenarios = {{t1}, {a1}, {k1}, {k1, k2}, {k1, a1}}
SPECIFICATION MCSpec
CHECK_DEADLOCK FALSE
PROPERTIES
  CompletionsAreAnswered
  RequestsFinish
