CONSTANTS
  Sessions = {"one", "two"}
  Conns = {"shell", "coach"}
  Completions = {k1, k2}
  Analyses = {a1}
  Chats = {c1}
  Streams = {t1}
  SessionOf <- MCSessionOf
  OriginOf <- MCOriginOf
  Scenarios = {{k1, k2}, {k1, a1}, {k1, c1}, {t1}}
SPECIFICATION MCSpec
INVARIANTS
  OneLiveCompletion
  SealedIsQuiet
  ReceiptsTellTheTruth
  NothingIsLeftOver
PROPERTY KeepsTheBoundary
