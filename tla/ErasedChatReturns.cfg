CONSTANTS
  Sessions = {"one", "two"}
  Conns = {"shell", "coach"}
  Completions = {k1, k2}
  Analyses = {a1}
  Chats = {c1}
  Streams = {t1}
  SessionOf <- MCSessionOf
  OriginOf <- MCOriginOf
  Scenarios = {{t1}}
SPECIFICATION MCSpec
INVARIANT ErasedChatStaysErased
