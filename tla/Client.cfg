CONSTANTS
  Calls = {c1, c2}
  Patient = {c2}
  MaxFrame = 2
  Room = 1
  MaxNoise = 1
SPECIFICATION MCSpec
INVARIANTS CallsAreKeptApart FramesKeepTheirMeaning
PROPERTIES CallsReturn
CHECK_DEADLOCK FALSE
