SPECIFICATION MCSpec
CHECK_DEADLOCK FALSE
CONSTANTS
  Torn = Torn
  TooLong = TooLong
  Newline = Newline
  TornWrites = TRUE
  KeepCounts = {1}
  LongCalls = {}
  MaxCalls = 4
INVARIANTS AckedKept ReplaySound
PROPERTY DurableLogRefined
