CONSTANTS
  bal = bal
  Absent = Absent
  NoMutator = NoMutator
  Refuses = Refuses
  NoOwner = NoOwner
  Torn = Torn
  TooLong = TooLong
  Newline = Newline
  None = None
  Paths <- MCPaths
  Values <- MCValues
  Mutators <- MCMutators
  Run <- MCRun
  Legal <- MCLegal
  Events <- AllEvents
  TimeTravel = TRUE
  OldForks <- MCOldForks
  DiskFails = TRUE
  MaxCalls = 3
SPECIFICATION Spec
INVARIANTS CleanProjection LogMirrorsWAL ReadsExact
PROPERTIES DeclarativeRestart
