CONSTANTS
  bal = bal
  Absent = Absent
  NoMutator = NoMutator
  Refuses = Refuses
  NoOwner = NoOwner
  Torn = Torn
  TooLong = TooLong
  Newline = Newline
  None = None
  Paths <- MCPaths
  Values <- MCValues
  Mutators <- MCMutators
  Run <- MCRun
  Legal <- MCLegal
  Events <- OnlyDeposits
  TimeTravel = FALSE
  OldForks = {}
  DiskFails = FALSE
  MaxCalls = 2
SPECIFICATION Spec
PROPERTY RestartKeepsState
