CONSTANTS
  bal = bal
  ord = ord
  a = a
  b = b
  Absent = Absent
  NoMutator = NoMutator
  Refuses = Refuses
  NoOwner = NoOwner
  Owners = {a, b}
  Paths <- MCPaths
  Values <- MCValues
  Mutators <- MCMutators
  Run <- MCRun
  Legal <- MCLegal
  Events <- MCEvents
  MaxSnapshots = 2
  MaxRefs = 2
  MaxClock = 1
SPECIFICATION Spec
INVARIANTS LocksSound
PROPERTIES LockedPathsStable
