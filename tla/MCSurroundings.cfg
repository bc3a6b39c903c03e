SPECIFICATION MCSpec
CHECK_DEADLOCK FALSE
CONSTANTS
  GoalIDs = {g1, g2, g3}
  MaxCopies = 1
  QueueGoals <- MCQueueGoals
  QueueEvents <- MCQueueEvents
  QueueTimers <- MCQueueTimers
  Callers <- MCCallers
  MaxTime = 2
  MaxQueue = 3
  MaxRuns = 3
  Nodes <- MCNodes
  Local = n1
  Goals <- MCGoals
  HashNegative <- MCHashNegative
  HTTPStreams <- MCHTTPStreams
  GRPCStreams <- MCGRPCStreams
  MaxID = 3
  ObjectIDs <- MCIDs
  Fields <- MCFields
  Values <- MCValues
  Absent = Absent
  MaxEvents = 2
  States <- MCValues
  MaxSaves = 3
  Paths <- MCPaths
  Rank <- MCRank
  DependencyLists <- MCDependencyLists
  MissingLists <- MCMissingLists
  MaxAlternatives = 2
  MaxFailures = 2
  MaxMeanwhile = 1
  Projects <- MCProjects
  Names <- MCNames
  Types <- MCTypes
  Builtin <- MCBuiltin
  Plugin <- MCPlugin
  MaxLoads = 2
  n1 = n1
  n2 = n2
  n3 = n3
  t1 = t1
  t2 = t2
  c1 = c1
  c2 = c2
  h1 = h1
  r1 = r1
  r2 = r2
  i1 = i1
  i2 = i2
  f1 = f1
  f2 = f2
  v1 = v1
  v2 = v2
INVARIANTS
  EdgesMirrored AnalysisExact
  QueueSound OneLoop
  PanicExplained
  StreamsMissNothing DeathExplained
  QueriesFindTheirObjects ObjectsFollowState SnapshotsMatchFiles
  ClausesKept LoadsWhole HandlersFollow PlannerExact
PROPERTIES TickTakesWhatIsDue ShutdownEnds
