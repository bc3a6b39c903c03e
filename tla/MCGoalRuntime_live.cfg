CONSTANTS
  billing = billing
  retry = retry
  refund = refund
  p = p
  q = q
  ok = ok
  NoDef = NoDef
  Absent = Absent
  Goals <- MCGoals
  Defs <- MCDefs
  Paths <- MCPaths
  Values <- MCValues
  IdOf <- MCIdOf
  Trigger <- MCTrigger
  Want <- MCWant
  Children <- MCChildren
  Compensation <- MCCompensation
  MaxPending = 2
  TopLevel = {"billing", "retryTop"}
  Events <- MCOneEvent
  HasDeadline = {}
  HasTimeout = {}
  Plannable <- MCPaths
  PlanCap = 1
SPECIFICATION FairSpec
PROPERTIES EngineRefined SatisfiedGoalLeavesActive PlansEnd
