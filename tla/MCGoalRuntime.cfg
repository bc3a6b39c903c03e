CONSTANTS
  billing = billing
  retry = retry
  refund = refund
  p = p
  q = q
  ok = ok
  NoDef = NoDef
  Absent = Absent
  Goals <- MCGoals
  Defs <- MCDefs
  Paths <- MCPaths
  Values <- MCValues
  IdOf <- MCIdOf
  Trigger <- MCTrigger
  Want <- MCWant
  Children <- MCChildren
  Compensation <- MCCompensation
  MaxPending = 2
  TopLevel = {"billing", "retryTop"}
  Events <- MCEvents
  HasDeadline = {"billing"}
  HasTimeout = {"retryTop", "retryChild"}
  Plannable <- MCPaths
  PlanCap = 1
SPECIFICATION Spec
INVARIANTS PlansAccounted NoCompensationLost
