CONSTANTS
  Projects <- OneProject
  Names = {"ship", "other"}
  Types = {"payment.charge", "notify.send"}
  Builtin = {"payment.charge"}
  Plugin = {"notify.send"}
  MaxLoads = 2
SPECIFICATION Spec
INVARIANT ReloadRuns
CHECK_DEADLOCK FALSE
