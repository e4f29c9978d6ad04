SPECIFICATION Spec
CONSTANTS
  Models <- MCModels
  Builtin <- MCBuiltin
  Short <- MCShort
  None = None
  Intervals = {0, 1, 2}
  Syncs = {"ticker", "panel"}
  MaxTime = 4
  MaxFailures = 1
INVARIANTS DueWhenElapsed
CHECK_DEADLOCK FALSE
