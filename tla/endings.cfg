SPECIFICATION FairSpec
CONSTANTS
  LookupSettles = TRUE
  Targets = {2}
  Algorithms = {"CHASE", "TWAP"}
  Policies = {"CANCEL_REMAINDER", "AGGRESSIVE_WITHIN_RANGE"}
  Slices = 2
  RejectLimit = 2
  Actors = {"run", "cancel", "reconcile", "event"}
  MaxChildren = 2
  MaxFaults = 2
CHECK_DEADLOCK FALSE
PROPERTIES DeadlineEnds CancelEnds CancelSettles
