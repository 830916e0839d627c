SPECIFICATION FairSpec
CONSTANTS
  LookupSettles = TRUE
  Targets = {1}
  Algorithms = {"CHASE"}
  Policies = {"CANCEL_REMAINDER"}
  Slices = 1
  RejectLimit = 2
  Actors = {"run", "cancel"}
  MaxChildren = 1
  MaxFaults = 1
CHECK_DEADLOCK FALSE
PROPERTIES CancelAlwaysEnds
