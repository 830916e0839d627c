SPECIFICATION Spec
CONSTANTS
  LookupSettles = TRUE
  Targets = {1, 2}
  Algorithms = {"CHASE", "TWAP"}
  Policies = {"CANCEL_REMAINDER", "AGGRESSIVE_WITHIN_RANGE"}
  Slices = 2
  RejectLimit = 2
  Actors = {"run", "cancel", "reconcile", "event", "abort", "ban"}
  MaxChildren = 2
  MaxFaults = 3
CHECK_DEADLOCK FALSE
INVARIANTS NoOverfill ReservedCoversVenue WithinTarget LedgerAgrees CleanEnd IInv
PROPERTIES LegalMoves ReportsOnlyAdd SubmitsAlone KeepsPromise
