SPECIFICATION FairSpec
CONSTANTS
  k1 = k1
  k2 = k2
  NoKey = NoKey
  Keys = {k1, k2}
  MaxFailures = 3
  MaxClosing = 1
  Happens = {"change", "expiry", "ban", "retry", "other", "reconcile", "long", "stop"}
CHECK_DEADLOCK FALSE
INVARIANTS GivesUpTogether NeverSilent HealthyIsUp IInv
PROPERTIES StopReturns Reconnects
