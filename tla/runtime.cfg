SPECIFICATION FairSpec
CONSTANTS
  Executions = {e1, e2}
  Symbol <- OneSymbol
  ApiCalls = {"cancel"}
  StreamCalls = {"apply", "reconcile"}
INVARIANTS OneActive Driven StopHolds IInv
PROPERTIES StopEnds LockReturns LoopEnds
