SPECIFICATION Spec
CONSTANTS
  Executions = {e1}
  Symbol <- OneSymbol
  ApiCalls = {}
  StreamCalls = {}
INVARIANTS AlwaysDriven
