------------------------------ MODULE MCRuntime ------------------------------
EXTENDS Runtime

OneSymbol == [e \in Executions |-> "BTCUSDT"]
=============================================================================
