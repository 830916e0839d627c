------------------------------ MODULE MCPricing ------------------------------
EXTENDS Pricing

\* Both sides, both modes and both policies, not in every combination.
MCRequests ==
  {[side |-> "BUY",  mode |-> "ADVERSE_ONLY", policy |-> "CANCEL_REMAINDER"],
   [side |-> "BUY",  mode |-> "TWO_SIDED",    policy |-> "AGGRESSIVE_WITHIN_RANGE"],
   [side |-> "SELL", mode |-> "ADVERSE_ONLY", policy |-> "AGGRESSIVE_WITHIN_RANGE"]}

\* A symbol that trades, one that is halted, and one without post-only orders.
MCStatuses == {[trading |-> TRUE, gtx |-> TRUE], [trading |-> FALSE, gtx |-> TRUE],
               [trading |-> TRUE, gtx |-> FALSE]}
=============================================================================
