SPECIFICATION Spec
CONSTANTS
  Quantity = 2
  Begins = {FALSE}
CHECK_DEADLOCK FALSE
INVARIANTS NothingUncounted
