SPECIFICATION Spec
CONSTANTS
  Quantity = 4
  Begins = {TRUE, FALSE}
CHECK_DEADLOCK FALSE
INVARIANTS SpansDisjoint VwapWeighsFills CountsWhatItSees IInv
