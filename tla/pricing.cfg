SPECIFICATION FairSpec
CONSTANTS
  Prices = {3, 4, 6, 7}
  TickSize = 2
  MinQuantity = 2
  MinNotional = 8
  Statuses <- MCStatuses
  Requests <- MCRequests
  Lower = 5
  Upper = 5
  Target = 2
  Threshold = 3000
  Interval = 1
  Timeout = 2
  Backoff = 1
  RejectLimit = 2
CHECK_DEADLOCK FALSE
INVARIANTS GivesUpForCause BlamesTheRange IInv
PROPERTIES FreshAfterReject ComesToRest DeadlineEnds
