SPECIFICATION FairSpec
CONSTANTS
  Replies <- AllReplies
  Refusals <- MCRefusals
  Doubted = {}
  MaxAttempts = 3
CHECK_DEADLOCK FALSE
INVARIANTS ForgottenIsGone NoTwins IInv
PROPERTIES DoubtsResolve
