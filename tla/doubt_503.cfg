SPECIFICATION Spec
CONSTANTS
  Replies <- AllReplies
  Refusals <- MCRefusals
  Doubted = {"ambiguous"}
  MaxAttempts = 3
CHECK_DEADLOCK FALSE
INVARIANTS ForgottenIsGone
