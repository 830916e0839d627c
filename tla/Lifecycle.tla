------------------------------ MODULE Lifecycle ------------------------------
(***************************************************************************)
(* The life cycles of a parent execution and of its child orders: the      *)
(* statuses, the transition tables of state_machine.py, and the engine's   *)
(* tolerant way of moving a child to the status the venue reported.        *)
(***************************************************************************)

ExecutionStatus ==
  {"CREATED", "VALIDATING", "RUNNING", "CANCELLING", "COMPLETED",
   "PARTIALLY_COMPLETED", "EXPIRED", "CANCELLED", "FAILED"}

TerminalExecution ==
  {"COMPLETED", "PARTIALLY_COMPLETED", "EXPIRED", "CANCELLED", "FAILED"}

ExecutionTransitions ==
  [s \in ExecutionStatus |->
     CASE s = "CREATED"    -> {"VALIDATING", "FAILED"}
       [] s = "VALIDATING" -> {"RUNNING", "COMPLETED", "FAILED"}
       [] s = "RUNNING"    -> {"CANCELLING", "COMPLETED", "PARTIALLY_COMPLETED",
                               "EXPIRED", "FAILED"}
       [] s = "CANCELLING" -> {"COMPLETED", "CANCELLED", "PARTIALLY_COMPLETED",
                               "FAILED"}
       [] OTHER            -> {}]

(***************************************************************************)
(* Child orders.                                                           *)
(***************************************************************************)
ChildOrderStatus ==
  {"PENDING_SUBMIT", "OPEN", "PARTIALLY_FILLED", "PENDING_CANCEL",
   "CANCELLED", "FILLED", "REJECTED", "UNKNOWN"}

TerminalChild == {"CANCELLED", "FILLED", "REJECTED"}

\* What the engine calls a live child: the only statuses it cancels.
LiveChild == {"OPEN", "PARTIALLY_FILLED"}

ChildTransitions ==
  [s \in ChildOrderStatus |->
     CASE s = "PENDING_SUBMIT"   -> {"OPEN", "REJECTED", "UNKNOWN"}
       [] s = "OPEN"             -> {"PARTIALLY_FILLED", "FILLED", "PENDING_CANCEL"}
       [] s = "PARTIALLY_FILLED" -> {"FILLED", "PENDING_CANCEL"}
       [] s = "PENDING_CANCEL"   -> {"OPEN", "PARTIALLY_FILLED", "CANCELLED", "FILLED"}
       [] s = "UNKNOWN"          -> {"OPEN", "PARTIALLY_FILLED", "FILLED",
                                     "CANCELLED", "REJECTED"}
       [] OTHER                  -> {}]

\* The moves _set_child_status makes through intermediate statuses.
ChildShortcuts ==
  ({"OPEN", "PARTIALLY_FILLED", "PENDING_SUBMIT"} \X {"CANCELLED"})
    \cup ({"PENDING_SUBMIT"} \X {"PARTIALLY_FILLED", "FILLED"})

\* A move that is neither legal nor a shortcut is silently ignored.
SetChildStatus(current, target) ==
  IF \/ target \in ChildTransitions[current]
     \/ <<current, target>> \in ChildShortcuts
  THEN target
  ELSE current

=============================================================================
