-------------------------- MODULE ExecutionPromise --------------------------
(***************************************************************************)
(* What one execution promises the caller who asked for it, in terms of    *)
(* the account alone: how many lots have traded, and how many more could   *)
(* trade without another request.  One placement at a time, never more in  *)
(* total than the target, and a result that says exactly what traded and   *)
(* leaves nothing behind.  Only a failed execution may leave lots at risk. *)
(* The operation in which it fails may place lots once more, no other may. *)
(***************************************************************************)
EXTENDS Integers

VARIABLES
  target,   \* Lots asked for.
  traded,   \* Lots traded so far.
  atRisk,   \* Lots that may still trade.
  outcome   \* "open" until the execution has a result, "failing" while the
            \* operation in which it failed goes on.

promiseVars == <<target, traded, atRisk, outcome>>

Results == {"full", "partial", "unfilled", "untradeable", "failed"}

Init ==
  /\ target \in Nat
  /\ traded = 0 /\ atRisk = 0 /\ outcome = "open"

\* The result an execution with t lots traded may report.
Earned(t) ==
  IF t = target THEN "full" ELSE IF t > 0 THEN "partial" ELSE "unfilled"

\* The operation in which the execution failed may return at any time.
Returns == outcome' = outcome \/ (outcome = "failing" /\ outcome' = "failed")

\* Place some lots; part of them may trade at once, and rest or not.
Place ==
  /\ outcome \in {"open", "failing"} /\ atRisk = 0
  /\ \E now \in 0 .. target - traded : \E rest \in 0 .. target - traded - now :
       traded' = traded + now /\ atRisk' = rest
  /\ \/ outcome = "open" /\ UNCHANGED outcome
     \/ outcome = "open" /\ atRisk' = 0 /\ traded' = target /\ outcome' = "full"
     \/ outcome = "failing" /\ outcome' = "failed"
  /\ UNCHANGED target

\* Nothing at all trades without having been placed.
Trade ==
  /\ atRisk > 0
  /\ \E now \in 1 .. atRisk :
       traded' = traded + now /\ atRisk' \in 0 .. atRisk - now
  /\ Returns /\ UNCHANGED target

Withdraw ==
  /\ atRisk > 0
  /\ atRisk' \in 0 .. atRisk - 1
  /\ Returns /\ UNCHANGED <<target, traded>>

Finish ==
  /\ outcome = "open" /\ atRisk = 0
  /\ outcome' = Earned(traded)
  /\ UNCHANGED <<target, traded, atRisk>>

\* Nothing tradeable was asked for.
Decline ==
  /\ outcome = "open" /\ traded = 0 /\ atRisk = 0
  /\ outcome' = "untradeable"
  /\ UNCHANGED <<target, traded, atRisk>>

Fail ==
  /\ \/ outcome = "open" /\ outcome' \in {"failing", "failed"}
     \/ outcome = "failing" /\ outcome' = "failed"
  /\ UNCHANGED <<target, traded, atRisk>>

Next == Place \/ Trade \/ Withdraw \/ Finish \/ Decline \/ Fail

Spec == Init /\ [][Next]_promiseVars

=============================================================================
