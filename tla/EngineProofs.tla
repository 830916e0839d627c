---------------------------- MODULE EngineProofs ----------------------------
(***************************************************************************)
(* The theorems about ExecutionEngine.  Every step keeps the types of the  *)
(* parent (ParentStep), the ledger (LedgerStep), the control state         *)
(* (ControlStep), and the parts of the invariant that tie the status to    *)
(* the step under way (StatusStep, HeadingStep), the buckets to the        *)
(* children (BucketsStep) and the result to the fills (EndStep).  Together *)
(* these make IInv inductive.  It implies the safety invariants, and the   *)
(* action properties and the refinement of ExecutionPromise follow from it *)
(* step by step (PromiseStep).                                             *)
(***************************************************************************)
EXTENDS LedgerProofs

\* The statuses an execution can end with are statuses.
LEMMA StatusTypes ==
  ASSUME status \in ExecutionStatus
  PROVE  /\ Completed \in ExecutionStatus
         /\ Failed \in ExecutionStatus
         /\ Expired \in ExecutionStatus
         /\ AtDeadline \in ExecutionStatus
         /\ Unfinished("CANCELLED") \in ExecutionStatus
         /\ {"COMPLETED", "RUNNING", "CANCELLING", "FAILED"} \subseteq ExecutionStatus
BY DEF Completed, Failed, Expired, AtDeadline, Unfinished, ExecutionStatus

\* Ending the execution keeps the types of status and reason.
LEMMA EndAsTypes ==
  ASSUME reason \in Reason, NEW s \in ExecutionStatus, EndAs(s)
  PROVE  status' \in ExecutionStatus /\ reason' \in Reason
BY DEF EndAs, Reason

\* Every step keeps the types of the parent.
LEMMA ParentStep ==
  ASSUME TypeOK, [Next]_vars
  PROVE  ParentTypes'
<1> USE DEF TypeOK
<1>0. CASE UNCHANGED vars
  BY <1>0 DEF vars, venueVars, parentVars, ledgerVars, ParentTypes
<1>1. CASE Start
  BY <1>1 DEF Start, EndAs, Quiet, ParentTypes, venueVars, ledgerVars,
     ExecutionStatus, Reason
<1>2. CASE RunOnce
  BY <1>2 DEF RunOnce, BackoffBlocks, BackoffOver, Quiet, ParentTypes, venueVars,
     ledgerVars, Reason
<1>3. CASE CancelExecution
  BY <1>3 DEF CancelExecution, BackoffBlocks, Quiet, ParentTypes, venueVars,
     ledgerVars, Reason, ExecutionStatus
<1>4. CASE ReconcileExecution
  BY <1>4 DEF ReconcileExecution, BackoffBlocks, BackoffOver, Quiet, ParentTypes,
     venueVars, ledgerVars, Reason
<1>5. CASE UserEvent
  BY <1>5 DEF UserEvent, Learn, EventStatus, CancelReason, ParentTypes, venueVars,
     Reason, ExecutionStatus
<1>6. CASE Lookup
  <2> PICK i \in DOMAIN children :
       /\ \/ LookupFound(i) \/ LookupMissing(i) \/ LookupBanned(i)
          \/ LookupRateLimited(i) \/ CallRaises
       /\ UNCHANGED now
    BY <1>6 DEF Lookup
  <2>1. CASE LookupFound(i)
    BY <2>1 DEF LookupFound, Learn, NoFault, ParentTypes, parentVars, venueVars
  <2>2. CASE LookupMissing(i)
    BY <2>2 DEF LookupMissing, Note, NoFault, ParentTypes, Reason
  <2>3. CASE LookupBanned(i)
    <3>1. status' \in ExecutionStatus /\ reason' \in Reason
      BY <2>3, StatusTypes, EndAsTypes DEF LookupBanned, ParentTypes
    <3> QED
      BY <2>3, <3>1 DEF LookupBanned, NoFault, ParentTypes, ledgerVars, venueVars
  <2>4. CASE LookupRateLimited(i)
    BY <2>4, EngineAssumption
       DEF LookupRateLimited, Fault, RateLimited, Note, ParentTypes, Reason,
       ledgerVars, venueVars, EngineAssumption
  <2>5. CASE CallRaises
    BY <2>5, EngineAssumption
       DEF CallRaises, Fault, ParentTypes, ledgerVars, venueVars, parentVars,
       EngineAssumption
  <2> QED
    BY <2>1, <2>2, <2>3, <2>4, <2>5
<1>7. CASE FinishRefresh
  BY <1>7 DEF FinishRefresh, NoFault, ParentTypes, Reason, venueVars
<1>8. CASE ReadOrders
  BY <1>8 DEF ReadOrders, NoFault, ParentTypes, parentVars, ledgerVars, venueVars
<1>9. CASE ReadTrades
  BY <1>9 DEF ReadTrades, NoFault, ParentTypes, parentVars, venueVars
<1>10. CASE ReconcileFails
  <2>1. CASE /\ banned /\ EndAs(Failed) /\ NoFault
             /\ UNCHANGED <<venueVars, request, required, ledgerVars, backoff, now>>
    <3>1. status' \in ExecutionStatus /\ reason' \in Reason
      BY <2>1, StatusTypes, EndAsTypes DEF ParentTypes
    <3> QED
      BY <2>1, <3>1 DEF NoFault, ParentTypes, ledgerVars, venueVars
  <2>2. CASE /\ ~banned /\ Fault /\ RateLimited
             /\ UNCHANGED <<venueVars, request, required, ledgerVars, now>>
    BY <2>2, EngineAssumption
       DEF Fault, RateLimited, Note, ParentTypes, Reason, ledgerVars, venueVars,
       EngineAssumption
  <2>3. CASE CallRaises /\ UNCHANGED now
    BY <2>3, EngineAssumption
       DEF CallRaises, Fault, ParentTypes, ledgerVars, venueVars, parentVars,
       EngineAssumption
  <2> QED
    BY <1>10, <2>1, <2>2, <2>3 DEF ReconcileFails
<1>11. CASE CancelChild
  <2> PICK i \in DOMAIN children :
       /\ \/ /\ \/ CancelAccepted(i) \/ CancelIgnored(i) \/ CancelTimesOut(i)
                \/ CancelBanned(i) \/ CancelRefused(i) \/ CancelAborted(i)
             /\ UNCHANGED backoff
          \/ CancelRateLimited(i)
       /\ UNCHANGED now
    BY <1>11 DEF CancelChild
  <2>1. CASE CancelAccepted(i) /\ UNCHANGED <<backoff, now>>
    BY <2>1 DEF CancelAccepted, CancelAnswered, NoFault, ParentTypes, parentVars
  <2>2. CASE CancelIgnored(i) /\ UNCHANGED <<backoff, now>>
    BY <2>2, EngineAssumption DEF CancelIgnored, CancelAnswered, Fault,
       ParentTypes, parentVars, venueVars, EngineAssumption
  <2>3. CASE CancelTimesOut(i) /\ UNCHANGED <<backoff, now>>
    BY <2>3, EngineAssumption DEF CancelTimesOut, CancelRequested, Fault,
       ParentTypes, parentVars, venueVars, EngineAssumption
  <2>4. CASE CancelBanned(i) /\ UNCHANGED <<backoff, now>>
    <3>1. status' \in ExecutionStatus /\ reason' \in Reason
      BY <2>4, StatusTypes, EndAsTypes DEF CancelBanned, ParentTypes
    <3> QED
      BY <2>4, <3>1 DEF CancelBanned, CancelUndone, NoFault, ParentTypes, venueVars
  <2>5. CASE CancelRefused(i) /\ UNCHANGED <<backoff, now>>
    BY <2>5, EngineAssumption DEF CancelRefused, CancelUndone, Fault, NoFault,
       ParentTypes, parentVars, venueVars, EngineAssumption
  <2>6. CASE CancelAborted(i) /\ UNCHANGED <<backoff, now>>
    BY <2>6, EngineAssumption DEF CancelAborted, CancelRequested, Fault,
       ParentTypes, parentVars, venueVars, EngineAssumption
  <2>7. CASE CancelRateLimited(i) /\ UNCHANGED now
    BY <2>7, EngineAssumption DEF CancelRateLimited, CancelUndone, Fault, RateLimited,
       Note, ParentTypes, Reason, venueVars, EngineAssumption
  <2> QED
    BY <2>1, <2>2, <2>3, <2>4, <2>5, <2>6, <2>7
<1>12. CASE CancelHeldBack
  BY <1>12 DEF CancelHeldBack, BackoffBlocks, BackoffOver, NoFault, ParentTypes,
     Reason, ledgerVars, venueVars
<1>13. CASE CancelFinished
  BY <1>13 DEF CancelFinished, NoFault, ParentTypes, parentVars, ledgerVars,
     venueVars
<1>14. CASE Settle
  <2>1. status' \in ExecutionStatus /\ reason' \in Reason
    BY <1>14, StatusTypes, EndAsTypes DEF Settle, CancelReason, ParentTypes, Reason
  <2> QED
    BY <1>14, <2>1 DEF Settle, Decision, NoFault, ParentTypes, ledgerVars, venueVars
<1>15. CASE UnknownRemains
  BY <1>15 DEF UnknownRemains, Decision, Note, NoFault, ParentTypes, Reason,
     ledgerVars, venueVars
<1>16. CASE TargetReached
  <2>1. status' \in ExecutionStatus /\ reason' \in Reason
    BY <1>16, StatusTypes, EndAsTypes DEF TargetReached, ParentTypes
  <2> QED
    BY <1>16, <2>1
       DEF TargetReached, Decision, NoFault, ParentTypes, ledgerVars, venueVars
<1>17. CASE StreamDegraded
  BY <1>17 DEF StreamDegraded, Decision, Note, NoFault, ParentTypes, Reason,
     ledgerVars, venueVars
<1>18. CASE Observed
  <2>1. status' \in ExecutionStatus /\ reason' \in Reason
    BY <1>18, StatusTypes, EndAsTypes DEF Observed, Note, ParentTypes
  <2> QED
    BY <1>18, <2>1
       DEF Observed, Decision, NoFault, ParentTypes, ledgerVars, venueVars
<1>19. CASE PassiveCancelled
  BY <1>19 DEF PassiveCancelled, Decision, Note, NoFault, ParentTypes, ledgerVars,
     venueVars
<1>20. CASE TimedOutCancelled
  <2>1. status' \in ExecutionStatus /\ reason' \in Reason
    BY <1>20, StatusTypes, EndAsTypes DEF TimedOutCancelled, Note, ParentTypes
  <2> QED
    BY <1>20, <2>1
       DEF TimedOutCancelled, Decision, NoFault, ParentTypes, ledgerVars, venueVars
<1>21. CASE Closing
  <2>1. status' \in ExecutionStatus /\ reason' \in Reason
    BY <1>21, StatusTypes, EndAsTypes DEF Closing, ParentTypes
  <2> QED
    BY <1>21, <2>1
       DEF Closing, Decision, NoFault, ParentTypes, ledgerVars, venueVars
<1>22. CASE StaleRefreshed
  BY <1>22 DEF StaleRefreshed, Decision, Note, NoFault, ParentTypes, ledgerVars,
     venueVars
<1>23. CASE WaitOrReprice
  BY <1>23 DEF WaitOrReprice, Decision, Note, NoFault, ParentTypes, Reason,
     ledgerVars, venueVars
<1>24. CASE RulesRaise
  BY <1>24, EngineAssumption DEF RulesRaise, Fault, ParentTypes, parentVars,
     ledgerVars, venueVars, EngineAssumption
<1>25. CASE NothingPlaced
  <2>1. status' \in ExecutionStatus /\ reason' \in Reason
    BY <1>25, StatusTypes, EndAsTypes DEF NothingPlaced, Note, ParentTypes, Reason
  <2> QED
    BY <1>25, <2>1
       DEF NothingPlaced, Decision, NoFault, ParentTypes, ledgerVars, venueVars
<1>26. CASE Submit
  <2> DEFINE q == Demand
  <2>1. UNCHANGED <<request, required, now>>
    BY <1>26 DEF Submit
  <2>2. CASE SubmitAccepted(q)
    <3>1. EndAs(IF confirmed' >= required THEN Completed ELSE status)
      BY <2>2 DEF SubmitAccepted
    <3>2. status' \in ExecutionStatus /\ reason' \in Reason
      BY <3>1, StatusTypes, EndAsTypes DEF ParentTypes
    <3> QED
      BY <2>1, <2>2, <3>2 DEF SubmitAccepted, NoFault, ParentTypes
  <2>3. CASE SubmitTimesOut(q)
    BY <2>1, <2>3, EngineAssumption DEF SubmitTimesOut, Fault, Note, ParentTypes,
       Reason, EngineAssumption
  <2>4. CASE SubmitRejected(q)
    <3>1. status' \in ExecutionStatus /\ reason' \in Reason /\ rejects' \in Nat
      BY <2>4, StatusTypes, EndAsTypes DEF SubmitRejected, ParentTypes
    <3> QED
      BY <2>1, <2>4, <3>1 DEF SubmitRejected, NoFault, ParentTypes
  <2>5. CASE SubmitBanned(q)
    <3>1. status' \in ExecutionStatus /\ reason' \in Reason
      BY <2>5, StatusTypes, EndAsTypes DEF SubmitBanned, ParentTypes
    <3> QED
      BY <2>1, <2>5, <3>1 DEF SubmitBanned, NoFault, ParentTypes
  <2>6. CASE SubmitAborted(q)
    BY <2>1, <2>6, EngineAssumption
       DEF SubmitAborted, Fault, ParentTypes, EngineAssumption
  <2>7. CASE SubmitFails
    BY <2>1, <2>7, EngineAssumption DEF SubmitFails, Fault, RateLimited, Note,
       ParentTypes, Reason, venueVars, ledgerVars, EngineAssumption
  <2> QED
    BY <1>26, <2>2, <2>3, <2>4, <2>5, <2>6, <2>7 DEF Submit
<1>27. CASE Tick
  BY <1>27, EngineAssumption DEF Tick, ParentTypes, engineVars, parentVars,
     ledgerVars, venueVars, EngineAssumption
<1>28. CASE BackoffElapses
  BY <1>28 DEF BackoffElapses, ParentTypes, engineVars, parentVars, ledgerVars,
     venueVars
<1>29. CASE VenueMoves
  <2>1. UNCHANGED <<request, required, status, reason, rejects, backoff, now>>
    BY <1>29 DEF VenueMoves, engineVars, parentVars, ledgerVars
  <2>2. banned' \in BOOLEAN
    BY <1>29 DEF VenueMoves, Arrive, Fill, Expire, Ban, Lift, ParentTypes
  <2>3. faults' \in 0 .. MaxFaults
    BY <1>29, EngineAssumption DEF VenueMoves, Fault, NoFault, ParentTypes,
       EngineAssumption
  <2> QED
    BY <2>1, <2>2, <2>3 DEF ParentTypes
<1> QED
  BY <1>0, <1>1, <1>2, <1>3, <1>4, <1>5, <1>6, <1>7, <1>8, <1>9, <1>10, <1>11,
     <1>12, <1>13, <1>14, <1>15, <1>16, <1>17, <1>18, <1>19, <1>20, <1>21, <1>22,
     <1>23, <1>24, <1>25, <1>26, <1>27, <1>28, <1>29
     DEF Next, Operation, Environment

\* Every step keeps the ledger and what it already knew, and only Submit adds a
\* child.
LEMMA LedgerStep ==
  ASSUME IInv, LookupSettles = TRUE, [Next]_vars
  PROVE  /\ LedgerTypes' /\ LedgerSound' /\ OnlyAdds
         /\ Last' = Last \/ (Submit /\ Last' = Last + 1)
<1>1. LedgerTypes /\ LedgerSound /\ ReadingSound
  BY DEF TypeOK, IInv
<1>2. required \in Nat /\ now \in 0 .. Slices /\ answer \in Seq(Reading)
  BY EngineAssumption DEF IInv, TypeOK, ParentTypes, ControlTypes, EngineAssumption
<1>3. \A i : i \in DOMAIN children <=> i \in 1 .. Last
  BY <1>1, LenProperties DEF LedgerTypes, Last
<1>4. ASSUME UNCHANGED <<orders, position, required, children, confirmed, buckets>>
      PROVE  LedgerTypes' /\ LedgerSound' /\ OnlyAdds /\ Last' = Last
  BY <1>1, <1>4, LedgerKept
<1>5. CASE Lookup
  <2> PICK i \in DOMAIN children :
       /\ \/ LookupFound(i) \/ LookupMissing(i) \/ LookupBanned(i)
          \/ LookupRateLimited(i) \/ CallRaises
       /\ UNCHANGED now
    BY <1>5 DEF Lookup
  <2>1. CASE LookupFound(i)
    <3>1. OrderSound(orders[i]) /\ orders[i] \in Order /\ i \in 1 .. Last
      BY <1>1, <1>3, LedgerElements DEF LedgerSound
    <3>2. Reports(Sighting(orders[i]), orders[i])
      BY <2>1, <3>1, SightingReports DEF LookupFound
    <3> QED
      BY <1>1, <1>2, <2>1, <3>1, <3>2, LearnStep
         DEF LookupFound, venueVars, parentVars
  <2>2. CASE LookupMissing(i)
    BY <1>1, <1>2, <1>3, <2>2, LookupMissingStep
  <2>3. CASE LookupBanned(i)
    BY <1>4, <2>3 DEF LookupBanned, venueVars, ledgerVars
  <2>4. CASE LookupRateLimited(i)
    BY <1>4, <2>4 DEF LookupRateLimited, venueVars, ledgerVars
  <2>5. CASE CallRaises
    BY <1>4, <2>5 DEF CallRaises, venueVars, ledgerVars, parentVars
  <2> QED
    BY <2>1, <2>2, <2>3, <2>4, <2>5
<1>6. CASE UserEvent
  <2> PICK i \in DOMAIN children :
          \E s \in Sightings(orders[i]) : Learn(i, s) /\ buckets' = BucketsOf(children')
    BY <1>6 DEF UserEvent
  <2> PICK s \in Sightings(orders[i]) : Learn(i, s) /\ buckets' = BucketsOf(children')
    OBVIOUS
  <2>1. OrderSound(orders[i]) /\ orders[i] \in Order /\ i \in 1 .. Last
    BY <1>1, <1>3, LedgerElements DEF LedgerSound
  <2>2. Reports(s, orders[i])
    BY <2>1, SightingReports
  <2> QED
    BY <1>1, <1>2, <1>6, <2>1, <2>2, LearnStep DEF UserEvent, venueVars
<1>7. CASE FinishRefresh
  BY <1>1, <1>7, BucketsRebuilt DEF FinishRefresh, venueVars
<1>8. CASE ReadTrades
  BY <1>1, <1>2, <1>8, ReadTradesStep
<1>9. CASE CancelChild
  <2> PICK i \in DOMAIN children :
       /\ pc = "cancel" /\ IsNext(i) /\ backoff = "none"
       /\ \/ CancelAccepted(i) \/ CancelIgnored(i) \/ CancelTimesOut(i)
          \/ CancelBanned(i) \/ CancelRefused(i) \/ CancelAborted(i)
          \/ CancelRateLimited(i)
    BY <1>9 DEF CancelChild
  <2>1. i \in 1 .. Last /\ Cancellable(i)
    BY <1>3 DEF IsNext, LoopTargets
  <2>2. OrderSound(orders[i]) /\ orders[i] \in Order /\ orders = [orders EXCEPT ![i] = orders[i]]
    BY <1>1, <2>1, LedgerElements DEF LedgerSound, LedgerTypes
  <2>8. ~OverTarget
    BY <1>1, <1>2, <2>1, CancelExact DEF IInv, BucketsSound, OnlyPasses
  <2>3. CASE CancelAccepted(i)
    <3> DEFINE o == IF orders[i].state = "open"
                    THEN [orders[i] EXCEPT !.state = "cancelled"] ELSE orders[i]
    <3>1. /\ o \in Order /\ OrderSound(o) /\ o.qty = orders[i].qty
          /\ o.filled = orders[i].filled /\ OnVenue(o)
      <4>1. CASE orders[i].state = "open"
        BY <2>2, <4>1, ClosedFacts DEF OnVenue
      <4>2. CASE orders[i].state # "open"
        BY <2>2, <2>3, <4>2 DEF CancelAccepted
      <4> QED
        BY <4>1, <4>2
    <3>2. orders' = [orders EXCEPT ![i] = o]
      BY <2>2, <2>3 DEF CancelAccepted
    <3> HIDE DEF o
    <3> QED
      BY <1>1, <1>2, <2>1, <2>3, <2>8, <3>1, <3>2, CancelAnsweredStep
         DEF CancelAccepted, parentVars
  <2>4. CASE CancelIgnored(i)
    <3>1. orders' = [orders EXCEPT ![i] = orders[i]] /\ OnVenue(orders[i])
      BY <2>2, <2>4 DEF CancelIgnored, venueVars, OnVenue
    <3> QED
      BY <1>1, <1>2, <2>1, <2>2, <2>4, <2>8, <3>1, CancelAnsweredStep
         DEF CancelIgnored, parentVars, venueVars
  <2>5. CASE CancelTimesOut(i)
    BY <1>1, <1>2, <2>1, <2>5, CancelRequestedStep
       DEF CancelTimesOut, parentVars, venueVars
  <2>6. CASE CancelAborted(i)
    BY <1>1, <1>2, <2>1, <2>6, CancelRequestedStep
       DEF CancelAborted, parentVars, venueVars
  <2>7. CASE CancelBanned(i) \/ CancelRefused(i) \/ CancelRateLimited(i)
    <3>1. CancelUndone(i) /\ UNCHANGED <<orders, position, required>>
      BY <2>7 DEF CancelBanned, CancelRefused, CancelRateLimited, parentVars, venueVars
    <3> QED
      BY <1>1, <1>2, <2>1, <2>8, <3>1, CancelUndoneStep
  <2> QED
    BY <2>3, <2>4, <2>5, <2>6, <2>7
<1>10. CASE Submit
  BY <1>1, <1>2, <1>10, SubmitStep
<1>11. CASE VenueMoves
  <2>1. CASE \E i \in DOMAIN orders : Arrive(i) \/ Fill(i) \/ Expire(i)
    BY <1>1, <1>2, <1>11, <2>1, ArriveStep
       DEF VenueMoves, engineVars, ledgerVars, parentVars
  <2>2. CASE Ban \/ Lift
    BY <1>4, <1>11, <2>2
       DEF VenueMoves, Ban, Lift, engineVars, ledgerVars, parentVars
  <2> QED
    BY <1>11, <2>1, <2>2 DEF VenueMoves
<1>12. CASE Start \/ RunOnce \/ CancelExecution \/ ReconcileExecution
  BY <1>4, <1>12 DEF Start, RunOnce, CancelExecution, ReconcileExecution, Quiet,
     venueVars, ledgerVars
<1>13. CASE ReadOrders \/ CancelHeldBack \/ CancelFinished
  BY <1>4, <1>13 DEF ReadOrders, CancelHeldBack, CancelFinished, venueVars,
     ledgerVars, parentVars
<1>14. CASE ReconcileFails
  BY <1>4, <1>14 DEF ReconcileFails, CallRaises, venueVars, ledgerVars, parentVars
<1>15. CASE Settle \/ UnknownRemains \/ TargetReached \/ StreamDegraded \/ Observed
  BY <1>4, <1>15
     DEF Settle, UnknownRemains, TargetReached, StreamDegraded, Observed,
     Decision, venueVars, ledgerVars
<1>16. CASE PassiveCancelled \/ TimedOutCancelled \/ Closing \/ StaleRefreshed
  BY <1>4, <1>16 DEF PassiveCancelled, TimedOutCancelled, Closing, StaleRefreshed,
     Decision, venueVars, ledgerVars
<1>17. CASE WaitOrReprice \/ RulesRaise \/ NothingPlaced
  BY <1>4, <1>17 DEF WaitOrReprice, RulesRaise, NothingPlaced, Decision, venueVars,
     ledgerVars, parentVars
<1>18. CASE Tick \/ BackoffElapses \/ UNCHANGED vars
  BY <1>4, <1>18
     DEF Tick, BackoffElapses, vars, engineVars, venueVars, ledgerVars, parentVars
<1> QED
  BY <1>5, <1>6, <1>7, <1>8, <1>9, <1>10, <1>11, <1>12, <1>13, <1>14, <1>15, <1>16,
     <1>17, <1>18 DEF Next, Operation, Environment

\* Entering a loop forgets what a reconciliation has read.
LEMMA ControlLoops ==
  ASSUME Len(children') \in Nat,
         NEW l \in Label, l # "read_trades", NEW n \in Decisions, Loop(l, n)
  PROVE  ControlTypes' /\ ReadingSound'
<1>1. answer' = <<>> /\ cur' = 0 /\ pc' = l /\ cont' = n
  BY DEF Loop
<1>2. <<>> \in Seq(Reading)
  BY EmptySeq
<1> QED
  BY <1>1, <1>2 DEF ControlTypes, ReadingSound

\* The same for a step that decides.
LEMMA ControlEnters ==
  ASSUME Len(children') \in Nat, NEW l \in Decisions, Enter(l) \/ Goto(l)
  PROVE  ControlTypes' /\ ReadingSound'
<1>1. \E m \in Label : m # "read_trades" /\ \E n \in Decisions : Loop(m, n)
  BY DEF Enter, Goto, Decisions, Label, Calls
<1> QED
  BY <1>1, ControlLoops

\* Passing over a child of a loop.
LEMMA ControlPasses ==
  ASSUME ControlTypes, Len(children') \in Nat, cur' \in 0 .. Len(children'),
         pc # "read_trades", UNCHANGED <<pc, answer>>, cont' \in Decisions
  PROVE  ControlTypes' /\ ReadingSound'
BY DEF ControlTypes, ReadingSound

\* Every step keeps the control state, and what a reconciliation has read
\* stays true.
LEMMA ControlStep ==
  ASSUME IInv, LookupSettles = TRUE, [Next]_vars
  PROVE  ControlTypes' /\ ReadingSound'
<1>1. /\ LedgerTypes /\ LedgerSound /\ ReadingSound /\ ControlTypes
      /\ cont \in Decisions /\ cur \in 0 .. Last /\ Last \in Nat
      /\ DOMAIN children = 1 .. Last /\ DOMAIN orders = 1 .. Last
  <2>1. LedgerTypes /\ LedgerSound /\ ReadingSound /\ ControlTypes
    BY DEF TypeOK, IInv
  <2> QED
    BY <2>1, LenProperties DEF LedgerTypes, ControlTypes, Last
<1>2. /\ Len(children') \in Nat /\ Last' = Len(children') /\ Last' \in {Last, Last + 1}
      /\ 0 .. Last \subseteq 0 .. Len(children')
  <2>1. LedgerTypes' /\ Last' \in {Last, Last + 1}
    BY LedgerStep
  <2> QED
    BY <1>1, <2>1 DEF Last
<1>3. Calls \cup Decisions \subseteq Label /\ "cancel_all" \in Decisions
      /\ {"idle", "settle", "reconciled", "unknown", "observed", "passive", "timedout",
          "active", "repriced", "stale", "closing"} \subseteq Decisions
      /\ {"refresh", "exact", "cancel", "read_orders"} \subseteq Label
      /\ {"refresh", "exact", "cancel", "read_orders"} \cap {"read_trades"} = {}
  BY DEF Label, Calls, Decisions
<1>4. ASSUME NEW l \in {"refresh", "exact", "cancel", "read_orders"},
             NEW n \in Decisions, Loop(l, n)
      PROVE  ControlTypes' /\ ReadingSound'
  BY <1>2, <1>3, <1>4, ControlLoops
<1>5. ASSUME NEW l \in Decisions, Goto(l) \/ Enter(l)
      PROVE  ControlTypes' /\ ReadingSound'
  BY <1>2, <1>5, ControlEnters
<1>6. ASSUME Goto("idle") PROVE ControlTypes' /\ ReadingSound'
  BY <1>3, <1>5, <1>6
<1>7. ASSUME pc # "read_trades", cur' \in 0 .. Last, UNCHANGED <<pc, answer>>, cont' \in Decisions
      PROVE  ControlTypes' /\ ReadingSound'
  BY <1>1, <1>2, <1>7, ControlPasses
<1>8. ASSUME pc # "read_trades", UNCHANGED controlVars
      PROVE  ControlTypes' /\ ReadingSound'
  BY <1>1, <1>7, <1>8 DEF controlVars
<1>9. ASSUME pc # "read_trades", SkipRest PROVE ControlTypes' /\ ReadingSound'
  BY <1>1, <1>7, <1>9 DEF SkipRest, Passed, Last
<1>10. ASSUME NEW i \in DOMAIN children, pc # "read_trades", Passed(i)
       PROVE  ControlTypes' /\ ReadingSound'
  BY <1>1, <1>7, <1>10 DEF Passed
<1>11. CASE Lookup
  <2> PICK i \in DOMAIN children :
       /\ pc \in {"refresh", "exact"}
       /\ \/ LookupFound(i) \/ LookupMissing(i) \/ LookupBanned(i)
          \/ LookupRateLimited(i) \/ CallRaises
    BY <1>11 DEF Lookup
  <2>1. CASE LookupFound(i) \/ LookupMissing(i)
    BY <1>10, <2>1 DEF LookupFound, LookupMissing
  <2>2. CASE LookupBanned(i)
    BY <1>1, <1>5, <1>6, <1>9, <2>2 DEF LookupBanned
  <2>3. CASE LookupRateLimited(i)
    BY <1>9, <2>3 DEF LookupRateLimited
  <2>4. CASE CallRaises
    BY <1>6, <2>4 DEF CallRaises
  <2> QED
    BY <2>1, <2>2, <2>3, <2>4
<1>12. CASE FinishRefresh
  BY <1>1, <1>5, <1>6, <1>12 DEF FinishRefresh
<1>13. CASE ReadOrders
  <2>1. PICK windowed \in BOOLEAN : answer' = [i \in 1 .. Last |-> OrderRead(i, windowed)]
    BY <1>1, <1>13 DEF ReadOrders
  <2>2. ASSUME NEW i \in 1 .. Last
        PROVE  /\ OrderRead(i, windowed) \in Reading
               /\ AnswerSound(OrderRead(i, windowed), orders[i])
    <3>1. OrderSound(orders[i]) /\ orders[i] \in Order
      BY <1>1, LedgerElements DEF LedgerSound
    <3>2. Missing \in Reading /\ Omitted \in Reading
      BY DEF Missing, Omitted, Reading
    <3>3. CASE OrderRead(i, windowed) \in {Missing, Omitted}
      BY <3>2, <3>3 DEF AnswerSound
    <3>4. CASE OrderRead(i, windowed) \notin {Missing, Omitted}
      <4>1. OnVenue(orders[i]) /\ OrderRead(i, windowed) = Sighting(orders[i])
        BY <3>4 DEF OrderRead
      <4>2. Reports(Sighting(orders[i]), orders[i])
        BY <3>1, <4>1, SightingReports
      <4>3. Sighting(orders[i]) \in Reading
        BY <3>1 DEF Sighting, StatusOf, Reading, Order, ChildOrderStatus
      <4>4. Sighting(orders[i]).filled = orders[i].filled
        BY DEF Sighting
      <4> QED
        BY <4>1, <4>2, <4>3, <4>4 DEF AnswerSound, Reports
    <3> QED
      BY <3>3, <3>4
  <2>3. answer' \in Seq(Reading) /\ Len(answer') = Last
        /\ \A i \in 1 .. Last : AnswerSound(answer'[i], orders[i])
    <3>1. answer' \in Seq(Reading)
      BY <1>1, <2>1, <2>2, SeqDef
    <3>2. Len(answer') = Last
      BY <1>1, <2>1, <3>1, LenProperties
    <3> QED
      BY <2>1, <2>2, <3>1, <3>2
  <2>4. UNCHANGED <<orders, children, cur, cont>> /\ pc' = "read_trades"
    BY <1>13 DEF ReadOrders, venueVars, ledgerVars
  <2>5. Last' = Last
    BY <2>4 DEF Last
  <2>6. "read_trades" \in Label
    BY DEF Label, Calls
  <2> QED
    BY <1>1, <1>2, <2>3, <2>4, <2>5, <2>6 DEF ControlTypes, ReadingSound
<1>14. CASE ReadTrades
  BY <1>1, <1>4, <1>14 DEF ReadTrades
<1>15. CASE ReconcileFails
  BY <1>1, <1>5, <1>6, <1>15 DEF ReconcileFails, CallRaises
<1>16. CASE CancelChild
  <2> PICK i \in DOMAIN children :
       /\ pc = "cancel"
       /\ \/ CancelAccepted(i) \/ CancelIgnored(i) \/ CancelTimesOut(i)
          \/ CancelBanned(i) \/ CancelRefused(i) \/ CancelAborted(i)
          \/ CancelRateLimited(i)
    BY <1>16 DEF CancelChild
  <2>1. ASSUME CancelCounted(i) PROVE ControlTypes' /\ ReadingSound'
    BY <1>1, <1>3, <1>7, <2>1 DEF CancelCounted
  <2>2. CASE CancelAccepted(i) \/ CancelIgnored(i) \/ CancelTimesOut(i) \/ CancelRateLimited(i)
    BY <1>6, <2>1, <2>2
       DEF CancelAccepted, CancelIgnored, CancelAnswered, CancelTimesOut, CancelRateLimited
  <2>3. CASE CancelBanned(i)
    <3>1. CASE TakesBack(i) /\ cont = "repriced"
      BY <1>1, <1>4, <2>3, <3>1 DEF CancelBanned
    <3>2. CASE ~(TakesBack(i) /\ cont = "repriced")
      BY <1>6, <2>3, <3>2 DEF CancelBanned
    <3> QED
      BY <3>1, <3>2
  <2>4. CASE CancelRefused(i)
    BY <1>6, <1>10, <2>4 DEF CancelRefused
  <2>5. CASE CancelAborted(i)
    BY <1>6, <2>5 DEF CancelAborted
  <2> QED
    BY <2>2, <2>3, <2>4, <2>5
<1>17. CASE CancelHeldBack
  BY <1>8, <1>9, <1>17 DEF CancelHeldBack
<1>18. CASE CancelFinished
  BY <1>1, <1>3, <1>4, <1>5, <1>18 DEF CancelFinished
<1>19. CASE Settle \/ UnknownRemains \/ TargetReached \/ Closing
  BY <1>6, <1>19 DEF Settle, UnknownRemains, TargetReached, Closing
<1>20. CASE StreamDegraded \/ StaleRefreshed
  BY <1>3, <1>4, <1>6, <1>20 DEF StreamDegraded, StaleRefreshed
<1>21. ASSUME CancelTimedOut PROVE ControlTypes' /\ ReadingSound'
  BY <1>3, <1>4, <1>5, <1>21 DEF CancelTimedOut
<1>22. CASE Observed
  BY <1>3, <1>4, <1>6, <1>21, <1>22 DEF Observed
<1>23. CASE PassiveCancelled \/ TimedOutCancelled
  BY <1>3, <1>5, <1>6, <1>21, <1>23 DEF PassiveCancelled, TimedOutCancelled
<1>24. CASE WaitOrReprice \/ RulesRaise \/ NothingPlaced
  BY <1>3, <1>4, <1>6, <1>24 DEF WaitOrReprice, RulesRaise, NothingPlaced
<1>25. CASE Submit \/ Start
  BY <1>6, <1>25 DEF Submit, Start
<1>26. CASE RunOnce
  BY <1>3, <1>4, <1>8, <1>26 DEF RunOnce
<1>27. CASE CancelExecution \/ ReconcileExecution
  BY <1>3, <1>4, <1>8, <1>27 DEF CancelExecution, ReconcileExecution
<1>28. CASE UserEvent
  BY <1>8, <1>28 DEF UserEvent
<1>29. CASE VenueMoves
  <2>1. UNCHANGED <<children, confirmed, buckets, required, pc, cur, cont, answer>>
    BY <1>29 DEF VenueMoves, engineVars, ledgerVars, parentVars, controlVars
  <2>2. \A j \in 1 .. Last : \A s : AnswerSound(s, orders[j]) => AnswerSound(s, orders'[j])
    <3>1. CASE \E i \in DOMAIN orders : Arrive(i) \/ Fill(i) \/ Expire(i)
      <4>1. required \in Nat
        BY EngineAssumption DEF IInv, TypeOK, ParentTypes, EngineAssumption
      <4> QED
        BY <1>1, <2>1, <3>1, <4>1, ArriveStep
    <3>2. CASE Ban \/ Lift
      BY <3>2 DEF Ban, Lift
    <3> QED
      BY <1>29, <3>1, <3>2 DEF VenueMoves
  <2>3. Last' = Last
    BY <2>1 DEF Last
  <2> QED
    BY <1>1, <2>1, <2>2, <2>3 DEF ControlTypes, ReadingSound
<1>30. CASE Tick \/ BackoffElapses \/ UNCHANGED vars
  <2>1. UNCHANGED <<children, orders, pc, cur, cont, answer>>
    BY <1>30 DEF Tick, BackoffElapses, vars, engineVars, ledgerVars, controlVars,
       venueVars
  <2>2. Last' = Last
    BY <2>1 DEF Last
  <2> QED
    BY <1>1, <2>1, <2>2 DEF ControlTypes, ReadingSound
<1> QED
  BY <1>11, <1>12, <1>13, <1>14, <1>15, <1>16, <1>17, <1>18, <1>19, <1>20, <1>22,
     <1>23, <1>24, <1>25, <1>26, <1>27, <1>28, <1>29, <1>30
     DEF Next, Operation, Environment

(***************************************************************************)
(* The status of the parent and the operation under way.                   *)
(***************************************************************************)
\* The steps that may end an execution with a result.
Ending ==
  \/ Settle \/ TargetReached \/ Observed \/ TimedOutCancelled \/ Closing
  \/ NothingPlaced \/ Submit \/ UserEvent

\* Whatever ends an execution makes a legal move.
LEMMA EndingLegal ==
  /\ Completed # status =>
       status \in Active /\ Completed = "COMPLETED" /\ Completed \in ExecutionTransitions[status]
  /\ Failed # status =>
       status \in Active /\ Failed = "FAILED" /\ Failed \in ExecutionTransitions[status]
  /\ \A s \in {Expired, AtDeadline} :
       s # status => /\ status = "RUNNING" /\ s = Unfinished("EXPIRED")
                     /\ s \in ExecutionTransitions[status]
  /\ status = "CANCELLING" => Unfinished("CANCELLED") \in ExecutionTransitions[status]
BY DEF Completed, Failed, Expired, AtDeadline, Unfinished, Active,
   ExecutionTransitions, ExecutionStatus

\* The moves the status makes.
LEMMA StatusMoves ==
  ASSUME TypeOK, StatusSound, [Next]_vars
  PROVE  \/ status' = status
         \/ pc = "create" /\ status' \in {"RUNNING", "COMPLETED"} /\ Start
         \/ status \in Active /\ status' = "FAILED"
         \/ status = "RUNNING" /\ status' = "CANCELLING"
         \/ Ending /\ status \in Active /\ status' \in ExecutionTransitions[status]
<1>1. CASE Start
  BY <1>1 DEF Start, EndAs
<1>2. CASE CancelExecution
  <2>1. status \in ExecutionStatus
    BY DEF TypeOK, ParentTypes
  <2>2. status \in Active
    BY <1>2, <2>1 DEF CancelExecution, StatusSound, Terminal, TerminalExecution,
       ExecutionStatus, Active
  <2> QED
    BY <1>2, <2>2 DEF CancelExecution, Active
<1>3. CASE Lookup \/ ReconcileFails \/ CancelChild
  BY <1>3, EndingLegal
     DEF Lookup, LookupFound, LookupMissing, LookupBanned, LookupRateLimited,
     CallRaises, ReconcileFails, CancelChild, CancelAccepted, CancelIgnored,
     CancelTimesOut, CancelBanned, CancelRefused, CancelAborted, CancelRateLimited,
     EndAs, RateLimited, Note, parentVars
<1>4. CASE Settle
  BY <1>4, EndingLegal DEF Settle, Ending, EndAs, Active
<1>5. CASE TargetReached
  BY <1>5, EndingLegal DEF TargetReached, Ending, EndAs
<1>6. CASE Observed \/ TimedOutCancelled \/ Closing \/ NothingPlaced
  BY <1>6, EndingLegal DEF Observed, TimedOutCancelled, Closing, NothingPlaced,
     Ending, EndAs, Note, Active
<1>7. CASE Submit
  BY <1>7, EndingLegal
     DEF Submit, SubmitAccepted, SubmitTimesOut, SubmitRejected, SubmitBanned,
     SubmitFails, SubmitAborted, RateLimited, Ending, EndAs, Note, Active
<1>8. CASE UserEvent
  <2>1. status' = EventStatus(confirmed', buckets')
    BY <1>8 DEF UserEvent
  <2>2. \/ EventStatus(confirmed', buckets') = status
        \/ status \in Active /\ EventStatus(confirmed', buckets') = "COMPLETED"
        \/ status = "CANCELLING" /\
           EventStatus(confirmed', buckets') \in {"PARTIALLY_COMPLETED", "CANCELLED"}
    BY DEF EventStatus, Active
  <2> QED
    BY <1>8, <2>1, <2>2 DEF Ending, Active, ExecutionTransitions, ExecutionStatus
<1>9. CASE \/ FinishRefresh \/ ReadOrders \/ ReadTrades \/ CancelHeldBack
           \/ CancelFinished \/ UnknownRemains \/ StreamDegraded \/ PassiveCancelled
           \/ StaleRefreshed \/ WaitOrReprice \/ RulesRaise
  BY <1>9 DEF FinishRefresh, ReadOrders, ReadTrades, CancelHeldBack, CancelFinished,
     UnknownRemains, StreamDegraded, PassiveCancelled, StaleRefreshed,
     WaitOrReprice, RulesRaise, BackoffBlocks, BackoffOver, Note, parentVars
<1>10. CASE \/ RunOnce \/ ReconcileExecution \/ Tick \/ BackoffElapses \/ VenueMoves
            \/ UNCHANGED vars
  BY <1>10 DEF RunOnce, ReconcileExecution, Tick, BackoffElapses, VenueMoves, vars,
     engineVars, parentVars
<1> QED
  BY <1>1, <1>2, <1>3, <1>4, <1>5, <1>6, <1>7, <1>8, <1>9, <1>10
     DEF Next, Operation, Environment

\* A terminal status is final.
LEMMA TerminalStays ==
  ASSUME TypeOK, StatusSound, [Next]_vars, Terminal
  PROVE  status' = status
BY StatusMoves DEF Terminal, TerminalExecution, Active, StatusSound

\* Submit is a step of a RUNNING execution, or of the operation that failed it.
LEMMA SubmitRuns ==
  ASSUME HeadingSound, Submit
  PROVE  status = "RUNNING" \/ Stopped
BY DEF HeadingSound, Heading, RunLabels, Submit, AtDemand

\* Only Start leaves pc = "create", and nothing comes back to it.
LEMMA CreateOnce ==
  ASSUME TypeOK, [Next]_vars, pc' = "create"
  PROVE  pc = "create" /\ UNCHANGED status
<1> USE DEF Loop, Goto, Enter, Passed, SkipRest
<1>1. cont # "create" /\ cont \in Decisions
  BY DEF TypeOK, ControlTypes, Decisions
<1>2. CASE Lookup \/ ReconcileFails \/ CancelChild
  BY <1>1, <1>2
     DEF Lookup, LookupFound, LookupMissing, LookupBanned, LookupRateLimited,
     CallRaises, ReconcileFails, CancelChild, CancelAccepted, CancelIgnored,
     CancelTimesOut, CancelBanned, CancelRefused, CancelAborted, CancelRateLimited,
     CancelCounted, CancelAnswered
<1>3. CASE \/ FinishRefresh \/ ReadOrders \/ ReadTrades \/ CancelHeldBack
           \/ CancelFinished
  BY <1>1, <1>3 DEF FinishRefresh, ReadOrders, ReadTrades, CancelHeldBack,
     CancelFinished, controlVars
<1>4. CASE \/ Settle \/ UnknownRemains \/ TargetReached \/ StreamDegraded \/ Observed
           \/ PassiveCancelled \/ TimedOutCancelled \/ Closing
  BY <1>4 DEF Settle, UnknownRemains, TargetReached, StreamDegraded, Observed,
     PassiveCancelled, TimedOutCancelled, Closing, CancelTimedOut
<1>5. CASE \/ StaleRefreshed \/ WaitOrReprice \/ RulesRaise \/ NothingPlaced \/ Submit
           \/ Start
  BY <1>5 DEF StaleRefreshed, WaitOrReprice, RulesRaise, NothingPlaced, Submit, Start
<1>6. CASE RunOnce \/ CancelExecution \/ ReconcileExecution \/ UserEvent
  BY <1>6 DEF RunOnce, CancelExecution, ReconcileExecution, UserEvent, controlVars
<1>7. CASE Tick \/ BackoffElapses \/ VenueMoves \/ UNCHANGED vars
  BY <1>7 DEF Tick, BackoffElapses, VenueMoves, vars, engineVars, controlVars,
     parentVars
<1> QED
  BY <1>2, <1>3, <1>4, <1>5, <1>6, <1>7 DEF Next, Operation, Environment

\* The target never changes.
LEMMA RequiredFixed ==
  ASSUME [Next]_vars
  PROVE  UNCHANGED required
BY DEF Next, Operation, Environment, vars, parentVars, engineVars, Quiet, Decision,
   Start, RunOnce, CancelExecution, ReconcileExecution, UserEvent,
   Lookup, LookupFound, LookupMissing, LookupBanned, LookupRateLimited, CallRaises,
   FinishRefresh, ReadOrders, ReadTrades, ReconcileFails,
   CancelChild, CancelAccepted, CancelIgnored, CancelTimesOut, CancelBanned,
   CancelRefused, CancelAborted, CancelRateLimited, CancelHeldBack, CancelFinished,
   Settle, UnknownRemains, TargetReached, StreamDegraded, Observed,
   PassiveCancelled, TimedOutCancelled, Closing, StaleRefreshed, WaitOrReprice,
   RulesRaise, NothingPlaced, Submit, Tick, BackoffElapses, VenueMoves

\* A new execution is only started, or waits.
LEMMA CreatedStarts ==
  ASSUME TypeOK, [Next]_vars, pc = "create", pc' # "create"
  PROVE  Start
<1>1. pc # "idle" /\ pc \notin Calls /\ pc \notin Decisions
  BY DEF Calls, Decisions
<1> QED
  BY <1>1 DEF Next, Operation, Environment, vars, engineVars, controlVars, Calls, Decisions,
   RunOnce, CancelExecution, ReconcileExecution, UserEvent,
   Lookup, FinishRefresh, ReadOrders, ReadTrades, ReconcileFails,
   CancelChild, CancelHeldBack, CancelFinished,
   Settle, UnknownRemains, TargetReached, StreamDegraded, Observed,
   PassiveCancelled, TimedOutCancelled, Closing, StaleRefreshed, WaitOrReprice,
   RulesRaise, NothingPlaced, Submit, AtDemand, Tick, BackoffElapses, VenueMoves

\* Every step keeps the status sound.
LEMMA StatusStep ==
  ASSUME IInv, LookupSettles = TRUE, [Next]_vars
  PROVE  StatusSound'
<1>1. TypeOK /\ StatusSound /\ HeadingSound
  BY DEF IInv
<1>2. /\ LedgerTypes' /\ (Last' = Last \/ (Submit /\ Last' = Last + 1))
      /\ required' = required
  <2>1. required' = required
    BY RequiredFixed
  <2> QED
    BY <2>1, LedgerStep
<1>3. status' \in ExecutionStatus /\ status \in ExecutionStatus
  BY <1>1, ParentStep DEF TypeOK, ParentTypes
<1>4. status' # "VALIDATING"
  BY <1>1, StatusMoves DEF StatusSound, ExecutionTransitions, ExecutionStatus, Active
<1>5. CASE pc' = "create"
  <2>1. pc = "create" /\ status' = status
    BY <1>1, <1>5, CreateOnce
  <2>2. status = "CREATED" /\ Last = 0
    BY <1>1, <2>1 DEF StatusSound
  <2>3. ~Submit
    BY <2>1 DEF Submit, AtDemand
  <2> QED
    BY <1>2, <1>4, <1>5, <2>1, <2>2, <2>3 DEF StatusSound
<1>6. CASE pc' # "create" /\ pc = "create"
  <2>1. Start
    BY <1>1, <1>6, CreatedStarts
  <2>2. \/ required > 0 /\ status' = "RUNNING"
        \/ status' = "COMPLETED"
    BY <2>1 DEF Start, EndAs
  <2>3. children' = <<>>
    <3>1. Last = 0 /\ children' = children
      BY <1>1, <1>6, <2>1 DEF StatusSound, Start, Quiet, ledgerVars
    <3> QED
      BY <1>1, <3>1, EmptySeq DEF TypeOK, LedgerTypes, Last
  <2> QED
    BY <1>2, <1>4, <1>6, <2>2, <2>3 DEF StatusSound, Tracked
<1>7. CASE pc' # "create" /\ pc # "create"
  <2>1. status # "CREATED" /\ (Tracked => required > 0)
    BY <1>1, <1>7 DEF StatusSound
  <2>2. status' # "CREATED"
    BY <1>1, <1>7, <2>1, StatusMoves DEF ExecutionTransitions, ExecutionStatus, Active
  <2>3. CASE Tracked
    BY <1>2, <1>4, <1>7, <2>1, <2>2, <2>3 DEF StatusSound
  <2>4. CASE ~Tracked
    <3>1. status = "COMPLETED" /\ children = <<>>
      BY <2>4 DEF Tracked
    <3>2. status' = "COMPLETED"
      BY <1>1, <3>1, TerminalStays DEF Terminal, TerminalExecution
    <3>3. Last = 0 /\ ~Submit
      BY <1>1, <3>1, EmptySeq, SubmitRuns DEF Last, Stopped
    <3>4. children' = <<>>
      BY <1>2, <3>3, EmptySeq DEF LedgerTypes, Last
    <3> QED
      BY <1>4, <1>7, <2>2, <3>2, <3>4 DEF StatusSound, Tracked
  <2> QED
    BY <2>3, <2>4
<1> QED
  BY <1>5, <1>6, <1>7

\* The status still allows what the operation under way heads for.
StillHeads ==
  /\ status = "RUNNING" \/ Stopped => (status = "RUNNING" \/ Stopped)'
  /\ status = "CANCELLING" \/ Stopped => (status = "CANCELLING" \/ Stopped)'

\* It does while the status stays, and when the execution fails.
LEMMA HeadsOn ==
  ASSUME status' \in {status, Failed}
  PROVE  StillHeads
BY DEF StillHeads, Stopped, Failed, Active

\* Steps of an operation keep HeadingSound when it stops, when a loop starts or
\* goes on, and when a decision leads to the next one.
LEMMA HeadingStops ==
  ASSUME pc' \in {"idle", "settle", "reconciled"}
  PROVE  HeadingSound'
BY DEF HeadingSound, Heading, RunLabels, Calls

LEMMA HeadingLoops ==
  ASSUME NEW l \in Calls, NEW n \in Decisions, Loop(l, n),
         n \in RunLabels => (status = "RUNNING" \/ Stopped)',
         n = "cancel_all" => (status = "CANCELLING" \/ Stopped)',
         l \in {"read_orders", "read_trades"} => n \in {"settle", "reconciled", "cancel_all"}
  PROVE  HeadingSound'
BY DEF HeadingSound, Heading, RunLabels, Calls, Loop

LEMMA HeadingGoes ==
  ASSUME HeadingSound, StillHeads, cont \in Decisions,
         \/ pc' = pc /\ cont' = cont
         \/ pc' = pc /\ pc = "cancel" /\ {cont, cont'} \subseteq RunLabels
         \/ pc \in Calls /\ Enter(cont)
         \/ pc \in Calls /\ pc' \in {"refresh", "exact"} /\ cont' = cont
         \/ pc = "read_orders" /\ pc' = "read_trades" /\ cont' = cont
  PROVE  HeadingSound'
<1>1. CASE pc \in Calls /\ Enter(cont)
  <2>1. CASE cont \in RunLabels
    BY <1>1, <2>1 DEF HeadingSound, StillHeads, Heading, RunLabels, Calls, Enter, Goto, Loop
  <2>2. CASE cont \notin RunLabels
    BY <1>1, <2>2 DEF HeadingSound, Heading, RunLabels, Calls, Decisions, Enter, Goto, Loop
  <2> QED
    BY <2>1, <2>2
<1>2. CASE ~(pc \in Calls /\ Enter(cont))
  BY <1>2 DEF HeadingSound, StillHeads, Heading, RunLabels, Calls
<1> QED
  BY <1>1, <1>2

LEMMA HeadingDecides ==
  ASSUME HeadingSound, StillHeads, pc \in RunLabels,
         \/ pc' \in RunLabels
         \/ pc' \in {"cancel", "refresh"} /\ cont' \in RunLabels
  PROVE  HeadingSound'
BY DEF HeadingSound, StillHeads, Heading, RunLabels, Calls

\* Every step keeps the heading sound.
LEMMA HeadingStep ==
  ASSUME IInv, [Next]_vars
  PROVE  HeadingSound'
<1>1. TypeOK /\ StatusSound /\ HeadingSound /\ cont \in Decisions
  BY DEF IInv, TypeOK, ControlTypes
<1>2. ASSUME Goto("idle") PROVE HeadingSound'
  BY <1>2, HeadingStops DEF Goto, Loop
<1>3. ASSUME UNCHANGED <<status, pc, cont>> PROVE HeadingSound'
  BY <1>1, <1>3, HeadsOn, HeadingGoes
<1>4. ASSUME pc \in Calls, Enter(cont), status' \in {status, Failed}
      PROVE  HeadingSound'
  BY <1>1, <1>4, HeadsOn, HeadingGoes
<1>5. ASSUME pc \in RunLabels, UNCHANGED status,
             \/ \E l \in RunLabels : Goto(l)
             \/ \E l \in {"cancel", "refresh"}, n \in RunLabels : Loop(l, n)
      PROVE  HeadingSound'
  BY <1>1, <1>5, HeadsOn, HeadingDecides DEF Goto, Loop
<1>6. CASE Lookup
  <2> PICK i \in DOMAIN children :
       /\ pc \in {"refresh", "exact"}
       /\ \/ LookupFound(i) \/ LookupMissing(i) \/ LookupBanned(i)
          \/ LookupRateLimited(i) \/ CallRaises
    BY <1>6 DEF Lookup
  <2>1. CASE LookupFound(i) \/ LookupMissing(i) \/ LookupRateLimited(i)
    BY <1>3, <2>1 DEF LookupFound, LookupMissing, LookupRateLimited, Passed, SkipRest,
       RateLimited, Note, venueVars, parentVars
  <2>2. CASE LookupBanned(i)
    <3>1. status' = Failed
      BY <2>2 DEF LookupBanned, EndAs
    <3>2. CASE SkipRest
      BY <1>1, <3>1, <3>2, HeadsOn, HeadingGoes DEF SkipRest, Passed
    <3>3. CASE Enter(cont)
      BY <1>4, <3>1, <3>3 DEF Calls
    <3> QED
      BY <1>2, <2>2, <3>2, <3>3 DEF LookupBanned
  <2>3. CASE CallRaises
    BY <1>2, <2>3 DEF CallRaises
  <2> QED
    BY <2>1, <2>2, <2>3
<1>7. CASE FinishRefresh
  BY <1>2, <1>4, <1>7 DEF FinishRefresh, venueVars, Calls
<1>8. CASE ReadOrders
  BY <1>1, <1>8, HeadsOn, HeadingGoes DEF ReadOrders, venueVars, parentVars
<1>9. CASE ReadTrades
  BY <1>1, <1>9, HeadsOn, HeadingGoes DEF ReadTrades, venueVars, parentVars, Loop, Calls
<1>10. CASE ReconcileFails
  <2>1. CASE CallRaises
    BY <1>2, <2>1 DEF CallRaises
  <2>2. CASE Goto("idle")
    BY <1>2, <2>2
  <2>3. CASE ~CallRaises /\ ~Goto("idle")
    <3>1. pc \in Calls /\ Enter(cont)
      BY <1>10, <2>3 DEF ReconcileFails, Calls
    <3>2. status' \in {status, Failed}
      BY <1>10, <2>3 DEF ReconcileFails, EndAs, RateLimited, Note
    <3> QED
      BY <1>4, <3>1, <3>2
  <2> QED
    BY <2>1, <2>2, <2>3
<1>11. CASE CancelChild
  <2> PICK i \in DOMAIN children :
       /\ pc = "cancel"
       /\ \/ CancelAccepted(i) \/ CancelIgnored(i) \/ CancelTimesOut(i)
          \/ CancelBanned(i) \/ CancelRefused(i) \/ CancelAborted(i)
          \/ CancelRateLimited(i)
    BY <1>11 DEF CancelChild
  <2>1. ASSUME CancelCounted(i), UNCHANGED status PROVE HeadingSound'
    <3>1. pc' = pc /\ (cont' = cont \/ {cont, cont'} \subseteq RunLabels)
      BY <2>1 DEF CancelCounted, RunLabels
    <3>2. StillHeads
      BY <2>1, HeadsOn
    <3> QED
      BY <1>1, <3>1, <3>2, HeadingGoes
  <2>2. CASE CancelAccepted(i) \/ CancelIgnored(i) \/ CancelTimesOut(i)
    BY <1>2, <2>1, <2>2
       DEF CancelAccepted, CancelIgnored, CancelAnswered, CancelTimesOut, parentVars
  <2>3. CASE CancelRateLimited(i)
    BY <1>2, <2>1, <2>3 DEF CancelRateLimited, RateLimited, Note
  <2>4. CASE CancelBanned(i)
    <3>1. CASE TakesBack(i) /\ cont = "repriced"
      <4>1. status' = Failed /\ pc' = "refresh" /\ cont' = cont
        BY <2>4, <3>1 DEF CancelBanned, EndAs, Loop
      <4> QED
        BY <1>1, <4>1, HeadsOn, HeadingGoes DEF Calls
    <3>2. CASE ~(TakesBack(i) /\ cont = "repriced")
      BY <1>2, <2>4, <3>2 DEF CancelBanned
    <3> QED
      BY <3>1, <3>2
  <2>5. CASE CancelRefused(i)
    BY <1>2, <1>3, <2>5 DEF CancelRefused, Passed, venueVars, parentVars
  <2>6. CASE CancelAborted(i)
    BY <1>2, <2>6 DEF CancelAborted
  <2> QED
    BY <2>2, <2>3, <2>4, <2>5, <2>6
<1>12. CASE CancelHeldBack
  BY <1>3, <1>12 DEF CancelHeldBack, SkipRest, Passed, BackoffBlocks, controlVars, venueVars
<1>13. CASE CancelFinished
  <2>1. UNCHANGED status /\ pc = "cancel" /\ pc \in Calls
    BY <1>13 DEF CancelFinished, parentVars, Calls
  <2>2. CASE Goto("active") /\ cont = "active"
    <3>1. Enter(cont)
      BY <2>2 DEF Enter
    <3> QED
      BY <1>4, <2>1, <3>1
  <2>3. CASE Goto("idle")
    BY <1>2, <2>3
  <2>4. CASE Loop("read_orders", "settle")
    BY <2>4, HeadingLoops DEF Calls, Decisions, RunLabels
  <2>5. CASE Loop("refresh", cont)
    BY <1>1, <2>1, <2>5, HeadsOn, HeadingGoes DEF Loop
  <2> QED
    BY <1>13, <2>2, <2>3, <2>4, <2>5 DEF CancelFinished
<1>14. CASE Settle \/ UnknownRemains \/ TargetReached \/ Closing
  BY <1>2, <1>14 DEF Settle, UnknownRemains, TargetReached, Closing
<1>15. ASSUME NEW l, l \in RunLabels, pc = l, Decision, Note(reason) \/ Note("info"),
              \/ \E n \in RunLabels : Goto(n)
              \/ \E m \in {"cancel", "refresh"}, n \in RunLabels : Loop(m, n)
       PROVE  HeadingSound'
  BY <1>5, <1>15 DEF Decision, Note, venueVars
<1>16. {"observed", "passive", "timedout", "active", "repriced", "stale", "closing"}
         \subseteq RunLabels
  BY DEF RunLabels
<1>17. CASE StreamDegraded \/ StaleRefreshed
  BY <1>2, <1>15, <1>16, <1>17 DEF StreamDegraded, StaleRefreshed
<1>18. CASE Observed
  BY <1>2, <1>15, <1>16, <1>18 DEF Observed, CancelTimedOut
<1>19. CASE PassiveCancelled \/ TimedOutCancelled
  BY <1>2, <1>15, <1>16, <1>19 DEF PassiveCancelled, TimedOutCancelled, CancelTimedOut
<1>20. CASE WaitOrReprice \/ RulesRaise
  BY <1>2, <1>15, <1>16, <1>20 DEF WaitOrReprice, RulesRaise
<1>21. CASE NothingPlaced
  BY <1>2, <1>15, <1>16, <1>21 DEF NothingPlaced, AtDemand
<1>22. CASE Submit \/ Start
  BY <1>2, <1>22 DEF Submit, Start
<1>23. ASSUME pc = "idle", UNCHANGED controlVars PROVE HeadingSound'
  BY <1>23, HeadingStops DEF controlVars
<1>24. CASE RunOnce
  <2>1. CASE UNCHANGED controlVars
    BY <1>23, <1>24, <2>1 DEF RunOnce
  <2>2. CASE \E n \in {"settle", "unknown", "observed"} :
               Loop("refresh", n) /\ (n = "settle" <=> status = "CANCELLING")
    <3> PICK n \in {"settle", "unknown", "observed"} :
               Loop("refresh", n) /\ (n = "settle" <=> status = "CANCELLING")
      BY <2>2
    <3>1. status = "RUNNING" \/ status = "CANCELLING"
      <4>1. status \in ExecutionStatus /\ pc = "idle" /\ ~Terminal
        BY <1>1, <1>24 DEF TypeOK, ParentTypes, RunOnce
      <4> QED
        BY <1>1, <4>1 DEF StatusSound, Terminal, TerminalExecution, ExecutionStatus
    <3>2. status' = status
      BY <1>24 DEF RunOnce
    <3>3. n \in RunLabels => n # "settle"
      BY DEF RunLabels
    <3> QED
      BY <3>1, <3>2, <3>3, HeadingLoops DEF Calls, Decisions
  <2> QED
    BY <1>24, <2>1, <2>2 DEF RunOnce
<1>25. CASE CancelExecution
  <2>1. CASE UNCHANGED controlVars
    BY <1>23, <1>25, <2>1 DEF CancelExecution
  <2>2. CASE Loop("read_orders", "cancel_all")
    <3>1. (status = "CANCELLING" \/ Stopped)'
      BY <1>25 DEF CancelExecution
    <3> QED
      BY <2>2, <3>1, HeadingLoops DEF Calls, Decisions, RunLabels
  <2> QED
    BY <1>25, <2>1, <2>2 DEF CancelExecution
<1>26. CASE ReconcileExecution
  <2>1. CASE UNCHANGED controlVars
    BY <1>23, <1>26, <2>1 DEF ReconcileExecution
  <2>2. CASE Loop("read_orders", "reconciled")
    BY <2>2, HeadingLoops DEF Calls, Decisions, RunLabels
  <2> QED
    BY <1>26, <2>1, <2>2 DEF ReconcileExecution
<1>27. CASE UserEvent
  BY <1>23, <1>27 DEF UserEvent
<1>28. CASE Tick \/ BackoffElapses \/ UNCHANGED vars
  BY <1>3, <1>28 DEF Tick, BackoffElapses, vars, engineVars, venueVars, parentVars, controlVars
<1>29. CASE VenueMoves
  BY <1>3, <1>29 DEF VenueMoves, engineVars, parentVars, controlVars
<1> QED
  BY <1>6, <1>7, <1>8, <1>9, <1>10, <1>11, <1>12, <1>13, <1>14, <1>17, <1>18, <1>19,
     <1>20, <1>21, <1>22, <1>24, <1>25, <1>26, <1>27, <1>28, <1>29
     DEF Next, Operation, Environment

(***************************************************************************)
(* The buckets where the engine places or cancels.                         *)
(***************************************************************************)
\* Where the buckets matter.
AtBuckets == pc \in RunLabels \cup {"cancel"} /\ ~OnlyPasses

\* A step that leaves the ledger and the status alone keeps BucketsSound when
\* they mattered before, as one does that fails on a ban below the target.
LEMMA BucketsKept ==
  ASSUME BucketsSound, UNCHANGED <<children, confirmed, buckets, required>>,
         AtBuckets, UNCHANGED status
  PROVE  BucketsSound'
BY DEF BucketsSound, AtBuckets, Stopped, OverTarget

LEMMA BucketsBanned ==
  ASSUME HeadingSound, pc \in Calls, cont \in Decisions, Enter(cont),
         UNCHANGED <<confirmed, buckets, required>>,
         status' = Failed, ~OverTarget
  PROVE  BucketsSound'
<1>1. CASE cont \in RunLabels \cup {"cancel_all"}
  <2>1. status \in {"RUNNING", "CANCELLING"} \/ Stopped
    BY <1>1 DEF HeadingSound, Heading
  <2>2. Stopped'
    BY <2>1 DEF Stopped, Failed, Active
  <2> QED
    BY <2>2 DEF BucketsSound, OverTarget
<1>2. CASE cont \notin RunLabels \cup {"cancel_all"}
  <2>1. pc' = cont /\ cont # "cancel"
    BY <1>2 DEF Enter, Goto, Loop, Decisions
  <2> QED
    BY <1>2, <2>1 DEF BucketsSound
<1> QED
  BY <1>1, <1>2

\* One request of a cancel loop.
LEMMA BucketsCancel ==
  ASSUME IInv, CancelChild
  PROVE  BucketsSound'
<1>1. /\ LedgerTypes /\ LedgerSound /\ required \in Nat
      /\ orders \in Seq(Order) /\ DOMAIN children = 1 .. Last
  <2>1. LedgerTypes /\ LedgerSound /\ required \in Nat
    BY EngineAssumption DEF IInv, TypeOK, ParentTypes, EngineAssumption
  <2> QED
    BY <2>1, LenProperties DEF LedgerTypes, Last
<1> PICK i \in DOMAIN children :
     /\ pc = "cancel" /\ IsNext(i) /\ backoff = "none"
     /\ \/ CancelAccepted(i) \/ CancelIgnored(i) \/ CancelTimesOut(i)
        \/ CancelBanned(i) \/ CancelRefused(i) \/ CancelAborted(i)
        \/ CancelRateLimited(i)
  BY DEF CancelChild
<1>2. i \in 1 .. Last /\ Cancellable(i)
  BY <1>1 DEF IsNext, LoopTargets
<1>3. OrderSound(orders[i]) /\ orders[i] \in Order /\ orders = [orders EXCEPT ![i] = orders[i]]
  BY <1>1, <1>2, LedgerElements DEF LedgerSound, LedgerTypes
<1>8. Remaining(i) \in Nat /\ buckets \in Buckets
  BY <1>1, <1>2, LedgerElements DEF Cancellable, Remaining, LedgerTypes
<1>5. ASSUME CancelAccepted(i) \/ CancelIgnored(i)
      PROVE  \E o \in Order :
               /\ orders' = [orders EXCEPT ![i] = o] /\ OnVenue(o) /\ OrderSound(o)
               /\ o.qty = orders[i].qty /\ o.filled = orders[i].filled
  <2>1. CASE CancelAccepted(i) /\ orders[i].state = "open"
    <3> DEFINE o == [orders[i] EXCEPT !.state = "cancelled"]
    <3>1. /\ o \in Order /\ OrderSound(o) /\ o.qty = orders[i].qty
          /\ o.filled = orders[i].filled /\ OnVenue(o)
      BY <1>3, <2>1, ClosedFacts DEF OnVenue
    <3>2. orders' = [orders EXCEPT ![i] = o]
      BY <2>1 DEF CancelAccepted
    <3> HIDE DEF o
    <3> QED
      BY <3>1, <3>2
  <2>2. CASE ~(CancelAccepted(i) /\ orders[i].state = "open")
    <3>1. orders' = orders /\ OnVenue(orders[i])
      BY <1>5, <2>2 DEF CancelAccepted, CancelIgnored, venueVars, OnVenue
    <3> QED
      BY <1>3, <3>1
  <2> QED
    BY <2>1, <2>2
<1>6. ASSUME CancelAccepted(i) \/ CancelIgnored(i), ~OverTarget
      PROVE  /\ confirmed' \in Nat /\ buckets' \in Buckets
             /\ AnswerCounts(i) \/ Goto("idle")
  <2> PICK o \in Order :
        /\ orders' = [orders EXCEPT ![i] = o] /\ OnVenue(o) /\ OrderSound(o)
        /\ o.qty = orders[i].qty /\ o.filled = orders[i].filled
    BY <1>5, <1>6
  <2>1. CancelAnswered(i) /\ UNCHANGED <<position, required>>
    BY <1>6 DEF CancelAccepted, CancelIgnored, parentVars, venueVars
  <2>2. LedgerTypes' /\ (AnswerCounts(i) \/ Goto("idle"))
    BY <1>1, <1>2, <1>6, <2>1, CancelAnsweredStep
  <2> QED
    BY <2>2 DEF LedgerTypes
<1>4. CASE buckets = BucketsOf(children)
  <2>1. ~OverTarget
    BY <1>1, <1>2, <1>4, CancelExact
  <2>2. ASSUME buckets' = BucketsOf(children') PROVE BucketsSound'
    BY <2>2 DEF BucketsSound
  <2>3. ASSUME Goto("idle") PROVE BucketsSound'
    BY <2>3 DEF Goto, Loop, BucketsSound, RunLabels
  <2>4. CASE CancelAccepted(i) \/ CancelIgnored(i)
    <3>1. CASE AnswerCounts(i)
      <4> PICK o \in Order :
            /\ orders' = [orders EXCEPT ![i] = o] /\ OnVenue(o) /\ OrderSound(o)
            /\ o.qty = orders[i].qty /\ o.filled = orders[i].filled
        BY <1>5, <2>4
      <4>1. CancelAnswered(i) /\ UNCHANGED <<position, required>>
        BY <2>4 DEF CancelAccepted, CancelIgnored, parentVars, venueVars
      <4> QED
        BY <1>1, <1>2, <1>4, <2>2, <3>1, <4>1, CancelAnsweredExact
    <3>2. CASE ~AnswerCounts(i)
      BY <1>6, <2>1, <2>3, <2>4, <3>2
    <3> QED
      BY <3>1, <3>2
  <2>5. CASE CancelTimesOut(i)
    BY <1>1, <1>2, <1>4, <2>2, <2>5, CancelRequestedExact
       DEF CancelTimesOut, parentVars, venueVars
  <2>6. CASE CancelRefused(i) \/ CancelRateLimited(i) \/ CancelBanned(i)
    <3>1. UNCHANGED <<buckets, children>>
      BY <1>1, <1>2, <1>4, <2>6, CancelUndoneExact
         DEF CancelRefused, CancelRateLimited, CancelBanned
    <3> QED
      BY <1>4, <2>2, <3>1
  <2>7. CASE CancelAborted(i)
    BY <2>3, <2>7 DEF CancelAborted
  <2> QED
    BY <2>4, <2>5, <2>6, <2>7
<1>7. CASE Stopped /\ ~OverTarget
  <2>1. ASSUME Stopped', ~OverTarget' PROVE BucketsSound'
    BY <2>1 DEF BucketsSound
  <2>2. ASSUME pc' \notin RunLabels \cup {"cancel"} PROVE BucketsSound'
    BY <2>2 DEF BucketsSound
  <2>3. ASSUME Goto("idle") PROVE BucketsSound'
    BY <2>2, <2>3 DEF Goto, Loop, RunLabels
  <2>4. CASE CancelAccepted(i) \/ CancelIgnored(i)
    <3>1. CASE AnswerCounts(i)
      <4>1. UNCHANGED <<required, status>>
        BY <2>4 DEF CancelAccepted, CancelIgnored, parentVars
      <4>2. Stopped' /\ ~OverTarget'
        <5>1. confirmed' \in Int /\ Reserved(buckets') \in Int /\ required \in Int
          BY <1>1, <1>6, <1>7, <2>4, ReservedType DEF LedgerTypes
        <5>2. confirmed' + Reserved(buckets') <= required
          BY <3>1 DEF AnswerCounts
        <5> QED
          BY <1>7, <4>1, <5>1, <5>2 DEF OverTarget, Stopped
      <4> QED
        BY <2>1, <4>2
    <3>2. CASE ~AnswerCounts(i)
      BY <1>6, <1>7, <2>3, <2>4, <3>2
    <3> QED
      BY <3>1, <3>2
  <2>5. CASE CancelTimesOut(i)
    <3>1. /\ UNCHANGED <<required, status, confirmed>>
          /\ buckets' = MarkPendingCancel(buckets, Remaining(i))
      BY <2>5 DEF CancelTimesOut, CancelRequested, parentVars
    <3>2. Reserved(buckets') = Reserved(buckets)
      BY <1>8, <3>1, MarkPendingCancelKeeps
    <3> QED
      BY <1>7, <2>1, <3>1, <3>2 DEF Stopped, OverTarget
  <2>6. CASE CancelRefused(i) \/ CancelRateLimited(i)
    <3>1. CASE TakesBack(i)
      <4>1. /\ UNCHANGED <<required, status, confirmed>>
            /\ buckets' = ReserveLiveOpen(Freed(i), Remaining(i))
        BY <2>6, <3>1
           DEF CancelRefused, CancelRateLimited, CancelUndone, RateLimited, Note, parentVars
      <4>2. Freed(i) \in Buckets
        BY <1>8, MarkPendingCancelKeeps, ReserveAdds DEF Freed
      <4>3. Reserved(buckets') = Reserved(Freed(i)) + Remaining(i)
        BY <1>8, <4>1, <4>2, ReserveAdds
      <4>4. confirmed + Reserved(Freed(i)) + Remaining(i) <= required
        BY <3>1 DEF TakesBack
      <4>5. confirmed + Reserved(buckets') <= required
        <5>1. confirmed \in Nat /\ Reserved(Freed(i)) \in Nat /\ Remaining(i) \in Nat
          BY <1>1, <1>8, <4>2, ReservedType DEF LedgerTypes
        <5> QED
          BY <4>3, <4>4, <5>1
      <4>6. confirmed \in Nat /\ Reserved(buckets') \in Nat /\ required \in Nat
        BY <1>1, <1>8, <4>2, <4>3, ReservedType DEF LedgerTypes
      <4>7. ~(confirmed' + Reserved(buckets') > required')
        BY <4>1, <4>5, <4>6
      <4> QED
        BY <1>7, <2>1, <4>1, <4>7 DEF Stopped, OverTarget
    <3>2. CASE ~TakesBack(i)
      BY <2>3, <2>6, <3>2 DEF CancelRefused, CancelRateLimited
    <3> QED
      BY <3>1, <3>2
  <2>7. CASE CancelBanned(i)
    BY <2>2, <2>7 DEF CancelBanned, Goto, Loop, RunLabels
  <2>8. CASE CancelAborted(i)
    BY <2>3, <2>8 DEF CancelAborted
  <2> QED
    BY <2>4, <2>5, <2>6, <2>7, <2>8
<1> QED
  BY <1>4, <1>7 DEF IInv, BucketsSound, OnlyPasses

\* Every step keeps the buckets sound where they matter.
LEMMA BucketsStep ==
  ASSUME IInv, [Next]_vars
  PROVE  BucketsSound'
<1>1. /\ TypeOK /\ StatusSound /\ HeadingSound /\ BucketsSound
      /\ cont \in Decisions
  BY DEF IInv, TypeOK, ControlTypes
<1>2. ASSUME pc' \notin RunLabels \cup {"cancel"} PROVE BucketsSound'
  BY <1>2 DEF BucketsSound
<1>3. ASSUME pc' \in Calls \ {"cancel"} PROVE BucketsSound'
  BY <1>2, <1>3 DEF Calls, RunLabels
<1>4. ASSUME pc' = "idle" \/ Goto("idle") PROVE BucketsSound'
  BY <1>2, <1>4 DEF RunLabels, Goto, Loop
<1>5. CASE Lookup
  <2> PICK i \in DOMAIN children :
       /\ pc \in {"refresh", "exact"}
       /\ \/ LookupFound(i) \/ LookupMissing(i) \/ LookupBanned(i)
          \/ LookupRateLimited(i) \/ CallRaises
    BY <1>5 DEF Lookup
  <2>1. CASE LookupFound(i) \/ LookupMissing(i) \/ LookupRateLimited(i) \/ SkipRest
    BY <1>3, <2>1 DEF LookupFound, LookupMissing, LookupRateLimited, Passed, SkipRest, Calls
  <2>2. CASE LookupBanned(i) /\ ~SkipRest
    <3>1. CASE OverTarget
      BY <1>4, <2>2, <3>1 DEF LookupBanned
    <3>2. CASE ~OverTarget
      <4>1. /\ Enter(cont) /\ status' = Failed /\ pc \in Calls
            /\ UNCHANGED <<confirmed, buckets, required>>
        BY <2>2, <3>2 DEF LookupBanned, EndAs, venueVars, ledgerVars, Calls
      <4> QED
        BY <1>1, <3>2, <4>1, BucketsBanned
    <3> QED
      BY <3>1, <3>2
  <2>3. CASE CallRaises
    BY <1>4, <2>3 DEF CallRaises
  <2> QED
    BY <2>1, <2>2, <2>3
<1>6. CASE FinishRefresh
  BY <1>6 DEF FinishRefresh, BucketsSound
<1>7. CASE ReadOrders \/ ReadTrades
  BY <1>3, <1>7 DEF ReadOrders, ReadTrades, Loop, Calls
<1>8. CASE ReconcileFails
  <2>1. CASE CallRaises \/ Goto("idle")
    BY <1>4, <2>1 DEF CallRaises
  <2>2. CASE ~CallRaises /\ ~Goto("idle") /\ banned
    <3>1. /\ Enter(cont) /\ status' = Failed /\ pc \in Calls /\ ~OverTarget
          /\ UNCHANGED <<confirmed, buckets, required>>
      BY <1>8, <2>2 DEF ReconcileFails, EndAs, venueVars, ledgerVars, Calls
    <3> QED
      BY <1>1, <3>1, BucketsBanned
  <2>3. CASE ~CallRaises /\ ~Goto("idle") /\ ~banned
    <3>1. /\ Enter(cont) /\ backoff' = "waiting"
          /\ cont \in {"settle", "reconciled", "cancel_all"}
      BY <1>1, <1>8, <2>3 DEF ReconcileFails, RateLimited, HeadingSound
    <3>2. pc' \in {"settle", "reconciled"} \/ OnlyPasses'
      BY <3>1 DEF Enter, Goto, Loop, OnlyPasses
    <3> QED
      BY <3>2 DEF BucketsSound, RunLabels
  <2> QED
    BY <2>1, <2>2, <2>3
<1>9. CASE CancelChild
  BY <1>9, BucketsCancel
<1>10. CASE CancelHeldBack
  <2>1. /\ UNCHANGED <<children, confirmed, buckets, required, status, banned, pc, cont>>
        /\ pc = "cancel"
    BY <1>10 DEF CancelHeldBack, ledgerVars, venueVars, controlVars, SkipRest, Passed,
       BackoffBlocks, BackoffOver, Note
  <2>2. OnlyPasses \/ AtBuckets
    BY <2>1 DEF AtBuckets
  <2>3. CASE OnlyPasses
    <3>1. OnlyPasses'
      BY <1>10, <2>1, <2>3 DEF CancelHeldBack, OnlyPasses, BackoffBlocks
    <3> QED
      BY <3>1 DEF BucketsSound
  <2> QED
    BY <1>1, <2>1, <2>2, <2>3, BucketsKept
<1>11. CASE CancelFinished
  <2>1. /\ UNCHANGED <<children, confirmed, buckets, required, status, banned>>
        /\ pc = "cancel"
    BY <1>11 DEF CancelFinished, ledgerVars, venueVars, parentVars
  <2>2. CASE cont = "active"
    <3>1. AtBuckets
      BY <2>1, <2>2 DEF AtBuckets, OnlyPasses
    <3> QED
      BY <1>1, <2>1, <3>1, BucketsKept
  <2>3. CASE cont # "active"
    <3>1. pc' \in {"idle", "read_orders", "refresh"}
      BY <1>11, <2>3 DEF CancelFinished, Goto, Loop
    <3> QED
      BY <1>3, <1>4, <3>1 DEF Calls
  <2> QED
    BY <2>2, <2>3
<1>12. CASE Settle \/ UnknownRemains \/ TargetReached \/ Closing \/ Submit \/ Start
  BY <1>4, <1>12 DEF Settle, UnknownRemains, TargetReached, Closing, Submit, Start
<1>13. ASSUME pc \in RunLabels, Decision, UNCHANGED status PROVE BucketsSound'
  <2>1. AtBuckets
    BY <1>13 DEF AtBuckets, OnlyPasses, RunLabels
  <2> QED
    BY <1>1, <1>13, <2>1, BucketsKept DEF Decision, ledgerVars, venueVars
<1>14. {"observed", "passive", "timedout", "active", "repriced", "stale", "closing"}
         \subseteq RunLabels
  BY DEF RunLabels
<1>15. CASE StreamDegraded \/ StaleRefreshed \/ PassiveCancelled
  BY <1>13, <1>14, <1>15 DEF StreamDegraded, StaleRefreshed, PassiveCancelled, Note
<1>16. CASE Observed \/ TimedOutCancelled
  BY <1>4, <1>13, <1>14, <1>16 DEF Observed, TimedOutCancelled, Note
<1>17. CASE WaitOrReprice \/ RulesRaise
  BY <1>4, <1>13, <1>14, <1>17 DEF WaitOrReprice, RulesRaise, Note
<1>18. CASE NothingPlaced
  BY <1>3, <1>4, <1>18 DEF NothingPlaced, Loop, Calls
<1>19. CASE RunOnce \/ CancelExecution \/ ReconcileExecution \/ UserEvent
  <2>1. pc' \in {"idle", "refresh", "read_orders"}
    BY <1>19 DEF RunOnce, CancelExecution, ReconcileExecution, UserEvent, controlVars, Loop
  <2> QED
    BY <1>3, <1>4, <2>1 DEF Calls
<1>20. CASE Tick \/ BackoffElapses \/ UNCHANGED vars
  <2>1. /\ UNCHANGED <<children, confirmed, buckets, required, status, banned, pc, cont>>
        /\ OnlyPasses => OnlyPasses'
    BY <1>20 DEF Tick, BackoffElapses, vars, engineVars, venueVars, parentVars,
       controlVars, ledgerVars, OnlyPasses
  <2>2. CASE AtBuckets
    BY <1>1, <2>1, <2>2, BucketsKept
  <2>3. CASE ~AtBuckets
    BY <2>1, <2>3 DEF AtBuckets, BucketsSound
  <2> QED
    BY <2>2, <2>3
<1>21. CASE VenueMoves
  <2>1. UNCHANGED <<children, confirmed, buckets, required, status, pc, cont, backoff>>
    BY <1>21 DEF VenueMoves, engineVars, parentVars, controlVars, ledgerVars
  <2>2. CASE AtBuckets
    BY <1>1, <2>1, <2>2, BucketsKept
  <2>3. CASE ~AtBuckets
    BY <2>1, <2>3 DEF AtBuckets, BucketsSound, OnlyPasses
  <2> QED
    BY <2>2, <2>3
<1> QED
  BY <1>5, <1>6, <1>7, <1>8, <1>9, <1>10, <1>11, <1>12, <1>15, <1>16, <1>17, <1>18,
     <1>19, <1>20, <1>21
     DEF Next, Operation, Environment

(***************************************************************************)
(* What an execution has earned when it ends.                              *)
(***************************************************************************)
\* The decision to end with a result was right.
WellEnded ==
  /\ TargetFilled \/ ~HasReserved
  /\ status = "COMPLETED" <=> TargetFilled
  /\ status = "PARTIALLY_COMPLETED" => confirmed > 0
  /\ status \in {"EXPIRED", "CANCELLED"} => confirmed = 0

\* Then no order can still trade, and the result says what has traded.
LEMMA WellEndedSound ==
  LedgerTypes /\ LedgerSound /\ required \in Nat /\ (Tracked => required > 0) /\ WellEnded
    => EndSound
<1> SUFFICES ASSUME LedgerTypes, LedgerSound, required \in Nat, Tracked => required > 0,
                    WellEnded, Ended
             PROVE  /\ \A i \in 1 .. Last : Settled(children[i], orders[i])
                    /\ status = "COMPLETED" <=> confirmed = required
                    /\ status \in {"EXPIRED", "CANCELLED"} <=> confirmed = 0
  BY DEF EndSound
<1>1. \A i \in 1 .. Last : Settled(children[i], orders[i])
  BY EndedSettled DEF WellEnded
<1>2. confirmed \in Nat /\ confirmed <= required /\ required > 0
  BY DEF LedgerTypes, LedgerSound, Ended
<1>3. status \in {"COMPLETED", "PARTIALLY_COMPLETED", "EXPIRED", "CANCELLED"}
  BY DEF Ended, TerminalExecution
<1>4. TargetFilled <=> confirmed = required
  BY <1>2 DEF TargetFilled
<1> QED
  BY <1>1, <1>2, <1>3, <1>4 DEF WellEnded

\* An execution ends with an open target when nothing is reserved, with the
\* target filled at any time.
LEMMA EndsUnfilled ==
  ASSUME LedgerTypes, required \in Nat, ~TargetFilled, ~HasReserved,
         UNCHANGED <<confirmed, buckets, required>>,
         status' \in {Unfinished("EXPIRED"), Unfinished("CANCELLED")}
  PROVE  WellEnded'
BY DEF WellEnded, TargetFilled, HasReserved, Unfinished, LedgerTypes

LEMMA EndsFilled ==
  ASSUME TargetFilled', status' = "COMPLETED"
  PROVE  WellEnded'
BY DEF WellEnded

\* Every step that ends an execution with a result is right to.
LEMMA EndMoves ==
  ASSUME TypeOK, LedgerSound, LedgerTypes', Ending, UNCHANGED required,
         status \in Active, status' # status,
         status' \in TerminalExecution \ {"FAILED"}
  PROVE  WellEnded'
<1>1. LedgerTypes /\ required \in Nat /\ now \in 0 .. Slices
  BY EngineAssumption DEF TypeOK, ParentTypes, EngineAssumption
<1>2. ASSUME Decision PROVE UNCHANGED <<confirmed, buckets>> /\ (TargetFilled' <=> TargetFilled)
  BY <1>2 DEF Decision, ledgerVars, TargetFilled
<1>3. ASSUME ~TargetFilled, Decision, EndAs(AtDeadline) PROVE WellEnded'
  <2>1. ~HasReserved /\ status' = Unfinished("EXPIRED")
    BY <1>3 DEF EndAs, AtDeadline, Expired
  <2> QED
    BY <1>1, <1>2, <1>3, <2>1, EndsUnfilled
<1>4. ASSUME TargetFilled, Decision, EndAs(Completed) PROVE WellEnded'
  BY <1>2, <1>4, EndsFilled DEF EndAs, Completed
<1>5. CASE Settle
  <2>1. CASE status = "CANCELLING" /\ ~TargetFilled /\ ~HasReserved
    BY <1>1, <1>2, <1>5, <2>1, EndsUnfilled DEF Settle
  <2>2. CASE ~(status = "CANCELLING" /\ ~TargetFilled /\ ~HasReserved)
    BY <1>4, <1>5, <2>2 DEF Settle, EndAs
  <2> QED
    BY <2>1, <2>2
<1>6. CASE TargetReached
  BY <1>4, <1>6 DEF TargetReached
<1>7. CASE Observed \/ TimedOutCancelled \/ Closing
  BY <1>3, <1>7 DEF Observed, TimedOutCancelled, Closing, Note
<1>8. ASSUME ~HasReserved, Demand > 0 PROVE ~TargetFilled
  <2>1. Demand \in Nat /\ confirmed + Demand <= required /\ confirmed \in Nat
    BY <1>1, <1>8, DemandFits DEF LedgerTypes
  <2> QED
    BY <1>1, <1>8, <2>1 DEF TargetFilled
<1>9. CASE NothingPlaced
  <2>1. ~HasReserved /\ Decision
    BY <1>9 DEF NothingPlaced, AtDemand
  <2>2. Demand > 0 /\ status' \in {AtDeadline, Expired}
    BY <1>9 DEF NothingPlaced, Note, EndAs
  <2>3. status' = Unfinished("EXPIRED")
    BY <2>2 DEF AtDeadline, Expired
  <2> QED
    BY <1>1, <1>2, <1>8, <2>1, <2>2, <2>3, EndsUnfilled
<1>10. CASE Submit
  <2>1. ~HasReserved /\ Demand > 0
    BY <1>10 DEF Submit, AtDemand
  <2>2. CASE SubmitAccepted(Demand)
    <3>1. EndAs(IF confirmed' >= required THEN Completed ELSE status)
      BY <2>2 DEF SubmitAccepted
    <3>2. confirmed' >= required /\ status' = "COMPLETED"
      BY <3>1 DEF EndAs, Completed
    <3> QED
      BY <3>2, EndsFilled DEF TargetFilled
  <2>3. CASE SubmitRejected(Demand)
    <3>1. UNCHANGED <<confirmed, buckets>>
      BY <2>3 DEF SubmitRejected
    <3>2. status' \in {AtDeadline, Failed}
      BY <2>3 DEF SubmitRejected, EndAs
    <3>3. status' = Unfinished("EXPIRED")
      BY <3>2 DEF AtDeadline, Expired, Failed, Active
    <3> QED
      BY <1>1, <1>8, <2>1, <3>1, <3>3, EndsUnfilled
  <2>4. CASE ~SubmitAccepted(Demand) /\ ~SubmitRejected(Demand)
    BY <1>10, <2>4 DEF Submit, SubmitTimesOut, SubmitBanned, SubmitAborted, SubmitFails,
       RateLimited, Note, EndAs, Failed, Active
  <2> QED
    BY <2>2, <2>3, <2>4
<1>11. CASE UserEvent
  <2>1. status' = EventStatus(confirmed', buckets') /\ required' = required
    BY <1>11 DEF UserEvent
  <2>2. confirmed' \in Nat /\ buckets' \in Buckets
    BY DEF LedgerTypes
  <2>3. Reserved(buckets') \in Nat
    BY <2>2, ReservedType
  <2>4. CASE confirmed' >= required
    <3>1. status' = "COMPLETED"
      BY <1>1, <2>1, <2>2, <2>4 DEF EventStatus
    <3> QED
      BY <2>1, <2>4, <3>1, EndsFilled DEF TargetFilled
  <2>5. CASE ~(confirmed' >= required)
    <3>1. confirmed' < required /\ Reserved(buckets') = 0
          /\ status' = IF confirmed' > 0 THEN "PARTIALLY_COMPLETED" ELSE "CANCELLED"
      BY <1>1, <2>1, <2>2, <2>3, <2>5 DEF EventStatus
    <3>2. ~TargetFilled' /\ ~HasReserved'
      BY <2>1, <2>5, <3>1 DEF TargetFilled, HasReserved
    <3> QED
      BY <2>2, <3>1, <3>2 DEF WellEnded
  <2> QED
    BY <2>4, <2>5
<1> QED
  BY <1>5, <1>6, <1>7, <1>9, <1>10, <1>11 DEF Ending

\* Every step keeps the result sound: what has ended stays as it is.
LEMMA EndStep ==
  ASSUME IInv, LookupSettles = TRUE, [Next]_vars
  PROVE  EndSound'
<1> SUFFICES ASSUME Ended' PROVE EndSound'
  BY DEF EndSound
<1>1. TypeOK /\ LedgerTypes /\ LedgerSound /\ StatusSound /\ HeadingSound /\ EndSound
  BY DEF IInv, TypeOK
<1>2. /\ LedgerTypes' /\ LedgerSound' /\ OnlyAdds
      /\ Last' = Last \/ (Submit /\ Last' = Last + 1)
  BY LedgerStep
<1>3. UNCHANGED required /\ required' \in Nat
  <2>1. required' = required
    BY RequiredFixed
  <2> QED
    BY <1>1, <2>1, EngineAssumption DEF TypeOK, ParentTypes, EngineAssumption
<1>4. CASE status' = status
  <2>1. ~Submit
    BY <1>1, <1>4, SubmitRuns DEF Stopped, Ended, TerminalExecution
  <2>2. Last' = Last
    BY <1>2, <2>1
  <2>3. Tracked
    <3>1. ASSUME ~Tracked PROVE FALSE
      <4>1. status = "COMPLETED" /\ children = <<>>
        BY <3>1 DEF Tracked
      <4>2. Last' = 0
        BY <2>2, <4>1, EmptySeq DEF Last
      <4>3. children' = <<>>
        BY <1>2, <4>2, EmptySeq DEF LedgerTypes, Last
      <4> QED
        BY <1>4, <4>1, <4>3 DEF Ended, Tracked
    <3> QED
      BY <3>1
  <2>4. Ended
    BY <1>4, <2>3 DEF Ended
  <2>5. \A i \in 1 .. Last : Settled(children[i], orders[i])
    BY <1>1, <2>4 DEF EndSound
  <2>6. (\A i \in 1 .. Last' : Settled(children'[i], orders'[i])) /\ confirmed' = confirmed
    BY <1>1, <1>2, <2>2, <2>5, SettledStays
  <2> QED
    BY <1>1, <1>3, <1>4, <2>4, <2>6 DEF EndSound
<1>5. CASE status' # status
  <2>1. status' \in TerminalExecution \ {"FAILED"} /\ Tracked'
    BY DEF Ended
  <2>2. ~Start
    <3>1. ASSUME Start PROVE FALSE
      <4>1. status' = "COMPLETED" /\ pc = "create" /\ children' = children
        BY <2>1, <3>1 DEF Start, EndAs, Quiet, ledgerVars, TerminalExecution
      <4>2. children = <<>>
        BY <1>1, <4>1, EmptySeq DEF StatusSound, LedgerTypes, Last
      <4> QED
        BY <2>1, <4>1, <4>2 DEF Tracked
    <3> QED
      BY <3>1
  <2>3. Ending /\ status \in Active
    BY <1>1, <1>5, <2>1, <2>2, StatusMoves DEF TerminalExecution
  <2>4. WellEnded'
    BY <1>1, <1>2, <1>3, <1>5, <2>1, <2>3, EndMoves
  <2>5. pc' # "create"
    BY <1>1, <1>5, CreateOnce
  <2>6. (Tracked => required > 0)'
    BY <2>5, StatusStep DEF StatusSound
  <2>7. (LedgerTypes /\ LedgerSound /\ required \in Nat /\ (Tracked => required > 0) /\ WellEnded
           => EndSound)'
    BY WellEndedSound, PTL
  <2> QED
    BY <1>2, <1>3, <2>4, <2>6, <2>7
<1> QED
  BY <1>4, <1>5

(***************************************************************************)
(* The invariant is inductive.                                             *)
(***************************************************************************)
\* The invariant holds of a new execution.
LEMMA InitInv == Init => IInv
<1> SUFFICES ASSUME Init PROVE IInv
  OBVIOUS
<1>1. /\ orders = <<>> /\ children = <<>> /\ position = 0 /\ confirmed = 0
      /\ buckets = NoExposure /\ pc = "create" /\ cur = 0 /\ cont = "idle" /\ answer = <<>>
      /\ status = "CREATED"
  BY DEF Init
<1>2. /\ Len(orders) = 0 /\ Len(children) = 0 /\ Last = 0
      /\ children \in Seq(Child) /\ orders \in Seq(Order) /\ answer \in Seq(Reading)
      /\ DOMAIN children = {}
  BY <1>1, EmptySeq DEF Last
<1>3. required \in Nat /\ 0 \in 0 .. Slices /\ 0 \in 0 .. MaxFaults
  BY EngineAssumption DEF Init, EngineAssumption
<1>4. LedgerTypes
  BY <1>1, <1>2 DEF LedgerTypes, Buckets, NoExposure
<1>5. ParentTypes
  BY <1>3 DEF Init, ParentTypes, ExecutionStatus, Reason
<1>6. ControlTypes
  BY <1>1, <1>2 DEF ControlTypes, Label, Decisions
<1>7. Counted
  BY <1>1, <1>2, LotsNone DEF Counted
<1>8. LedgerSound
  BY <1>1, <1>2, <1>3, <1>7 DEF LedgerSound
<1>9. ReadingSound /\ StatusSound /\ HeadingSound /\ BucketsSound
  BY <1>1, <1>2 DEF ReadingSound, StatusSound, HeadingSound, Heading, BucketsSound,
     RunLabels, Calls
<1>10. EndSound
  BY <1>1 DEF EndSound, Ended, TerminalExecution
<1> QED
  BY <1>4, <1>5, <1>6, <1>8, <1>9, <1>10 DEF TypeOK, IInv

\* Every step of the engine and of the venue keeps the invariant.
LEMMA StepInv ==
  ASSUME LookupSettles = TRUE, IInv, [Next]_vars
  PROVE  IInv'
<1>1. TypeOK
  BY DEF IInv
<1>2. TypeOK'
  BY <1>1, LedgerStep, ParentStep, ControlStep DEF TypeOK
<1> QED
  BY <1>2, LedgerStep, ControlStep, StatusStep, HeadingStep, BucketsStep, EndStep DEF IInv

(***************************************************************************)
(* What the invariant rules out.                                           *)
(***************************************************************************)
\* An overfill, and a bucket released too early: only the last child can still
\* trade.
LEMMA InvCovers ==
  ASSUME IInv
  PROVE  NoOverfill /\ ReservedCoversVenue
<1>1. /\ LedgerTypes /\ LedgerSound /\ Last \in Nat /\ required \in Nat
  <2>1. LedgerTypes /\ LedgerSound /\ required \in Nat
    BY EngineAssumption DEF IInv, TypeOK, ParentTypes, EngineAssumption
  <2> QED
    BY <2>1, LenProperties DEF LedgerTypes, Last
<1>2. confirmed \in Nat /\ position \in Nat /\ Reserved(buckets) \in Nat /\ confirmed <= required
  BY <1>1, ReservedType DEF LedgerTypes, LedgerSound
<1>3. VenueExposure = IF Last > 0 /\ Working(orders[Last])
                      THEN orders[Last].qty - orders[Last].filled ELSE 0
  BY <1>1, ExposureOfLast
<1>4. CASE Last = 0
  <2>1. VenueExposure = 0 /\ position = 0 /\ confirmed = 0
    BY <1>1, <1>3, <1>4 DEF LedgerSound
  <2> QED
    BY <1>1, <1>2, <2>1 DEF NoOverfill, ReservedCoversVenue
<1>5. CASE Last > 0
  <2> DEFINE o == orders[Last]
             c == children[Last]
  <2>1. Last \in 1 .. Last
    BY <1>1, <1>5
  <2>2. /\ o.qty \in Nat /\ o.filled \in Nat /\ c.qty \in Nat /\ c.filled \in Nat
        /\ position = confirmed + o.filled - c.filled
        /\ OrderSound(o) /\ ChildMatchesOrder(c, o)
    BY <1>1, <1>5, <2>1, LedgerElements DEF LedgerSound
  <2>3. c.filled <= o.filled /\ o.filled <= o.qty /\ c.qty = o.qty
    BY <2>2 DEF OrderSound, ChildMatchesOrder
  <2>4. CASE c.status \in TerminalChild
    <3>1. ~Working(o) /\ o.filled = c.filled
      BY <2>2, <2>4 DEF ChildMatchesOrder, Settled
    <3>2. VenueExposure = 0 /\ position = confirmed
      BY <1>2, <1>3, <2>2, <3>1
    <3> QED
      BY <1>1, <1>2, <3>2 DEF NoOverfill, ReservedCoversVenue
  <2>5. CASE c.status \notin TerminalChild
    <3>1. /\ Holds(buckets, c.qty - c.filled) /\ confirmed + c.qty - c.filled <= required
          /\ c.qty - c.filled \in Nat /\ buckets \in Buckets
      <4>1. Holds(buckets, c.qty - c.filled) /\ confirmed + c.qty - c.filled <= required
        BY <1>1, <1>5, <2>5 DEF LedgerSound
      <4>2. c.qty - c.filled \in Nat
        BY <2>2, <2>3
      <4>3. buckets \in Buckets
        BY <1>1 DEF LedgerTypes
      <4> QED
        BY <4>1, <4>2, <4>3
    <3>2. Reserved(buckets) >= c.qty - c.filled
      BY <3>1, HoldsFacts
    <3>3. VenueExposure \in Nat /\ VenueExposure <= o.qty - o.filled
      BY <1>3, <2>2, <2>3
    <3> HIDE DEF o, c
    <3>4. position + VenueExposure <= confirmed + (c.qty - c.filled)
      BY <1>2, <2>2, <2>3, <3>3
    <3>5. /\ position + VenueExposure <= required
          /\ position + VenueExposure <= confirmed + Reserved(buckets)
      BY <1>1, <1>2, <2>2, <3>1, <3>2, <3>3, <3>4, SMT
    <3> QED
      BY <3>5 DEF NoOverfill, ReservedCoversVenue
  <2> QED
    BY <2>4, <2>5
<1> QED
  BY <1>1, <1>4, <1>5

\* An exposure above the target where the engine places or cancels an order.
LEMMA InvWithin ==
  ASSUME IInv
  PROVE  WithinTarget
<1>1. LedgerTypes /\ LedgerSound /\ required \in Nat
  BY EngineAssumption DEF IInv, TypeOK, ParentTypes, EngineAssumption
<1>2. /\ BucketsOf(children) \in Buckets /\ confirmed \in Nat
      /\ confirmed + Reserved(BucketsOf(children)) <= required
  BY <1>1, RebuiltFits DEF LedgerTypes
<1>3. buckets = BucketsOf(children) => ~OverTarget
  BY <1>1, <1>2, ReservedType DEF OverTarget
<1> QED
  BY <1>2, <1>3 DEF IInv, BucketsSound, WithinTarget

\* A fill that is not confirmed, or confirmed twice.
LEMMA InvAgrees ==
  ASSUME IInv
  PROVE  LedgerAgrees
<1>1. LedgerTypes /\ LedgerSound
  BY DEF IInv, TypeOK
<1>2. DOMAIN children = 1 .. Last
  BY <1>1, LenProperties DEF LedgerTypes, Last
<1> QED
  BY <1>1, <1>2 DEF LedgerSound, LedgerAgrees, ChildMatchesOrder

\* A result that is not what has traded, or with an order left behind.
LEMMA InvClean ==
  ASSUME IInv
  PROVE  CleanEnd
<1> SUFFICES ASSUME Ended
             PROVE  /\ VenueExposure = 0
                    /\ confirmed = position
                    /\ status = "COMPLETED" <=> position = required
                    /\ status \in {"EXPIRED", "CANCELLED"} <=> position = 0
  BY DEF CleanEnd, Ended
<1>1. LedgerTypes /\ LedgerSound /\ EndSound
  BY DEF IInv, TypeOK
<1>2. VenueExposure = 0 /\ position = confirmed
  BY <1>1, SettledLedger DEF EndSound
<1> QED
  BY <1>1, <1>2 DEF EndSound

(***************************************************************************)
(* What no step does.                                                      *)
(***************************************************************************)
\* An order sent while an earlier one may still trade, or by an execution that
\* was cancelled or has a result.
LEMMA SubmitAlone ==
  ASSUME IInv, LookupSettles = TRUE, [Next]_vars, Len(children') > Len(children)
  PROVE  /\ \A i \in DOMAIN orders : ~Working(orders[i])
         /\ status \in {"RUNNING", "FAILED"}
<1>1. LedgerTypes /\ LedgerSound /\ HeadingSound /\ Last \in Nat /\ DOMAIN orders = 1 .. Last
  <2>1. LedgerTypes /\ LedgerSound /\ HeadingSound
    BY DEF IInv, TypeOK
  <2> QED
    BY <2>1, LenProperties DEF LedgerTypes, Last
<1>2. Submit
  BY <1>1, LedgerStep DEF Last
<1>3. \A i \in DOMAIN orders : ~Working(orders[i])
  BY <1>1, <1>2, NothingReserved DEF Submit, AtDemand, Settled
<1> QED
  BY <1>1, <1>2, <1>3, SubmitRuns DEF Stopped

\* A move of the status outside the table.
LEMMA MovesLegal ==
  ASSUME IInv, [Next]_vars, status' # status
  PROVE  \/ status' \in ExecutionTransitions[status]
         \/ status = "CREATED" /\ status' \in ExecutionTransitions["VALIDATING"]
<1>1. TypeOK /\ StatusSound
  BY DEF IInv
<1>2. CASE pc = "create" /\ status' \in {"RUNNING", "COMPLETED"}
  BY <1>1, <1>2 DEF StatusSound, ExecutionTransitions, ExecutionStatus
<1>3. CASE status \in Active /\ status' = "FAILED"
  BY <1>3 DEF Active, ExecutionTransitions, ExecutionStatus
<1>4. CASE status = "RUNNING" /\ status' = "CANCELLING"
  BY <1>4 DEF ExecutionTransitions, ExecutionStatus
<1> QED
  BY <1>1, <1>2, <1>3, <1>4, StatusMoves

(***************************************************************************)
(* The theorems.                                                           *)
(***************************************************************************)
\* The invariant holds of every state of an execution, for every target,
\* number of slices, children and faults, if a lookup that finds no order means
\* that it will never arrive.
THEOREM StaysSound ==
  ASSUME LookupSettles = TRUE
  PROVE  Spec => []IInv
<1>1. Init => IInv
  BY InitInv
<1>2. IInv /\ [Next]_vars => IInv'
  BY StepInv
<1> QED
  BY <1>1, <1>2, PTL DEF Spec

\* Every variable keeps its type, and the children run parallel to the orders.
THEOREM TypeCorrect ==
  ASSUME LookupSettles = TRUE
  PROVE  Spec => []TypeOK
<1>1. IInv => TypeOK
  BY DEF IInv
<1> QED
  BY <1>1, StaysSound, PTL

\* The lots traded and the lots that can still trade never exceed the required
\* quantity, whatever is cancelled, lost, delayed, repeated or filled meanwhile.
THEOREM NeverOverfills ==
  ASSUME LookupSettles = TRUE
  PROVE  Spec => []NoOverfill
<1>1. IInv => NoOverfill
  BY InvCovers
<1> QED
  BY <1>1, StaysSound, PTL

\* What is confirmed or reserved always covers what the venue has traded or
\* may still trade: no exposure bucket is released too early.
THEOREM ExposureCovers ==
  ASSUME LookupSettles = TRUE
  PROVE  Spec => []ReservedCoversVenue
<1>1. IInv => ReservedCoversVenue
  BY InvCovers
<1> QED
  BY <1>1, StaysSound, PTL

\* Where the engine rebuilds the buckets, places an order or cancels one, what
\* is filled or reserved fits the target: the exposure assertion cannot raise.
THEOREM ExposureFits ==
  ASSUME LookupSettles = TRUE
  PROVE  Spec => []WithinTarget
<1>1. IInv => WithinTarget
  BY InvWithin
<1> QED
  BY <1>1, StaysSound, PTL

\* The parent has confirmed each lot of its children once, and no lot that has
\* not traded.
THEOREM ConfirmsWhatTraded ==
  ASSUME LookupSettles = TRUE
  PROVE  Spec => []LedgerAgrees
<1>1. IInv => LedgerAgrees
  BY InvAgrees
<1> QED
  BY <1>1, StaysSound, PTL

\* An execution that ends without failing has no order left on the venue, and
\* its result is what has traded.
THEOREM EndsClean ==
  ASSUME LookupSettles = TRUE
  PROVE  Spec => []CleanEnd
<1>1. IInv => CleanEnd
  BY InvClean
<1> QED
  BY <1>1, StaysSound, PTL

\* The status only makes moves of EXECUTION_TRANSITIONS: a result is final.
THEOREM MovesAreLegal ==
  ASSUME LookupSettles = TRUE
  PROVE  Spec => LegalMoves
<1>1. IInv /\ [Next]_vars =>
        [status' # status =>
           \/ status' \in ExecutionTransitions[status]
           \/ status = "CREATED" /\ status' \in ExecutionTransitions["VALIDATING"]]_vars
  BY MovesLegal
<1> QED
  BY <1>1, StaysSound, PTL DEF Spec, LegalMoves

\* No report takes a fill back or brings a closed child back.
THEOREM ReportsAdd ==
  ASSUME LookupSettles = TRUE
  PROVE  Spec => ReportsOnlyAdd
<1>1. IInv /\ [Next]_vars =>
        [\A i \in DOMAIN children :
           /\ children'[i].filled >= children[i].filled
           /\ children[i].status \in TerminalChild =>
                children'[i].status = children[i].status]_vars
  <2> SUFFICES ASSUME IInv, [Next]_vars, NEW i \in DOMAIN children
               PROVE  /\ children'[i].filled >= children[i].filled
                      /\ children[i].status \in TerminalChild =>
                           children'[i].status = children[i].status
    OBVIOUS
  <2>1. LedgerTypes /\ LedgerTypes' /\ OnlyAdds /\ (Last' = Last \/ Last' = Last + 1)
    BY LedgerStep DEF IInv, TypeOK
  <2>2. i \in 1 .. Last /\ i \in 1 .. Len(children')
    BY <2>1, LenProperties DEF LedgerTypes, Last
  <2>3. children[i].filled \in Nat /\ children'[i].filled \in Nat
    <3>1. children[i] \in Child /\ children'[i] \in Child
      BY <2>1, <2>2, ElementOfSeq DEF LedgerTypes, Last
    <3> QED
      BY <3>1 DEF Child
  <2> QED
    BY <2>1, <2>2, <2>3 DEF OnlyAdds
<1> QED
  BY <1>1, StaysSound, PTL DEF Spec, ReportsOnlyAdd

\* An order is sent only when no earlier one can trade, and never by an
\* execution that was cancelled or has a result.
THEOREM SendsAlone ==
  ASSUME LookupSettles = TRUE
  PROVE  Spec => SubmitsAlone
<1>1. IInv /\ [Next]_vars =>
        [Len(children') > Len(children) =>
           /\ \A i \in DOMAIN orders : ~Working(orders[i])
           /\ status \in {"RUNNING", "FAILED"}]_vars
  BY SubmitAlone
<1> QED
  BY <1>1, StaysSound, PTL DEF Spec, SubmitsAlone

(***************************************************************************)
(* The engine and the venue keep the promise of ExecutionPromise.          *)
(***************************************************************************)
\* What a refinement step needs to know of a state.
Account ==
  /\ required \in Nat /\ position \in Nat /\ VenueExposure \in Nat
  /\ position + VenueExposure <= required
  /\ VenueExposure = IF Last > 0 /\ Working(orders[Last])
                     THEN orders[Last].qty - orders[Last].filled ELSE 0
  /\ Last \in Nat /\ (Last = 0 <=> children = <<>>)
  /\ Last = 0 => position = 0
  /\ Ended => /\ VenueExposure = 0
              /\ status = "COMPLETED" <=> position = required
              /\ status \in {"EXPIRED", "CANCELLED"} <=> position = 0

LEMMA AccountSound == IInv => Account
<1> HAVE IInv
<1>1. LedgerTypes /\ LedgerSound /\ required \in Nat
  BY EngineAssumption DEF IInv, TypeOK, ParentTypes, EngineAssumption
<1>2. /\ VenueExposure \in Nat /\ position \in Nat
      /\ VenueExposure = IF Last > 0 /\ Working(orders[Last])
                         THEN orders[Last].qty - orders[Last].filled ELSE 0
  BY <1>1, ExposureOfLast DEF LedgerTypes
<1>3. position + VenueExposure <= required
  BY InvCovers DEF NoOverfill
<1>4. Last \in Nat /\ (Last = 0 <=> children = <<>>)
  BY <1>1, EmptySeq, LenProperties DEF LedgerTypes, Last
<1>5. CleanEnd
  BY InvClean
<1> QED
  BY <1>1, <1>2, <1>3, <1>4, <1>5 DEF Account, LedgerSound, CleanEnd, Ended

\* run_once goes on after it failed, but is not called again.
LEMMA NoNewRun ==
  ASSUME TypeOK, HeadingSound, [Next]_vars, Terminal, Heading(RunLabels)'
  PROVE  Heading(RunLabels)
<1> USE DEF Heading
<1>1. cont \in Decisions /\ Decisions \cap Calls = {} /\ RunLabels \cap Calls = {}
      /\ RunLabels \cap {"idle", "settle", "reconciled", "cancel_all"} = {}
  BY DEF TypeOK, ControlTypes, Decisions, Calls, RunLabels
<1>2. \/ pc' \in RunLabels
      \/ pc' \in Calls /\ cont' \in RunLabels
  OBVIOUS
<1>3. ~Goto("idle")
  BY <1>1, <1>2 DEF Goto, Loop, Calls
<1>4. ASSUME pc \in Calls, Enter(cont) PROVE cont \in RunLabels
  <2>1. CASE cont = "cancel_all"
    BY <1>2, <1>4, <2>1 DEF Enter, Loop, RunLabels
  <2>2. CASE cont # "cancel_all"
    <3>1. pc' = cont /\ pc' \notin Calls
      BY <1>1, <1>4, <2>2 DEF Enter, Goto, Loop
    <3> QED
      BY <1>2, <3>1
  <2> QED
    BY <2>1, <2>2
<1>5. CASE UNCHANGED <<pc, cont>>
  BY <1>2, <1>5
<1>6. CASE pc \in Calls /\ (Enter(cont) \/ (pc' \in Calls /\ cont' = cont))
  BY <1>1, <1>2, <1>4, <1>6
<1>7. CASE pc \in RunLabels
  BY <1>7
<1>8. CASE Lookup \/ FinishRefresh \/ ReadOrders \/ ReadTrades \/ ReconcileFails
  BY <1>3, <1>5, <1>6, <1>8
     DEF Lookup, LookupFound, LookupMissing, LookupBanned, LookupRateLimited, CallRaises,
     FinishRefresh, ReadOrders, ReadTrades, ReconcileFails, Passed, SkipRest, Loop, Calls
<1>9. CASE CancelChild
  <2>1. ASSUME NEW i \in DOMAIN children, CancelCounted(i), pc = "cancel"
        PROVE  Heading(RunLabels)
    BY <1>1, <1>2, <2>1 DEF CancelCounted, RunLabels, Calls
  <2> QED
    BY <1>3, <1>5, <1>6, <1>9, <2>1
       DEF CancelChild, CancelAccepted, CancelIgnored, CancelAnswered, CancelTimesOut,
       CancelBanned, CancelRefused, CancelAborted, CancelRateLimited, Passed, Loop, Calls
<1>10. CASE CancelHeldBack
  BY <1>5, <1>10 DEF CancelHeldBack, SkipRest, Passed, controlVars
<1>11. CASE CancelFinished
  BY <1>1, <1>2, <1>3, <1>11 DEF CancelFinished, Goto, Loop, Calls, RunLabels
<1>12. CASE Settle \/ Submit \/ Start \/ NothingPlaced
  BY <1>3, <1>7, <1>12 DEF Settle, Submit, Start, NothingPlaced, AtDemand, RunLabels
<1>13. CASE \/ UnknownRemains \/ TargetReached \/ StreamDegraded \/ Observed
            \/ PassiveCancelled \/ TimedOutCancelled \/ Closing \/ StaleRefreshed
            \/ WaitOrReprice \/ RulesRaise
  BY <1>3, <1>7, <1>13
     DEF UnknownRemains, TargetReached, StreamDegraded, Observed, PassiveCancelled,
     TimedOutCancelled, Closing, StaleRefreshed, WaitOrReprice, RulesRaise, RunLabels
<1>14. CASE RunOnce \/ CancelExecution
  BY <1>14 DEF RunOnce, CancelExecution
<1>15. CASE ReconcileExecution
  BY <1>1, <1>2, <1>5, <1>15
     DEF ReconcileExecution, Loop, controlVars, Calls
<1>16. CASE UserEvent \/ Tick \/ BackoffElapses \/ VenueMoves \/ UNCHANGED vars
  BY <1>5, <1>16
     DEF UserEvent, Tick, BackoffElapses, VenueMoves, engineVars, controlVars, vars
<1> QED
  BY <1>8, <1>9, <1>10, <1>11, <1>12, <1>13, <1>14, <1>15, <1>16
     DEF Next, Operation, Environment

\* The result is that of the status, until an operation that failed returns.
ResultStays == Result' = Result \/ (Result = "failing" /\ Result' = "failed")

LEMMA ResultKept ==
  ASSUME Account, Account', UNCHANGED <<status, required>>, Last' = Last,
         TypeOK, HeadingSound, [Next]_vars
  PROVE  ResultStays
<1>1. Tracked' <=> Tracked
  BY DEF Tracked, Account
<1>2. CASE status = "FAILED"
  <2>1. Terminal /\ Terminal'
    BY <1>2 DEF Terminal, TerminalExecution
  <2>2. Heading(RunLabels)' => Heading(RunLabels)
    BY <2>1, NoNewRun
  <2>3. Result = IF Heading(RunLabels) THEN "failing" ELSE "failed"
    BY <1>2, <2>1 DEF Result
  <2>4. Result' = IF Heading(RunLabels)' THEN "failing" ELSE "failed"
    BY <1>2, <2>1 DEF Result
  <2> QED
    BY <2>2, <2>3, <2>4 DEF ResultStays
<1>3. CASE status # "FAILED"
  BY <1>1, <1>3 DEF ResultStays, Result, Terminal
<1> QED
  BY <1>2, <1>3

\* Some lots trade and others are withdrawn.
LEMMA TradesOrWithdraws ==
  ASSUME Account, Account', NEW k \in Nat, position' = position + k,
         VenueExposure' <= VenueExposure - k,
         ResultStays, UNCHANGED required
  PROVE  [Promise!Next]_(Promise!promiseVars)
<1> DEFINE e == VenueExposure
<1>1. e \in Nat /\ e' \in Nat /\ position \in Nat /\ e' <= e - k
  BY DEF Account
<1> HIDE DEF e
<1>2. CASE k = 0 /\ e' = e
  BY <1>1, <1>2 DEF Promise!promiseVars, Promise!Next, Promise!Fail, ResultStays, e
<1>3. CASE k = 0 /\ e' # e
  <2>1. e > 0 /\ e' \in 0 .. e - 1 /\ position' = position
    BY <1>1, <1>3
  <2> QED
    BY <2>1 DEF Promise!Next, Promise!Withdraw, Promise!Returns, ResultStays, e
<1>4. CASE k > 0
  <2>1. e > 0 /\ k \in 1 .. e /\ e' \in 0 .. e - k
    BY <1>1, <1>4
  <2> QED
    BY <2>1 DEF Promise!Next, Promise!Trade, Promise!Returns, ResultStays, e
<1> QED
  BY <1>1, <1>2, <1>3, <1>4

\* What a quantity has grown by, below a limit.
LEMMA GrownBy ==
  ASSUME NEW a \in Nat, NEW b \in Nat, NEW rest \in Nat, NEW limit \in Nat,
         a <= b, b + rest <= limit
  PROVE  \E k \in 0 .. limit - a : b = a + k /\ rest \in 0 .. limit - a - k
<1>1. b - a \in 0 .. limit - a /\ b = a + (b - a) /\ rest \in 0 .. limit - a - (b - a)
  OBVIOUS
<1> QED
  BY <1>1

\* Some lots are placed, and may complete the execution at once; the operation
\* that failed places its last.
LEMMA Places ==
  ASSUME Account, Account', VenueExposure = 0, position <= position', Last' > 0,
         \/ status = "RUNNING" /\ status' \in {"RUNNING", "COMPLETED"}
         \/ Result = "failing" /\ Result' = "failed",
         UNCHANGED required
  PROVE  [Promise!Next]_(Promise!promiseVars)
<1> DEFINE rest == VenueExposure'
<1>1. /\ rest \in Nat /\ position \in Nat /\ position' \in Nat /\ required \in Nat
      /\ position' + rest <= required
  BY DEF Account
<1> HIDE DEF rest
<1>2. \E k \in 0 .. required - position :
        position' = position + k /\ rest \in 0 .. required - position - k
  BY <1>1, GrownBy
<1>3. CASE status = "RUNNING" /\ status' \in {"RUNNING", "COMPLETED"}
  <2>1. Result = "open"
    BY <1>3 DEF Result, Terminal, TerminalExecution
  <2>2. CASE status' = "RUNNING"
    <3>1. Result' = "open"
      BY <2>2 DEF Result, Terminal, TerminalExecution
    <3> QED
      BY <1>2, <2>1, <3>1 DEF Promise!Next, Promise!Place, rest
  <2>3. CASE status' = "COMPLETED"
    <3>1. Tracked'
      BY DEF Account, Tracked
    <3>2. Ended'
      BY <2>3, <3>1 DEF Ended, TerminalExecution
    <3>3. VenueExposure' = 0 /\ position' = required /\ Result' = "full"
      BY <2>3, <3>1, <3>2 DEF Account, Result, Terminal, TerminalExecution
    <3> QED
      BY <1>2, <2>1, <3>3 DEF Promise!Next, Promise!Place, rest
  <2> QED
    BY <1>3, <2>2, <2>3
<1>4. CASE Result = "failing" /\ Result' = "failed"
  BY <1>2, <1>4 DEF Promise!Next, Promise!Place, rest
<1> QED
  BY <1>3, <1>4

\* The operation that failed returns with the order it sends.
LEMMA FailedPlaces ==
  ASSUME Submit, status = "FAILED", status' = "FAILED"
  PROVE  Result = "failing" /\ Result' = "failed"
<1>1. Heading(RunLabels)
  BY DEF Submit, AtDemand, Heading, RunLabels
<1>2. pc' = "idle"
  BY DEF Submit, Goto, Loop
<1>3. ~Heading(RunLabels)'
  BY <1>2 DEF Heading, RunLabels, Calls
<1>4. Terminal /\ Terminal'
  BY DEF Terminal, TerminalExecution
<1>5. Result = "failing"
  BY <1>1, <1>4 DEF Result
<1>6. Result' = "failed"
  BY <1>3, <1>4 DEF Result
<1> QED
  BY <1>5, <1>6

\* A step that trades, places and withdraws nothing can only end the execution.
LEMMA OnlyEnds ==
  ASSUME IInv, IInv', LookupSettles = TRUE, [Next]_vars,
         UNCHANGED position, VenueExposure' = VenueExposure
  PROVE  [Promise!Next]_(Promise!promiseVars)
<1>1. Account /\ Account' /\ UNCHANGED required
  <2>1. Account'
    <3>1. (IInv => Account)'
      BY AccountSound, PTL
    <3> QED
      BY <3>1
  <2> QED
    BY <2>1, AccountSound, RequiredFixed
<1>2. status' \in ExecutionStatus /\ TypeOK /\ StatusSound /\ HeadingSound
  BY DEF IInv, TypeOK, ParentTypes
<1>3. Last' = Last \/ (Submit /\ Last' = Last + 1)
  BY LedgerStep
<1>4. CASE Result' = Result
  BY <1>1, <1>4 DEF Promise!promiseVars
<1>8. CASE Result = "failing" /\ Result' = "failed"
  BY <1>1, <1>8 DEF Promise!Next, Promise!Fail
<1>5. CASE Terminal
  <2>1. status' = status
    BY <1>2, <1>5, TerminalStays
  <2>2. CASE Last' = Last
    BY <1>1, <1>2, <1>4, <1>8, <2>1, <2>2, ResultKept DEF ResultStays
  <2>3. CASE Last' # Last
    <3>1. status = "FAILED" /\ Submit
      BY <1>2, <1>3, <1>5, <2>3, SubmitRuns DEF Stopped, Terminal, TerminalExecution
    <3> QED
      BY <1>8, <2>1, <3>1, FailedPlaces
  <2> QED
    BY <2>2, <2>3
<1>6. CASE ~Terminal /\ Terminal'
  <2>1. Result = "open"
    BY <1>6 DEF Result, Terminal, TerminalExecution
  <2>2. CASE status' = "FAILED"
    <3>1. Result' \in {"failing", "failed"}
      BY <1>6, <2>2 DEF Result
    <3> QED
      BY <1>1, <2>1, <3>1 DEF Promise!Next, Promise!Fail
  <2>3. CASE status' = "COMPLETED" /\ ~Tracked'
    <3>1. Result' = "untradeable"
      BY <1>6, <2>3 DEF Result
    <3>2. Last' = 0
      BY <1>1, <2>3 DEF Tracked, Account
    <3>3. position = 0 /\ VenueExposure = 0
      BY <1>1, <3>2 DEF Account
    <3> QED
      BY <1>1, <2>1, <3>1, <3>3 DEF Promise!Next, Promise!Decline
  <2>4. CASE status' # "FAILED" /\ Tracked'
    <3>1. Ended'
      BY <1>6, <2>4 DEF Ended, Terminal
    <3>2. VenueExposure = 0 /\ position \in Nat /\ required \in Nat
      BY <1>1, <3>1 DEF Account
    <3>3. /\ status' = "COMPLETED" <=> position = required
          /\ status' \in {"EXPIRED", "CANCELLED"} <=> position = 0
      BY <1>1, <3>1 DEF Account
    <3>4. Result' = Promise!Earned(position)
      BY <1>6, <2>4, <3>2, <3>3
         DEF Result, Promise!Earned, Terminal, TerminalExecution
    <3> QED
      BY <1>1, <2>1, <3>2, <3>4 DEF Promise!Next, Promise!Finish
  <2> QED
    BY <2>2, <2>3, <2>4 DEF Tracked
<1>7. CASE ~Terminal /\ ~Terminal'
  BY <1>4, <1>7 DEF Result, Terminal, TerminalExecution
<1> QED
  BY <1>4, <1>5, <1>6, <1>7

\* A working order trades k lots, or closes, or both.
LEMMA OrderTrades ==
  ASSUME IInv, IInv', LookupSettles = TRUE, [Next]_vars,
         NEW i \in 1 .. Last, NEW o \in Order, NEW k \in Nat,
         Working(orders[i]), orders' = [orders EXCEPT ![i] = o],
         o.qty = orders[i].qty, o.filled = orders[i].filled + k, OrderSound(o),
         position' = position + k, Last' = Last, UNCHANGED status
  PROVE  [Promise!Next]_(Promise!promiseVars)
<1>1. Account /\ Account' /\ UNCHANGED required
  <2>1. Account'
    <3>1. (IInv => Account)'
      BY AccountSound, PTL
    <3> QED
      BY <3>1
  <2> QED
    BY <2>1, AccountSound, RequiredFixed
<1>2. LedgerTypes /\ LedgerSound
  BY DEF IInv, TypeOK
<1>3. i = Last /\ Last > 0
  BY <1>1, <1>2 DEF Account, LedgerSound, Settled
<1>4. orders'[Last] = o
  BY <1>2, <1>3, LedgerElements
<1>5. /\ orders[i].qty \in Nat /\ orders[i].filled \in Nat
      /\ VenueExposure = orders[i].qty - orders[i].filled
  BY <1>1, <1>2, <1>3, LedgerElements DEF Account
<1>6. VenueExposure' = IF Working(o) THEN o.qty - o.filled ELSE 0
  BY <1>1, <1>3, <1>4 DEF Account
<1>7. o.filled <= o.qty
  BY DEF OrderSound
<1>8. VenueExposure' <= VenueExposure - k
  <2> DEFINE q == orders[i].qty
             f == orders[i].filled
  <2>1. q \in Nat /\ f \in Nat /\ f + k <= q /\ VenueExposure = q - f
    BY <1>5, <1>7
  <2>2. VenueExposure' \in {0, q - (f + k)}
    BY <1>6
  <2> HIDE DEF q, f
  <2>3. 0 <= (q - f) - k /\ q - (f + k) <= (q - f) - k
    BY <2>1
  <2> QED
    BY <2>1, <2>2, <2>3
<1>9. ResultStays
  BY <1>1, ResultKept DEF IInv
<1> QED
  BY <1>1, <1>8, <1>9, TradesOrWithdraws

\* An order is sent, or cannot be.
LEMMA SubmitPromises ==
  ASSUME IInv, IInv', LookupSettles = TRUE, Submit
  PROVE  [Promise!Next]_(Promise!promiseVars)
<1> DEFINE lost == Refused(Demand)
<1>1. [Next]_vars
  BY DEF Next, Operation
<1>2. Account /\ Account' /\ UNCHANGED required
  <2>1. Account'
    <3>1. (IInv => Account)'
      BY AccountSound, PTL
    <3> QED
      BY <3>1
  <2> QED
    BY <1>1, <2>1, AccountSound, RequiredFixed
<1>3. LedgerTypes /\ LedgerSound /\ LedgerTypes' /\ required \in Nat /\ now \in 0 .. Slices
      /\ HeadingSound
  BY EngineAssumption DEF IInv, TypeOK, ParentTypes, EngineAssumption
<1>4. VenueExposure = 0
  BY <1>3, NothingReserved, SettledLedger DEF Submit, AtDemand
<1>5. CASE SubmitFails
  <2>1. UNCHANGED <<orders, position>>
    BY <1>5 DEF SubmitFails, venueVars
  <2>2. VenueExposure' = VenueExposure
    BY <2>1 DEF VenueExposure
  <2> QED
    BY <1>1, <2>1, <2>2, OnlyEnds
<1>6. CASE SubmitRejected(Demand) \/ SubmitBanned(Demand)
  <2>1. orders' = Append(orders, lost) /\ UNCHANGED position
    BY <1>6 DEF SubmitRejected, SubmitBanned, Joins
  <2>2. lost.state = "absent"
    BY DEF Refused, NewOrder
  <2> HIDE DEF lost
  <2>3. orders'[Last'] = lost
    BY <1>3, <2>1, AppendProperties DEF LedgerTypes, Last
  <2>4. VenueExposure' = 0
    BY <1>2, <2>2, <2>3 DEF Account, Working
  <2> QED
    BY <1>1, <1>4, <2>1, <2>4, OnlyEnds
<1>7. CASE SubmitAccepted(Demand) \/ SubmitTimesOut(Demand) \/ SubmitAborted(Demand)
  <2>1. \/ status = "RUNNING" /\ status' \in {"RUNNING", "COMPLETED"}
        \/ status = "FAILED" /\ status' = "FAILED"
    BY <1>3, <1>7, SubmitRuns DEF Stopped, SubmitAccepted, SubmitTimesOut, SubmitAborted,
       EndAs, Note, Completed, Active
  <2>2. \/ status = "RUNNING" /\ status' \in {"RUNNING", "COMPLETED"}
        \/ Result = "failing" /\ Result' = "failed"
    BY <2>1, FailedPlaces
  <2>3. position <= position'
    <3>1. CASE SubmitAccepted(Demand)
      <4>0. PICK new : \E k \in TakenOnArrival(Demand, new.ioc) : position' = position + k
        BY <3>1 DEF SubmitAccepted
      <4>1. PICK k \in TakenOnArrival(Demand, new.ioc) : position' = position + k
        BY <4>0
      <4>2. Demand \in Nat /\ position \in Nat
        BY <1>2, <1>3, DemandFits DEF Submit, AtDemand, Account
      <4>3. k \in Nat
        BY <4>2 DEF TakenOnArrival
      <4>4. position <= position + k
        BY <4>2, <4>3
      <4> QED
        BY <4>1, <4>4
    <3>2. CASE SubmitTimesOut(Demand) \/ SubmitAborted(Demand)
      <4>1. position' = position /\ position \in Nat
        BY <1>2, <3>2 DEF SubmitTimesOut, SubmitAborted, Account
      <4> QED
        BY <4>1
    <3> QED
      BY <1>7, <3>1, <3>2
  <2>4. Last' > 0
    <3>1. \E c : children' = Append(children, c)
      BY <1>7 DEF SubmitAccepted, SubmitTimesOut, SubmitAborted, Joins
    <3> QED
      BY <1>3, <3>1, LenProperties, AppendProperties DEF LedgerTypes, Last
  <2> QED
    BY <1>2, <1>4, <2>2, <2>3, <2>4, Places
<1> QED
  BY <1>5, <1>6, <1>7 DEF Submit

\* Every step of the engine and of the venue is a step of the promise, or
\* nothing the account can see.
LEMMA PromiseStep ==
  ASSUME IInv, IInv', LookupSettles = TRUE, [Next]_vars
  PROVE  [Promise!Next]_(Promise!promiseVars)
<1>1. LedgerTypes /\ LedgerSound
  BY DEF IInv, TypeOK
<1>2. \A j : j \in DOMAIN children => j \in 1 .. Last
  BY <1>1, LenProperties DEF LedgerTypes, Last
<1>3. ASSUME UNCHANGED <<orders, position>> PROVE [Promise!Next]_(Promise!promiseVars)
  <2>1. VenueExposure' = VenueExposure
    BY <1>3 DEF VenueExposure
  <2> QED
    BY <1>3, <2>1, OnlyEnds
<1>4. ASSUME NEW i \in 1 .. Last, NEW s \in {"cancelled", "absent"}, Working(orders[i]),
             s = "absent" => orders[i].filled = 0,
             orders' = [orders EXCEPT ![i].state = s],
             UNCHANGED <<position, status>>, Last' = Last
      PROVE  [Promise!Next]_(Promise!promiseVars)
  <2> DEFINE o == [orders[i] EXCEPT !.state = s]
  <2>1. orders[i] \in Order /\ OrderSound(orders[i]) /\ orders[i].filled \in Nat /\ position \in Nat
    BY <1>1, LedgerElements DEF LedgerSound, LedgerTypes
  <2>2. o \in Order /\ o.qty = orders[i].qty /\ o.filled = orders[i].filled /\ OrderSound(o)
    BY <1>4, <2>1, ClosedFacts
  <2>3. orders' = [orders EXCEPT ![i] = o]
    BY <1>4
  <2> HIDE DEF o
  <2>4. o.filled = orders[i].filled + 0 /\ position' = position + 0
    BY <1>4, <2>1, <2>2
  <2> QED
    BY <1>4, <2>2, <2>3, <2>4, OrderTrades
<1>5. CASE Lookup
  <2> PICK i \in DOMAIN children :
       \/ LookupFound(i) \/ LookupMissing(i) \/ LookupBanned(i)
       \/ LookupRateLimited(i) \/ CallRaises
    BY <1>5 DEF Lookup
  <2>1. CASE LookupMissing(i) /\ orders[i].state = "inflight"
    <3>1. /\ i \in 1 .. Last /\ Working(orders[i]) /\ orders[i].filled = 0
      BY <1>1, <1>2, <2>1 DEF LedgerSound, OrderSound, Working
    <3>2. /\ orders' = [orders EXCEPT ![i].state = "absent"]
          /\ UNCHANGED <<position, status>>
      BY <2>1 DEF LookupMissing, Note
    <3>3. Last' = Last
      BY <1>5, LedgerStep DEF Lookup, Submit, AtDemand
    <3> QED
      BY <1>4, <3>1, <3>2, <3>3
  <2>2. CASE LookupMissing(i) /\ orders[i].state # "inflight"
    <3>1. orders[i].state = "absent" /\ orders[i] \in Order /\ orders \in Seq(Order)
      BY <1>1, <1>2, <2>2, LedgerElements DEF LookupMissing, OnVenue, OrderState, LedgerTypes
    <3>2. [orders[i] EXCEPT !.state = "absent"] = orders[i]
      BY <3>1 DEF Order
    <3>3. orders' = orders
      BY <2>2, <3>1, <3>2 DEF LookupMissing
    <3> QED
      BY <1>3, <2>2, <3>3 DEF LookupMissing
  <2>3. CASE LookupFound(i) \/ LookupBanned(i) \/ LookupRateLimited(i) \/ CallRaises
    BY <1>3, <2>3 DEF LookupFound, LookupBanned, LookupRateLimited, CallRaises, venueVars
  <2> QED
    BY <2>1, <2>2, <2>3
<1>6. CASE CancelChild
  <2> PICK i \in DOMAIN children :
       /\ pc = "cancel"
       /\ \/ CancelAccepted(i) \/ CancelIgnored(i) \/ CancelTimesOut(i)
          \/ CancelBanned(i) \/ CancelRefused(i) \/ CancelAborted(i)
          \/ CancelRateLimited(i)
    BY <1>6 DEF CancelChild
  <2>1. CASE CancelAccepted(i) /\ orders[i].state = "open"
    <3>1. /\ i \in 1 .. Last /\ Working(orders[i])
      BY <1>2, <2>1 DEF Working
    <3>2. /\ orders' = [orders EXCEPT ![i].state = "cancelled"]
          /\ UNCHANGED <<position, status>>
      BY <2>1 DEF CancelAccepted, parentVars
    <3>3. Last' = Last
      BY LedgerStep DEF Submit, AtDemand
    <3> QED
      BY <1>4, <3>1, <3>2, <3>3
  <2>2. CASE ~(CancelAccepted(i) /\ orders[i].state = "open")
    BY <1>3, <2>2 DEF CancelAccepted, CancelIgnored, CancelTimesOut, CancelBanned,
       CancelRefused, CancelAborted, CancelRateLimited, venueVars
  <2> QED
    BY <2>1, <2>2
<1>7. CASE VenueMoves
  <2>1. CASE Ban \/ Lift
    BY <1>3, <2>1 DEF Ban, Lift
  <2>2. CASE ~(Ban \/ Lift)
    <3> PICK i \in DOMAIN orders : Arrive(i) \/ Fill(i) \/ Expire(i)
      BY <1>7, <2>2 DEF VenueMoves
    <3>1. i \in 1 .. Last /\ orders[i] \in Order /\ OrderSound(orders[i])
          /\ orders[i].qty \in Nat /\ orders[i].filled \in Nat
      <4>1. i \in 1 .. Last
        BY <1>1, LenProperties DEF LedgerTypes, Last
      <4> QED
        BY <1>1, <4>1, LedgerElements DEF LedgerSound
    <3>2. Working(orders[i])
      BY DEF Arrive, Fill, Expire, Working
    <3>3. UNCHANGED status /\ Last' = Last
      BY <1>7 DEF VenueMoves, engineVars, parentVars, ledgerVars, Last
    <3>4. CASE Expire(i)
      BY <1>4, <3>1, <3>2, <3>3, <3>4 DEF Expire
    <3>5. ASSUME NEW k \in Nat, orders[i].filled + k <= orders[i].qty,
                 orders' = [orders EXCEPT ![i] = Traded(@, k)], position' = position + k
          PROVE  [Promise!Next]_(Promise!promiseVars)
      <4> DEFINE o == Traded(orders[i], k)
      <4>1. /\ o \in Order /\ o.qty = orders[i].qty /\ o.filled = orders[i].filled + k
            /\ OrderSound(o)
        BY <3>1, <3>5, TradedFacts
      <4>2. orders' = [orders EXCEPT ![i] = o]
        BY <3>5
      <4> HIDE DEF o
      <4> QED
        BY <3>1, <3>2, <3>3, <3>5, <4>1, <4>2, OrderTrades
    <3>6. CASE Arrive(i)
      <4> PICK k \in TakenOnArrival(orders[i].qty, orders[i].ioc) :
            /\ orders' = [orders EXCEPT ![i] = Traded(@, k)]
            /\ position' = position + k
        BY <3>6 DEF Arrive
      <4>1. orders[i].filled = 0
        BY <3>1, <3>6 DEF Arrive, OrderSound
      <4>2. k \in Nat /\ orders[i].filled + k <= orders[i].qty
        BY <3>1, <4>1 DEF TakenOnArrival
      <4> QED
        BY <3>5, <4>2
    <3>7. CASE Fill(i)
      <4>1. orders[i].filled + 1 <= orders[i].qty
        BY <3>1, <3>7 DEF Fill, OrderSound
      <4> QED
        BY <3>5, <3>7, <4>1 DEF Fill
    <3> QED
      BY <3>4, <3>6, <3>7
  <2> QED
    BY <2>1, <2>2
<1>8. CASE Submit
  BY <1>8, SubmitPromises
<1>9. CASE \/ FinishRefresh \/ ReadOrders \/ ReadTrades \/ ReconcileFails
           \/ CancelHeldBack \/ CancelFinished
  BY <1>3, <1>9 DEF FinishRefresh, ReadOrders, ReadTrades, ReconcileFails, CallRaises,
     CancelHeldBack, CancelFinished, venueVars
<1>10. CASE \/ Settle \/ UnknownRemains \/ TargetReached \/ StreamDegraded \/ Observed
            \/ PassiveCancelled \/ TimedOutCancelled \/ Closing \/ StaleRefreshed
            \/ WaitOrReprice \/ RulesRaise \/ NothingPlaced
  BY <1>3, <1>10 DEF Settle, UnknownRemains, TargetReached, StreamDegraded, Observed,
     PassiveCancelled, TimedOutCancelled, Closing, StaleRefreshed, WaitOrReprice,
     RulesRaise, NothingPlaced, Decision, venueVars
<1>11. CASE Start \/ RunOnce \/ CancelExecution \/ ReconcileExecution \/ UserEvent
  BY <1>3, <1>11 DEF Start, RunOnce, CancelExecution, ReconcileExecution, UserEvent,
     Quiet, venueVars
<1>12. CASE Tick \/ BackoffElapses \/ UNCHANGED vars
  BY <1>3, <1>12 DEF Tick, BackoffElapses, vars, venueVars
<1> QED
  BY <1>5, <1>6, <1>7, <1>8, <1>9, <1>10, <1>11, <1>12 DEF Next, Operation, Environment

\* A new execution has promised, and placed nothing.
LEMMA PromiseInit == Init => Promise!Init
<1> SUFFICES ASSUME Init PROVE Promise!Init
  OBVIOUS
<1>1. Account
  BY InitInv, AccountSound
<1>2. children = <<>> /\ position = 0 /\ status = "CREATED"
  BY DEF Init
<1>3. VenueExposure = 0 /\ required \in Nat
  BY <1>1, <1>2 DEF Account
<1>4. Result = "open"
  BY <1>2 DEF Result, Terminal, TerminalExecution
<1> QED
  BY <1>2, <1>3, <1>4 DEF Promise!Init

\* The engine and the venue together implement ExecutionPromise: whatever is
\* lost, delayed or refused, the account never sees more placed than was asked
\* for, and the result is what has traded.
THEOREM EngineKeepsPromise ==
  ASSUME LookupSettles = TRUE
  PROVE  Spec => KeepsPromise
<1>1. Init => Promise!Init
  BY PromiseInit
<1>2. IInv /\ IInv' /\ [Next]_vars => [Promise!Next]_(Promise!promiseVars)
  BY PromiseStep
<1> QED
  BY <1>1, <1>2, StaysSound, PTL DEF Spec, KeepsPromise, Promise!Spec

=============================================================================
