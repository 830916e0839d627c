--------------------------- MODULE ExecutionEngine ---------------------------
(***************************************************************************)
(* One parent execution under ExecutionEngine: run_once, cancel_execution, *)
(* reconcile_execution and the delivery of user events, against a venue    *)
(* that trades, delays and forgets between any two calls.                  *)
(*                                                                         *)
(* The execution's actor lock serialises the operations but is held across *)
(* every await, so an operation is a sequence of steps.  pc names the next *)
(* one; pc = "idle" means that nobody holds the lock.  A step ends just    *)
(* before the next call to the venue: nothing else sees the state a call   *)
(* leaves behind before its answer is handled, so a request, its effect    *)
(* and the handling of its answer are one action.                          *)
(*                                                                         *)
(* An operator whose name ends in _Slip is what its successor would be     *)
(* with a mistake in the code: no specification uses it, and the property  *)
(* it is listed with in PROJECT.json is violated when it takes the place   *)
(* of the operator it is named after.                                      *)
(***************************************************************************)
EXTENDS Venue, Lifecycle

CONSTANTS
  Targets,      \* Required quantities, in lots.
  Algorithms,   \* Subset of {"CHASE", "TWAP"}.
  Policies,     \* Subset of {"CANCEL_REMAINDER", "AGGRESSIVE_WITHIN_RANGE"}.
  Slices,       \* Slices of the duration; the deadline is the last boundary.
  RejectLimit,  \* max_post_only_reject_retries.
  Actors,       \* Who is active: see Actor.
  MaxChildren,  \* Bound: child orders kept by one execution.
  MaxFaults     \* Bound: failed calls, lost answers and venue-side closes.

\* "run" is the background loop, "cancel" the API, "reconcile" the reconnect
\* and drain loops, "event" the user stream, "abort" the cancellation of the
\* asyncio task that is inside an operation, "ban" a ban by the venue.
Actor == {"run", "cancel", "reconcile", "event", "abort", "ban"}

ASSUME EngineAssumption ==
  /\ Targets \subseteq Nat
  /\ Algorithms \subseteq {"CHASE", "TWAP"}
  /\ Policies \subseteq {"CANCEL_REMAINDER", "AGGRESSIVE_WITHIN_RANGE"}
  /\ Slices \in Nat \ {0}
  /\ RejectLimit \in Nat \ {0}
  /\ Actors \subseteq Actor
  /\ MaxChildren \in Nat
  /\ MaxFaults \in Nat

VARIABLES
  request,    \* [algorithm, policy]
  required,   \* required_quantity
  status,     \* Status of the parent.
  reason,     \* Class of final_reason: see Reason.
  children,   \* child_orders, [qty, filled, status, aggressive] each.
  confirmed,  \* exposure.confirmed_filled_quantity
  buckets,    \* The other four buckets of the exposure.
  rejects,    \* consecutive_retryable_order_rejects
  backoff,    \* rate_limited_until_monotonic: "none", "waiting" or "elapsed".
  now,        \* Completed slices of the duration.
  pc,         \* Next step of the operation that holds the lock.
  cur,        \* Last child the loop at pc has dealt with.
  cont,       \* Step after the loop at pc.
  answer,     \* Order snapshots a reconciliation has read so far.
  faults      \* Faults so far.

parentVars == <<request, required, status, reason>>
ledgerVars == <<children, confirmed, buckets, rejects>>
controlVars == <<pc, cur, cont, answer>>
vars == <<venueVars, parentVars, ledgerVars, controlVars, backoff, now, faults>>

\* "pending": CREATE_TIMEOUT_PENDING_RECONCILIATION.  "rate":
\* RATE_LIMIT_BACKOFF.  "requested": CANCEL_REQUESTED.  "outcome": why the
\* execution ended.  "info": any other notice, or one since taken back.
Reason == {"none", "info", "rate", "pending", "requested", "outcome"}

Child == [qty : Nat, filled : Nat, status : ChildOrderStatus, aggressive : BOOLEAN]

\* Steps that call the venue, and steps that decide what comes next.
\* "cancel_all" is a continuation only: cancel every child, then settle.
Calls == {"refresh", "exact", "cancel", "read_orders", "read_trades"}
Decisions ==
  {"settle", "reconciled", "unknown", "observed", "passive", "timedout",
   "active", "repriced", "stale", "closing", "cancel_all", "idle"}
Label == {"create"} \cup Calls \cup Decisions

\* What reconciliation reads of an order: a sighting, or that it saw none.
Missing == [status |-> "MISSING", filled |-> 0]   \* not on the venue
Omitted == [status |-> "OMITTED", filled |-> 0]   \* closed before the window

(***************************************************************************)
(* Derived state.                                                          *)
(***************************************************************************)
Terminal       == status \in TerminalExecution
Deadline       == now = Slices
TargetFilled   == confirmed >= required
HasReserved    == Reserved(buckets) > 0
OverTarget     == confirmed + Reserved(buckets) > required
Nonterminal(i) == children[i].status \notin TerminalChild

\* An execution that found nothing tradeable keeps no exposure tracker.
Tracked == ~(status = "COMPLETED" /\ children = <<>>)

UsesAggressivePrice ==
  request.policy = "AGGRESSIVE_WITHIN_RANGE" /\ Deadline

AggressiveAttempted ==
  /\ UsesAggressivePrice
  /\ \E i \in DOMAIN children : children[i].aggressive
  /\ ~HasReserved

\* A partly filled child is not cancelled.
Cancellable_Slip(i) ==
  children[i].status = "OPEN" /\ children[i].filled < children[i].qty

Cancellable(i) ==
  children[i].status \in LiveChild /\ children[i].filled < children[i].qty

\* What is being cancelled is not counted.
BucketsOf_Slip(cs) ==
  LET of(S) == Outstanding(cs, {i \in DOMAIN cs : cs[i].status \in S})
  IN  [live    |-> of(LiveChild),
       submit  |-> of({"PENDING_SUBMIT"}),
       cancel  |-> 0,
       unknown |-> of({"UNKNOWN"})]

\* The buckets rebuilt from the children.
BucketsOf(cs) ==
  LET of(S) == Outstanding(cs, {i \in DOMAIN cs : cs[i].status \in S})
  IN  [live    |-> of(LiveChild),
       submit  |-> of({"PENDING_SUBMIT"}),
       cancel  |-> of({"PENDING_CANCEL"}),
       unknown |-> of({"UNKNOWN"})]

(***************************************************************************)
(* Control.  A loop at pc deals with its children in order; cur is the     *)
(* last one dealt with and cont the step that follows the loop.  A cancel  *)
(* loop looks whether the execution is terminal after each child only.     *)
(***************************************************************************)
LoopTargets ==
  {i \in DOMAIN children :
     /\ i > cur
     /\ \/ pc = "refresh" /\ Nonterminal(i)
        \/ pc = "exact" /\ children[i].status = "UNKNOWN"
        \/ /\ pc = "cancel" /\ Cancellable(i)
           /\ cont = "passive" => ~children[i].aggressive
           /\ Terminal => cur = 0 /\ (i = 1 \/ cont \in {"passive", "active"})}

IsNext(i) == i \in LoopTargets /\ \A j \in LoopTargets : i <= j

Loop(label, next) ==
  pc' = label /\ cur' = 0 /\ cont' = next /\ answer' = <<>>
Goto(label) == Loop(label, "idle")
Enter(label) ==
  IF label = "cancel_all" THEN Loop("cancel", "settle") ELSE Goto(label)
Passed(i)  == cur' = i /\ UNCHANGED <<pc, cont, answer>>
SkipRest   == Passed(Len(children))

Fault   == faults < MaxFaults /\ faults' = faults + 1
NoFault == UNCHANGED faults

(***************************************************************************)
(* Ending the execution.  Every one of these leaves a status it may not    *)
(* end alone.                                                              *)
(***************************************************************************)
Active == {"RUNNING", "CANCELLING"}

\* The fills are forgotten.
Unfinished_Slip(nothingFilled) == nothingFilled

Unfinished(nothingFilled) ==
  IF confirmed > 0 THEN "PARTIALLY_COMPLETED" ELSE nothingFilled

Completed == IF status \in Active THEN "COMPLETED" ELSE status
\* A finished execution is failed as well.
Failed_Slip == "FAILED"

Failed    == IF status \in Active THEN "FAILED" ELSE status
Expired   == IF status = "RUNNING" THEN Unfinished("EXPIRED") ELSE status
\* Quantity that may still fill is not waited for.
AtDeadline_Slip == Expired

AtDeadline == IF HasReserved THEN status ELSE Expired

\* A manual cancel that is done reports the notice it finds, if there is one.
CancelReason(r) == IF r = "none" THEN "requested" ELSE r

EndAs(s) ==
  /\ status' = s
  /\ reason' = IF s # status THEN "outcome" ELSE reason

Note(r) == reason' = r /\ UNCHANGED status

RateLimited == backoff' = "waiting" /\ Note("rate")

\* _rate_limit_backoff_blocks, when it does not block.
BackoffOver ==
  /\ backoff # "waiting"
  /\ backoff' = "none"
  /\ reason' = IF backoff = "elapsed" /\ reason = "rate" THEN "none" ELSE reason

BackoffBlocks == backoff = "waiting" /\ reason' = "rate" /\ UNCHANGED backoff

(***************************************************************************)
(* Learning about a child.                                                 *)
(***************************************************************************)
\* An old report takes fills back.
Seen_Slip(c, s) ==
  [c EXCEPT !.status = SetChildStatus(@, s.status), !.filled = s.filled]

Seen(c, s) ==
  [c EXCEPT !.status = SetChildStatus(@, s.status),
            !.filled = Larger(@, s.filled)]

\* An unknown create that turns out to have been accepted ends a run of
\* post-only rejects.
ResetsRejects(old, new) ==
  /\ old.status = "UNKNOWN"
  /\ \/ new.status \in LiveChild \cup {"FILLED"}
     \/ new.status = "CANCELLED" /\ new.filled > 0

\* A cumulative report is taken for a new fill.
Learn_Slip(i, s) ==
  LET c == Seen(children[i], s)
  IN  /\ children' = [children EXCEPT ![i] = c]
      /\ confirmed' = confirmed + s.filled
      /\ rejects' = IF ResetsRejects(children[i], c) THEN 0 ELSE rejects

Learn(i, s) ==
  LET c == Seen(children[i], s)
  IN  /\ children' = [children EXCEPT ![i] = c]
      /\ confirmed' = confirmed + (c.filled - children[i].filled)
      /\ rejects' = IF ResetsRejects(children[i], c) THEN 0 ELSE rejects

(***************************************************************************)
(* Exact lookups of children: refresh_order_states_exact looks up every    *)
(* non-terminal child, reconcile_unknown_children_exact every unknown one. *)
(* Both end in FinishRefresh.                                              *)
(***************************************************************************)
LookupFound(i) ==
  /\ ~banned /\ OnVenue(orders[i])
  /\ Learn(i, Sighting(orders[i]))
  /\ Passed(i) /\ NoFault
  /\ UNCHANGED <<venueVars, parentVars, buckets, backoff>>

\* An unanswered create stays unknown until it is found.
LookupMissing_Slip(i) ==
  /\ ~banned /\ ~OnVenue(orders[i])
  /\ orders' = IF LookupSettles THEN [orders EXCEPT ![i].state = "absent"]
               ELSE orders
  /\ Passed(i) /\ NoFault
  /\ UNCHANGED <<position, banned, parentVars, ledgerVars, backoff>>

LookupMissing(i) ==
  /\ ~banned /\ ~OnVenue(orders[i])
  /\ IF children[i].status = "UNKNOWN"
     THEN /\ children' = [children EXCEPT ![i].status = "REJECTED"]
          /\ Note("info")
     ELSE UNCHANGED <<children, status, reason>>
  /\ orders' = IF LookupSettles THEN [orders EXCEPT ![i].state = "absent"]
               ELSE orders
  /\ Passed(i) /\ NoFault
  /\ UNCHANGED <<position, banned, request, required, confirmed, buckets,
                 rejects, backoff>>

\* A refresh that meets a ban returns without refreshing the buckets, and
\* its caller goes on.  The exposure assertion may raise on the way out.
LookupBanned(i) ==
  /\ banned
  /\ EndAs(Failed)
  /\ CASE OverTarget                       -> Goto("idle")
       [] ~OverTarget /\ pc = "refresh"    -> Enter(cont)
       [] ~OverTarget /\ pc # "refresh"    -> SkipRest
  /\ NoFault
  /\ UNCHANGED <<venueVars, request, required, ledgerVars, backoff>>

LookupRateLimited(i) ==
  /\ ~banned /\ Fault
  /\ RateLimited
  /\ SkipRest
  /\ UNCHANGED <<venueVars, request, required, ledgerVars>>

\* Any other exception leaves the operation.
CallRaises ==
  /\ ~banned /\ Fault
  /\ Goto("idle")
  /\ UNCHANGED <<venueVars, parentVars, ledgerVars, backoff>>

Lookup ==
  \E i \in DOMAIN children :
    /\ pc \in {"refresh", "exact"} /\ IsNext(i)
    /\ \/ LookupFound(i) \/ LookupMissing(i) \/ LookupBanned(i)
       \/ LookupRateLimited(i) \/ CallRaises
    /\ UNCHANGED now

\* Rebuild the buckets; the assertion that follows raises when the total
\* exceeds the target.
FinishRefresh ==
  /\ pc \in {"refresh", "exact"} /\ LoopTargets = {}
  /\ buckets' = BucketsOf(children)
  /\ IF confirmed + Reserved(buckets') > required
     THEN Goto("idle") /\ UNCHANGED reason
     ELSE /\ Enter(cont)
          /\ reason' = IF buckets'.unknown = 0 /\ reason = "pending" THEN "info"
                       ELSE reason
  /\ NoFault
  /\ UNCHANGED <<venueVars, request, required, status, children, confirmed,
                 rejects, backoff, now>>

(***************************************************************************)
(* Broad reconciliation: the orders are read first, the trades afterwards, *)
(* so the trades may be newer than the orders.                             *)
(***************************************************************************)
OrderRead(i, windowed) ==
  IF ~OnVenue(orders[i]) THEN Missing
  ELSE IF windowed /\ orders[i].state # "open" THEN Omitted
  ELSE Sighting(orders[i])

ReadOrders ==
  /\ pc = "read_orders" /\ ~banned
  /\ \E windowed \in {FALSE, cont = "reconciled"} :
       answer' = [i \in DOMAIN children |-> OrderRead(i, windowed)]
  /\ pc' = "read_trades" /\ UNCHANGED <<cur, cont>>
  /\ NoFault
  /\ UNCHANGED <<venueVars, parentVars, ledgerVars, backoff, now>>

\* The child after the snapshot and the trades read have been applied.
Reconciled(i) ==
  LET s == answer[i]
      c == children[i]
  IN  CASE s = Omitted -> c
        [] s = Missing -> [c EXCEPT !.filled = Larger(@, orders[i].filled)]
        [] OTHER       -> Seen(c, [s EXCEPT !.filled = orders[i].filled])

ReadTrades ==
  /\ pc = "read_trades" /\ ~banned
  /\ children' = [i \in DOMAIN children |-> Reconciled(i)]
  /\ confirmed' = confirmed +
       LotsBetween(DOMAIN children, [i \in DOMAIN children |-> children[i].filled],
                                    [i \in DOMAIN children |-> Reconciled(i).filled])
  /\ rejects' = IF \E i \in DOMAIN children :
                      ResetsRejects(children[i], Reconciled(i))
                THEN 0 ELSE rejects
  /\ Loop("exact", cont) /\ NoFault
  /\ UNCHANGED <<venueVars, parentVars, buckets, backoff, now>>

\* A reconciliation that meets a ban or a rate limit returns as if it had
\* been done.
ReconcileFails ==
  /\ pc \in {"read_orders", "read_trades"}
  /\ \/ /\ banned
        /\ EndAs(Failed) /\ NoFault
        /\ IF OverTarget THEN Goto("idle") ELSE Enter(cont)
        /\ UNCHANGED <<venueVars, request, required, ledgerVars, backoff>>
     \/ /\ ~banned /\ Fault
        /\ RateLimited
        /\ Enter(cont)
        /\ UNCHANGED <<venueVars, request, required, ledgerVars>>
     \/ CallRaises
  /\ UNCHANGED now

(***************************************************************************)
(* Cancelling children.  The loop stops when the execution has failed; a   *)
(* pass over timed-out children counts as "timedout" once a request of it  *)
(* was answered or is pending.                                             *)
(***************************************************************************)
Remaining(i) == children[i].qty - children[i].filled

\* The buckets once the quantity marked for the cancel is released again.
Freed(i) == ReleasePendingCancel(MarkPendingCancel(buckets, Remaining(i)), Remaining(i))

CancelRequested(i) ==
  /\ buckets' = MarkPendingCancel(buckets, Remaining(i))
  /\ children' = [children EXCEPT ![i].status = "PENDING_CANCEL"]
  /\ UNCHANGED <<confirmed, rejects>>

\* Where the loop goes on after a request that counted.
CancelCounted(i) ==
  /\ cur' = i
  /\ cont' = IF cont = "active" THEN "timedout" ELSE cont
  /\ UNCHANGED <<pc, answer>>

\* The buckets after an answer that shows the child as c.
Answered(i, c) ==
  IF c.status \in LiveChild THEN ReserveLiveOpen(Freed(i), c.qty - c.filled) ELSE Freed(i)

\* What filled during the cancel is not added to the parent.
CancelAnswered_Slip(i) ==
  LET c == Seen([children[i] EXCEPT !.status = "PENDING_CANCEL"], Sighting(orders'[i]))
  IN  /\ children' = [children EXCEPT ![i] = c]
      /\ buckets' = Answered(i, c)
      /\ CancelCounted(i)
      /\ UNCHANGED <<confirmed, rejects>>

\* The child the engine keeps, and the buckets, after an answer of the venue.
\* A total above the target raises, and what is still open is not reserved.
CancelAnswered(i) ==
  LET c == Seen([children[i] EXCEPT !.status = "PENDING_CANCEL"], Sighting(orders'[i]))
  IN  /\ children' = [children EXCEPT ![i] = c]
      /\ confirmed' = confirmed + (c.filled - children[i].filled)
      /\ IF confirmed' + Reserved(Answered(i, c)) <= required
         THEN buckets' = Answered(i, c) /\ CancelCounted(i)
         ELSE buckets' = Freed(i) /\ Goto("idle")
      /\ UNCHANGED rejects

\* The answer is the order, cancelled, or as it was when it had closed.
CancelAccepted(i) ==
  /\ ~banned /\ OnVenue(orders[i])
  /\ orders' = IF orders[i].state = "open"
               THEN [orders EXCEPT ![i].state = "cancelled"] ELSE orders
  /\ CancelAnswered(i) /\ NoFault
  /\ UNCHANGED <<position, banned, parentVars>>

\* The venue answers with the order still on the book.
CancelIgnored(i) ==
  /\ ~banned /\ Fault /\ orders[i].state = "open"
  /\ UNCHANGED venueVars
  /\ CancelAnswered(i)
  /\ UNCHANGED parentVars

\* A cancel without an answer counts as done.
CancelTimesOut_Slip(i) ==
  /\ ~banned /\ Fault
  /\ children' = [children EXCEPT ![i].status = "CANCELLED"]
  /\ buckets' = Freed(i)
  /\ CancelCounted(i)
  /\ UNCHANGED <<venueVars, parentVars, confirmed, rejects>>

\* The answer is lost; if the request was not, the venue closes the order
\* later (Expire).
CancelTimesOut(i) ==
  /\ ~banned /\ Fault
  /\ CancelRequested(i)
  /\ CancelCounted(i)
  /\ UNCHANGED <<venueVars, parentVars>>

\* After a request the venue refuses the remaining quantity is reserved as
\* live again.  That raises when it does not fit the target, and leaves the
\* child pending; otherwise the child is as before.
TakesBack(i) == confirmed + Reserved(Freed(i)) + Remaining(i) <= required

CancelUndone(i) ==
  /\ IF TakesBack(i)
     THEN buckets' = ReserveLiveOpen(Freed(i), Remaining(i)) /\ UNCHANGED children
     ELSE /\ buckets' = Freed(i)
          /\ children' = [children EXCEPT ![i].status = "PENDING_CANCEL"]
  /\ UNCHANGED <<confirmed, rejects>>

\* On a ban the loop stops; the caller returns, except the Chase reprice.
CancelBanned(i) ==
  /\ banned
  /\ CancelUndone(i) /\ NoFault
  /\ EndAs(IF TakesBack(i) THEN Failed ELSE status)
  /\ IF TakesBack(i) /\ cont = "repriced" THEN Loop("refresh", cont) ELSE Goto("idle")
  /\ UNCHANGED <<venueVars, request, required>>

\* The order had closed, or any other error: the request does not count.
CancelRefused(i) ==
  /\ ~banned
  /\ \/ orders[i].state # "open" /\ NoFault
     \/ orders[i].state = "open" /\ Fault
  /\ CancelUndone(i)
  /\ IF TakesBack(i) THEN Passed(i) ELSE Goto("idle")
  /\ UNCHANGED <<venueVars, parentVars>>

CancelRateLimited(i) ==
  /\ ~banned /\ Fault
  /\ CancelUndone(i)
  /\ IF TakesBack(i)
     THEN RateLimited /\ CancelCounted(i)
     ELSE UNCHANGED <<status, reason, backoff>> /\ Goto("idle")
  /\ UNCHANGED <<venueVars, request, required>>

\* The asyncio task is cancelled while it waits for the answer.
CancelAborted(i) ==
  /\ "abort" \in Actors /\ Fault
  /\ CancelRequested(i)
  /\ Goto("idle")
  /\ UNCHANGED <<venueVars, parentVars>>

CancelChild ==
  \E i \in DOMAIN children :
    /\ pc = "cancel" /\ IsNext(i) /\ backoff = "none"
    /\ \/ /\ \/ CancelAccepted(i) \/ CancelIgnored(i) \/ CancelTimesOut(i)
             \/ CancelBanned(i) \/ CancelRefused(i) \/ CancelAborted(i)
          /\ UNCHANGED backoff
       \/ CancelRateLimited(i)
    /\ UNCHANGED now

\* Nothing is sent during a backoff; one that is over is cleared first.
CancelHeldBack ==
  /\ pc = "cancel" /\ LoopTargets # {}
  /\ \/ BackoffBlocks /\ SkipRest
     \/ backoff = "elapsed" /\ BackoffOver /\ UNCHANGED controlVars
  /\ NoFault
  /\ UNCHANGED <<venueVars, request, required, status, ledgerVars, now>>

CancelFinished ==
  /\ pc = "cancel" /\ LoopTargets = {}
  /\ CASE cont = "active"                                  -> Goto("active")
       [] Terminal /\ cont \notin {"active", "repriced"}    -> Goto("idle")
       [] cont = "settle" /\ ~Terminal                     -> Loop("read_orders", "settle")
       [] OTHER                                            -> Loop("refresh", cont)
  /\ NoFault
  /\ UNCHANGED <<venueVars, parentVars, ledgerVars, backoff, now>>

(***************************************************************************)
(* The decisions of run_once, cancel_execution and reconcile_execution.    *)
(* They make no call: one step each, on the state of the record, the       *)
(* health of the user stream and the market.                               *)
(***************************************************************************)
Decision ==
  NoFault /\ UNCHANGED <<venueVars, request, required, ledgerVars, backoff, now>>

\* The end of an operation on an execution that may be CANCELLING.
Settle ==
  /\ pc \in {"settle", "reconciled"} /\ Decision
  /\ IF status = "CANCELLING" /\ ~TargetFilled /\ ~HasReserved
     THEN status' = Unfinished("CANCELLED") /\ reason' = CancelReason(reason)
     ELSE EndAs(IF TargetFilled THEN Completed ELSE status)
  /\ Goto("idle")

\* With an unknown create nothing else is tried.
UnknownRemains ==
  /\ pc = "unknown" /\ Decision
  /\ Note(IF buckets.unknown > 0 /\ Deadline THEN "pending" ELSE reason)
  /\ Goto("idle")

\* Complete at the labels where run_once tests the target.
TargetReached ==
  /\ pc \in {"observed", "passive", "timedout", "closing"} /\ Decision
  /\ TargetFilled
  /\ EndAs(Completed)
  /\ Goto("idle")

\* The target is open and the user stream is not healthy.
StreamDegraded ==
  /\ pc = "observed" /\ Decision
  /\ ~TargetFilled
  /\ Note("info")
  /\ IF Deadline THEN Loop("cancel", "closing") ELSE Goto("idle")

\* Cancel the children that have rested too long, if there are any, and go on.
CancelTimedOut ==
  \/ Goto("active")
  \/ (\E i \in DOMAIN children : Cancellable(i)) /\ Loop("cancel", "active")

CancelsRemainder == request.policy = "CANCEL_REMAINDER" /\ Deadline

\* The target is open and the user stream is healthy.
Observed ==
  /\ pc = "observed" /\ Decision
  /\ ~TargetFilled
  /\ CASE AggressiveAttempted -> EndAs(AtDeadline) /\ Goto("idle")
       [] CancelsRemainder /\ (HasReserved \/ children # <<>>) ->
            Loop("cancel", "closing") /\ Note(reason)
       [] CancelsRemainder /\ ~HasReserved /\ children = <<>> ->
            EndAs(AtDeadline) /\ Goto("idle")
       [] OTHER ->
            /\ Note(reason)
            /\ IF UsesAggressivePrice
                  /\ \E i \in DOMAIN children :
                       children[i].status \in LiveChild /\ ~children[i].aggressive
               THEN Loop("cancel", "passive")
               ELSE CancelTimedOut

\* The passive children were cancelled for an aggressive attempt.
PassiveCancelled ==
  /\ pc = "passive" /\ Decision /\ ~TargetFilled
  /\ Note(reason)
  /\ CancelTimedOut

TimedOutCancelled ==
  /\ pc = "timedout" /\ Decision /\ ~TargetFilled
  /\ IF AggressiveAttempted THEN EndAs(AtDeadline) /\ Goto("idle")
     ELSE Note(reason) /\ Goto("active")

\* Everything was cancelled to end the execution.
Closing ==
  /\ pc = "closing" /\ Decision /\ ~TargetFilled
  /\ EndAs(AtDeadline)
  /\ Goto("idle")

\* Without fresh market data nothing is placed; at the deadline the
\* execution is closed.
StaleRefreshed ==
  /\ pc = "stale" /\ Decision
  /\ Note(reason)
  /\ IF Deadline THEN Loop("cancel", "closing") ELSE Goto("idle")

\* Something is reserved: Chase may replace its live child, TWAP waits.
WaitOrReprice ==
  /\ pc \in {"active", "repriced"} /\ HasReserved /\ Decision
  /\ \/ Note(reason) /\ Goto("idle")
     \/ /\ pc = "active" /\ request.algorithm = "CHASE"
        /\ \E i \in DOMAIN children : children[i].status \in LiveChild
        /\ \/ Note(reason) /\ Loop("cancel", "repriced")
           \/ Note("info") /\ Loop("refresh", "stale")

\* The symbol rules cannot be read: the exception leaves run_once.
RulesRaise ==
  /\ pc \in {"active", "repriced"} /\ Fault
  /\ \/ ~HasReserved
     \/ /\ pc = "active" /\ request.algorithm = "CHASE"
        /\ \E i \in DOMAIN children : children[i].status \in LiveChild
  /\ Goto("idle")
  /\ UNCHANGED <<venueVars, parentVars, ledgerVars, backoff, now>>

(***************************************************************************)
(* Demand: how much the algorithm wants now, and what may hold it back.    *)
(***************************************************************************)
\* TWAP: the schedule at the last slice boundary, less what is filled or
\* reserved.  Chase: everything the target leaves.
Demand ==
  IF request.algorithm = "TWAP"
  THEN SubtractFloorZero(required * now, (confirmed + Reserved(buckets)) * Slices)
         \div Slices
  ELSE AvailableToSubmit(required, confirmed, buckets)

AtDemand == pc \in {"active", "repriced"} /\ ~HasReserved

NothingPlaced ==
  /\ AtDemand /\ Decision
  /\ \/ Note("info") /\ Loop("refresh", "stale")              \* no fresh market
     \/ Demand = 0 /\ Note(reason) /\ Goto("idle")
     \/ /\ Demand > 0 /\ Goto("idle")
        /\ \/ ~Deadline /\ Note("info")                       \* price or shape
           \/ ~UsesAggressivePrice /\ rejects > 0 /\ Note("info")  \* reject gate
           \/ Deadline /\ EndAs(AtDeadline)                   \* shape, at the end
           \/ status' = Expired /\ reason' = "outcome"        \* never valid

(***************************************************************************)
(* Submitting a child of q lots.                                           *)
(***************************************************************************)
\* The child joins the ledger with the order's fate on the venue.
Joins(q, st, filled, o) ==
  /\ children' = Append(children, [qty |-> q, filled |-> filled, status |-> st,
                                   aggressive |-> UsesAggressivePrice])
  /\ orders' = Append(orders, o)

\* The fate of an order the venue did not take.
Refused(q) == [NewOrder(q, UsesAggressivePrice) EXCEPT !.state = "absent"]

\* The child's remaining quantity is reserved while it is open.
SubmitAccepted(q) ==
  /\ ~banned
  /\ \E new \in NewOrders(q, UsesAggressivePrice) : \E k \in TakenOnArrival(q, new.ioc) :
       LET o == Traded(new, k) IN
       /\ Joins(q, SetChildStatus("PENDING_SUBMIT", StatusOf(o)), k, o)
       /\ position' = position + k
       /\ confirmed' = confirmed + k
       /\ buckets' = IF StatusOf(o) \in LiveChild
                     THEN ReserveLiveOpen(buckets, q - k) ELSE buckets
  /\ rejects' = 0
  /\ EndAs(IF confirmed' >= required THEN Completed ELSE status)
  /\ NoFault /\ UNCHANGED <<banned, backoff>>

\* A create without an answer is not reserved.
SubmitTimesOut_Slip(q) ==
  /\ ~banned /\ Fault
  /\ \E new \in NewOrders(q, UsesAggressivePrice) : Joins(q, "UNKNOWN", 0, new)
  /\ Note("pending")
  /\ UNCHANGED <<position, banned, confirmed, buckets, rejects, backoff>>

\* No answer: the order may be lost, on its way or on the book.
SubmitTimesOut(q) ==
  /\ ~banned /\ Fault
  /\ \E new \in NewOrders(q, UsesAggressivePrice) : Joins(q, "UNKNOWN", 0, new)
  /\ buckets' = ReserveUnknown(buckets, q)
  /\ Note("pending")
  /\ UNCHANGED <<position, banned, confirmed, rejects, backoff>>

\* A post-only reject may be retried up to the limit; any other ends the
\* execution.
SubmitRejected(q) ==
  /\ ~banned
  /\ Joins(q, "REJECTED", 0, Refused(q))
  /\ \/ /\ ~UsesAggressivePrice
        /\ rejects' = rejects + 1
        /\ EndAs(IF rejects' >= RejectLimit THEN AtDeadline ELSE status)
     \/ EndAs(Failed) /\ UNCHANGED rejects
  /\ NoFault
  /\ UNCHANGED <<position, banned, confirmed, buckets, backoff>>

SubmitBanned(q) ==
  /\ banned
  /\ Joins(q, "REJECTED", 0, Refused(q))
  /\ EndAs(Failed) /\ NoFault
  /\ UNCHANGED <<position, banned, confirmed, buckets, rejects, backoff>>

\* The child is removed again: a rate limit backs off, any other error raises.
SubmitFails ==
  /\ ~banned /\ Fault
  /\ RateLimited \/ UNCHANGED <<status, reason, backoff>>
  /\ UNCHANGED <<venueVars, ledgerVars>>

\* The asyncio task is cancelled while it waits for the answer.
SubmitAborted(q) ==
  /\ "abort" \in Actors /\ ~banned /\ Fault
  /\ \E new \in NewOrders(q, UsesAggressivePrice) : Joins(q, "PENDING_SUBMIT", 0, new)
  /\ buckets' = ReservePendingSubmit(buckets, q)
  /\ UNCHANGED <<position, banned, confirmed, rejects, status, reason, backoff>>

Submit ==
  /\ AtDemand /\ Demand > 0
  /\ \/ /\ Len(children) < MaxChildren
        /\ \/ SubmitAccepted(Demand) \/ SubmitTimesOut(Demand)
           \/ SubmitRejected(Demand) \/ SubmitBanned(Demand)
           \/ SubmitAborted(Demand)
     \/ SubmitFails
  /\ Goto("idle")
  /\ UNCHANGED <<request, required, now>>

(***************************************************************************)
(* The operations, as their callers start them.                            *)
(***************************************************************************)
Quiet == UNCHANGED <<venueVars, request, required, ledgerVars, now, faults>>

\* create_execution, up to RUNNING or to a target with nothing to trade.
Start ==
  /\ pc = "create"
  /\ \/ required > 0 /\ status' = "RUNNING" /\ UNCHANGED reason
     \/ EndAs("COMPLETED")
  /\ Goto("idle") /\ UNCHANGED backoff /\ Quiet

RunOnce ==
  /\ "run" \in Actors /\ pc = "idle" /\ ~Terminal
  /\ \/ BackoffBlocks /\ UNCHANGED controlVars
     \/ /\ BackoffOver
        /\ Loop("refresh", CASE status = "CANCELLING" -> "settle"
                             [] status # "CANCELLING" /\ buckets.unknown > 0 -> "unknown"
                             [] OTHER -> "observed")
  /\ UNCHANGED status /\ Quiet

CancelExecution ==
  /\ "cancel" \in Actors /\ pc = "idle" /\ ~Terminal
  /\ status' = "CANCELLING"
  /\ \/ BackoffBlocks /\ UNCHANGED controlVars
     \/ /\ backoff # "waiting" /\ backoff' = "none"
        /\ reason' = CASE status = "RUNNING" -> "requested"
                       [] status = "CANCELLING" /\ backoff = "elapsed"
                            /\ reason = "rate" -> "none"
                       [] OTHER -> reason
        /\ Loop("read_orders", "cancel_all")
  /\ Quiet

ReconcileExecution ==
  /\ "reconcile" \in Actors /\ pc = "idle"
  /\ \/ BackoffBlocks /\ UNCHANGED controlVars
     \/ /\ BackoffOver
        /\ IF Tracked THEN Loop("read_orders", "reconciled")
           ELSE UNCHANGED controlVars
  /\ UNCHANGED status /\ Quiet

\* The status after an event, given the ledger after it.  An exposure over
\* the target raises instead.
EventStatus(filled, b) ==
  IF status \notin Active \/ filled + Reserved(b) > required THEN status
  ELSE CASE filled >= required -> "COMPLETED"
         [] status = "CANCELLING" /\ filled < required /\ Reserved(b) = 0 ->
              IF filled > 0 THEN "PARTIALLY_COMPLETED" ELSE "CANCELLED"
         [] OTHER -> status

\* apply_reconciliation_result with one report of one order.
UserEvent ==
  /\ "event" \in Actors /\ pc = "idle"
  /\ \E i \in DOMAIN children : \E s \in Sightings(orders[i]) :
       /\ Learn(i, s)
       /\ buckets' = BucketsOf(children')
       /\ status' = EventStatus(confirmed', buckets')
       /\ LET r == IF reason = "pending" /\ buckets'.unknown = 0
                  THEN "info" ELSE reason
          IN  reason' = IF status' = status THEN r
                        ELSE IF status' = "COMPLETED" THEN "outcome"
                        ELSE CancelReason(r)
  /\ UNCHANGED <<venueVars, request, required, controlVars, backoff, now, faults>>

(***************************************************************************)
(* Time and the venue.                                                     *)
(***************************************************************************)
engineVars == <<parentVars, ledgerVars, controlVars>>

Tick ==
  /\ now < Slices /\ ~Terminal /\ pc # "create"
  /\ now' = now + 1
  /\ UNCHANGED <<venueVars, engineVars, backoff, faults>>

\* A cancel loop that finds the backoff running calls nothing, so no time
\* passes before it is over.
BackoffElapses ==
  /\ backoff = "waiting" /\ pc # "cancel"
  /\ backoff' = "elapsed"
  /\ UNCHANGED <<venueVars, engineVars, now, faults>>

VenueMoves ==
  /\ \/ (\E i \in DOMAIN orders : Arrive(i) \/ Fill(i)) /\ NoFault
     \/ (\E i \in DOMAIN orders : Expire(i)) /\ Fault
     \/ "ban" \in Actors /\ Ban /\ Fault
     \/ Lift /\ NoFault
  /\ UNCHANGED <<engineVars, backoff, now>>

(***************************************************************************)
(* The specification.                                                      *)
(***************************************************************************)
Init ==
  /\ orders = <<>> /\ position = 0 /\ banned = FALSE
  /\ request \in [algorithm : Algorithms, policy : Policies]
  /\ required \in Targets
  /\ status = "CREATED" /\ reason = "none"
  /\ children = <<>> /\ confirmed = 0 /\ buckets = NoExposure /\ rejects = 0
  /\ backoff = "none" /\ now = 0 /\ faults = 0
  /\ pc = "create" /\ cur = 0 /\ cont = "idle" /\ answer = <<>>

\* The steps of the operation that holds the lock.
Operation ==
  \/ Lookup \/ FinishRefresh
  \/ ReadOrders \/ ReadTrades \/ ReconcileFails
  \/ CancelChild \/ CancelHeldBack \/ CancelFinished
  \/ Settle \/ UnknownRemains \/ TargetReached \/ StreamDegraded \/ Observed
  \/ PassiveCancelled \/ TimedOutCancelled \/ Closing \/ StaleRefreshed
  \/ WaitOrReprice \/ RulesRaise \/ NothingPlaced \/ Submit

Environment == Tick \/ BackoffElapses \/ VenueMoves

Next ==
  \/ Start \/ RunOnce \/ CancelExecution \/ ReconcileExecution \/ UserEvent
  \/ Operation
  \/ Environment

Spec == Init /\ [][Next]_vars

\* The background loop calls run_once over and over, the lock is granted in
\* the order it was asked for, and every call to the venue ends; the clock
\* advances, so that a child that rests has one day rested too long.  The venue owes
\* us nothing.
TimesOut == Operation /\ pc # "cancel" /\ pc' = "cancel" /\ cont' = "active"

Fairness ==
  /\ WF_vars(Start)
  /\ SF_vars(RunOnce)
  /\ WF_vars(Operation)
  /\ SF_vars(TimesOut)
  /\ WF_vars(Tick)
  /\ WF_vars(BackoffElapses)

FairSpec == Spec /\ Fairness

=============================================================================
