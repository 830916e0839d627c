-------------------------- MODULE EngineProperties --------------------------
(***************************************************************************)
(* What must hold of an execution.  The venue's side (orders, position) is *)
(* the truth the engine cannot see; most properties relate it to what the  *)
(* engine believes (children, confirmed, buckets, status).                 *)
(***************************************************************************)
EXTENDS ExecutionEngine

(***************************************************************************)
(* Types, and the shape of the ledger: one order per child.                *)
(***************************************************************************)
Reading == [status : ChildOrderStatus \cup {"MISSING", "OMITTED"}, filled : Nat]

LedgerTypes ==
  /\ orders \in Seq(Order) /\ position \in Nat
  /\ children \in Seq(Child) /\ Len(children) = Len(orders)
  /\ confirmed \in Nat /\ buckets \in Buckets

ParentTypes ==
  /\ request \in [algorithm : Algorithms, policy : Policies]
  /\ required \in Targets
  /\ status \in ExecutionStatus /\ reason \in Reason
  /\ rejects \in Nat /\ backoff \in {"none", "waiting", "elapsed"}
  /\ now \in 0 .. Slices /\ faults \in 0 .. MaxFaults /\ banned \in BOOLEAN

ControlTypes ==
  /\ pc \in Label /\ cont \in Decisions /\ cur \in 0 .. Len(children)
  /\ answer \in Seq(Reading)

\* Every variable keeps its type, and the ledger of children runs parallel to
\* the orders sent (a child removed after a failed submit leaves no trace).
TypeOK == LedgerTypes /\ ParentTypes /\ ControlTypes

(***************************************************************************)
(* Safety.                                                                 *)
(***************************************************************************)
\* Whatever fills, cancels and late answers do, the lots traded and the lots
\* that can still trade never exceed the required quantity.
NoOverfill == position + VenueExposure <= required

\* What the engine has confirmed or reserved covers what the venue has
\* traded or may still trade: no bucket is released too early.
ReservedCoversVenue ==
  position + VenueExposure <= confirmed + Reserved(buckets)

\* The decisions of run_once.
RunLabels ==
  {"unknown", "observed", "passive", "timedout", "active", "repriced", "stale",
   "closing"}

\* The next decision of the operation under way is one of labels.
Heading(labels) == pc \in labels \/ (pc \in Calls /\ cont \in labels)

\* cancel_execution, rate limited while it read the orders, goes on to its cancel
\* loop with the buckets of an earlier operation; the backoff then keeps the
\* loop from sending anything.
OnlyPasses == pc = "cancel" /\ cont = "settle" /\ backoff = "waiting"

\* The exposure stays within the target: when the buckets are rebuilt from
\* the children, and wherever the engine places or cancels an order, so neither
\* _assert_exposure_invariant_locked nor a reservation can raise there.
WithinTarget ==
  /\ confirmed + Reserved(BucketsOf(children)) <= required
  /\ pc \in RunLabels \cup {"cancel"} /\ ~OnlyPasses => ~OverTarget

\* Each lot the children have filled is confirmed once.
Counted ==
  confirmed = LotsBetween(DOMAIN children, [i \in DOMAIN children |-> 0],
                          [i \in DOMAIN children |-> children[i].filled])

\* The parent's confirmed quantity is what its children have filled, each lot
\* counted once however often and in whatever order it was reported, and only
\* lots that really traded.
LedgerAgrees ==
  /\ Counted
  /\ \A i \in DOMAIN children : children[i].filled <= orders[i].filled

\* An execution that ends without failing leaves no order behind, has missed
\* no fill, and ends with the status its fills have earned.
CleanEnd ==
  status \in TerminalExecution \ {"FAILED"} /\ Tracked =>
    /\ VenueExposure = 0
    /\ confirmed = position
    /\ status = "COMPLETED" <=> position = required
    /\ status \in {"EXPIRED", "CANCELLED"} <=> position = 0

(***************************************************************************)
(* Steps.                                                                  *)
(***************************************************************************)
\* The parent only makes moves of EXECUTION_TRANSITIONS (creation makes two
\* at once): transition_execution never raises, a result is final.
LegalMoves ==
  [][status' # status =>
       \/ status' \in ExecutionTransitions[status]
       \/ status = "CREATED" /\ status' \in ExecutionTransitions["VALIDATING"]]_vars

\* Late, repeated and reordered reports never take a fill back and never
\* bring a closed child back.
ReportsOnlyAdd ==
  [][\A i \in DOMAIN children :
       /\ children'[i].filled >= children[i].filled
       /\ children[i].status \in TerminalChild =>
            children'[i].status = children[i].status]_vars

\* No order is sent while an earlier one may still trade, an unanswered one
\* included, and none once a caller has cancelled the execution or it has ended
\* with a result.  That one that failed may send another is no slip: see
\* KeepsPromise for how often, and README section 6.
SubmitsAlone ==
  [][Len(children') > Len(children) =>
       /\ \A i \in DOMAIN orders : ~Working(orders[i])
       /\ status \in {"RUNNING", "FAILED"}]_vars

(***************************************************************************)
(* The abstract specification: what the account sees.                      *)
(***************************************************************************)
\* An execution that failed in run_once is failing until run_once returns.
Result ==
  CASE ~Terminal                       -> "open"
    [] status = "FAILED"               -> IF Heading(RunLabels) THEN "failing" ELSE "failed"
    [] status = "COMPLETED" /\ Tracked -> "full"
    [] status = "COMPLETED" /\ ~Tracked -> "untradeable"
    [] status = "PARTIALLY_COMPLETED"  -> "partial"
    [] OTHER                           -> "unfilled"

Promise ==
  INSTANCE ExecutionPromise
    WITH target <- required, traded <- position, atRisk <- VenueExposure,
         outcome <- Result

\* The engine and the venue together keep the promise of ExecutionPromise.
KeepsPromise == Promise!Spec

(***************************************************************************)
(* The inductive invariant.  Only the last child can differ from its order *)
(* on the venue: every earlier one is settled.                             *)
(***************************************************************************)
Last == Len(children)

\* Nothing more can happen to child c with order o.
Settled(c, o) ==
  /\ ~Working(o)
  /\ o.filled = c.filled
  /\ c.status \in TerminalChild \/ c.filled = c.qty

\* The venue's bookkeeping of one order.
OrderSound(o) ==
  /\ o.filled <= o.qty
  /\ o.state \in {"inflight", "absent"} => o.filled = 0
  /\ o.state \in {"inflight", "open"} => o.filled < o.qty
  /\ o.state = "filled" => o.filled = o.qty

ChildMatchesOrder(c, o) ==
  /\ c.qty = o.qty
  /\ c.filled <= o.filled
  /\ c.status \in TerminalChild => Settled(c, o)

\* What a reconciliation has read of order o may be old, but was true.
AnswerSound(s, o) ==
  \/ s \in {Missing, Omitted}
  \/ /\ s.status \in {"OPEN", "PARTIALLY_FILLED", "CANCELLED", "FILLED"}
     /\ s.status \in {"CANCELLED", "FILLED"} => ~Working(o) /\ s.filled = o.filled

\* One bucket alone holds q lots.
Holds(b, q) == b.live >= q \/ b.submit >= q \/ b.cancel >= q \/ b.unknown >= q

\* Only the last child may still trade, and what it may trade is reserved, in
\* one bucket, and fits the target.
LedgerSound ==
  /\ Counted
  /\ \A i \in 1 .. Last :
       OrderSound(orders[i]) /\ ChildMatchesOrder(children[i], orders[i])
  /\ \A i \in 1 .. Last - 1 : Settled(children[i], orders[i])
  /\ Last = 0 => position = 0 /\ confirmed = 0
  /\ Last > 0 =>
       /\ position = confirmed + orders[Last].filled - children[Last].filled
       /\ children[Last].status \notin TerminalChild =>
            /\ Holds(buckets, children[Last].qty - children[Last].filled)
            /\ confirmed + children[Last].qty - children[Last].filled <= required
  /\ confirmed <= required

ReadingSound ==
  pc = "read_trades" =>
    Len(answer) = Last /\ \A i \in 1 .. Last : AnswerSound(answer[i], orders[i])

\* The execution has failed on a ban, which may be over by now.  The operation that
\* met the ban goes on.
Stopped == status = "FAILED"

\* Only a new execution is CREATED, and one that is tracked has a target.
StatusSound ==
  /\ status # "VALIDATING"
  /\ IF pc = "create" THEN status = "CREATED" /\ Last = 0
     ELSE status # "CREATED" /\ (Tracked => required > 0)

\* An operation goes on only with the status its caller found or gave it, or
\* after a ban.
HeadingSound ==
  /\ Heading(RunLabels) => status = "RUNNING" \/ Stopped
  /\ Heading({"cancel_all"}) => status = "CANCELLING" \/ Stopped
  /\ pc \in {"read_orders", "read_trades"} =>
       cont \in {"settle", "reconciled", "cancel_all"}

\* Where the engine places or cancels an order the buckets are those of the
\* children, unless a backoff keeps it from doing so or a ban has kept them from
\* being rebuilt; they fit the target even then.
BucketsSound ==
  pc \in RunLabels \cup {"cancel"} /\ ~OnlyPasses =>
    buckets = BucketsOf(children) \/ (Stopped /\ ~OverTarget)

\* The execution has ended with a result, and has traded.
Ended == status \in TerminalExecution \ {"FAILED"} /\ Tracked

EndSound ==
  Ended =>
    /\ \A i \in 1 .. Last : Settled(children[i], orders[i])
    /\ status = "COMPLETED" <=> confirmed = required
    /\ status \in {"EXPIRED", "CANCELLED"} <=> confirmed = 0

\* Strong enough to be kept by every step; it
\* implies the safety invariants above.
IInv ==
  /\ TypeOK
  /\ LedgerSound /\ ReadingSound
  /\ StatusSound /\ HeadingSound /\ BucketsSound /\ EndSound

(***************************************************************************)
(* Progress.                                                               *)
(***************************************************************************)
\* Chase has replaced its final attempt.
AttemptsAgain ==
  \E i, j \in DOMAIN children : i # j /\ children[i].aggressive /\ children[j].aggressive

\* Under the background loop every execution ends unless a caller cancels it or
\* it replaces its final attempt (DeadlineEnds of Pricing says when): the deadline finds a way
\* past lost answers, rate limits, stale markets, degraded streams and a final
\* attempt that rests (run_once, _terminalize_deadline_locked).
DeadlineEnds == <>(Terminal \/ status = "CANCELLING" \/ AttemptsAgain)

\* A manual cancel ends when every call is answered (cancel_execution).
CancelEnds == status = "CANCELLING" ~> Terminal \/ faults > 0

\* And whatever fails on the way, it ends once no order works any more: the
\* lookups of run_once find that out (_terminalize_manual_cancel_if_clear_locked).
CancelSettles ==
  status = "CANCELLING" /\ ~(\E i \in DOMAIN orders : Working(orders[i])) ~> Terminal

(***************************************************************************)
(* A claim the code does not keep.                                         *)
(***************************************************************************)
\* docs/source/user_guide/execution_lifecycle.md: an execution "ends with an
\* explicit terminal status".  A manual cancel ends, whatever fails.
CancelAlwaysEnds == status = "CANCELLING" ~> Terminal

=============================================================================
