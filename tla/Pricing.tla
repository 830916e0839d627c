------------------------------- MODULE Pricing -------------------------------
(***************************************************************************)
(* What a Chase execution is willing to pay: the price of each child, the  *)
(* checks every child passes, when a resting child is replaced and what    *)
(* holds the next one back.  The market moves between any two steps, so a  *)
(* child may reach the venue at a quote other than the one it was priced   *)
(* at.  Prices are multiples of half a cent, say; TickSize of them are the *)
(* venue's tick.  Quantities are lots of the venue's step.                 *)
(*                                                                         *)
(* The venue may also stop trading the symbol, or post-only orders in it,  *)
(* at any time; tick, step and minima are fixed.  Every call is answered,  *)
(* and one order lives at a time: timeouts, lost answers, rate limits and  *)
(* bans are ExecutionEngine's, where what happens here is a                *)
(* nondeterministic choice.  Time is kept as saturating ages.              *)
(***************************************************************************)
EXTENDS Integers

CONSTANTS
  Prices,        \* What a bid or an ask can be.
  Statuses,      \* Of [trading, gtx]: SymbolRules.status = "TRADING", "GTX" supported.
  TickSize, MinQuantity, MinNotional,          \* SymbolRules
  Requests,      \* Of [side, mode, policy].
  Lower, Upper,  \* target_price_lower, target_price_upper
  Target,        \* required_quantity
  Threshold,     \* reprice_threshold_bps
  Interval,      \* minimum_reprice_interval_ms, in clock ticks
  Timeout,       \* child_order_timeout_seconds, in clock ticks
  Backoff,       \* RETRYABLE_ORDER_REJECT_BACKOFF_SECONDS, in clock ticks
  RejectLimit    \* max_post_only_reject_retries

AllRequests ==
  [side   : {"BUY", "SELL"}, mode : {"ADVERSE_ONLY", "TWO_SIDED"},
   policy : {"CANCEL_REMAINDER", "AGGRESSIVE_WITHIN_RANGE"}]

ASSUME PricingAssumption ==
  /\ Prices \subseteq Nat /\ TickSize \in Nat \ {0}
  /\ Statuses \subseteq [trading : BOOLEAN, gtx : BOOLEAN]
  /\ MinQuantity \in Nat /\ MinNotional \in Nat
  /\ Requests \subseteq AllRequests
  /\ Lower \in Nat /\ Upper \in Nat /\ Lower <= Upper
  /\ Target \in Nat \ {0} /\ MinQuantity <= Target
  /\ Threshold \in Nat /\ Interval \in Nat /\ Timeout \in Nat
  /\ Backoff \in Nat /\ RejectLimit \in Nat \ {0}
  \* create_execution completes a target that no price in the range can trade.
  /\ (\E r \in Requests : r.side = "BUY") =>
       Target * (Upper - (Upper % TickSize)) >= MinNotional

VARIABLES
  request,       \* Fixed at the start.
  quote, fresh,  \* The market; a stale or crossed one is not fresh.
  rules,         \* What exchange info says of the symbol now, of Statuses.
  calm,          \* Market and rules have stopped moving, on a fresh quote.
  expired,       \* target_duration_seconds have passed.
  status, reason,
  left,          \* required_quantity - confirmed fills
  child,         \* The child on its way or on the book; its age is counted
                 \* from child_submitted_monotonic.
  placed,        \* child_orders is not empty.
  attempts,      \* Of aggressive_child_client_order_ids: none, one or more (2).
  rejects,       \* consecutive_retryable_order_rejects
  rejected,      \* last_retryable_order_reject_price and _bid or _ask
  sinceReject,   \* The age of that reject.
  sinceReprice,  \* last_reprice_monotonic, or started_monotonic, as an age.
  seen,          \* The quote of the last market snapshot of a demand.
  pc             \* The next step of run_once, or "idle".

marketVars == <<quote, fresh, rules, calm, expired>>
gateVars   == <<rejects, rejected, sinceReject>>
vars == <<request, marketVars, status, reason, left, child, placed, attempts,
          gateVars, sinceReprice, seen, pc>>

Quotes == {q \in [bid : Prices, ask : Prices] : q.bid < q.ask}

NoChild == [price |-> 0, passive |-> FALSE, state |-> "none", age |-> 0]
NoReject == [price |-> 0, touch |-> 0]
Resting == child.state = "resting"
Terminal == status # "RUNNING"
Buying == request.side = "BUY"
Aggressive == request.policy = "AGGRESSIVE_WITHIN_RANGE" /\ expired

(***************************************************************************)
(* Prices.                                                                 *)
(***************************************************************************)
FloorToTick(p) == p - (p % TickSize)
CeilToTick(p)  == p + ((-p) % TickSize)

\* A slip: rounded towards the market.
PassivePrice_Slip(q) == IF Buying THEN CeilToTick(q.bid) ELSE FloorToTick(q.ask)

\* The near touch, rounded away from the market.
PassivePrice(q) == IF Buying THEN FloorToTick(q.bid) ELSE CeilToTick(q.ask)

\* The far touch, rounded towards it.
AggressivePrice(q) == IF Buying THEN CeilToTick(q.ask) ELSE FloorToTick(q.bid)

\* The touch a post-only order must not reach.
Touch(q) == IF Buying THEN q.ask ELSE q.bid

Crosses(p, q) == IF Buying THEN p >= q.ask ELSE p <= q.bid

InRange(p) == IF Buying THEN p <= Upper ELSE p >= Lower

\* validate_order_shape and what the engine makes of its errors.  A notional
\* that is too small is temporary: the target as a whole has been found
\* tradeable when the execution was created.  Prices and quantities are
\* multiples of tick and step here, as rounding has made them.
ShapeFault(p, q, passive) ==
  IF ~rules.trading THEN "ORDER_SAFETY_REJECTED"
  ELSE IF passive /\ ~rules.gtx THEN "POST_ONLY_UNSUPPORTED"
  ELSE IF passive /\ Crosses(p, q) THEN "POST_ONLY_CROSSES"
  ELSE IF left < MinQuantity THEN "ORDER_SAFETY_REJECTED"
  ELSE IF left * p < MinNotional THEN "temporary"
  ELSE "none"

\* reprice_difference_bps against the threshold, and the repricing mode.
WorthRepricing(desired, active) ==
  LET moved == IF desired > active THEN desired - active ELSE active - desired
  IN  /\ active > 0
      /\ moved * 10000 >= Threshold * active
      /\ \/ request.mode = "TWO_SIDED"
         \/ IF Buying THEN desired > active ELSE desired < active

ShouldReprice(desired, active) ==
  sinceReprice >= Interval /\ WorthRepricing(desired, active)

(***************************************************************************)
(* What ends the execution, and what only notes a reason.                  *)
(***************************************************************************)
EndAs(r) ==
  /\ status' = IF left' < Target THEN "PARTIALLY_COMPLETED" ELSE "EXPIRED"
  /\ reason' = r
  /\ pc' = "idle"

Completed == status' = "COMPLETED" /\ reason' = "TARGET_QUANTITY_FILLED" /\ pc' = "idle"

\* A cancel may find that the order has filled the target.
CompleteOr(r) == IF left' = 0 THEN Completed ELSE EndAs(r)

Note(r) == reason' = r /\ pc' = "idle" /\ UNCHANGED status

GoOn(next) == pc' = next /\ UNCHANGED <<status, reason>>

Held == {"RETRYABLE_ORDER_REJECT_BACKOFF",
         "RETRYABLE_ORDER_REJECT_WAITING_FOR_FRESH_QUOTE"}
Waits == Held \cup {"WAITING_FOR_PRICE_RANGE", "ORDER_SHAPE_TEMPORARILY_UNTRADEABLE"}

\* A slip: whatever was waited for, it is the range that is reported.
DeadlineReason_Slip ==
  IF reason \in Waits THEN "PRICE_OUTSIDE_RANGE" ELSE "DEADLINE_CANCEL_REMAINDER"

\* _deadline_without_demand_reason
DeadlineReason ==
  CASE reason = "WAITING_FOR_PRICE_RANGE"             -> "PRICE_OUTSIDE_RANGE"
    [] reason = "ORDER_SHAPE_TEMPORARILY_UNTRADEABLE" -> reason
    [] OTHER                                          -> "DEADLINE_CANCEL_REMAINDER"

\* A cancel, with what filled before the venue took it.
CancelResting == child' = NoChild /\ \E k \in 0 .. left : left' = left - k

Cancel == IF Resting THEN CancelResting ELSE child' = NoChild /\ UNCHANGED left

(***************************************************************************)
(* run_once, up to the decisions about prices.                             *)
(***************************************************************************)
Idle == pc = "idle" /\ ~Terminal

Complete ==
  /\ Idle /\ left = 0
  /\ Completed /\ UNCHANGED left
  /\ UNCHANGED <<request, marketVars, child, placed, attempts, gateVars, sinceReprice, seen>>

\* A slip: an aggressive attempt that did not fill is repeated for ever.
NothingToTry_Slip == expired /\ request.policy = "CANCEL_REMAINDER"

\* The deadline, with nothing left to try.
NothingToTry ==
  expired /\ (request.policy = "CANCEL_REMAINDER" \/ (attempts > 0 /\ ~Resting))

CloseAtDeadline ==
  /\ Idle /\ left > 0 /\ NothingToTry
  /\ Cancel
  /\ CompleteOr(CASE Aggressive             -> "DEADLINE_AGGRESSIVE_ATTEMPTED"
                  [] ~Aggressive /\ placed  -> "DEADLINE_CANCEL_REMAINDER"
                  [] ~Aggressive /\ ~placed -> DeadlineReason)
  /\ UNCHANGED <<request, marketVars, placed, attempts, gateVars, sinceReprice, seen>>

\* An aggressive child that has rested too long was the last attempt.
Begin ==
  /\ Idle /\ left > 0 /\ ~NothingToTry
  /\ IF Resting /\ ((Aggressive /\ child.passive) \/ child.age >= Timeout)
     THEN /\ CancelResting
          /\ CASE left' = 0 -> Completed
               [] left' > 0 /\ Aggressive /\ attempts > 0 ->
                    EndAs("DEADLINE_AGGRESSIVE_ATTEMPTED")
               [] OTHER -> GoOn("demand")
     ELSE GoOn(IF Resting THEN "look" ELSE "demand") /\ UNCHANGED <<child, left>>
  /\ UNCHANGED <<request, marketVars, placed, attempts, gateVars, sinceReprice, seen>>

\* There is no fresh quote where one is read; the simulator reads one for
\* every order it takes.
NoFreshMarket ==
  /\ pc # "idle" /\ ~fresh
  /\ IF expired THEN Cancel
     ELSE UNCHANGED left /\ child' = IF Resting THEN child ELSE NoChild
  /\ IF expired THEN CompleteOr("MARKET_DATA_STALE_RECONCILED")
     ELSE Note("MARKET_DATA_STALE_RECONCILED")
  /\ UNCHANGED <<request, marketVars, placed, attempts, gateVars, sinceReprice, seen>>

\* _maybe_reprice_chase: an aggressive child that rests is held against the
\* passive price as well.
Reprice ==
  /\ pc = "look" /\ fresh
  /\ IF Resting /\ ShouldReprice(PassivePrice(quote), child.price)
     THEN CancelResting /\ sinceReprice' = 0 /\ GoOn("repriced")
     ELSE UNCHANGED <<child, left, sinceReprice>>
          /\ GoOn("idle")
  /\ UNCHANGED <<request, marketVars, placed, attempts, gateVars, seen>>

(***************************************************************************)
(* The demand: a price, its checks and the gate of the post-only rejects.  *)
(***************************************************************************)
\* A slip: the price alone tells whether the quote is a fresh one.
GateHolds_Slip(p) ==
  CASE rejects = 0                          -> "none"
    [] rejects > 0 /\ sinceReject < Backoff -> "RETRYABLE_ORDER_REJECT_BACKOFF"
    [] rejects > 0 /\ sinceReject >= Backoff /\ rejected.price = p ->
         "RETRYABLE_ORDER_REJECT_WAITING_FOR_FRESH_QUOTE"
    [] OTHER -> "none"

GateHolds(p) ==
  CASE rejects = 0                          -> "none"
    [] rejects > 0 /\ sinceReject < Backoff -> "RETRYABLE_ORDER_REJECT_BACKOFF"
    [] rejects > 0 /\ sinceReject >= Backoff
       /\ rejected = [price |-> p, touch |-> Touch(quote)] ->
         "RETRYABLE_ORDER_REJECT_WAITING_FOR_FRESH_QUOTE"
    [] OTHER -> "none"

\* A slip: the reason of the wait stays.
Send_Slip(p) ==
  /\ child' = [price |-> p, passive |-> ~Aggressive, state |-> "sent", age |-> 0]
  /\ GoOn("sending")

Send(p) ==
  /\ child' = [price |-> p, passive |-> ~Aggressive, state |-> "sent", age |-> 0]
  /\ pc' = "sending"
  /\ reason' = IF reason \in Waits THEN "none" ELSE reason
  /\ UNCHANGED status

Demand ==
  /\ pc \in {"demand", "repriced"} /\ fresh
  /\ UNCHANGED left
  /\ LET p     == IF Aggressive THEN AggressivePrice(quote) ELSE PassivePrice(quote)
         fault == ShapeFault(p, quote, ~Aggressive)
         gate  == IF Aggressive THEN "none" ELSE GateHolds(p)
     IN  IF left > 0 /\ InRange(p) /\ fault = "none" /\ gate = "none"
         THEN Send(p)
         ELSE /\ UNCHANGED child
              /\ CASE left = 0 -> Note(reason)
                   [] left > 0 /\ fault \notin {"none", "temporary"} -> EndAs(fault)
                   [] left > 0 /\ ~InRange(p) /\ fault \in {"none", "temporary"} ->
                        IF expired THEN EndAs("PRICE_OUTSIDE_RANGE")
                        ELSE Note("WAITING_FOR_PRICE_RANGE")
                   [] left > 0 /\ InRange(p) /\ fault = "temporary" ->
                        IF expired THEN EndAs("ORDER_SHAPE_TEMPORARILY_UNTRADEABLE")
                        ELSE Note("ORDER_SHAPE_TEMPORARILY_UNTRADEABLE")
                   [] OTHER -> Note(gate)
  /\ seen' = quote
  /\ UNCHANGED <<request, marketVars, placed, attempts, gateVars, sinceReprice>>

(***************************************************************************)
(* The venue takes the child at the quote of that moment.                  *)
(***************************************************************************)
Sent == pc = "sending"

\* A slip: the gate remembers the quote that rejected the order.
Rejected_Slip == [price |-> child.price, touch |-> Touch(quote)]

Rejected == [price |-> child.price, touch |-> Touch(seen)]

AtLimit(n) == n >= RejectLimit

\* The rejects that are retried.
PostOnlyRejected ==
  /\ Sent /\ child.passive /\ (Crosses(child.price, quote) \/ ~rules.gtx)
  /\ rejects' = rejects + 1 /\ sinceReject' = 0
  /\ rejected' = Rejected
  /\ child' = NoChild /\ placed' = TRUE
  /\ UNCHANGED left
  /\ IF AtLimit(rejects') THEN EndAs("RETRYABLE_ORDER_REJECT_LIMIT_REACHED")
     ELSE GoOn("idle")
  /\ UNCHANGED <<request, marketVars, attempts, sinceReprice, seen>>

ResetGate ==
  /\ rejects' = 0 /\ rejected' = NoReject /\ sinceReject' = 0
  /\ reason' = IF reason \in Held THEN "none" ELSE reason

Accepted ==
  /\ Sent /\ child.passive /\ ~Crosses(child.price, quote) /\ rules.gtx
  /\ child' = [child EXCEPT !.state = "resting"]
  /\ placed' = TRUE /\ pc' = "idle" /\ ResetGate
  /\ UNCHANGED <<request, marketVars, status, left, attempts, sinceReprice, seen>>

OneMore == IF attempts < 2 THEN attempts + 1 ELSE attempts

\* An immediate-or-cancel order takes what is there at its price and is gone,
\* or stays open: the simulator treats it as any other order.
Taken ==
  /\ Sent /\ ~child.passive
  /\ \/ child' = [child EXCEPT !.state = "resting"] /\ UNCHANGED left
     \/ /\ child' = NoChild
        /\ IF Crosses(child.price, quote) THEN \E k \in 0 .. left : left' = left - k
           ELSE UNCHANGED left
  /\ placed' = TRUE /\ attempts' = OneMore /\ pc' = "idle"
  /\ ResetGate
  /\ UNCHANGED <<request, marketVars, status, sinceReprice, seen>>

\* The rejects that are not: a TerminalOrderRejected, which a venue may have its
\* own reasons for, and any reject of an aggressive child.
TerminallyRejected ==
  /\ Sent
  /\ child' = NoChild /\ placed' = TRUE
  /\ attempts' = IF child.passive THEN attempts ELSE OneMore
  /\ status' = "FAILED" /\ reason' = "TERMINAL_ORDER_REJECTED" /\ pc' = "idle"
  /\ UNCHANGED <<request, marketVars, left, gateVars, sinceReprice, seen>>

(***************************************************************************)
(* The market and the clock.                                               *)
(***************************************************************************)
Moves ==
  /\ ~calm /\ ~Terminal
  /\ quote' \in Quotes /\ fresh' \in BOOLEAN /\ calm' \in {FALSE, fresh'}
  /\ UNCHANGED <<request, rules, expired, status, reason, left, child, placed, attempts,
                 gateVars, sinceReprice, seen, pc>>

\* Every demand, every repricing and every order reads the rules anew.
RulesChange ==
  /\ ~calm /\ ~Terminal
  /\ rules' \in Statuses
  /\ UNCHANGED <<request, quote, fresh, calm, expired, status, reason, left, child, placed,
                 attempts, gateVars, sinceReprice, seen, pc>>

Fills ==
  /\ Resting /\ ~Terminal
  /\ \E k \in 1 .. left :
       /\ left' = left - k
       /\ child' = IF k = left THEN NoChild ELSE child
  /\ UNCHANGED <<request, marketVars, status, reason, placed, attempts, gateVars,
                 sinceReprice, seen, pc>>

Older(age, limit) == IF age < limit THEN age + 1 ELSE age

Tick ==
  /\ ~Terminal
  /\ sinceReject'  = IF rejects > 0 THEN Older(sinceReject, Backoff) ELSE sinceReject
  /\ sinceReprice' = Older(sinceReprice, Interval)
  /\ child' = IF child.state = "none" THEN child
              ELSE [child EXCEPT !.age = Older(child.age, Timeout)]
  /\ UNCHANGED <<request, marketVars, status, reason, left, placed, attempts, rejects,
                 rejected, seen, pc>>

Deadline ==
  /\ ~expired /\ ~Terminal
  /\ expired' = TRUE
  /\ UNCHANGED <<request, quote, fresh, rules, calm, status, reason, left, child, placed,
                 attempts, gateVars, sinceReprice, seen, pc>>

Init ==
  /\ request \in Requests
  /\ quote \in Quotes /\ fresh \in BOOLEAN /\ rules \in Statuses /\ calm = FALSE /\ expired = FALSE
  /\ status = "RUNNING" /\ reason = "none"
  /\ left = Target /\ child = NoChild /\ placed = FALSE /\ attempts = 0
  /\ rejects = 0 /\ rejected = NoReject
  /\ sinceReject = 0 /\ sinceReprice = 0
  /\ seen = quote /\ pc = "idle"

Operation ==
  \/ Complete \/ CloseAtDeadline \/ Begin \/ NoFreshMarket \/ Reprice \/ Demand
  \/ PostOnlyRejected \/ Accepted \/ Taken \/ TerminallyRejected

Next == Operation \/ Moves \/ RulesChange \/ Fills \/ Tick \/ Deadline

Spec == Init /\ [][Next]_vars

\* The background loop calls run_once over and over and the clock advances;
\* the market owes us nothing.
FairSpec == Spec /\ WF_vars(Operation) /\ WF_vars(Tick)

(***************************************************************************)
(* Properties.                                                             *)
(***************************************************************************)
Reasons == Waits \cup
  {"none", "TARGET_QUANTITY_FILLED", "POST_ONLY_CROSSES", "ORDER_SAFETY_REJECTED",
   "PRICE_OUTSIDE_RANGE", "DEADLINE_CANCEL_REMAINDER", "DEADLINE_AGGRESSIVE_ATTEMPTED",
   "POST_ONLY_UNSUPPORTED", "TERMINAL_ORDER_REJECTED", "MARKET_DATA_STALE_RECONCILED",
   "RETRYABLE_ORDER_REJECT_LIMIT_REACHED"}

Steps == {"idle", "look", "demand", "repriced", "sending"}

\* The variables hold values of their kinds: run_once has a child on its way
\* exactly while it waits for the venue, and never more than the target to fill.
TypeOK ==
  /\ request \in Requests /\ quote \in Quotes /\ seen \in Quotes
  /\ rules \in Statuses /\ fresh \in BOOLEAN /\ calm \in BOOLEAN /\ expired \in BOOLEAN
  /\ status \in {"RUNNING", "COMPLETED", "PARTIALLY_COMPLETED", "EXPIRED", "FAILED"}
  /\ reason \in Reasons /\ left \in 0 .. Target
  /\ child \in [price : Int, passive : BOOLEAN, state : {"none", "sent", "resting"},
                age : 0 .. Timeout]
  /\ placed \in BOOLEAN /\ attempts \in 0 .. 2
  /\ rejects \in 0 .. RejectLimit /\ rejected \in [price : Int, touch : Nat]
  /\ sinceReject \in 0 .. Backoff /\ sinceReprice \in 0 .. Interval
  /\ pc \in Steps
  /\ (child.state = "sent") <=> (pc = "sending")

\* No child is on its way or on the book at a price the target range forbids,
\* whatever rounding did to it and whichever policy priced it.
InBand ==
  child.state # "none" => IF Buying THEN child.price <= Upper ELSE child.price >= Lower

\* An execution that gives up before its deadline says why, and is right: it
\* has met the limit of the post-only rejects, or the symbol no longer takes
\* such orders, or a remainder is left that the venue's quantity rule keeps from
\* being traded at any price.  No quote, however far away or short-lived, and
\* no missing one ends it.
GivesUpForCause ==
  status \in {"PARTIALLY_COMPLETED", "EXPIRED"} /\ ~expired =>
    \/ reason = "RETRYABLE_ORDER_REJECT_LIMIT_REACHED" /\ rejects = RejectLimit
    \/ reason = "POST_ONLY_UNSUPPORTED" /\ ~rules.gtx
    \/ reason = "ORDER_SAFETY_REJECTED" /\ (~rules.trading \/ left < MinQuantity)

\* The final report blames the price range only if the last quote that was
\* read for a child had no price in it: a wait that has ended is not blamed.
BlamesTheRange ==
  reason = "PRICE_OUTSIDE_RANGE" =>
    ~InRange(IF request.policy = "CANCEL_REMAINDER" THEN PassivePrice(seen)
             ELSE AggressivePrice(seen))

\* Two rejects in a row are at least the backoff apart, and the second child
\* had another price or was priced against another touch than the first.
RejectStep ==
  rejects > 0 /\ rejects' > rejects => sinceReject = Backoff /\ rejected' # rejected
FreshAfterReject == [][RejectStep]_vars

\* The child is where Chase wants it, or the market is outside the range, or
\* what is left is too small, or the last reject came from this very quote.
Settled ==
  \/ Resting /\ ~WorthRepricing(PassivePrice(quote), child.price)
  \/ ~InRange(PassivePrice(quote)) /\ child = NoChild
  \/ ShapeFault(PassivePrice(quote), quote, TRUE) # "none" /\ child = NoChild
  \/ rejects > 0 /\ rejected = [price |-> PassivePrice(quote), touch |-> Touch(quote)]

\* The near and the far touch are so far apart that an aggressive child, held
\* against the passive price, is always worth replacing.
WideSpread == WorthRepricing(PassivePrice(quote), AggressivePrice(quote))

\* After the market has calmed down a running execution comes to rest, and a
\* child that was priced at the quote that lasts is not replaced for its
\* price, unless it is an aggressive one across a wide spread.
ComesToRest ==
  /\ calm ~> Settled \/ expired \/ Terminal
  /\ <>[](calm /\ pc = "repriced" => Aggressive /\ WideSpread)

\* Every execution ends after its deadline: with CANCEL_REMAINDER at once, with
\* AGGRESSIVE_WITHIN_RANGE after one attempt, or none if the price, the shape
\* or the lack of a quote forbids it.  An attempt that rests may be replaced by
\* another; even then the execution ends in a calm market, unless the spread
\* is wide enough for every attempt to be replaced.
DeadlineEnds ==
  /\ expired ~> Terminal \/ attempts > 1
  /\ attempts > 1 /\ calm ~> Terminal \/ WideSpread

\* The inductive invariant of PricingProofs: what links the safety properties.
\* Nothing is undertaken for an execution that has ended; a child is priced
\* only when there is no other; a wait for the range
\* ends with the next child; what is on its way has passed the gate.
IInv ==
  /\ TypeOK /\ InBand /\ GivesUpForCause /\ BlamesTheRange
  /\ Terminal => pc = "idle"
  /\ pc \in {"demand", "repriced"} => child.state = "none"
  /\ Terminal \/ (rejects < RejectLimit /\ reason # "PRICE_OUTSIDE_RANGE")
  /\ reason = "WAITING_FOR_PRICE_RANGE" =>
       ~InRange(PassivePrice(seen)) /\ child.state = "none" /\ left > 0
  /\ pc = "sending" /\ child.passive /\ rejects > 0 =>
       sinceReject = Backoff /\ rejected # Rejected

=============================================================================
