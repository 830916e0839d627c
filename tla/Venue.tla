-------------------------------- MODULE Venue --------------------------------
(***************************************************************************)
(* The exchange as one execution sees it: the orders sent under the        *)
(* execution's own client order ids (orders[i] is the fate of the i-th     *)
(* child), the lots traded so far and whether the venue has banned us.     *)
(* It moves on its own between any two calls of the engine.  The           *)
(* deterministic simulator is the reference for what a call does.          *)
(***************************************************************************)
EXTENDS Integers, Sequences, Exposure

CONSTANT
  LookupSettles   \* TRUE: an order that a lookup does not find never arrives.

ASSUME LookupAssumption == LookupSettles \in BOOLEAN

VARIABLES
  orders,     \* Sequence of the orders sent, in the order of the children.
  position,   \* Lots traded by all of them: what the account gained.
  banned      \* The venue refuses every call.

venueVars == <<orders, position, banned>>

(***************************************************************************)
(* "inflight": sent, not arrived, the caller has stopped waiting.          *)
(* "absent": rejected or lost, it is not and will not be on the book.      *)
(* An order is ioc when the venue takes what it can get at once and        *)
(* cancels the rest.  The simulator does not: what is sent to it as        *)
(* immediate-or-cancel rests on the book like any other order.             *)
(***************************************************************************)
OrderState == {"inflight", "absent", "open", "filled", "cancelled"}
Order == [qty : Nat, filled : Nat, state : OrderState, ioc : BOOLEAN]

Working(o) == o.state \in {"inflight", "open"}

NewOrder(q, ioc) == [qty |-> q, filled |-> 0, state |-> "inflight", ioc |-> ioc]

\* The order after k more lots of it have traded.
Traded(o, k) ==
  [o EXCEPT !.filled = @ + k,
            !.state = IF o.filled + k = o.qty THEN "filled"
                      ELSE IF o.ioc THEN "cancelled" ELSE "open"]

\* What becomes of a new order, sent as immediate-or-cancel or post-only.
NewOrders(q, aggressive) == {NewOrder(q, ioc) : ioc \in {FALSE, aggressive}}

\* Lots a new order can trade on arrival: one that rests never takes.
TakenOnArrival(q, ioc) == IF ioc THEN 0 .. q ELSE {0}

\* An order as the venue reports it, in the engine's words.
StatusOf(o) ==
  CASE o.state = "filled"    -> "FILLED"
    [] o.state = "cancelled" -> "CANCELLED"
    [] OTHER -> IF o.filled = 0 THEN "OPEN" ELSE "PARTIALLY_FILLED"

Sighting(o) == [status |-> StatusOf(o), filled |-> o.filled]

OnVenue(o) == o.state \in {"open", "filled", "cancelled"}

\* Every report this order has produced so far.  User events are delivered
\* late, twice, in any order or never, so any of them may come next.
Sightings(o) ==
  IF ~OnVenue(o) THEN {}
  ELSE {Sighting([o EXCEPT !.filled = f, !.state = "open"]) :
           f \in 0 .. Smaller(o.filled, o.qty - 1)}
         \cup {Sighting(o)}

\* Lots that could still trade without another request of ours.
VenueExposure ==
  Outstanding(orders, {i \in DOMAIN orders : Working(orders[i])})

(***************************************************************************)
(* The venue's own moves.                                                  *)
(***************************************************************************)
\* A create request whose caller gave up reaches the book after all.
Arrive(i) ==
  /\ orders[i].state = "inflight"
  /\ \E k \in TakenOnArrival(orders[i].qty, orders[i].ioc) :
       /\ orders' = [orders EXCEPT ![i] = Traded(@, k)]
       /\ position' = position + k
  /\ UNCHANGED banned

\* A resting order trades one lot.
Fill(i) ==
  /\ orders[i].state = "open"
  /\ orders' = [orders EXCEPT ![i] = Traded(@, 1)]
  /\ position' = position + 1
  /\ UNCHANGED banned

\* The venue closes a resting order: its own decision, or a cancel request
\* whose caller gave up.
Expire(i) ==
  /\ orders[i].state = "open"
  /\ orders' = [orders EXCEPT ![i].state = "cancelled"]
  /\ UNCHANGED <<position, banned>>

Ban ==
  /\ ~banned
  /\ banned' = TRUE
  /\ UNCHANGED <<orders, position>>

Lift ==
  /\ banned
  /\ banned' = FALSE
  /\ UNCHANGED <<orders, position>>

=============================================================================
