--------------------------- MODULE PricingProofs ---------------------------
(***************************************************************************)
(* Proofs about Pricing.                                                   *)
(***************************************************************************)
EXTENDS Pricing, TLAPS

\* Rounding goes the way its name says.
LEMMA Rounding ==
  ASSUME NEW p \in Int
  PROVE  /\ FloorToTick(p) \in Int /\ FloorToTick(p) <= p
         /\ CeilToTick(p) \in Int /\ CeilToTick(p) >= p
<1>1. TickSize \in Int /\ TickSize > 0
  BY PricingAssumption
<1>2. p % TickSize \in 0 .. TickSize - 1
  BY <1>1
<1>3. (-p) % TickSize \in 0 .. TickSize - 1
  BY <1>1
<1> QED  BY <1>1, <1>2, <1>3 DEF FloorToTick, CeilToTick

\* A passive price never reaches the other side of the quote it comes from.
LEMMA PassiveRests ==
  ASSUME NEW q \in Quotes
  PROVE  /\ PassivePrice(q) \in Int /\ AggressivePrice(q) \in Int
         /\ Touch(q) \in Nat
         /\ ~Crosses(PassivePrice(q), q)
<1>1. q.bid \in Nat /\ q.ask \in Nat /\ q.bid < q.ask
  BY PricingAssumption DEF Quotes
<1> QED
  BY <1>1, Rounding DEF PassivePrice, AggressivePrice, Touch, Crosses

Children == [price : Int, passive : BOOLEAN, state : {"none", "sent", "resting"},
             age : 0 .. Timeout]

\* A cancel leaves no child and never more than there was left to fill.
LEMMA Cancelled ==
  ASSUME TypeOK, Cancel \/ CancelResting
  PROVE  child' = NoChild /\ NoChild \in Children /\ left' \in 0 .. Target
<1>1. NoChild \in Children
  BY PricingAssumption DEF NoChild, Children
<1>2. left \in 0 .. Target /\ Target \in Nat
  BY PricingAssumption DEF TypeOK
<1>3. CASE CancelResting
  <2>1. PICK k \in 0 .. left : left' = left - k
    BY <1>3 DEF CancelResting
  <2> QED  BY <1>1, <1>2, <1>3, <2>1 DEF CancelResting
<1>4. CASE Cancel /\ ~CancelResting
  BY <1>1, <1>2, <1>4 DEF Cancel
<1> QED  BY <1>3, <1>4

\* run_once finds the target filled.
LEMMA CompleteSound ==
  ASSUME IInv, Complete PROVE IInv'
<1> USE DEF Complete, Idle, Completed, marketVars, gateVars
<1>1. TypeOK'
  BY PricingAssumption DEF IInv, TypeOK, Reasons, Waits, Held, Steps
<1>2. InBand'
  BY <1>1 DEF IInv, TypeOK, Reasons, Waits, Held, Steps, InBand, Buying
<1>3. GivesUpForCause'
  BY <1>1, PricingAssumption DEF IInv, TypeOK, Reasons, Waits, Held, Steps, GivesUpForCause, Terminal
<1>4. BlamesTheRange'
  BY <1>1 DEF IInv, TypeOK, Reasons, Waits, Held, Steps, BlamesTheRange, InRange, PassivePrice, AggressivePrice, Buying
<1>5. (Terminal => pc = "idle")'
  BY DEF IInv, Terminal
<1>6. (Terminal \/ (rejects < RejectLimit /\ reason # "PRICE_OUTSIDE_RANGE"))'
  BY PricingAssumption DEF IInv, TypeOK, Reasons, Waits, Held, Steps, Terminal
<1>7. (reason = "WAITING_FOR_PRICE_RANGE" =>
         ~InRange(PassivePrice(seen)) /\ child.state = "none" /\ left > 0)'
  BY <1>1 DEF IInv, TypeOK, Reasons, Waits, Held, Steps, InRange, PassivePrice, Buying
<1>8. (pc = "sending" /\ child.passive /\ rejects > 0 =>
         sinceReject = Backoff /\ rejected # Rejected)'
  BY <1>1 DEF IInv, TypeOK, Reasons, Waits, Held, Steps, Rejected, Touch, Buying
<1>9. (pc \in {"demand", "repriced"} => child.state = "none")'
  BY <1>1 DEF IInv, TypeOK, Reasons, Waits, Held, Steps
<1> QED
  BY <1>1, <1>2, <1>3, <1>4, <1>5, <1>6, <1>7, <1>8, <1>9 DEF IInv

\* Only the wait for the range, under CANCEL_REMAINDER, ends in its blame.
LEMMA CloseSound ==
  ASSUME IInv, CloseAtDeadline PROVE IInv'
<1> USE DEF CloseAtDeadline, Idle, NothingToTry, Aggressive, DeadlineReason, EndAs, Completed, CompleteOr, Note, GoOn, Cancel, CancelResting, NoChild, Resting, marketVars, gateVars
<1>1. TypeOK'
  <2>1. child' \in Children
    BY Cancelled DEF IInv
  <2>2. left' \in 0 .. Target
    BY Cancelled DEF IInv
  <2>3. /\ status' \in {"RUNNING", "COMPLETED", "PARTIALLY_COMPLETED", "EXPIRED", "FAILED"}
        /\ reason' \in Reasons /\ pc' \in Steps
    BY DEF IInv, TypeOK, Reasons, Waits, Held, Steps
  <2>4. ((child.state = "sent") <=> (pc = "sending"))'
    BY DEF IInv, TypeOK
  <2>5. rejects' \in 0 .. RejectLimit /\ rejected' \in [price : Int, touch : Nat]
    BY PricingAssumption DEF IInv, TypeOK
  <2>6. sinceReject' \in 0 .. Backoff /\ sinceReprice' \in 0 .. Interval
    BY PricingAssumption DEF IInv, TypeOK
  <2> QED  BY <2>1, <2>2, <2>3, <2>4, <2>5, <2>6 DEF IInv, TypeOK, Children
<1>2. InBand'
  BY <1>1 DEF IInv, TypeOK, Reasons, Waits, Held, Steps, InBand, Buying
<1>3. GivesUpForCause'
  BY <1>1, PricingAssumption DEF IInv, TypeOK, Reasons, Waits, Held, Steps, GivesUpForCause, Terminal
<1>4. BlamesTheRange'
  <2> SUFFICES ASSUME reason' = "PRICE_OUTSIDE_RANGE"
               PROVE  ~InRange(PassivePrice(seen)) /\ request.policy = "CANCEL_REMAINDER"
    BY DEF BlamesTheRange, InRange, PassivePrice, Buying
  <2>1. ~Aggressive /\ DeadlineReason = "PRICE_OUTSIDE_RANGE"
    OBVIOUS
  <2>2. reason = "WAITING_FOR_PRICE_RANGE"
    BY <2>1
  <2>3. request.policy = "CANCEL_REMAINDER"
    BY <2>1, PricingAssumption DEF AllRequests, IInv, TypeOK
  <2> QED  BY <2>2, <2>3 DEF IInv
<1>5. (Terminal => pc = "idle")'
  BY DEF IInv, Terminal
<1>6. (Terminal \/ (rejects < RejectLimit /\ reason # "PRICE_OUTSIDE_RANGE"))'
  BY PricingAssumption DEF IInv, TypeOK, Reasons, Waits, Held, Steps, Terminal
<1>7. (reason = "WAITING_FOR_PRICE_RANGE" =>
         ~InRange(PassivePrice(seen)) /\ child.state = "none" /\ left > 0)'
  BY <1>1 DEF IInv, TypeOK, Reasons, Waits, Held, Steps, InRange, PassivePrice, Buying
<1>8. (pc = "sending" /\ child.passive /\ rejects > 0 =>
         sinceReject = Backoff /\ rejected # Rejected)'
  BY <1>1 DEF IInv, TypeOK, Reasons, Waits, Held, Steps, Rejected, Touch, Buying
<1>9. (pc \in {"demand", "repriced"} => child.state = "none")'
  BY <1>1 DEF IInv, TypeOK, Reasons, Waits, Held, Steps
<1> QED
  BY <1>1, <1>2, <1>3, <1>4, <1>5, <1>6, <1>7, <1>8, <1>9 DEF IInv

\* Before anything is priced, what rests has been cancelled.
LEMMA BeginSound ==
  ASSUME IInv, Begin PROVE IInv'
<1> USE DEF Begin, Idle, Aggressive, EndAs, Completed, CompleteOr, Note, GoOn, Cancel, CancelResting, NoChild, Resting, marketVars, gateVars
<1>1. TypeOK'
  <2>1. child' \in Children
    <3>1. CASE Cancel \/ CancelResting
      BY <3>1, Cancelled DEF IInv
    <3>2. CASE ~(Cancel \/ CancelResting)
      BY <3>2, Cancelled DEF IInv, TypeOK, Children
    <3> QED  BY <3>1, <3>2
  <2>2. left' \in 0 .. Target
    <3>1. CASE Cancel \/ CancelResting
      BY <3>1, Cancelled DEF IInv
    <3>2. CASE ~(Cancel \/ CancelResting)
      BY <3>2, Cancelled DEF IInv, TypeOK, Children
    <3> QED  BY <3>1, <3>2
  <2>3. /\ status' \in {"RUNNING", "COMPLETED", "PARTIALLY_COMPLETED", "EXPIRED", "FAILED"}
        /\ reason' \in Reasons /\ pc' \in Steps
    BY DEF IInv, TypeOK, Reasons, Waits, Held, Steps
  <2>4. ((child.state = "sent") <=> (pc = "sending"))'
    BY DEF IInv, TypeOK
  <2>5. rejects' \in 0 .. RejectLimit /\ rejected' \in [price : Int, touch : Nat]
    BY PricingAssumption DEF IInv, TypeOK
  <2>6. sinceReject' \in 0 .. Backoff /\ sinceReprice' \in 0 .. Interval
    BY PricingAssumption DEF IInv, TypeOK
  <2> QED  BY <2>1, <2>2, <2>3, <2>4, <2>5, <2>6 DEF IInv, TypeOK, Children
<1>2. InBand'
  BY <1>1 DEF IInv, TypeOK, Reasons, Waits, Held, Steps, InBand, Buying
<1>3. GivesUpForCause'
  BY <1>1, PricingAssumption DEF IInv, TypeOK, Reasons, Waits, Held, Steps, GivesUpForCause, Terminal
<1>4. BlamesTheRange'
  BY <1>1 DEF IInv, TypeOK, Reasons, Waits, Held, Steps, BlamesTheRange, InRange, PassivePrice, AggressivePrice, Buying
<1>5. (Terminal => pc = "idle")'
  BY DEF IInv, Terminal
<1>6. (Terminal \/ (rejects < RejectLimit /\ reason # "PRICE_OUTSIDE_RANGE"))'
  BY PricingAssumption DEF IInv, TypeOK, Reasons, Waits, Held, Steps, Terminal
<1>7. (reason = "WAITING_FOR_PRICE_RANGE" =>
         ~InRange(PassivePrice(seen)) /\ child.state = "none" /\ left > 0)'
  BY <1>1 DEF IInv, TypeOK, Reasons, Waits, Held, Steps, InRange, PassivePrice, Buying
<1>8. (pc = "sending" /\ child.passive /\ rejects > 0 =>
         sinceReject = Backoff /\ rejected # Rejected)'
  BY <1>1 DEF IInv, TypeOK, Reasons, Waits, Held, Steps, Rejected, Touch, Buying
<1>9. (pc \in {"demand", "repriced"} => child.state = "none")'
  BY <1>1 DEF IInv, TypeOK, Reasons, Waits, Held, Steps
<1> QED
  BY <1>1, <1>2, <1>3, <1>4, <1>5, <1>6, <1>7, <1>8, <1>9 DEF IInv

\* Without a quote an execution ends only after its deadline.
LEMMA NoFreshSound ==
  ASSUME IInv, NoFreshMarket PROVE IInv'
<1> USE DEF NoFreshMarket, EndAs, Completed, CompleteOr, Note, GoOn, Cancel, CancelResting, NoChild, Resting, marketVars, gateVars
<1>1. TypeOK'
  <2>1. child' \in Children
    <3>1. CASE Cancel \/ CancelResting
      BY <3>1, Cancelled DEF IInv
    <3>2. CASE ~(Cancel \/ CancelResting)
      BY <3>2, Cancelled DEF IInv, TypeOK, Children
    <3> QED  BY <3>1, <3>2
  <2>2. left' \in 0 .. Target
    <3>1. CASE Cancel \/ CancelResting
      BY <3>1, Cancelled DEF IInv
    <3>2. CASE ~(Cancel \/ CancelResting)
      BY <3>2, Cancelled DEF IInv, TypeOK, Children
    <3> QED  BY <3>1, <3>2
  <2>3. /\ status' \in {"RUNNING", "COMPLETED", "PARTIALLY_COMPLETED", "EXPIRED", "FAILED"}
        /\ reason' \in Reasons /\ pc' \in Steps
    BY DEF IInv, TypeOK, Reasons, Waits, Held, Steps
  <2>4. ((child.state = "sent") <=> (pc = "sending"))'
    BY DEF IInv, TypeOK
  <2>5. rejects' \in 0 .. RejectLimit /\ rejected' \in [price : Int, touch : Nat]
    BY PricingAssumption DEF IInv, TypeOK
  <2>6. sinceReject' \in 0 .. Backoff /\ sinceReprice' \in 0 .. Interval
    BY PricingAssumption DEF IInv, TypeOK
  <2> QED  BY <2>1, <2>2, <2>3, <2>4, <2>5, <2>6 DEF IInv, TypeOK, Children
<1>2. InBand'
  BY <1>1 DEF IInv, TypeOK, Reasons, Waits, Held, Steps, InBand, Buying
<1>3. GivesUpForCause'
  BY <1>1, PricingAssumption DEF IInv, TypeOK, Reasons, Waits, Held, Steps, GivesUpForCause, Terminal
<1>4. BlamesTheRange'
  BY <1>1 DEF IInv, TypeOK, Reasons, Waits, Held, Steps, BlamesTheRange, InRange, PassivePrice, AggressivePrice, Buying
<1>5. (Terminal => pc = "idle")'
  BY DEF IInv, Terminal
<1>6. (Terminal \/ (rejects < RejectLimit /\ reason # "PRICE_OUTSIDE_RANGE"))'
  BY PricingAssumption DEF IInv, TypeOK, Reasons, Waits, Held, Steps, Terminal
<1>7. (reason = "WAITING_FOR_PRICE_RANGE" =>
         ~InRange(PassivePrice(seen)) /\ child.state = "none" /\ left > 0)'
  BY <1>1 DEF IInv, TypeOK, Reasons, Waits, Held, Steps, InRange, PassivePrice, Buying
<1>8. (pc = "sending" /\ child.passive /\ rejects > 0 =>
         sinceReject = Backoff /\ rejected # Rejected)'
  BY <1>1 DEF IInv, TypeOK, Reasons, Waits, Held, Steps, Rejected, Touch, Buying
<1>9. (pc \in {"demand", "repriced"} => child.state = "none")'
  BY <1>1 DEF IInv, TypeOK, Reasons, Waits, Held, Steps
<1> QED
  BY <1>1, <1>2, <1>3, <1>4, <1>5, <1>6, <1>7, <1>8, <1>9 DEF IInv

\* A repriced child is gone before the next one is priced.
LEMMA RepriceSound ==
  ASSUME IInv, Reprice PROVE IInv'
<1> USE DEF Reprice, EndAs, Completed, CompleteOr, Note, GoOn, Cancel, CancelResting, NoChild, Resting, marketVars, gateVars
<1>1. TypeOK'
  <2>1. child' \in Children
    <3>1. CASE Cancel \/ CancelResting
      BY <3>1, Cancelled DEF IInv
    <3>2. CASE ~(Cancel \/ CancelResting)
      BY <3>2, Cancelled DEF IInv, TypeOK, Children
    <3> QED  BY <3>1, <3>2
  <2>2. left' \in 0 .. Target
    <3>1. CASE Cancel \/ CancelResting
      BY <3>1, Cancelled DEF IInv
    <3>2. CASE ~(Cancel \/ CancelResting)
      BY <3>2, Cancelled DEF IInv, TypeOK, Children
    <3> QED  BY <3>1, <3>2
  <2>3. /\ status' \in {"RUNNING", "COMPLETED", "PARTIALLY_COMPLETED", "EXPIRED", "FAILED"}
        /\ reason' \in Reasons /\ pc' \in Steps
    BY DEF IInv, TypeOK, Reasons, Waits, Held, Steps
  <2>4. ((child.state = "sent") <=> (pc = "sending"))'
    BY DEF IInv, TypeOK
  <2>5. rejects' \in 0 .. RejectLimit /\ rejected' \in [price : Int, touch : Nat]
    BY PricingAssumption DEF IInv, TypeOK
  <2>6. sinceReject' \in 0 .. Backoff /\ sinceReprice' \in 0 .. Interval
    BY PricingAssumption DEF IInv, TypeOK
  <2> QED  BY <2>1, <2>2, <2>3, <2>4, <2>5, <2>6 DEF IInv, TypeOK, Children
<1>2. InBand'
  BY <1>1 DEF IInv, TypeOK, Reasons, Waits, Held, Steps, InBand, Buying
<1>3. GivesUpForCause'
  BY <1>1, PricingAssumption DEF IInv, TypeOK, Reasons, Waits, Held, Steps, GivesUpForCause, Terminal
<1>4. BlamesTheRange'
  BY <1>1 DEF IInv, TypeOK, Reasons, Waits, Held, Steps, BlamesTheRange, InRange, PassivePrice, AggressivePrice, Buying
<1>5. (Terminal => pc = "idle")'
  BY DEF IInv, Terminal
<1>6. (Terminal \/ (rejects < RejectLimit /\ reason # "PRICE_OUTSIDE_RANGE"))'
  BY PricingAssumption DEF IInv, TypeOK, Reasons, Waits, Held, Steps, Terminal
<1>7. (reason = "WAITING_FOR_PRICE_RANGE" =>
         ~InRange(PassivePrice(seen)) /\ child.state = "none" /\ left > 0)'
  BY <1>1 DEF IInv, TypeOK, Reasons, Waits, Held, Steps, InRange, PassivePrice, Buying
<1>8. (pc = "sending" /\ child.passive /\ rejects > 0 =>
         sinceReject = Backoff /\ rejected # Rejected)'
  BY <1>1 DEF IInv, TypeOK, Reasons, Waits, Held, Steps, Rejected, Touch, Buying
<1>9. (pc \in {"demand", "repriced"} => child.state = "none")'
  BY <1>1 DEF IInv, TypeOK, Reasons, Waits, Held, Steps
<1> QED
  BY <1>1, <1>2, <1>3, <1>4, <1>5, <1>6, <1>7, <1>8, <1>9 DEF IInv

\* The limit of the rejects ends the execution.
LEMMA RejectedSound ==
  ASSUME IInv, PostOnlyRejected PROVE IInv'
<1> USE DEF PostOnlyRejected, Sent, AtLimit, Rejected, Touch, EndAs, Completed, CompleteOr, Note, GoOn, Cancel, CancelResting, NoChild, Resting, marketVars, gateVars
<1>1. TypeOK'
  <2>1. child' \in Children
    BY PricingAssumption DEF IInv, TypeOK, Children
  <2>2. left' \in 0 .. Target
    BY DEF IInv, TypeOK
  <2>3. /\ status' \in {"RUNNING", "COMPLETED", "PARTIALLY_COMPLETED", "EXPIRED", "FAILED"}
        /\ reason' \in Reasons /\ pc' \in Steps
    BY DEF IInv, TypeOK, Reasons, Waits, Held, Steps
  <2>4. ((child.state = "sent") <=> (pc = "sending"))'
    BY DEF IInv, TypeOK
  <2>5. rejects' \in 0 .. RejectLimit /\ rejected' \in [price : Int, touch : Nat]
    <3>1. rejects < RejectLimit /\ rejects' = rejects + 1
      BY DEF IInv, Terminal
    <3>2. rejects' \in 0 .. RejectLimit
      BY <3>1, PricingAssumption DEF IInv, TypeOK
    <3>3. Touch(seen) \in Nat /\ child.price \in Int
      BY PassiveRests DEF IInv, TypeOK
    <3> QED  BY <3>2, <3>3
  <2>6. sinceReject' \in 0 .. Backoff /\ sinceReprice' \in 0 .. Interval
    BY PricingAssumption DEF IInv, TypeOK
  <2> QED  BY <2>1, <2>2, <2>3, <2>4, <2>5, <2>6 DEF IInv, TypeOK, Children
<1>2. InBand'
  BY <1>1 DEF IInv, TypeOK, Reasons, Waits, Held, Steps, InBand, Buying
<1>3. GivesUpForCause'
  BY <1>1, PricingAssumption DEF IInv, TypeOK, Reasons, Waits, Held, Steps, GivesUpForCause, Terminal
<1>4. BlamesTheRange'
  BY <1>1 DEF IInv, TypeOK, Reasons, Waits, Held, Steps, BlamesTheRange, InRange, PassivePrice, AggressivePrice, Buying
<1>5. (Terminal => pc = "idle")'
  BY DEF IInv, Terminal
<1>6. (Terminal \/ (rejects < RejectLimit /\ reason # "PRICE_OUTSIDE_RANGE"))'
  BY PricingAssumption DEF IInv, TypeOK, Reasons, Waits, Held, Steps, Terminal
<1>7. (reason = "WAITING_FOR_PRICE_RANGE" =>
         ~InRange(PassivePrice(seen)) /\ child.state = "none" /\ left > 0)'
  BY <1>1 DEF IInv, TypeOK, Reasons, Waits, Held, Steps, InRange, PassivePrice, Buying
<1>8. (pc = "sending" /\ child.passive /\ rejects > 0 =>
         sinceReject = Backoff /\ rejected # Rejected)'
  BY <1>1 DEF IInv, TypeOK, Reasons, Waits, Held, Steps, Rejected, Touch, Buying
<1>9. (pc \in {"demand", "repriced"} => child.state = "none")'
  BY <1>1 DEF IInv, TypeOK, Reasons, Waits, Held, Steps
<1> QED
  BY <1>1, <1>2, <1>3, <1>4, <1>5, <1>6, <1>7, <1>8, <1>9 DEF IInv

\* An accepted child opens the gate.
LEMMA AcceptedSound ==
  ASSUME IInv, Accepted PROVE IInv'
<1> USE DEF Accepted, Sent, ResetGate, NoReject, marketVars
<1>1. TypeOK'
  BY PricingAssumption DEF IInv, TypeOK, Reasons, Waits, Held, Steps
<1>2. InBand'
  BY <1>1 DEF IInv, TypeOK, Reasons, Waits, Held, Steps, InBand, Buying
<1>3. GivesUpForCause'
  BY <1>1, PricingAssumption DEF IInv, TypeOK, Reasons, Waits, Held, Steps, GivesUpForCause, Terminal
<1>4. BlamesTheRange'
  BY <1>1 DEF IInv, TypeOK, Reasons, Waits, Held, Steps, BlamesTheRange, InRange, PassivePrice, AggressivePrice, Buying
<1>5. (Terminal => pc = "idle")'
  BY DEF IInv, Terminal
<1>6. (Terminal \/ (rejects < RejectLimit /\ reason # "PRICE_OUTSIDE_RANGE"))'
  BY PricingAssumption DEF IInv, TypeOK, Reasons, Waits, Held, Steps, Terminal
<1>7. (reason = "WAITING_FOR_PRICE_RANGE" =>
         ~InRange(PassivePrice(seen)) /\ child.state = "none" /\ left > 0)'
  BY <1>1 DEF IInv, TypeOK, Reasons, Waits, Held, Steps, InRange, PassivePrice, Buying
<1>8. (pc = "sending" /\ child.passive /\ rejects > 0 =>
         sinceReject = Backoff /\ rejected # Rejected)'
  BY <1>1 DEF IInv, TypeOK, Reasons, Waits, Held, Steps, Rejected, Touch, Buying
<1>9. (pc \in {"demand", "repriced"} => child.state = "none")'
  BY <1>1 DEF IInv, TypeOK, Reasons, Waits, Held, Steps
<1> QED
  BY <1>1, <1>2, <1>3, <1>4, <1>5, <1>6, <1>7, <1>8, <1>9 DEF IInv

\* An immediate-or-cancel child is gone, or rests where it was sent.
LEMMA TakenSound ==
  ASSUME IInv, Taken PROVE IInv'
<1> USE DEF Taken, OneMore, Sent, ResetGate, NoReject, NoChild, marketVars
<1>1. TypeOK'
  <2>1. child' \in Children /\ child'.state # "sent"
    <3>1. child \in Children
      BY DEF IInv, TypeOK, Children
    <3>2. CASE child' = [child EXCEPT !.state = "resting"]
      BY <3>1, <3>2 DEF Children
    <3>3. CASE child' = NoChild
      BY <3>3, PricingAssumption DEF Children
    <3> QED  BY <3>2, <3>3
  <2>2. left' \in 0 .. Target
    <3>1. left \in 0 .. Target /\ Target \in Nat
      BY PricingAssumption DEF IInv, TypeOK
    <3>2. left' = left \/ \E k \in 0 .. left : left' = left - k
      OBVIOUS
    <3> QED  BY <3>1, <3>2
  <2>3. reason' \in Reasons /\ pc' \in Steps /\ pc' # "sending"
    BY DEF IInv, TypeOK, Reasons, Waits, Held, Steps
  <2>4. attempts' \in 0 .. 2
    BY DEF IInv, TypeOK
  <2>5. rejects' \in 0 .. RejectLimit /\ rejected' \in [price : Int, touch : Nat]
        /\ sinceReject' \in 0 .. Backoff
    BY PricingAssumption
  <2> QED
    BY <2>1, <2>2, <2>3, <2>4, <2>5 DEF IInv, TypeOK, Children
<1>2. InBand'
  BY <1>1 DEF IInv, TypeOK, Reasons, Waits, Held, Steps, InBand, Buying
<1>3. GivesUpForCause'
  BY <1>1, PricingAssumption DEF IInv, TypeOK, Reasons, Waits, Held, Steps, GivesUpForCause, Terminal
<1>4. BlamesTheRange'
  BY <1>1 DEF IInv, TypeOK, Reasons, Waits, Held, Steps, BlamesTheRange, InRange, PassivePrice, AggressivePrice, Buying
<1>5. (Terminal => pc = "idle")'
  BY DEF IInv, Terminal
<1>6. (Terminal \/ (rejects < RejectLimit /\ reason # "PRICE_OUTSIDE_RANGE"))'
  BY PricingAssumption DEF IInv, TypeOK, Reasons, Waits, Held, Steps, Terminal
<1>7. (reason = "WAITING_FOR_PRICE_RANGE" =>
         ~InRange(PassivePrice(seen)) /\ child.state = "none" /\ left > 0)'
  BY <1>1 DEF IInv, TypeOK, Reasons, Waits, Held, Steps, InRange, PassivePrice, Buying
<1>8. (pc = "sending" /\ child.passive /\ rejects > 0 =>
         sinceReject = Backoff /\ rejected # Rejected)'
  BY <1>1 DEF IInv, TypeOK, Reasons, Waits, Held, Steps, Rejected, Touch, Buying
<1>9. (pc \in {"demand", "repriced"} => child.state = "none")'
  BY <1>1 DEF IInv, TypeOK, Reasons, Waits, Held, Steps
<1> QED
  BY <1>1, <1>2, <1>3, <1>4, <1>5, <1>6, <1>7, <1>8, <1>9 DEF IInv

\* A reject that is not retried ends the execution as failed.
LEMMA FailedSound ==
  ASSUME IInv, TerminallyRejected PROVE IInv'
<1> USE DEF TerminallyRejected, OneMore, Sent, NoChild, marketVars, gateVars
<1>1. TypeOK'
  BY PricingAssumption DEF IInv, TypeOK, Reasons, Waits, Held, Steps
<1>2. InBand'
  BY <1>1 DEF IInv, TypeOK, Reasons, Waits, Held, Steps, InBand, Buying
<1>3. GivesUpForCause'
  BY <1>1, PricingAssumption DEF IInv, TypeOK, Reasons, Waits, Held, Steps, GivesUpForCause, Terminal
<1>4. BlamesTheRange'
  BY <1>1 DEF IInv, TypeOK, Reasons, Waits, Held, Steps, BlamesTheRange, InRange, PassivePrice, AggressivePrice, Buying
<1>5. (Terminal => pc = "idle")'
  BY DEF IInv, Terminal
<1>6. (Terminal \/ (rejects < RejectLimit /\ reason # "PRICE_OUTSIDE_RANGE"))'
  BY PricingAssumption DEF IInv, TypeOK, Reasons, Waits, Held, Steps, Terminal
<1>7. (reason = "WAITING_FOR_PRICE_RANGE" =>
         ~InRange(PassivePrice(seen)) /\ child.state = "none" /\ left > 0)'
  BY <1>1 DEF IInv, TypeOK, Reasons, Waits, Held, Steps, InRange, PassivePrice, Buying
<1>8. (pc = "sending" /\ child.passive /\ rejects > 0 =>
         sinceReject = Backoff /\ rejected # Rejected)'
  BY <1>1 DEF IInv, TypeOK, Reasons, Waits, Held, Steps, Rejected, Touch, Buying
<1>9. (pc \in {"demand", "repriced"} => child.state = "none")'
  BY <1>1 DEF IInv, TypeOK, Reasons, Waits, Held, Steps
<1> QED
  BY <1>1, <1>2, <1>3, <1>4, <1>5, <1>6, <1>7, <1>8, <1>9 DEF IInv

\* The market touches nothing of the execution.
LEMMA MovesSound ==
  ASSUME IInv, Moves PROVE IInv'
<1> USE DEF Moves, gateVars
<1>1. TypeOK'
  <2>1. child' \in Children
    BY DEF IInv, TypeOK, Children
  <2>2. left' \in 0 .. Target
    BY DEF IInv, TypeOK
  <2>3. /\ status' \in {"RUNNING", "COMPLETED", "PARTIALLY_COMPLETED", "EXPIRED", "FAILED"}
        /\ reason' \in Reasons /\ pc' \in Steps
    BY DEF IInv, TypeOK, Reasons, Waits, Held, Steps
  <2>4. ((child.state = "sent") <=> (pc = "sending"))'
    BY DEF IInv, TypeOK
  <2>5. rejects' \in 0 .. RejectLimit /\ rejected' \in [price : Int, touch : Nat]
    BY PricingAssumption DEF IInv, TypeOK
  <2>6. sinceReject' \in 0 .. Backoff /\ sinceReprice' \in 0 .. Interval
    BY PricingAssumption DEF IInv, TypeOK
  <2> QED  BY <2>1, <2>2, <2>3, <2>4, <2>5, <2>6 DEF IInv, TypeOK, Children
<1>2. InBand'
  BY <1>1 DEF IInv, TypeOK, Reasons, Waits, Held, Steps, InBand, Buying
<1>3. GivesUpForCause'
  BY <1>1, PricingAssumption DEF IInv, TypeOK, Reasons, Waits, Held, Steps, GivesUpForCause, Terminal
<1>4. BlamesTheRange'
  BY <1>1 DEF IInv, TypeOK, Reasons, Waits, Held, Steps, BlamesTheRange, InRange, PassivePrice, AggressivePrice, Buying
<1>5. (Terminal => pc = "idle")'
  BY DEF IInv, Terminal
<1>6. (Terminal \/ (rejects < RejectLimit /\ reason # "PRICE_OUTSIDE_RANGE"))'
  BY PricingAssumption DEF IInv, TypeOK, Reasons, Waits, Held, Steps, Terminal
<1>7. (reason = "WAITING_FOR_PRICE_RANGE" =>
         ~InRange(PassivePrice(seen)) /\ child.state = "none" /\ left > 0)'
  BY <1>1 DEF IInv, TypeOK, Reasons, Waits, Held, Steps, InRange, PassivePrice, Buying
<1>8. (pc = "sending" /\ child.passive /\ rejects > 0 =>
         sinceReject = Backoff /\ rejected # Rejected)'
  BY <1>1 DEF IInv, TypeOK, Reasons, Waits, Held, Steps, Rejected, Touch, Buying
<1>9. (pc \in {"demand", "repriced"} => child.state = "none")'
  BY <1>1 DEF IInv, TypeOK, Reasons, Waits, Held, Steps
<1> QED
  BY <1>1, <1>2, <1>3, <1>4, <1>5, <1>6, <1>7, <1>8, <1>9 DEF IInv

\* New rules bear on what is priced next, not on an execution that has ended.
LEMMA RulesSound ==
  ASSUME IInv, RulesChange PROVE IInv'
<1> USE DEF RulesChange, gateVars
<1>1. TypeOK'
  BY PricingAssumption DEF IInv, TypeOK, Reasons, Waits, Held, Steps
<1>2. InBand'
  BY <1>1 DEF IInv, TypeOK, Reasons, Waits, Held, Steps, InBand, Buying
<1>3. GivesUpForCause'
  BY <1>1, PricingAssumption DEF IInv, TypeOK, Reasons, Waits, Held, Steps, GivesUpForCause, Terminal
<1>4. BlamesTheRange'
  BY <1>1 DEF IInv, TypeOK, Reasons, Waits, Held, Steps, BlamesTheRange, InRange, PassivePrice, AggressivePrice, Buying
<1>5. (Terminal => pc = "idle")'
  BY DEF IInv, Terminal
<1>6. (Terminal \/ (rejects < RejectLimit /\ reason # "PRICE_OUTSIDE_RANGE"))'
  BY PricingAssumption DEF IInv, TypeOK, Reasons, Waits, Held, Steps, Terminal
<1>7. (reason = "WAITING_FOR_PRICE_RANGE" =>
         ~InRange(PassivePrice(seen)) /\ child.state = "none" /\ left > 0)'
  BY <1>1 DEF IInv, TypeOK, Reasons, Waits, Held, Steps, InRange, PassivePrice, Buying
<1>8. (pc = "sending" /\ child.passive /\ rejects > 0 =>
         sinceReject = Backoff /\ rejected # Rejected)'
  BY <1>1 DEF IInv, TypeOK, Reasons, Waits, Held, Steps, Rejected, Touch, Buying
<1>9. (pc \in {"demand", "repriced"} => child.state = "none")'
  BY <1>1 DEF IInv, TypeOK, Reasons, Waits, Held, Steps
<1> QED
  BY <1>1, <1>2, <1>3, <1>4, <1>5, <1>6, <1>7, <1>8, <1>9 DEF IInv

\* A fill may take the child off the book.
LEMMA FillsSound ==
  ASSUME IInv, Fills PROVE IInv'
<1> USE DEF Fills, Resting, NoChild, gateVars, marketVars
<1>1. TypeOK'
  BY PricingAssumption DEF IInv, TypeOK, Reasons, Waits, Held, Steps
<1>2. InBand'
  BY <1>1 DEF IInv, TypeOK, Reasons, Waits, Held, Steps, InBand, Buying
<1>3. GivesUpForCause'
  BY <1>1, PricingAssumption DEF IInv, TypeOK, Reasons, Waits, Held, Steps, GivesUpForCause, Terminal
<1>4. BlamesTheRange'
  BY <1>1 DEF IInv, TypeOK, Reasons, Waits, Held, Steps, BlamesTheRange, InRange, PassivePrice, AggressivePrice, Buying
<1>5. (Terminal => pc = "idle")'
  BY DEF IInv, Terminal
<1>6. (Terminal \/ (rejects < RejectLimit /\ reason # "PRICE_OUTSIDE_RANGE"))'
  BY PricingAssumption DEF IInv, TypeOK, Reasons, Waits, Held, Steps, Terminal
<1>7. (reason = "WAITING_FOR_PRICE_RANGE" =>
         ~InRange(PassivePrice(seen)) /\ child.state = "none" /\ left > 0)'
  BY <1>1 DEF IInv, TypeOK, Reasons, Waits, Held, Steps, InRange, PassivePrice, Buying
<1>8. (pc = "sending" /\ child.passive /\ rejects > 0 =>
         sinceReject = Backoff /\ rejected # Rejected)'
  BY <1>1 DEF IInv, TypeOK, Reasons, Waits, Held, Steps, Rejected, Touch, Buying
<1>9. (pc \in {"demand", "repriced"} => child.state = "none")'
  BY <1>1 DEF IInv, TypeOK, Reasons, Waits, Held, Steps
<1> QED
  BY <1>1, <1>2, <1>3, <1>4, <1>5, <1>6, <1>7, <1>8, <1>9 DEF IInv

\* What is on its way waits at a gate that is open.
LEMMA TickSound ==
  ASSUME IInv, Tick PROVE IInv'
<1> USE DEF Tick, Older, marketVars
<1>1. TypeOK'
  BY PricingAssumption DEF IInv, TypeOK, Reasons, Waits, Held, Steps
<1>2. InBand'
  BY <1>1 DEF IInv, TypeOK, Reasons, Waits, Held, Steps, InBand, Buying
<1>3. GivesUpForCause'
  BY <1>1, PricingAssumption DEF IInv, TypeOK, Reasons, Waits, Held, Steps, GivesUpForCause, Terminal
<1>4. BlamesTheRange'
  BY <1>1 DEF IInv, TypeOK, Reasons, Waits, Held, Steps, BlamesTheRange, InRange, PassivePrice, AggressivePrice, Buying
<1>5. (Terminal => pc = "idle")'
  BY DEF IInv, Terminal
<1>6. (Terminal \/ (rejects < RejectLimit /\ reason # "PRICE_OUTSIDE_RANGE"))'
  BY PricingAssumption DEF IInv, TypeOK, Reasons, Waits, Held, Steps, Terminal
<1>7. (reason = "WAITING_FOR_PRICE_RANGE" =>
         ~InRange(PassivePrice(seen)) /\ child.state = "none" /\ left > 0)'
  BY <1>1 DEF IInv, TypeOK, Reasons, Waits, Held, Steps, InRange, PassivePrice, Buying
<1>8. (pc = "sending" /\ child.passive /\ rejects > 0 =>
         sinceReject = Backoff /\ rejected # Rejected)'
  BY <1>1 DEF IInv, TypeOK, Reasons, Waits, Held, Steps, Rejected, Touch, Buying
<1>9. (pc \in {"demand", "repriced"} => child.state = "none")'
  BY <1>1 DEF IInv, TypeOK, Reasons, Waits, Held, Steps
<1> QED
  BY <1>1, <1>2, <1>3, <1>4, <1>5, <1>6, <1>7, <1>8, <1>9 DEF IInv

\* The deadline alone changes nothing else.
LEMMA DeadlineSound ==
  ASSUME IInv, Deadline PROVE IInv'
<1> USE DEF Deadline, gateVars
<1>1. TypeOK'
  BY PricingAssumption DEF IInv, TypeOK, Reasons, Waits, Held, Steps
<1>2. InBand'
  BY <1>1 DEF IInv, TypeOK, Reasons, Waits, Held, Steps, InBand, Buying
<1>3. GivesUpForCause'
  BY <1>1, PricingAssumption DEF IInv, TypeOK, Reasons, Waits, Held, Steps, GivesUpForCause, Terminal
<1>4. BlamesTheRange'
  BY <1>1 DEF IInv, TypeOK, Reasons, Waits, Held, Steps, BlamesTheRange, InRange, PassivePrice, AggressivePrice, Buying
<1>5. (Terminal => pc = "idle")'
  BY DEF IInv, Terminal
<1>6. (Terminal \/ (rejects < RejectLimit /\ reason # "PRICE_OUTSIDE_RANGE"))'
  BY PricingAssumption DEF IInv, TypeOK, Reasons, Waits, Held, Steps, Terminal
<1>7. (reason = "WAITING_FOR_PRICE_RANGE" =>
         ~InRange(PassivePrice(seen)) /\ child.state = "none" /\ left > 0)'
  BY <1>1 DEF IInv, TypeOK, Reasons, Waits, Held, Steps, InRange, PassivePrice, Buying
<1>8. (pc = "sending" /\ child.passive /\ rejects > 0 =>
         sinceReject = Backoff /\ rejected # Rejected)'
  BY <1>1 DEF IInv, TypeOK, Reasons, Waits, Held, Steps, Rejected, Touch, Buying
<1>9. (pc \in {"demand", "repriced"} => child.state = "none")'
  BY <1>1 DEF IInv, TypeOK, Reasons, Waits, Held, Steps
<1> QED
  BY <1>1, <1>2, <1>3, <1>4, <1>5, <1>6, <1>7, <1>8, <1>9 DEF IInv

\* The three prices, the fault and the gate a demand may meet.
LEMMA DemandSound ==
  ASSUME IInv, Demand PROVE IInv'
<1> DEFINE p     == IF Aggressive THEN AggressivePrice(quote) ELSE PassivePrice(quote)
           fault == ShapeFault(p, quote, ~Aggressive)
           gate  == IF Aggressive THEN "none" ELSE GateHolds(p)
           ok    == left > 0 /\ InRange(p) /\ fault = "none" /\ gate = "none"
<1>1. /\ pc \in {"demand", "repriced"} /\ left' = left /\ seen' = quote
      /\ UNCHANGED <<request, marketVars, placed, attempts, gateVars, sinceReprice>>
      /\ IF ok THEN Send(p) ELSE UNCHANGED child
  BY DEF Demand
<1>2. status = "RUNNING" /\ rejects < RejectLimit /\ reason # "PRICE_OUTSIDE_RANGE"
      /\ child.state # "sent"
  BY <1>1 DEF IInv, TypeOK, Terminal
<1>3. /\ p \in Int /\ Touch(quote) \in Nat /\ quote \in Quotes
      /\ fault \in {"ORDER_SAFETY_REJECTED", "POST_ONLY_UNSUPPORTED", "temporary", "none"}
      /\ fault = "ORDER_SAFETY_REJECTED" => ~rules.trading \/ left < MinQuantity
      /\ fault = "POST_ONLY_UNSUPPORTED" => ~rules.gtx
  BY PassiveRests DEF IInv, TypeOK, ShapeFault
<1>4. gate \in Held \cup {"none"}
  BY DEF GateHolds, Held
<1> HIDE DEF p, fault, gate
\* The cases of a demand without a child.
<1>5. ASSUME ~ok
      PROVE  /\ UNCHANGED child /\ pc' = "idle"
             /\ \/ left = 0 /\ UNCHANGED <<status, reason>>
                \/ /\ left > 0 /\ status' \in {"PARTIALLY_COMPLETED", "EXPIRED"}
                   /\ reason' = fault
                   /\ fault \in {"ORDER_SAFETY_REJECTED", "POST_ONLY_UNSUPPORTED"}
                \/ /\ left > 0 /\ ~InRange(p)
                   /\ \/ /\ expired /\ reason' = "PRICE_OUTSIDE_RANGE"
                         /\ status' \in {"PARTIALLY_COMPLETED", "EXPIRED"}
                      \/ /\ ~expired /\ reason' = "WAITING_FOR_PRICE_RANGE"
                         /\ UNCHANGED status
                \/ /\ left > 0 /\ InRange(p)
                   /\ reason' = "ORDER_SHAPE_TEMPORARILY_UNTRADEABLE"
                   /\ \/ expired /\ status' \in {"PARTIALLY_COMPLETED", "EXPIRED"}
                      \/ UNCHANGED status
                \/ left > 0 /\ reason' = gate /\ UNCHANGED status
  BY <1>1, <1>3, <1>5, PricingAssumption DEF Demand, EndAs, Note, IInv, TypeOK, p, fault, gate
<1>6. CASE ok
  <2>1. /\ child' = [price |-> p, passive |-> ~Aggressive, state |-> "sent", age |-> 0]
        /\ pc' = "sending" /\ UNCHANGED status
        /\ reason' = IF reason \in Waits THEN "none" ELSE reason
    BY <1>1, <1>6 DEF Send
  <2>2. TypeOK'
    <3>1. child' \in Children /\ child'.state = "sent"
      BY <2>1, <1>3, PricingAssumption DEF Children
    <3>2. seen' \in Quotes
      BY <1>1, <1>3, <2>1, PricingAssumption
    <3>3. reason' \in Reasons /\ pc' \in Steps
      BY <2>1 DEF IInv, TypeOK, Reasons, Steps
    <3> QED  BY <1>1, <2>1, <3>1, <3>2, <3>3 DEF IInv, TypeOK, marketVars, gateVars, Children
  <2>3. InBand'
    BY <1>1, <1>6, <2>1 DEF InBand, InRange, Buying
  <2>4. GivesUpForCause' /\ BlamesTheRange' /\ ~Terminal'
    BY <1>2, <2>1 DEF GivesUpForCause, BlamesTheRange, Terminal, Waits, Held
  <2>5. rejects' < RejectLimit /\ reason' # "PRICE_OUTSIDE_RANGE"
        /\ reason' # "WAITING_FOR_PRICE_RANGE"
    BY <1>1, <1>2, <2>1 DEF gateVars, Waits, Held
  <2>6. ASSUME child'.passive, rejects' > 0
        PROVE  sinceReject' = Backoff /\ rejected' # Rejected'
    <3>1. ~Aggressive /\ GateHolds(p) = "none" /\ rejects > 0
      BY <1>1, <1>6, <2>1, <2>6 DEF gate, gateVars
    <3>2. ~(sinceReject < Backoff) /\ rejected # [price |-> p, touch |-> Touch(quote)]
      <4> DEFINE same == rejected = [price |-> p, touch |-> Touch(quote)]
      <4>1. GateHolds(p) =
              CASE rejects = 0                          -> "none"
                [] rejects > 0 /\ sinceReject < Backoff -> "RETRYABLE_ORDER_REJECT_BACKOFF"
                [] rejects > 0 /\ sinceReject >= Backoff /\ same ->
                     "RETRYABLE_ORDER_REJECT_WAITING_FOR_FRESH_QUOTE"
                [] OTHER -> "none"
        BY DEF GateHolds
      <4> HIDE DEF same
      <4>2. rejects \in Nat /\ sinceReject \in Nat /\ Backoff \in Nat
        BY PricingAssumption DEF IInv, TypeOK
      <4>3. ~(sinceReject < Backoff) /\ ~same
        <5>1. CASE sinceReject < Backoff
          BY <3>1, <4>1, <4>2, <5>1
        <5>2. CASE ~(sinceReject < Backoff) /\ same
          BY <3>1, <4>1, <4>2, <5>2
        <5> QED  BY <5>1, <5>2
      <4> QED  BY <4>3 DEF same
    <3>3. sinceReject = Backoff
      BY <3>2, PricingAssumption DEF IInv, TypeOK
    <3> QED
      BY <1>1, <2>1, <3>2, <3>3 DEF gateVars, Rejected, Touch, Buying
  <2> QED
    BY <2>1, <2>2, <2>3, <2>4, <2>5, <2>6 DEF IInv
<1>7. CASE ~ok
  <2>1. TypeOK'
    <3>1. reason' \in Reasons
      BY <1>4, <1>5, <1>7 DEF IInv, TypeOK, Reasons, Waits, Held
    <3>2. status' \in {"RUNNING", "COMPLETED", "PARTIALLY_COMPLETED", "EXPIRED", "FAILED"}
      BY <1>5, <1>7 DEF IInv, TypeOK
    <3>3. pc' = "idle" /\ UNCHANGED child
      BY <1>5, <1>7
    <3> QED
      BY <1>1, <1>2, <1>3, <3>1, <3>2, <3>3 DEF IInv, TypeOK, Steps, marketVars, gateVars
  <2>2. InBand'
    BY <1>1, <1>5, <1>7 DEF IInv, InBand, Buying
  <2>3. GivesUpForCause'
    BY <1>1, <1>2, <1>3, <1>5, <1>7 DEF GivesUpForCause, marketVars
  <2>4. ASSUME reason' = "PRICE_OUTSIDE_RANGE"
        PROVE  BlamesTheRange' /\ Terminal'
    <3>1. ~InRange(p) /\ expired /\ status' \in {"PARTIALLY_COMPLETED", "EXPIRED"}
      BY <1>2, <1>4, <1>5, <1>7, <2>4 DEF Held
    <3>2. p = IF request.policy = "CANCEL_REMAINDER" THEN PassivePrice(quote)
              ELSE AggressivePrice(quote)
      BY <3>1, PricingAssumption DEF p, Aggressive, IInv, TypeOK, AllRequests
    <3> QED
      BY <1>1, <3>1, <3>2
      DEF BlamesTheRange, InRange, PassivePrice, AggressivePrice, Buying, Terminal
  <2>5. ASSUME reason' = "WAITING_FOR_PRICE_RANGE"
        PROVE  ~InRange(PassivePrice(seen))' /\ child'.state = "none" /\ left' > 0
    <3>1. CASE left = 0
      BY <1>2, <1>5, <1>7, <2>5, <3>1 DEF IInv
    <3>2. CASE left > 0
      <4>1. ~InRange(p) /\ ~expired
        BY <1>4, <1>5, <1>7, <2>5, <3>2 DEF Held
      <4>2. p = PassivePrice(quote)
        BY <4>1 DEF p, Aggressive
      <4>3. child.state = "none"
        BY <1>1 DEF IInv
      <4> QED
        BY <1>1, <1>5, <1>7, <3>2, <4>1, <4>2, <4>3 DEF InRange, PassivePrice, Buying
    <3> QED  BY <3>1, <3>2, PricingAssumption DEF IInv, TypeOK
  <2>6. pc' = "idle" /\ rejects' < RejectLimit
    BY <1>1, <1>2, <1>5, <1>7 DEF gateVars
  <2>7. BlamesTheRange' /\ (Terminal' \/ reason' # "PRICE_OUTSIDE_RANGE")
    BY <2>4 DEF BlamesTheRange
  <2> QED
    BY <2>1, <2>2, <2>3, <2>5, <2>6, <2>7 DEF IInv
<1> QED
  BY <1>6, <1>7

LEMMA InitSound == Init => IInv
<1> SUFFICES ASSUME Init PROVE IInv
  OBVIOUS
<1>1. TypeOK
  <2>1. child \in Children /\ child.state = "none" /\ rejected \in [price : Int, touch : Nat]
    BY PricingAssumption DEF Init, NoChild, NoReject, Children
  <2>2. rejects \in 0 .. RejectLimit /\ left \in 0 .. Target
        /\ sinceReject \in 0 .. Backoff /\ sinceReprice \in 0 .. Interval
    BY PricingAssumption DEF Init
  <2>3. fresh \in BOOLEAN /\ calm \in BOOLEAN /\ expired \in BOOLEAN
        /\ placed \in BOOLEAN /\ rules \in Statuses
    BY DEF Init
  <2>5. attempts \in 0 .. 2
    BY DEF Init
  <2>4. quote \in Quotes /\ seen \in Quotes /\ reason \in Reasons /\ pc \in Steps
        /\ status \in {"RUNNING", "COMPLETED", "PARTIALLY_COMPLETED", "EXPIRED", "FAILED"}
        /\ request \in Requests /\ pc # "sending"
    BY DEF Init, Reasons, Steps
  <2> QED
    BY <2>1, <2>2, <2>3, <2>4, <2>5 DEF TypeOK, Children
<1> QED
  BY <1>1, PricingAssumption
  DEF Init, IInv, InBand, GivesUpForCause, BlamesTheRange, Terminal, NoChild

LEMMA StepSound == IInv /\ [Next]_vars => IInv'
<1> SUFFICES ASSUME IInv, [Next]_vars PROVE IInv'
  OBVIOUS
<1>1. CASE UNCHANGED vars
  BY <1>1
  DEF vars, marketVars, gateVars, IInv, TypeOK, InBand, GivesUpForCause, BlamesTheRange,
      Terminal, InRange, PassivePrice, AggressivePrice, Buying, Rejected, Touch
<1> QED
  BY <1>1, CompleteSound, CloseSound, BeginSound, NoFreshSound, RepriceSound, DemandSound,
     RejectedSound, AcceptedSound, TakenSound, FailedSound, MovesSound, RulesSound,
     FillsSound, TickSound, DeadlineSound
  DEF Next, Operation

\* The inductive invariant of a Chase execution's pricing, for every market,
\* range, rule of the venue and request.
THEOREM PricingSound == Spec => []IInv
<1> QED  BY InitSound, StepSound, PTL DEF Spec

\* The variables keep their kinds.
THEOREM PricingTypes == Spec => []TypeOK
<1>1. IInv => TypeOK
  BY DEF IInv
<1> QED  BY <1>1, PricingSound, PTL

\* No order at a price outside the target range, for every tick size: the
\* check comes after the rounding.
THEOREM PricesInBand == Spec => []InBand
<1>1. IInv => InBand
  BY DEF IInv
<1> QED  BY <1>1, PricingSound, PTL

\* Nothing but rejects, a change of the symbol's rules and a remainder too small
\* to trade ends an execution before its deadline, and the reason names which:
\* no uncrossed quote makes a passive order cross.
THEOREM EndsForCause == Spec => []GivesUpForCause
<1>1. IInv => GivesUpForCause
  BY DEF IInv
<1> QED  BY <1>1, PricingSound, PTL

\* PRICE_OUTSIDE_RANGE is the last word only on a quote outside the range.
THEOREM BlameIsTrue == Spec => []BlamesTheRange
<1>1. IInv => BlamesTheRange
  BY DEF IInv
<1> QED  BY <1>1, PricingSound, PTL

\* No quote is tried twice in a row after a post-only reject, nor before the
\* backoff is over.
THEOREM NeverTheSameQuote == Spec => FreshAfterReject
<1>1. IInv /\ [Next]_vars => [RejectStep]_vars
  <2> SUFFICES ASSUME IInv, Next PROVE RejectStep
    OBVIOUS
  <2>1. CASE PostOnlyRejected
    BY <2>1 DEF IInv, PostOnlyRejected, Sent, RejectStep
  <2>2. CASE ~PostOnlyRejected
    <3>1. rejects' = rejects \/ rejects' = 0
      BY <2>2
      DEF Next, Operation, Complete, CloseAtDeadline, Begin, NoFreshMarket, Reprice, Demand,
          Accepted, Taken, TerminallyRejected, ResetGate, Moves, RulesChange, Fills, Tick, Deadline, gateVars
    <3> QED  BY <3>1 DEF RejectStep, IInv, TypeOK
  <2> QED  BY <2>1, <2>2
<1> QED  BY <1>1, PricingSound, PTL DEF Spec, FreshAfterReject

=============================================================================
