------------------------------- MODULE Exposure -------------------------------
(***************************************************************************)
(* The exposure buckets of one execution: quantity that is not filled but  *)
(* could still fill.  Quantities are whole lots (multiples of the symbol's *)
(* quantity step).  Each operator maps the buckets before to the buckets   *)
(* after; checks that raise are guards or invariants of the engine.        *)
(***************************************************************************)
EXTENDS Integers, FiniteSets

Buckets == [live : Nat, submit : Nat, cancel : Nat, unknown : Nat]

NoExposure == [live |-> 0, submit |-> 0, cancel |-> 0, unknown |-> 0]

\* The lots after from[i] up to to[i], for all i in I.  Counting lots one by
\* one stands for a sum of differences of quantities.
Lots(I, from, to) == UNION {{i} \X (from[i] + 1 .. to[i]) : i \in I}

LotsBetween(I, from, to) == Cardinality(Lots(I, from, to))

\* The remaining quantity of the orders s[i], i in I.
Outstanding(s, I) ==
  LotsBetween(I, [i \in I |-> s[i].filled], [i \in I |-> s[i].qty])

Reserved(b) == b.live + b.submit + b.cancel + b.unknown

Smaller(a, b) == IF a <= b THEN a ELSE b
Larger(a, b)  == IF a >= b THEN a ELSE b

SubtractFloorZero(current, quantity) ==
  IF current > quantity THEN current - quantity ELSE 0

\* What a new child may still take of the target.
AvailableToSubmit(target, confirmed, b) ==
  SubtractFloorZero(target, confirmed + Reserved(b))

ReserveLiveOpen(b, q)      == [b EXCEPT !.live = @ + q]
ReservePendingSubmit(b, q) == [b EXCEPT !.submit = @ + q]
ReserveUnknown(b, q)       == [b EXCEPT !.unknown = @ + q]

ReleasePendingCancel(b, q) == [b EXCEPT !.cancel = SubtractFloorZero(@, q)]

\* A slip: what is being cancelled stays live as well.
MarkPendingCancel_Slip(b, q) ==
  [b EXCEPT !.cancel = @ + Smaller(q, b.live)]

\* Never moves more than is live.
MarkPendingCancel(b, q) ==
  LET moved == Smaller(q, b.live)
  IN  [b EXCEPT !.live = @ - moved, !.cancel = @ + moved]

=============================================================================
