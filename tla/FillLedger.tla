------------------------------ MODULE FillLedger ------------------------------
(***************************************************************************)
(* The fills of one child order: what the Binance adapter makes of trades, *)
(* order snapshots and user events, and what the engine's ledger makes of  *)
(* them.  Quantities are lots.  The k-th trade of the order ends at lot    *)
(* marks[k] of its cumulative quantity; a fill that is read in a window of *)
(* time is positioned from the start of that window, because the adapter   *)
(* sums up what it has read.                                               *)
(*                                                                         *)
(* The engine applies one report at a time under its actor lock; pc is the *)
(* next step of it.  Everything else is the venue's and may happen at any  *)
(* time.                                                                   *)
(***************************************************************************)
EXTENDS Exposure, Sequences

CONSTANTS
  Quantity,   \* Lots of the order.
  Begins      \* Subset of BOOLEAN: whether the engine has a child for the
              \* order; it forgets one whose create failed.

ASSUME FillAssumption == Quantity \in Nat \ {0} /\ Begins \subseteq BOOLEAN

VARIABLES
  marks,      \* Cumulative quantity after each trade of the order.
  resting,    \* The order is on the book.
  known,      \* The adapter can name the order of a trade by its order id.
  tracked,    \* The order is among the record's child orders.
  filled,     \* child.confirmed_filled_quantity
  total,      \* The parent's exposure.confirmed_filled_quantity.
  placed,     \* child_authoritative_fill_intervals, by trade id: the trades
              \* in the VWAP inputs and the lots each of them stands for.
  seen,       \* seen_fill_trade_ids
  pc,         \* "idle", "trades" (the orders are read) or "apply".
  report,     \* [fills, snapshot] of the report that is being applied.
  cut,        \* History: a window of time began after the first trade.
  uncounted   \* History: lots of an adopted child the parent did not count.

venueVars  == <<marks, resting>>
ledgerVars == <<filled, total, placed, seen>>
vars == <<venueVars, known, tracked, ledgerVars, pc, report, cut, uncounted>>

Omitted == -1                                  \* no snapshot of the order
NoReport == [fills |-> <<>>, snapshot |-> Omitted]

Position(k) == IF k = 0 THEN 0 ELSE marks[k]
Traded == Position(Len(marks))

\* A slip: the sums of an earlier window are not cleared.
FillFrom_Slip(k, w) == [id |-> k, cum |-> Position(k) + Position(w),
                        qty |-> Position(k) - Position(k - 1)]

\* Trade k as a fill whose position is counted from the end of trade w.
FillFrom(k, w) == [id |-> k, cum |-> Position(k) - Position(w),
                   qty |-> Position(k) - Position(k - 1)]

Init ==
  /\ marks = <<>> /\ resting = TRUE
  /\ tracked \in Begins /\ known = FALSE
  /\ filled = 0 /\ total = 0 /\ placed = <<>> /\ seen = {}
  /\ pc = "idle" /\ report = NoReport /\ cut = FALSE /\ uncounted = 0

(***************************************************************************)
(* The venue.                                                              *)
(***************************************************************************)
Trade ==
  /\ resting
  /\ \E q \in 1 .. Quantity - Traded :
       /\ marks' = Append(marks, Traded + q)
       /\ resting' = (Traded + q < Quantity)
  /\ UNCHANGED <<known, tracked, ledgerVars, pc, report, cut, uncounted>>

Close ==
  /\ resting /\ resting' = FALSE
  /\ UNCHANGED <<marks, known, tracked, ledgerVars, pc, report, cut, uncounted>>

(***************************************************************************)
(* What reaches the engine.  A report for an order that is not among the   *)
(* children makes a child of it: with nothing filled when the report has   *)
(* fills of it, else with all that the snapshot says.                      *)
(***************************************************************************)
Adopt(fills, snapshot) ==
  /\ tracked' = (tracked \/ snapshot # Omitted)
  /\ IF ~tracked /\ fills = <<>> /\ snapshot # Omitted
     THEN filled' = snapshot /\ uncounted' = snapshot
     ELSE UNCHANGED <<filled, uncounted>>

Receive(fills, snapshot) ==
  /\ pc' = "apply"
  /\ report' = [fills |-> fills, snapshot |-> snapshot]
  /\ Adopt(fills, snapshot)
  /\ UNCHANGED <<venueVars, total, placed, seen>>

\* A user event reports trade k: late, again, or before an earlier one.
TradeEvent ==
  /\ pc = "idle"
  /\ \E k \in DOMAIN marks : Receive(<<FillFrom(k, 0)>>, Position(k))
  /\ UNCHANGED <<known, cut>>

\* A user event without a trade (NEW, CANCELED, EXPIRED).
StatusEvent ==
  /\ pc = "idle"
  /\ \E k \in 0 .. Len(marks) : Receive(<<>>, Position(k))
  /\ UNCHANGED <<known, cut>>

\* The answer to a create, a cancel or a lookup.
Answer ==
  /\ pc = "idle" /\ tracked
  /\ Receive(<<>>, Traded)
  /\ known' = TRUE /\ UNCHANGED cut

\* A reconciliation reads the orders.  A closed one may lie before its window.
ReadOrders ==
  /\ pc = "idle"
  /\ \/ report' = [NoReport EXCEPT !.snapshot = Traded]
     \/ ~resting /\ report' = NoReport
  /\ pc' = "trades"
  /\ UNCHANGED <<venueVars, known, tracked, ledgerVars, cut, uncounted>>

\* Where the k-th of some trades stands when those after a and up to b have
\* one millisecond and are sorted by the text of their ids, so that those that
\* have gained a digit, after the s-th, come first (trade 10 before trade 9).
Turned(k, a, s, b) ==
  IF k \in a + 1 .. a + b - s THEN k + s - a
  ELSE IF k \in a + b - s + 1 .. b THEN k - (b - s) ELSE k

\* Trades w + 1 to m as the adapter and the engine put them.
Window(w, m, a, s, b) ==
  [i \in 1 .. m - w |-> FillFrom(Turned(w + i, a, s, b), w)]

\* It then reads the trades of its window; those of an order that the adapter
\* cannot name are left out.
ReadTrades ==
  /\ pc = "trades"
  /\ IF known \/ report.snapshot # Omitted
     THEN \E w \in 0 .. Len(marks) : \E m \in w .. Len(marks) :
            /\ \E a \in w .. m : \E b \in a .. m : \E s \in a .. b :
                 Receive(Window(w, m, a, s, b), report.snapshot)
            /\ cut' = (cut \/ w > 0)
     ELSE Receive(<<>>, report.snapshot) /\ UNCHANGED cut
  /\ known' = (known \/ report.snapshot # Omitted)

\* The trades cannot be read: what was read of the orders is lost.
TradesFail ==
  /\ pc = "trades"
  /\ pc' = "idle" /\ report' = NoReport
  /\ UNCHANGED <<venueVars, known, tracked, ledgerVars, cut, uncounted>>

(***************************************************************************)
(* The engine's ledger.  A span is a pair of lots <<start, end>>: the lots *)
(* start + 1 to end.                                                       *)
(***************************************************************************)
LotsOf(span) == span[1] + 1 .. span[2]

Covered == UNION {LotsOf(placed[t]) : t \in DOMAIN placed}

\* A slip: looks at the limits alone.
Fits_Slip(span, limit) == 0 <= span[1] /\ span[1] < span[2] /\ span[2] <= limit

Fits(span, limit) ==
  /\ 0 <= span[1] /\ span[1] < span[2] /\ span[2] <= limit
  /\ LotsOf(span) \cap Covered = {}

\* The lots 1 to p are covered and p + 1 is not: no p, or one.
Prefix == {p \in 1 .. Quantity : 1 .. p \subseteq Covered /\ p + 1 \notin Covered}

Absolute(f) == <<f.cum - f.qty, f.cum>>
AfterPrefix(f) == {<<p, p + f.qty>> : p \in Prefix}

\* A slip: the place after the prefix is not checked.
Span_Slip(f, limit) ==
  IF Fits(Absolute(f), limit) THEN {Absolute(f)} ELSE AfterPrefix(f)

\* The spans that fill f may stand for: none or one.  A fill that starts at
\* nought and does not fit is taken for the first one of a later window.
Span(f, limit) ==
  IF Fits(Absolute(f), limit) THEN {Absolute(f)}
  ELSE {span \in AfterPrefix(f) : f.cum = f.qty /\ Fits(span, limit)}

\* The fill that is next, and the quantity its report confirms.
NextFill == Head(report.fills)
Limit == Larger(Larger(filled, report.snapshot), NextFill.cum)

\* Raise the child to a cumulative quantity, and the parent by the same.
Raise(cum) ==
  /\ filled' = Larger(filled, cum)
  /\ total' = total + SubtractFloorZero(cum, filled)

FillDone ==
  /\ report' = [report EXCEPT !.fills = Tail(@)]
  /\ UNCHANGED <<venueVars, known, tracked, pc, cut, uncounted>>

IgnoreRepeat ==
  /\ pc = "apply" /\ report.fills # <<>> /\ NextFill.id \in seen
  /\ FillDone /\ UNCHANGED ledgerVars

\* A slip: a fill below what is confirmed is old news.
DropUnplaced_Slip ==
  /\ pc = "apply" /\ report.fills # <<>> /\ NextFill.id \notin seen
  /\ NextFill.cum <= filled
  /\ seen' = seen \cup {NextFill.id}
  /\ FillDone /\ UNCHANGED <<filled, total, placed>>

\* A fill without a span is dropped for good; its quantity comes by snapshot.
DropUnplaced ==
  /\ pc = "apply" /\ report.fills # <<>> /\ NextFill.id \notin seen
  /\ Span(NextFill, Limit) = {}
  /\ seen' = seen \cup {NextFill.id}
  /\ FillDone /\ UNCHANGED <<filled, total, placed>>

Place(id, span) ==
  placed' = [t \in DOMAIN placed \cup {id} |-> IF t = id THEN span ELSE placed[t]]

CountTrade ==
  /\ pc = "apply" /\ report.fills # <<>> /\ NextFill.id \notin seen
  /\ \E span \in Span(NextFill, Limit) : Place(NextFill.id, span)
  /\ Raise(NextFill.cum)
  /\ seen' = seen \cup {NextFill.id}
  /\ FillDone

ApplySnapshot ==
  /\ pc = "apply" /\ report.fills = <<>>
  /\ Raise(report.snapshot)
  /\ pc' = "idle" /\ report' = NoReport
  /\ UNCHANGED <<venueVars, known, tracked, placed, seen, cut, uncounted>>

Next ==
  \/ Trade \/ Close
  \/ TradeEvent \/ StatusEvent \/ Answer \/ ReadOrders \/ ReadTrades \/ TradesFail
  \/ IgnoreRepeat \/ DropUnplaced \/ CountTrade \/ ApplySnapshot

Spec == Init /\ [][Next]_vars

(***************************************************************************)
(* Properties.                                                             *)
(***************************************************************************)
Fills == [id : 1 .. Quantity, cum : 1 .. Quantity, qty : 1 .. Quantity]

\* Types; a trade that is placed has been seen.
TypeOK ==
  /\ marks \in Seq(1 .. Quantity) /\ resting \in BOOLEAN
  /\ known \in BOOLEAN /\ tracked \in BOOLEAN /\ cut \in BOOLEAN
  /\ filled \in 0 .. Quantity /\ total \in 0 .. Quantity
  /\ uncounted \in 0 .. Quantity
  /\ seen \subseteq 1 .. Quantity /\ DOMAIN placed \subseteq seen
  /\ \A t \in DOMAIN placed : placed[t] \in (0 .. Quantity) \X (0 .. Quantity)
  /\ pc \in {"idle", "trades", "apply"}
  /\ report \in [fills : Seq(Fills), snapshot : 0 .. Quantity \cup {Omitted}]

TradeSize(k) == Position(k) - Position(k - 1)

\* The trades of the venue, and the fills of a report, which are trades whose
\* position may be counted from later than the first one.
MarksRise ==
  /\ \A i, j \in DOMAIN marks : i < j => marks[i] < marks[j]
  /\ \A i \in DOMAIN marks : i <= marks[i]

TrueFill(f) ==
  /\ f.id \in DOMAIN marks /\ f.qty = TradeSize(f.id)
  /\ f.qty <= f.cum /\ f.cum <= Position(f.id)

FillsTrue ==
  /\ pc # "apply" => report.fills = <<>>
  /\ pc = "idle" => report = NoReport
  /\ \A i \in DOMAIN report.fills : TrueFill(report.fills[i])

\* A trade stands for as many lots as it traded, no two trades stand for the
\* same lot, and none for a lot that no report has confirmed.
SpansDisjoint ==
  \A t \in DOMAIN placed :
    /\ t \in DOMAIN marks
    /\ placed[t][2] - placed[t][1] = TradeSize(t)
    /\ placed[t][2] <= IF pc = "apply" THEN Larger(filled, report.snapshot) ELSE filled
    /\ \A u \in DOMAIN placed \ {t} : LotsOf(placed[t]) \cap LotsOf(placed[u]) = {}

\* Neither the child nor a report is ahead of the venue, whatever is repeated,
\* late, cut off or fitted into a gap (_update_child_cumulative_fill_locked).
NeverAhead ==
  /\ filled <= Traded /\ report.snapshot <= Traded
  /\ \A i \in DOMAIN report.fills : report.fills[i].cum <= Traded

\* The quantities that the VWAP weighs (the trades, and at the child's price
\* what no trade covers) add up to what is filled: no lot is priced twice,
\* none is left out (_summary_vwap_inputs, _covered_interval_quantity).
VwapWeighsFills ==
  pc = "idle" =>
    LotsBetween(DOMAIN placed, [t \in DOMAIN placed |-> Position(t - 1)],
                [t \in DOMAIN placed |-> Position(t)])
      + Cardinality(1 .. filled \ Covered) = filled

\* The parent counts what its child has filled, but for what was filled when
\* the child was adopted.
ParentCounts == total + uncounted = filled

\* Nothing is known of an order that is not among the children.
NothingOfOthers ==
  ~tracked => /\ filled = 0 /\ total = 0 /\ uncounted = 0 /\ placed = <<>>
              /\ pc = "apply" => report = NoReport
              /\ ~known

\* The inductive invariant: the ledger holds the order's trades, each one once,
\* and counts them in child and parent.
IInv ==
  /\ TypeOK /\ MarksRise /\ FillsTrue
  /\ SpansDisjoint /\ NeverAhead /\ ParentCounts /\ NothingOfOthers

\* Without a window that cuts the order's trades in two, every trade that was
\* reported is priced as a trade, at the lots that it traded, in whatever order
\* the reports come.
CountsWhatItSees ==
  ~cut => /\ seen = DOMAIN placed
          /\ \A t \in DOMAIN placed : placed[t] = <<Position(t - 1), Position(t)>>
          /\ \A i \in DOMAIN report.fills :
               report.fills[i].cum = Position(report.fills[i].id)

GrowingStep ==
  /\ filled' >= filled /\ total' >= total
  /\ seen \subseteq seen'
  /\ \A t \in DOMAIN placed : t \in DOMAIN placed' /\ placed'[t] = placed[t]

\* A quantity is never taken back and a trade, once placed, stays where it is.
LedgerGrows == [][GrowingStep]_vars

\* Claimed: the parent's confirmed quantity is all that its children filled.
\* False: an order that is adopted with quantity but without fills is counted
\* in the child and never in the parent (_apply_reconciliation_result_locked).
NothingUncounted == pc = "idle" /\ tracked => total = filled

=============================================================================
