--------------------------- MODULE FillLedgerProofs ---------------------------
(***************************************************************************)
(* The ledger of fills for every quantity and any number of trades, cut,   *)
(* repeated, late and read in any order.                                   *)
(***************************************************************************)
EXTENDS FillLedger, FiniteSetTheorems, TLAPS

USE FillAssumption DEF Omitted, venueVars, ledgerVars, vars

(***************************************************************************)
(* What the venue's trades are.                                            *)
(***************************************************************************)

\* Positions are lots, and grow with the trades.
LEMMA Positions ==
  ASSUME TypeOK, MarksRise
  PROVE  /\ \A k \in 0 .. Len(marks) : Position(k) \in 0 .. Quantity
         /\ \A j, k \in 0 .. Len(marks) : j <= k => Position(j) <= Position(k)
         /\ \A k \in 1 .. Len(marks) : Position(k - 1) < Position(k)
         /\ Traded \in 0 .. Quantity /\ Len(marks) \in Nat
<1>1. marks \in Seq(1 .. Quantity) /\ Len(marks) \in Nat /\ DOMAIN marks = 1 .. Len(marks)
  BY DEF TypeOK
<1>2. \A k \in 1 .. Len(marks) : marks[k] \in 1 .. Quantity
  BY <1>1
<1>3. \A k \in 0 .. Len(marks) : Position(k) \in 0 .. Quantity
  BY <1>1, <1>2 DEF Position
<1>4. \A j, k \in 0 .. Len(marks) : j < k => Position(j) < Position(k)
  BY <1>1, <1>2, SMTT(20) DEF Position, MarksRise
<1>5. \A j, k \in 0 .. Len(marks) : j <= k => Position(j) <= Position(k)
  BY <1>1, <1>3, <1>4
<1>6. \A k \in 1 .. Len(marks) : Position(k - 1) < Position(k)
  BY <1>1, <1>4
<1> QED  BY <1>1, <1>3, <1>5, <1>6 DEF Traded

\* A trade read in a window that begins after trade w is a fill of the order.
LEMMA FillsOfWindow ==
  ASSUME TypeOK, MarksRise, NEW w \in 0 .. Len(marks), NEW k \in w + 1 .. Len(marks)
  PROVE  LET f == FillFrom(k, w)
         IN  f \in Fills /\ TrueFill(f) /\ f.cum <= Traded
<1>1. marks \in Seq(1 .. Quantity) /\ Len(marks) \in Nat /\ DOMAIN marks = 1 .. Len(marks)
  BY DEF TypeOK
<1>2. w \in Nat /\ k \in 1 .. Len(marks) /\ k - 1 \in 0 .. Len(marks) /\ w <= k - 1
  BY <1>1
<1>3. /\ Position(w) \in Nat /\ Position(w) <= Position(k - 1)
      /\ Position(k - 1) \in Nat /\ Position(k - 1) < Position(k)
      /\ Position(k) \in 0 .. Quantity /\ Position(k) <= Traded /\ Traded \in Nat
  BY <1>1, <1>2, Positions DEF Traded
<1>4. k \in 1 .. Quantity
  BY <1>1, <1>2 DEF MarksRise
<1> QED  BY <1>1, <1>2, <1>3, <1>4 DEF FillFrom, Fills, TrueFill, TradeSize

(***************************************************************************)
(* The invariant.                                                          *)
(***************************************************************************)
LEMMA InitSound == Init => IInv
<1> SUFFICES ASSUME Init PROVE IInv
  OBVIOUS
<1>1. /\ marks = <<>> /\ Len(marks) = 0 /\ DOMAIN marks = {} /\ DOMAIN placed = {}
      /\ report.fills = <<>> /\ report.snapshot = -1 /\ DOMAIN report.fills = {}
  BY DEF Init, NoReport
<1>2. Traded = 0
  BY <1>1 DEF Traded, Position
<1>3. TypeOK
  <2>1. <<>> \in Seq(Fills) /\ <<>> \in Seq(1 .. Quantity)
    OBVIOUS
  <2>2. report \in [fills : Seq(Fills), snapshot : 0 .. Quantity \cup {Omitted}]
    BY <2>1 DEF Init, NoReport
  <2>3. /\ marks \in Seq(1 .. Quantity) /\ resting \in BOOLEAN /\ known \in BOOLEAN
        /\ tracked \in BOOLEAN /\ cut \in BOOLEAN
    BY <2>1 DEF Init
  <2> QED  BY <1>1, <2>2, <2>3 DEF Init, TypeOK
<1>4. MarksRise /\ FillsTrue /\ SpansDisjoint /\ NeverAhead
  BY <1>1, <1>2 DEF Init, MarksRise, FillsTrue, SpansDisjoint, NeverAhead
<1>5. ParentCounts /\ NothingOfOthers
  BY DEF Init, ParentCounts, NothingOfOthers
<1> QED  BY <1>3, <1>4, <1>5 DEF IInv

\* What a trade leaves as it was: the positions of the earlier ones.
LEMMA TradeSound == IInv /\ Trade => IInv'
<1> SUFFICES ASSUME IInv, Trade PROVE IInv'
  OBVIOUS
<1>1. TypeOK /\ MarksRise
  BY DEF IInv
<1>2. marks \in Seq(1 .. Quantity) /\ Len(marks) \in Nat /\ DOMAIN marks = 1 .. Len(marks)
  BY <1>1 DEF TypeOK
<1>3. PICK q \in 1 .. Quantity - Traded : marks' = Append(marks, Traded + q)
  BY DEF Trade
<1>4. /\ Traded \in 0 .. Quantity /\ Traded + q \in 1 .. Quantity
      /\ \A k \in 0 .. Len(marks) : Position(k) \in 0 .. Traded
  BY <1>1, <1>2, <1>3, Positions DEF Traded
<1>5. /\ marks' \in Seq(1 .. Quantity) /\ Len(marks') = Len(marks) + 1
      /\ DOMAIN marks' = 1 .. Len(marks) + 1
      /\ \A k \in 1 .. Len(marks) : marks'[k] = marks[k]
      /\ marks'[Len(marks) + 1] = Traded + q
  BY <1>2, <1>3, <1>4
<1>6. /\ \A k \in 0 .. Len(marks) : Position(k)' = Position(k)
      /\ Traded' = Traded + q
  BY <1>2, <1>5 DEF Position, Traded
<1>7. UNCHANGED <<known, tracked, ledgerVars, pc, report, cut, uncounted>> /\ resting' \in BOOLEAN
  BY DEF Trade
<1>8. TypeOK'
  BY <1>1, <1>5, <1>7 DEF TypeOK
<1>9. MarksRise'
  <2>1. \A k \in 1 .. Len(marks) : marks[k] <= Traded /\ k <= marks[k]
    BY <1>1, <1>2, <1>4 DEF MarksRise, Position
  <2>2. Len(marks) <= Traded
    BY <1>2, <2>1 DEF Traded, Position
  <2>3. \A k \in 1 .. Len(marks) : marks[k] \in Nat
    BY <1>2
  <2> QED  BY <1>1, <1>2, <1>3, <1>4, <1>5, <2>1, <2>2, <2>3 DEF MarksRise
<1>10. \A k \in 1 .. Len(marks) : k - 1 \in 0 .. Len(marks) /\ TradeSize(k)' = TradeSize(k)
  BY <1>2, <1>6 DEF TradeSize
<1>11. FillsTrue'
  <2>1. ASSUME NEW f, TrueFill(f) PROVE TrueFill(f)'
    <3>1. f.id \in 1 .. Len(marks)
      BY <1>2, <2>1 DEF TrueFill
    <3>2. TradeSize(f.id)' = TradeSize(f.id) /\ Position(f.id)' = Position(f.id)
      BY <1>2, <1>6, <1>10, <3>1
    <3> QED  BY <1>2, <1>5, <2>1, <3>1, <3>2 DEF TrueFill
  <2> QED  BY <1>7, <2>1 DEF IInv, FillsTrue, NoReport
<1>12. SpansDisjoint'
  <2>1. \A t \in DOMAIN placed : t \in 1 .. Len(marks)
    BY <1>2 DEF IInv, SpansDisjoint
  <2> QED  BY <1>2, <1>5, <1>7, <1>10, <2>1 DEF IInv, SpansDisjoint, LotsOf
<1>13. NeverAhead'
  <2>1. \A i \in DOMAIN report.fills : report.fills[i] \in Fills
    BY <1>1 DEF TypeOK
  <2>2. \A i \in DOMAIN report.fills : report.fills[i].cum \in Nat
    BY <2>1 DEF Fills
  <2>3. filled \in Nat /\ report.snapshot \in Int
    BY <1>1 DEF TypeOK
  <2> QED  BY <1>3, <1>4, <1>6, <1>7, <2>2, <2>3 DEF IInv, NeverAhead
<1> QED  BY <1>7, <1>8, <1>9, <1>11, <1>12, <1>13 DEF IInv, ParentCounts, NothingOfOthers, NoReport

\* A report takes nothing from the ledger; an adopted child has counted nothing.
LEMMA ReceiveSound ==
  ASSUME IInv, NEW fills, NEW snapshot,
         fills \in Seq(Fills), snapshot \in 0 .. Quantity \cup {Omitted}, snapshot <= Traded,
         \A i \in DOMAIN fills : TrueFill(fills[i]) /\ fills[i].cum <= Traded,
         snapshot = Omitted /\ ~tracked => fills = <<>>,
         ~tracked /\ known' => snapshot # Omitted,
         known' \in BOOLEAN, cut' \in BOOLEAN,
         pc # "apply",
         Receive(fills, snapshot)
  PROVE  IInv'
<1>1. /\ pc' = "apply" /\ report' = [fills |-> fills, snapshot |-> snapshot]
      /\ UNCHANGED <<marks, resting, total, placed, seen>>
      /\ tracked' = (tracked \/ snapshot # Omitted)
  BY DEF Receive, Adopt
<1>2. report'.fills = fills /\ report'.snapshot = snapshot
  BY <1>1
<1>3. CASE ~tracked /\ fills = <<>> /\ snapshot # Omitted
  <2>1. filled' = snapshot /\ uncounted' = snapshot /\ tracked' = TRUE
    BY <1>1, <1>3 DEF Receive, Adopt
  <2>2. total = 0 /\ placed = <<>> /\ placed' = <<>> /\ DOMAIN placed' = {}
    BY <1>1, <1>3 DEF IInv, NothingOfOthers
  <2>3. Traded' = Traded
    BY <1>1 DEF Traded, Position
  <2>4. TypeOK'
    BY <1>1, <1>2, <1>3, <2>1, <2>2 DEF IInv, TypeOK
  <2>5. MarksRise' /\ FillsTrue' /\ SpansDisjoint'
    BY <1>1, <1>2, <1>3, <2>2 DEF IInv, MarksRise, FillsTrue, SpansDisjoint
  <2>6. NeverAhead' /\ ParentCounts' /\ NothingOfOthers'
    BY <1>1, <1>2, <1>3, <2>1, <2>2, <2>3 DEF NeverAhead, ParentCounts, NothingOfOthers
  <2> QED  BY <2>4, <2>5, <2>6 DEF IInv
<1>4. CASE ~(~tracked /\ fills = <<>> /\ snapshot # Omitted)
  <2>1. UNCHANGED <<filled, uncounted>>
    BY <1>4 DEF Receive, Adopt
  <2>2. TypeOK'
    BY <1>1, <1>2, <2>1 DEF IInv, TypeOK
  <2>3. MarksRise' /\ FillsTrue' /\ NeverAhead' /\ ParentCounts'
    BY <1>1, <1>2, <2>1 DEF IInv, MarksRise, FillsTrue, TrueFill, NeverAhead, ParentCounts,
       Traded, Position, TradeSize
  <2>4. SpansDisjoint'
    <3>1. \A t \in DOMAIN placed : placed[t][2] <= Larger(filled, snapshot)
      <4>1. filled \in Nat /\ snapshot \in Int /\ \A t \in DOMAIN placed : placed[t][2] \in Nat
        BY DEF IInv, TypeOK
      <4>2. \A t \in DOMAIN placed : placed[t][2] <= filled
        BY DEF IInv, SpansDisjoint
      <4> QED  BY <4>1, <4>2 DEF Larger
    <3> QED  BY <1>1, <1>2, <2>1, <3>1 DEF IInv, SpansDisjoint, LotsOf, TradeSize, Position
  <2>5. NothingOfOthers'
    BY <1>1, <1>2, <1>4, <2>1 DEF IInv, NothingOfOthers, NoReport
  <2> QED  BY <2>2, <2>3, <2>4, <2>5 DEF IInv
<1> QED  BY <1>3, <1>4

\* A report without fills.
LEMMA SnapshotSound ==
  ASSUME IInv, NEW snapshot \in 0 .. Quantity \cup {Omitted}, snapshot <= Traded,
         ~tracked /\ known' => snapshot # Omitted,
         known' \in BOOLEAN, cut' \in BOOLEAN,
         pc # "apply",
         Receive(<<>>, snapshot)
  PROVE  IInv'
<1> DEFINE fills == <<>>
<1>1. fills \in Seq(Fills) /\ DOMAIN fills = {} /\ fills = <<>>
  OBVIOUS
<1>2. Receive(fills, snapshot)
  OBVIOUS
<1> HIDE DEF fills
<1>3. \A i \in DOMAIN fills : TrueFill(fills[i]) /\ fills[i].cum <= Traded
  BY <1>1
<1> QED  BY <1>1, <1>2, <1>3, ReceiveSound

\* What comes from the venue: events, answers, and the two reads of a
\* reconciliation.
LEMMA EventsSound == IInv /\ (TradeEvent \/ StatusEvent \/ Answer) => IInv'
<1> SUFFICES ASSUME IInv, TradeEvent \/ StatusEvent \/ Answer PROVE IInv'
  OBVIOUS
<1>1. TypeOK /\ MarksRise /\ NothingOfOthers /\ FillsTrue /\ NeverAhead
  BY DEF IInv
<1>2. marks \in Seq(1 .. Quantity) /\ Len(marks) \in Nat /\ DOMAIN marks = 1 .. Len(marks)
  BY <1>1 DEF TypeOK
<1>3. /\ \A k \in 0 .. Len(marks) : Position(k) \in 0 .. Quantity /\ Position(k) <= Traded
      /\ Traded \in 0 .. Quantity
  BY <1>1, <1>2, Positions DEF Traded
<1>4. pc = "idle" /\ known \in BOOLEAN /\ cut \in BOOLEAN
  BY <1>1 DEF TradeEvent, StatusEvent, Answer, TypeOK
<1>5. ~tracked => ~known
  BY <1>1, <1>4 DEF NothingOfOthers
<1>6. CASE TradeEvent
  <2>1. PICK k \in 1 .. Len(marks) : Receive(<<FillFrom(k, 0)>>, Position(k))
    BY <1>2, <1>6 DEF TradeEvent
  <2>2. known' = known /\ cut' = cut
    BY <1>6 DEF TradeEvent
  <2>3. FillFrom(k, 0) \in Fills /\ TrueFill(FillFrom(k, 0)) /\ FillFrom(k, 0).cum <= Traded
    BY <1>1, <1>2, FillsOfWindow
  <2>4. Position(k) \in 0 .. Quantity /\ Position(k) <= Traded
    BY <1>2, <1>3
  <2>5. /\ <<FillFrom(k, 0)>> \in Seq(Fills)
        /\ \A i \in DOMAIN <<FillFrom(k, 0)>> :
             /\ TrueFill(<<FillFrom(k, 0)>>[i])
             /\ <<FillFrom(k, 0)>>[i].cum <= Traded
    BY <2>3
  <2>6. Position(k) # Omitted /\ Position(k) \in 0 .. Quantity \cup {Omitted}
    BY <2>4
  <2> DEFINE fills == <<FillFrom(k, 0)>>
             snapshot == Position(k)
  <2>7. /\ Receive(fills, snapshot) /\ fills \in Seq(Fills)
        /\ \A i \in DOMAIN fills : TrueFill(fills[i]) /\ fills[i].cum <= Traded
        /\ snapshot # Omitted /\ snapshot \in 0 .. Quantity \cup {Omitted}
        /\ snapshot <= Traded
    BY <2>1, <2>4, <2>5, <2>6
  <2>8. known' \in BOOLEAN /\ cut' \in BOOLEAN
    BY <1>4, <2>2
  <2> HIDE DEF fills, snapshot
  <2> QED  BY <1>4, <2>7, <2>8, ReceiveSound
<1>7. CASE StatusEvent
  <2>1. PICK k \in 0 .. Len(marks) : Receive(<<>>, Position(k))
    BY <1>7 DEF StatusEvent
  <2>2. known' = known /\ cut' = cut
    BY <1>7 DEF StatusEvent
  <2>3. Position(k) \in 0 .. Quantity \cup {Omitted} /\ Position(k) <= Traded
        /\ Position(k) # Omitted
    BY <1>3
  <2> QED  BY <1>4, <2>1, <2>2, <2>3, SnapshotSound
<1>8. CASE Answer
  <2>1. Receive(<<>>, Traded) /\ tracked /\ known' = TRUE /\ cut' = cut
    BY <1>8 DEF Answer
  <2>2. Traded \in 0 .. Quantity \cup {Omitted} /\ Traded <= Traded
    BY <1>3
  <2> QED  BY <1>4, <2>1, <2>2, SnapshotSound
<1> QED  BY <1>6, <1>7, <1>8

LEMMA ReadOrdersSound == IInv /\ ReadOrders => IInv'
<1> SUFFICES ASSUME IInv, ReadOrders PROVE IInv'
  OBVIOUS
<1>1. TypeOK /\ MarksRise /\ NothingOfOthers /\ FillsTrue /\ NeverAhead /\ SpansDisjoint
  BY DEF IInv
<1>2. Traded \in 0 .. Quantity /\ Traded' = Traded
  BY <1>1, Positions DEF ReadOrders, Traded, Position
<1>3. /\ report = NoReport /\ pc = "idle" /\ pc' = "trades" /\ report'.fills = <<>>
      /\ UNCHANGED <<marks, resting, tracked, filled, total, placed, seen, cut, uncounted>>
      /\ known' = known
      /\ report' = [fills |-> <<>>, snapshot |-> Traded] \/ report' = NoReport
  BY <1>1 DEF ReadOrders, FillsTrue, NoReport
<1>4. <<>> \in Seq(Fills) /\ DOMAIN report'.fills = {}
  BY <1>3
<1>5. TypeOK'
  <2>1. report' \in [fills : Seq(Fills), snapshot : 0 .. Quantity \cup {Omitted}]
    <3>1. CASE report' = [fills |-> <<>>, snapshot |-> Traded]
      BY <1>2, <1>4, <3>1
    <3>2. CASE report' = NoReport
      BY <1>1, <1>3, <3>2 DEF TypeOK
    <3> QED  BY <1>3, <3>1, <3>2
  <2>2. known' \in BOOLEAN
    BY <1>1, <1>3 DEF TypeOK
  <2> QED  BY <1>1, <1>3, <2>1, <2>2 DEF TypeOK
<1>6. MarksRise' /\ FillsTrue'
  BY <1>1, <1>3, <1>4 DEF MarksRise, FillsTrue
<1>7. SpansDisjoint'
  BY <1>1, <1>3 DEF SpansDisjoint, LotsOf, TradeSize, Position
<1>8. NeverAhead' /\ ParentCounts'
  BY <1>1, <1>2, <1>3, <1>4 DEF IInv, NeverAhead, ParentCounts, NoReport, TypeOK
<1>9. NothingOfOthers'
  BY <1>1, <1>2, <1>3 DEF NothingOfOthers
<1> QED  BY <1>5, <1>6, <1>7, <1>8, <1>9 DEF IInv

LEMMA ReadTradesSound == IInv /\ ReadTrades => IInv'
<1> SUFFICES ASSUME IInv, ReadTrades PROVE IInv'
  OBVIOUS
<1>1. TypeOK /\ MarksRise /\ NothingOfOthers /\ FillsTrue /\ NeverAhead
  BY DEF IInv
<1>2. marks \in Seq(1 .. Quantity) /\ Len(marks) \in Nat /\ DOMAIN marks = 1 .. Len(marks)
  BY <1>1 DEF TypeOK
<1>3. /\ known' = (known \/ report.snapshot # Omitted) /\ known' \in BOOLEAN /\ cut \in BOOLEAN
      /\ report.snapshot \in 0 .. Quantity \cup {Omitted} /\ report.snapshot <= Traded
      /\ pc = "trades"
  BY <1>1 DEF ReadTrades, TypeOK, NeverAhead
<1>4. ~tracked /\ known' => report.snapshot # Omitted
  BY <1>1, <1>3 DEF NothingOfOthers
<1>5. CASE known \/ report.snapshot # Omitted
  <2>1. PICK w \in 0 .. Len(marks) : \E m \in w .. Len(marks) :
               /\ \E a \in w .. m : \E b \in a .. m : \E s \in a .. b :
                    Receive(Window(w, m, a, s, b), report.snapshot)
               /\ cut' = (cut \/ w > 0)
    BY <1>5 DEF ReadTrades
  <2>2. PICK m \in w .. Len(marks) :
               /\ \E a \in w .. m : \E b \in a .. m : \E s \in a .. b :
                    Receive(Window(w, m, a, s, b), report.snapshot)
               /\ cut' = (cut \/ w > 0)
    BY <2>1
  <2>3. PICK a \in w .. m : \E b \in a .. m : \E s \in a .. b :
               Receive(Window(w, m, a, s, b), report.snapshot)
    BY <2>2
  <2>11. PICK b \in a .. m, s \in Int : /\ s \in a .. b
                                       /\ Receive(Window(w, m, a, s, b), report.snapshot)
    BY <1>2, <2>3
  <2>4. \A k \in w + 1 .. m : Turned(k, a, s, b) \in w + 1 .. Len(marks)
    BY <1>2, <2>11 DEF Turned
  <2>5. \A i \in 1 .. m - w : Turned(w + i, a, s, b) \in w + 1 .. Len(marks)
    BY <1>2, <2>4
  <2> DEFINE fills == Window(w, m, a, s, b)
  <2>6. DOMAIN fills = 1 .. m - w /\ m - w \in Nat
    BY <1>2 DEF Window
  <2>7. \A i \in DOMAIN fills : /\ fills[i] \in Fills /\ TrueFill(fills[i])
                                /\ fills[i].cum <= Traded
    <3>1. SUFFICES ASSUME NEW i \in 1 .. m - w
                   PROVE /\ fills[i] \in Fills /\ TrueFill(fills[i]) /\ fills[i].cum <= Traded
      BY <2>6
    <3>2. fills[i] = FillFrom(Turned(w + i, a, s, b), w)
      BY DEF Window
    <3> HIDE DEF fills
    <3> QED  BY <1>1, <2>5, <3>2, FillsOfWindow
  <2>8. fills \in Seq(Fills)
    <3>1. fills = [i \in 1 .. m - w |-> fills[i]]
      BY <2>6 DEF Window
    <3> HIDE DEF fills
    <3> QED  BY <2>6, <2>7, <3>1
  <2>9. cut' \in BOOLEAN
    BY <2>2
  <2>10. Receive(fills, report.snapshot)
    BY <2>11
  <2> HIDE DEF fills
  <2> QED  BY <1>3, <1>4, <1>5, <2>7, <2>8, <2>9, <2>10, ReceiveSound
<1>6. CASE ~(known \/ report.snapshot # Omitted)
  <2>1. Receive(<<>>, report.snapshot) /\ cut' = cut
    BY <1>6 DEF ReadTrades
  <2> QED  BY <1>3, <1>4, <1>6, <2>1, SnapshotSound
<1> QED  BY <1>5, <1>6

\* Without the trades nothing is reported; the spans were confirmed before.
LEMMA TradesFailSound == IInv /\ TradesFail => IInv'
<1> SUFFICES ASSUME IInv, TradesFail PROVE IInv'
  OBVIOUS
<1>1. /\ pc = "trades" /\ pc' = "idle" /\ report' = NoReport
      /\ UNCHANGED <<marks, resting, known, tracked, filled, total, placed, seen, cut, uncounted>>
  BY DEF TradesFail
<1>2. report'.fills = <<>> /\ report'.snapshot = -1 /\ DOMAIN report'.fills = {}
  BY <1>1 DEF NoReport
<1>3. TypeOK'
  <2>1. <<>> \in Seq(Fills)
    OBVIOUS
  <2>2. report' \in [fills : Seq(Fills), snapshot : 0 .. Quantity \cup {Omitted}]
    BY <1>1, <2>1 DEF NoReport
  <2> QED  BY <1>1, <2>2 DEF IInv, TypeOK
<1>4. MarksRise' /\ FillsTrue'
  BY <1>1, <1>2 DEF IInv, MarksRise, FillsTrue
<1>5. SpansDisjoint'
  BY <1>1 DEF IInv, SpansDisjoint, LotsOf, TradeSize, Position
<1>6. NeverAhead' /\ ParentCounts' /\ NothingOfOthers'
  <2>1. Traded \in 0 .. Quantity /\ Traded' = Traded
    BY <1>1, Positions DEF IInv, Traded, Position
  <2> QED  BY <1>1, <1>2, <2>1 DEF IInv, NeverAhead, ParentCounts, NothingOfOthers
<1> QED  BY <1>3, <1>4, <1>5, <1>6 DEF IInv

(***************************************************************************)
(* The steps of the ledger.                                                *)
(***************************************************************************)

\* The next fill is one of the report's; the others remain.
LEMMA NextIsTrue ==
  ASSUME IInv, report.fills # <<>>, FillDone
  PROVE  /\ NextFill \in Fills /\ TrueFill(NextFill) /\ NextFill.cum <= Traded
         /\ report'.snapshot = report.snapshot /\ report'.fills = Tail(report.fills)
         /\ report' \in [fills : Seq(Fills), snapshot : 0 .. Quantity \cup {Omitted}]
         /\ \A i \in DOMAIN report'.fills : /\ TrueFill(report'.fills[i])
                                            /\ report'.fills[i].cum <= Traded
<1>1. /\ report.fills \in Seq(Fills) /\ report.snapshot \in 0 .. Quantity \cup {Omitted}
      /\ report \in [fills : Seq(Fills), snapshot : 0 .. Quantity \cup {Omitted}]
  BY DEF IInv, TypeOK
<1>2. \A i \in DOMAIN report.fills : TrueFill(report.fills[i]) /\ report.fills[i].cum <= Traded
  BY DEF IInv, FillsTrue, NeverAhead
<1>3. report' = [report EXCEPT !.fills = Tail(@)]
  BY DEF FillDone
<1>4. /\ report'.snapshot = report.snapshot /\ report'.fills = Tail(report.fills)
      /\ Tail(report.fills) \in Seq(Fills)
  BY <1>1, <1>3
<1>5. /\ 1 \in DOMAIN report.fills /\ NextFill = report.fills[1]
      /\ \A i \in DOMAIN Tail(report.fills) : /\ i + 1 \in DOMAIN report.fills
                                              /\ Tail(report.fills)[i] = report.fills[i + 1]
  BY <1>1 DEF NextFill
<1>6. report' \in [fills : Seq(Fills), snapshot : 0 .. Quantity \cup {Omitted}]
  BY <1>1, <1>3, <1>4
<1>7. NextFill \in Fills
  BY <1>1, <1>5
<1> QED  BY <1>2, <1>4, <1>5, <1>6, <1>7

\* A fill that changes no span and does not raise the child is harmless.
LEMMA SkipSound == IInv /\ (IgnoreRepeat \/ DropUnplaced) => IInv'
<1> SUFFICES ASSUME IInv, IgnoreRepeat \/ DropUnplaced PROVE IInv'
  OBVIOUS
<1>1. /\ pc = "apply" /\ report.fills # <<>> /\ FillDone
      /\ UNCHANGED <<filled, total, placed>>
      /\ seen' = seen \/ seen' = seen \cup {NextFill.id}
  BY DEF IgnoreRepeat, DropUnplaced
<1>2. UNCHANGED <<marks, resting, known, tracked, pc, cut, uncounted>>
  BY <1>1 DEF FillDone
<1>3. /\ NextFill \in Fills
      /\ report'.snapshot = report.snapshot
      /\ report' \in [fills : Seq(Fills), snapshot : 0 .. Quantity \cup {Omitted}]
      /\ \A i \in DOMAIN report'.fills : /\ TrueFill(report'.fills[i])
                                         /\ report'.fills[i].cum <= Traded
  BY <1>1, NextIsTrue
<1>4. Traded' = Traded /\ \A f : TrueFill(f)' = TrueFill(f)
  BY <1>2 DEF Traded, Position, TrueFill, TradeSize
<1>5. TypeOK'
  BY <1>1, <1>2, <1>3 DEF IInv, TypeOK, Fills
<1>6. MarksRise' /\ FillsTrue'
  BY <1>1, <1>2, <1>3, <1>4 DEF IInv, MarksRise, FillsTrue
<1>7. SpansDisjoint'
  BY <1>1, <1>2, <1>3 DEF IInv, SpansDisjoint, LotsOf, TradeSize, Position
<1>8. NeverAhead' /\ ParentCounts'
  BY <1>1, <1>2, <1>3, <1>4 DEF IInv, NeverAhead, ParentCounts
<1>9. NothingOfOthers'
  BY <1>1, <1>2, <1>3 DEF IInv, NothingOfOthers, NoReport
<1> QED  BY <1>5, <1>6, <1>7, <1>8, <1>9 DEF IInv

\* Where a fill is placed: on its own lots, within the limit, on no other span.
LEMMA SpanFits ==
  ASSUME NEW f \in Fills, f.qty <= f.cum, NEW limit \in Nat, NEW span \in Span(f, limit)
  PROVE  /\ Fits(span, limit) /\ span[1] \in Nat /\ span[2] \in Nat
         /\ span = <<span[1], span[2]>> /\ span[2] - span[1] = f.qty
<1>1. f.cum \in Nat /\ f.qty \in Nat
  BY DEF Fills
<1>2. CASE Fits(Absolute(f), limit)
  BY <1>1, <1>2 DEF Span, Absolute
<1>3. CASE ~Fits(Absolute(f), limit)
  <2>1. span \in AfterPrefix(f) /\ Fits(span, limit)
    BY <1>3 DEF Span
  <2>2. PICK p \in 1 .. Quantity : span = <<p, p + f.qty>>
    BY <2>1 DEF AfterPrefix, Prefix
  <2> QED  BY <1>1, <2>1, <2>2
<1> QED  BY <1>2, <1>3

\* Raising the child raises the parent by the same.
LEMMA RaiseAgrees ==
  ASSUME NEW cum \in Int, cum <= Traded, Traded \in 0 .. Quantity, filled <= Traded,
         filled \in 0 .. Quantity, total \in 0 .. Quantity, uncounted \in 0 .. Quantity,
         total + uncounted = filled, Raise(cum)
  PROVE  /\ filled' = Larger(filled, cum) /\ filled' \in 0 .. Traded /\ filled' >= filled
         /\ total' + uncounted = filled' /\ total' \in 0 .. Quantity /\ total' >= total
         /\ cum <= filled => filled' = filled /\ total' = total
<1>1. CASE cum > filled
  BY <1>1 DEF Raise, Larger, SubtractFloorZero
<1>2. CASE ~(cum > filled)
  BY <1>2 DEF Raise, Larger, SubtractFloorZero
<1> QED  BY <1>1, <1>2

LEMMA CountTradeSound == IInv /\ CountTrade => IInv'
<1> SUFFICES ASSUME IInv, CountTrade PROVE IInv'
  OBVIOUS
<1>0. PICK f : f = NextFill
  OBVIOUS
<1>1. /\ pc = "apply" /\ report.fills # <<>> /\ FillDone /\ f.id \notin seen
      /\ seen' = seen \cup {f.id} /\ Raise(f.cum)
  BY <1>0 DEF CountTrade
<1>2. UNCHANGED <<marks, resting, known, tracked, pc, cut, uncounted>>
  BY <1>1 DEF FillDone
<1>3. /\ f \in Fills /\ TrueFill(f) /\ f.cum <= Traded
      /\ report'.snapshot = report.snapshot
      /\ report' \in [fills : Seq(Fills), snapshot : 0 .. Quantity \cup {Omitted}]
      /\ \A i \in DOMAIN report'.fills : /\ TrueFill(report'.fills[i])
                                         /\ report'.fills[i].cum <= Traded
  BY <1>0, <1>1, NextIsTrue
<1>4. Traded' = Traded /\ \A g : TrueFill(g)' = TrueFill(g)
  BY <1>2 DEF Traded, Position, TrueFill, TradeSize
<1>5. /\ filled \in 0 .. Quantity /\ total \in 0 .. Quantity /\ uncounted \in 0 .. Quantity
      /\ report.snapshot \in 0 .. Quantity \cup {Omitted} /\ Traded \in 0 .. Quantity
      /\ f.cum \in 1 .. Quantity /\ f.qty \in 1 .. Quantity /\ f.id \in 1 .. Quantity
      /\ filled <= Traded /\ report.snapshot <= Traded /\ total + uncounted = filled
  BY <1>3, Positions DEF IInv, TypeOK, NeverAhead, ParentCounts, Fills
<1>6. /\ filled' = Larger(filled, f.cum) /\ filled' \in 0 .. Traded /\ filled' >= filled
      /\ total' + uncounted = filled' /\ total' \in 0 .. Quantity
  BY <1>1, <1>3, <1>5, RaiseAgrees
<1> DEFINE limit == Larger(Larger(filled, report.snapshot), f.cum)
<1>7. limit \in Nat /\ limit <= Quantity /\ limit = Larger(filled', report.snapshot)
  BY <1>5, <1>6 DEF Larger
<1>8. PICK span \in Span(f, limit) : Place(f.id, span)
  BY <1>0 DEF CountTrade, Limit
<1> HIDE DEF limit
<1>9. /\ Fits(span, limit) /\ span[1] \in Nat /\ span[2] \in Nat
      /\ span = <<span[1], span[2]>> /\ span[2] - span[1] = f.qty
  BY <1>3, <1>7, <1>8, SpanFits DEF TrueFill
<1>10. /\ placed' = [t \in DOMAIN placed \cup {f.id} |-> IF t = f.id THEN span ELSE placed[t]]
       /\ DOMAIN placed \subseteq seen /\ f.id \notin DOMAIN placed
  BY <1>1, <1>8 DEF Place, IInv, TypeOK
<1>11. /\ DOMAIN placed' = DOMAIN placed \cup {f.id} /\ placed'[f.id] = span
       /\ \A t \in DOMAIN placed : t # f.id /\ placed'[t] = placed[t]
  BY <1>10
<1>12. span[2] <= limit /\ LotsOf(span) \cap Covered = {}
       /\ span \in (0 .. Quantity) \X (0 .. Quantity)
  <2>1. 0 <= span[1] /\ span[1] < span[2] /\ span[2] <= limit /\ LotsOf(span) \cap Covered = {}
    BY <1>9 DEF Fits
  <2>2. span[1] \in 0 .. Quantity /\ span[2] \in 0 .. Quantity
    BY <1>7, <1>9, <2>1
  <2> QED  BY <1>9, <2>1, <2>2
<1>13. TypeOK'
  <2>1. \A t \in DOMAIN placed' : placed'[t] \in (0 .. Quantity) \X (0 .. Quantity)
    BY <1>11, <1>12 DEF IInv, TypeOK
  <2>2. seen' \subseteq 1 .. Quantity /\ DOMAIN placed' \subseteq seen'
    BY <1>1, <1>5, <1>11 DEF IInv, TypeOK
  <2>3. filled' \in 0 .. Quantity
    BY <1>5, <1>6
  <2> QED  BY <1>2, <1>3, <1>6, <2>1, <2>2, <2>3 DEF IInv, TypeOK
<1>14. MarksRise' /\ FillsTrue'
  BY <1>1, <1>2, <1>3, <1>4 DEF IInv, MarksRise, FillsTrue
<1>15. SpansDisjoint'
  <2>1. \A t \in 1 .. Quantity : TradeSize(t)' = TradeSize(t)
    BY <1>2 DEF TradeSize, Position
  <2>2. /\ f.id \in DOMAIN marks' /\ placed'[f.id][2] - placed'[f.id][1] = TradeSize(f.id)'
        /\ placed'[f.id][2] <= Larger(filled', report'.snapshot)
    <3>1. f.id \in DOMAIN marks /\ f.qty = TradeSize(f.id) /\ marks' = marks
      BY <1>2, <1>3 DEF TrueFill
    <3>2. placed'[f.id] = span /\ TradeSize(f.id)' = TradeSize(f.id)
      BY <1>5, <1>11, <2>1
    <3>3. span[2] <= Larger(filled', report'.snapshot)
      BY <1>3, <1>7, <1>12
    <3> QED  BY <1>9, <3>1, <3>2, <3>3
  <2>3. ASSUME NEW t \in DOMAIN placed
        PROVE  /\ t \in DOMAIN marks' /\ placed'[t][2] - placed'[t][1] = TradeSize(t)'
               /\ placed'[t][2] <= Larger(filled', report'.snapshot)
    <3>1. /\ t \in 1 .. Quantity /\ placed[t][2] \in Nat
          /\ t \in DOMAIN marks /\ placed[t][2] - placed[t][1] = TradeSize(t)
          /\ placed[t][2] <= Larger(filled, report.snapshot)
      BY <1>1 DEF IInv, TypeOK, SpansDisjoint
    <3>2. Larger(filled, report.snapshot) <= Larger(filled', report.snapshot)
          /\ Larger(filled, report.snapshot) \in Int /\ Larger(filled', report.snapshot) \in Int
      BY <1>5, <1>6 DEF Larger
    <3>3. placed[t][2] <= Larger(filled', report.snapshot)
      BY <3>1, <3>2
    <3> QED  BY <1>2, <1>3, <1>11, <2>1, <3>1, <3>3
  <2>4. \A t \in DOMAIN placed : LotsOf(placed[t]) \cap LotsOf(span) = {}
    BY <1>12 DEF Covered
  <2>5. \A t \in DOMAIN placed : \A u \in DOMAIN placed \ {t} :
          LotsOf(placed[t]) \cap LotsOf(placed[u]) = {}
    BY DEF IInv, SpansDisjoint
  <2>6. \A t \in DOMAIN placed' : \A u \in DOMAIN placed' \ {t} :
          LotsOf(placed'[t]) \cap LotsOf(placed'[u]) = {}
    BY <1>11, <2>4, <2>5
  <2>7. \A t \in DOMAIN placed' :
          /\ t \in DOMAIN marks' /\ placed'[t][2] - placed'[t][1] = TradeSize(t)'
          /\ placed'[t][2] <= Larger(filled', report'.snapshot)
    BY <1>11, <2>2, <2>3
  <2>8. pc' = "apply"
    BY <1>1, <1>2
  <2> QED  BY <2>6, <2>7, <2>8 DEF SpansDisjoint, LotsOf
<1>16. NeverAhead' /\ ParentCounts'
  BY <1>2, <1>3, <1>4, <1>5, <1>6 DEF NeverAhead, ParentCounts
<1>17. tracked' = TRUE
  BY <1>1, <1>2 DEF IInv, NothingOfOthers, NoReport, TypeOK
<1>18. NothingOfOthers'
  BY <1>17 DEF NothingOfOthers
<1> QED  BY <1>13, <1>14, <1>15, <1>16, <1>18 DEF IInv

LEMMA ApplySnapshotSound == IInv /\ ApplySnapshot => IInv'
<1> SUFFICES ASSUME IInv, ApplySnapshot PROVE IInv'
  OBVIOUS
<1>1. /\ pc = "apply" /\ pc' = "idle" /\ report' = NoReport /\ Raise(report.snapshot)
      /\ UNCHANGED <<marks, resting, known, tracked, placed, seen, cut, uncounted>>
  BY DEF ApplySnapshot
<1>2. /\ filled \in 0 .. Quantity /\ total \in 0 .. Quantity /\ uncounted \in 0 .. Quantity
      /\ report.snapshot \in 0 .. Quantity \cup {Omitted} /\ Traded \in 0 .. Quantity
      /\ filled <= Traded /\ report.snapshot <= Traded /\ total + uncounted = filled
  BY Positions DEF IInv, TypeOK, NeverAhead, ParentCounts
<1>3. /\ filled' = Larger(filled, report.snapshot) /\ filled' \in 0 .. Traded
      /\ total' + uncounted = filled' /\ total' \in 0 .. Quantity
      /\ report.snapshot = Omitted => filled' = filled /\ total' = total
  BY <1>1, <1>2, RaiseAgrees
<1>4. report'.fills = <<>> /\ report'.snapshot = -1 /\ DOMAIN report'.fills = {}
  BY <1>1 DEF NoReport
<1>5. TypeOK'
  <2>1. <<>> \in Seq(Fills)
    OBVIOUS
  <2>2. report' \in [fills : Seq(Fills), snapshot : 0 .. Quantity \cup {Omitted}]
    BY <1>1, <2>1 DEF NoReport
  <2>3. filled' \in 0 .. Quantity
    BY <1>2, <1>3
  <2> QED  BY <1>1, <1>3, <2>2, <2>3 DEF IInv, TypeOK
<1>6. MarksRise' /\ FillsTrue'
  BY <1>1, <1>4 DEF IInv, MarksRise, FillsTrue
<1>7. SpansDisjoint'
  <2>1. filled' = Larger(filled, report.snapshot)
    BY <1>3
  <2> QED  BY <1>1, <2>1 DEF IInv, SpansDisjoint, LotsOf, TradeSize, Position
<1>8. NeverAhead' /\ ParentCounts'
  <2>1. Traded' = Traded
    BY <1>1 DEF Traded, Position
  <2> QED  BY <1>1, <1>2, <1>3, <1>4, <2>1 DEF NeverAhead, ParentCounts
<1>9. NothingOfOthers'
  <2>1. ~tracked => report.snapshot = Omitted /\ ~known
    BY <1>1 DEF IInv, NothingOfOthers, NoReport
  <2> QED  BY <1>1, <1>3, <2>1 DEF IInv, NothingOfOthers
<1> QED  BY <1>5, <1>6, <1>7, <1>8, <1>9 DEF IInv

LEMMA CloseSound == IInv /\ (Close \/ UNCHANGED vars) => IInv'
<1> SUFFICES ASSUME IInv, Close \/ UNCHANGED vars PROVE IInv'
  OBVIOUS
<1>1. /\ UNCHANGED <<marks, known, tracked, filled, total, placed, seen, pc, report, cut, uncounted>>
      /\ resting' \in BOOLEAN
  BY DEF Close, IInv, TypeOK
<1>2. TypeOK'
  BY <1>1 DEF IInv, TypeOK
<1>3. MarksRise' /\ FillsTrue'
  BY <1>1 DEF IInv, MarksRise, FillsTrue, TrueFill, TradeSize, Position, NoReport
<1>4. SpansDisjoint'
  BY <1>1 DEF IInv, SpansDisjoint, LotsOf, TradeSize, Position
<1>5. NeverAhead' /\ ParentCounts' /\ NothingOfOthers'
  BY <1>1 DEF IInv, NeverAhead, ParentCounts, NothingOfOthers, NoReport, Traded, Position
<1> QED  BY <1>2, <1>3, <1>4, <1>5 DEF IInv

(***************************************************************************)
(* Theorems.                                                               *)
(***************************************************************************)

\* The ledger of an order holds its trades, each once, and child and parent
\* count the same, whatever is repeated, late, cut off or adopted.
THEOREM StaysSound == Spec => []IInv
<1>1. IInv /\ [Next]_vars => IInv'
  BY TradeSound, EventsSound, ReadOrdersSound, ReadTradesSound, SkipSound, CountTradeSound,
     ApplySnapshotSound, CloseSound, TradesFailSound DEF Next
<1> QED  BY <1>1, InitSound, PTL DEF Spec

\* No two trades of an order stand for the same lot in the VWAP.
THEOREM NoLotTwice == Spec => []SpansDisjoint
<1>1. IInv => SpansDisjoint
  BY DEF IInv
<1> QED  BY <1>1, StaysSound, PTL

\* The engine never believes in a fill that did not happen.
THEOREM NeverAheadOfVenue == Spec => []NeverAhead
<1>1. IInv => NeverAhead
  BY DEF IInv
<1> QED  BY <1>1, StaysSound, PTL

\* The parent's confirmed quantity is its child's, but for adopted quantity.
THEOREM ParentAgrees == Spec => []ParentCounts
<1>1. IInv => ParentCounts
  BY DEF IInv
<1> QED  BY <1>1, StaysSound, PTL

\* Types of the ledger.
THEOREM TypeCorrect == Spec => []TypeOK
<1>1. IInv => TypeOK
  BY DEF IInv
<1> QED  BY <1>1, StaysSound, PTL

\* No step takes a quantity back or moves a trade.
THEOREM OnlyGrows == Spec => LedgerGrows
<1>1. IInv /\ [Next]_vars => [GrowingStep]_vars
  <2> SUFFICES ASSUME IInv, Next PROVE GrowingStep
    BY DEF vars
  <2>1. /\ filled \in 0 .. Quantity /\ total \in 0 .. Quantity
        /\ report.snapshot \in 0 .. Quantity \cup {Omitted}
        /\ DOMAIN placed \subseteq seen
    BY DEF IInv, TypeOK
  <2>2. CASE Trade \/ Close \/ ReadOrders \/ TradesFail \/ IgnoreRepeat \/ DropUnplaced
    BY <2>1, <2>2
    DEF GrowingStep, Trade, Close, ReadOrders, TradesFail, IgnoreRepeat, DropUnplaced, FillDone
  <2>3. ASSUME NEW fills, NEW snapshot \in Int, snapshot >= Omitted, Receive(fills, snapshot)
        PROVE  GrowingStep
    <3>1. filled' >= filled
      BY <2>1, <2>3 DEF Receive, Adopt, IInv, NothingOfOthers
    <3> QED  BY <2>1, <2>3, <3>1 DEF Receive, GrowingStep
  <2>4. CASE TradeEvent \/ StatusEvent \/ Answer
    <3>1. \A k \in 0 .. Len(marks) : Position(k) \in 0 .. Quantity
      BY Positions DEF IInv
    <3>2. Traded \in 0 .. Quantity /\ DOMAIN marks \subseteq 0 .. Len(marks)
      BY Positions DEF IInv, TypeOK
    <3>3. \A k \in 0 .. Len(marks) : Position(k) \in Int /\ Position(k) >= Omitted
      BY <3>1
    <3>4. CASE TradeEvent
      <4>1. PICK k \in 0 .. Len(marks) : Receive(<<FillFrom(k, 0)>>, Position(k))
        BY <3>2, <3>4 DEF TradeEvent
      <4> QED  BY <2>3, <3>3, <4>1
    <3>5. CASE StatusEvent
      <4>1. PICK k \in 0 .. Len(marks) : Receive(<<>>, Position(k))
        BY <3>5 DEF StatusEvent
      <4> QED  BY <2>3, <3>3, <4>1
    <3>6. CASE Answer
      BY <2>3, <3>2, <3>6 DEF Answer
    <3> QED  BY <2>4, <3>4, <3>5, <3>6
  <2>5. CASE ReadTrades
    BY <2>1, <2>3, <2>5 DEF ReadTrades
  <2>6. CASE CountTrade
    <3>1. NextFill \in Fills
      BY <2>6, NextIsTrue DEF CountTrade
    <3>2. filled' >= filled /\ total' >= total
      <4>1. NextFill.cum \in Nat
        BY <3>1 DEF Fills
      <4>2. Raise(NextFill.cum)
        BY <2>6 DEF CountTrade
      <4> HIDE DEF NextFill
      <4> QED  BY <2>1, <4>1, <4>2 DEF Raise, Larger, SubtractFloorZero
    <3> QED  BY <2>1, <2>6, <3>2 DEF GrowingStep, CountTrade, Place
  <2>7. CASE ApplySnapshot
    BY <2>1, <2>7 DEF GrowingStep, ApplySnapshot, Raise, Larger, SubtractFloorZero
  <2> QED  BY <2>2, <2>4, <2>5, <2>6, <2>7 DEF Next
<1> QED  BY <1>1, StaysSound, PTL DEF Spec, LedgerGrows

(***************************************************************************)
(* What the VWAP weighs.                                                   *)
(***************************************************************************)

\* The trades of D, from the lots from[t] to to[t], stand for spans up to n
\* that share no lot.
SpreadOver(n, D, span, from, to) ==
  /\ \A t \in D : /\ span[t][1] \in Nat /\ span[t][2] \in Nat /\ span[t][2] <= n
                  /\ from[t] \in Int /\ to[t] \in Int
                  /\ span[t][2] - span[t][1] = to[t] - from[t]
  /\ \A t \in D : \A u \in D \ {t} : LotsOf(span[t]) \cap LotsOf(span[u]) = {}

SpannedBy(D, span) == UNION {LotsOf(span[t]) : t \in D}

\* Spans that share no lot cover as many lots as their trades traded.
LEMMA SpansCount ==
  ASSUME NEW n \in Nat, NEW D, NEW span, NEW from, NEW to,
         SpreadOver(n, D, span, from, to)
  PROVE  /\ SpannedBy(D, span) \subseteq 1 .. n
         /\ LotsBetween(D, from, to) = Cardinality(SpannedBy(D, span))
<1> DEFINE C == SpannedBy(D, span)
           L == Lots(D, from, to)
           g == [x \in L |-> span[x[1]][1] + (x[2] - from[x[1]])]
<1> USE DEF SpreadOver, SpannedBy
<1>1. C \subseteq 1 .. n
  BY DEF LotsOf
<1>2. \A x \in L : /\ x[1] \in D /\ x[2] \in from[x[1]] + 1 .. to[x[1]]
                   /\ x = <<x[1], x[2]>>
  BY DEF Lots
<1>3. \A x \in L : g[x] \in LotsOf(span[x[1]])
  <2> SUFFICES ASSUME NEW x \in L PROVE span[x[1]][1] + (x[2] - from[x[1]]) \in LotsOf(span[x[1]])
    OBVIOUS
  <2> PICK t \in D, l \in Int : /\ x[1] = t /\ x[2] = l
                                /\ from[t] + 1 <= l /\ l <= to[t]
    BY <1>2
  <2> QED  BY DEF LotsOf
<1>4. g \in [L -> C]
  BY <1>2, <1>3
<1>5. ASSUME NEW x \in L, NEW y \in L, g[x] = g[y] PROVE x = y
  <2>1. x[1] = y[1]
    BY <1>2, <1>3, <1>5
  <2>2. x[2] \in Int /\ y[2] \in Int /\ from[x[1]] \in Int /\ span[x[1]][1] \in Int
    BY <1>2
  <2>3. span[x[1]][1] + (x[2] - from[x[1]]) = span[x[1]][1] + (y[2] - from[x[1]])
    BY <1>5, <2>1
  <2>4. x[2] = y[2]
    BY <2>2, <2>3
  <2> QED  BY <1>2, <2>1, <2>4
<1>6. ASSUME NEW l \in C PROVE \E x \in L : g[x] = l
  <2>1. PICK t \in D : l \in LotsOf(span[t])
    OBVIOUS
  <2> DEFINE k == l - span[t][1] + from[t]
  <2>2. /\ l \in Int /\ k \in from[t] + 1 .. to[t]
        /\ span[t][1] + (k - from[t]) = l
    BY <2>1 DEF LotsOf
  <2> HIDE DEF k
  <2>3. <<t, k>> \in L
    BY <2>2 DEF Lots
  <2>4. g[<<t, k>>] = l
    BY <2>2, <2>3
  <2> QED  BY <2>3, <2>4
<1> HIDE DEF g, L
<1>7. g \in Injection(L, C) /\ g \in Surjection(L, C)
  <2>1. \A x, y \in L : g[x] = g[y] => x = y
    BY <1>5
  <2>2. \A l \in C : \E x \in L : g[x] = l
    BY <1>6
  <2> QED  BY <1>4, <2>1, <2>2 DEF Injection, IsInjective, Surjection
<1>8. IsFiniteSet(C)
  <2>1. IsFiniteSet(1 .. n)
    BY FS_Interval
  <2> QED  BY <1>1, <2>1, FS_Subset
<1>9. Cardinality(L) = Cardinality(C)
  BY <1>7, <1>8, FS_Injection
<1> QED  BY <1>1, <1>9 DEF LotsBetween, L

\* The lots up to n are those of C and the others.
LEMMA RestCounts ==
  ASSUME NEW n \in Nat, NEW C \in SUBSET (1 .. n)
  PROVE  Cardinality(C) + Cardinality((1 .. n) \ C) = n
<1>1. IsFiniteSet(1 .. n) /\ Cardinality(1 .. n) = n
  BY FS_Interval
<1>2. (1 .. n) \cap C = C
  OBVIOUS
<1>3. Cardinality((1 .. n) \ C) = Cardinality(1 .. n) - Cardinality((1 .. n) \cap C)
  BY <1>1, FS_Difference
<1>4. IsFiniteSet(C) /\ Cardinality(C) \in Nat
  BY <1>1, FS_Subset, FS_CardinalityType
<1>5. Cardinality((1 .. n) \ C) = n - Cardinality(C)
  BY <1>1, <1>2, <1>3, Zenon
<1> QED  BY <1>4, <1>5

LEMMA SoundWeighs == IInv => VwapWeighsFills
<1> SUFFICES ASSUME IInv, pc = "idle" PROVE VwapWeighsFills
  BY DEF VwapWeighsFills
<1> DEFINE from == [t \in DOMAIN placed |-> Position(t - 1)]
           to == [t \in DOMAIN placed |-> Position(t)]
<1>1. filled \in 0 .. Quantity /\ report.snapshot = -1
  BY DEF IInv, TypeOK, FillsTrue, NoReport
<1>2. Larger(filled, report.snapshot) = filled
  BY <1>1 DEF Larger
<1>3. ASSUME NEW t \in DOMAIN placed
      PROVE  /\ placed[t][1] \in Nat /\ placed[t][2] \in Nat /\ placed[t][2] <= filled
             /\ from[t] \in Int /\ to[t] \in Int
             /\ placed[t][2] - placed[t][1] = to[t] - from[t]
  <2>1. /\ t \in DOMAIN marks /\ placed[t][2] - placed[t][1] = TradeSize(t)
        /\ placed[t][2] <= filled
    BY <1>2 DEF IInv, SpansDisjoint
  <2>2. t - 1 \in 0 .. Len(marks) /\ t \in 0 .. Len(marks)
    BY <2>1 DEF IInv, TypeOK
  <2>3. Position(t - 1) \in 0 .. Quantity /\ Position(t) \in 0 .. Quantity
    BY <2>2, Positions DEF IInv
  <2> QED  BY <2>1, <2>3 DEF IInv, TypeOK, TradeSize
<1>4. \A t \in DOMAIN placed : \A u \in DOMAIN placed \ {t} :
        LotsOf(placed[t]) \cap LotsOf(placed[u]) = {}
  BY DEF IInv, SpansDisjoint
<1> HIDE DEF from, to
<1>5. Covered \subseteq 1 .. filled /\ LotsBetween(DOMAIN placed, from, to) = Cardinality(Covered)
  <2>1. filled \in Nat
    BY <1>1
  <2>2. Covered = SpannedBy(DOMAIN placed, placed)
    BY DEF Covered, SpannedBy
  <2>3. SpreadOver(filled, DOMAIN placed, placed, from, to)
    BY <1>3, <1>4 DEF SpreadOver
  <2> QED  BY <2>1, <2>2, <2>3, SpansCount
<1>6. Cardinality(Covered) + Cardinality(1 .. filled \ Covered) = filled
  BY <1>1, <1>5, RestCounts
<1> QED  BY <1>5, <1>6 DEF VwapWeighsFills, from, to

\* The lots that no trade covers are weighed at the child's price, and all
\* weights together are what is filled.
THEOREM WeighsWhatIsFilled == Spec => []VwapWeighsFills
  BY StaysSound, SoundWeighs, PTL

(***************************************************************************)
(* What is counted while no window cuts the trades in two.                 *)
(***************************************************************************)

\* Trades that stand where they traded leave room for the others.
LEMMA RoomForTrade ==
  ASSUME IInv, CountsWhatItSees, ~cut, NEW f \in Fills, TrueFill(f), f.id \notin seen,
         f.cum = Position(f.id), NEW limit \in Int, f.cum <= limit
  PROVE  Span(f, limit) = {<<Position(f.id - 1), Position(f.id)>>}
<1>1. Len(marks) \in Nat /\ DOMAIN marks = 1 .. Len(marks)
  BY DEF IInv, TypeOK
<1>2. f.id \in 1 .. Len(marks) /\ f.qty = Position(f.id) - Position(f.id - 1)
  BY <1>1 DEF TrueFill, TradeSize
<1>3. \A k \in 0 .. Len(marks) : Position(k) \in Nat
  BY Positions DEF IInv
<1>4. Position(f.id - 1) < Position(f.id) /\ f.id - 1 \in 0 .. Len(marks)
  BY <1>1, <1>2, Positions DEF IInv
<1>5. Position(f.id) \in Nat /\ Position(f.id - 1) \in Nat
  BY <1>1, <1>2, <1>3, <1>4
<1>6. Absolute(f) = <<Position(f.id - 1), Position(f.id)>>
  BY <1>2, <1>5 DEF Absolute
<1>7. ASSUME NEW t \in DOMAIN placed
      PROVE  LotsOf(Absolute(f)) \cap LotsOf(placed[t]) = {}
  <2>1. /\ t \in 1 .. Len(marks) /\ t # f.id
        /\ placed[t] = <<Position(t - 1), Position(t)>>
    BY <1>1 DEF IInv, SpansDisjoint, CountsWhatItSees
  <2>2. t - 1 \in 0 .. Len(marks) /\ t \in 0 .. Len(marks) /\ f.id \in 0 .. Len(marks)
    BY <1>1, <1>2, <2>1
  <2>3. Position(t - 1) \in Nat /\ Position(t) \in Nat
    BY <1>3, <2>2
  <2>4. CASE t < f.id
    <3>1. t <= f.id - 1
      BY <1>1, <1>2, <2>1, <2>4
    <3>2. Position(t) <= Position(f.id - 1)
      BY <1>4, <2>2, <3>1, Positions DEF IInv
    <3> QED  BY <1>5, <1>6, <2>1, <2>3, <3>2 DEF LotsOf
  <2>5. CASE f.id < t
    <3>1. f.id <= t - 1
      BY <1>1, <1>2, <2>1, <2>5
    <3>2. Position(f.id) <= Position(t - 1)
      BY <2>2, <3>1, Positions DEF IInv
    <3> QED  BY <1>5, <1>6, <2>1, <2>3, <3>2 DEF LotsOf
  <2> QED  BY <1>1, <1>2, <2>1, <2>4, <2>5
<1>8. LotsOf(Absolute(f)) \cap Covered = {}
  <2>1. \A t \in DOMAIN placed : LotsOf(Absolute(f)) \cap LotsOf(placed[t]) = {}
    BY <1>7
  <2> QED  BY <2>1, Zenon DEF Covered
<1>9. Fits(Absolute(f), limit)
  BY <1>4, <1>5, <1>6, <1>8 DEF Fits
<1> QED  BY <1>6, <1>9 DEF Span

\* The report that comes next stands where its trades traded.
LEMMA ReceiveCounts ==
  ASSUME IInv, CountsWhatItSees, NEW fills, NEW snapshot, Receive(fills, snapshot),
         ~cut' => ~cut,
         ~cut' => \A i \in DOMAIN fills : fills[i].cum = Position(fills[i].id)
  PROVE  CountsWhatItSees'
BY DEF Receive, CountsWhatItSees, Position

LEMMA VenueCounts ==
  ASSUME IInv, CountsWhatItSees, Trade
  PROVE  CountsWhatItSees'
<1>1. marks \in Seq(1 .. Quantity) /\ Len(marks) \in Nat /\ DOMAIN marks = 1 .. Len(marks)
  BY DEF IInv, TypeOK
<1>2. PICK q \in 1 .. Quantity - Traded : marks' = Append(marks, Traded + q)
  BY DEF Trade
<1>3. \A k \in 1 .. Len(marks) : marks'[k] = marks[k]
  BY <1>1, <1>2
<1>4. \A k \in 0 .. Len(marks) : Position(k)' = Position(k)
  BY <1>3 DEF Position
<1>5. UNCHANGED <<placed, seen, report, cut>>
  BY DEF Trade
<1>6. \A t \in DOMAIN placed : t \in 0 .. Len(marks) /\ t - 1 \in 0 .. Len(marks)
  BY <1>1 DEF IInv, SpansDisjoint
<1>7. \A i \in DOMAIN report.fills : report.fills[i].id \in 0 .. Len(marks)
  BY <1>1 DEF IInv, FillsTrue, TrueFill
<1>8. \A t \in DOMAIN placed : Position(t)' = Position(t) /\ Position(t - 1)' = Position(t - 1)
  BY <1>4, <1>6
<1>9. \A i \in DOMAIN report.fills : Position(report.fills[i].id)' = Position(report.fills[i].id)
  BY <1>4, <1>5, <1>7
<1> QED  BY <1>5, <1>8, <1>9 DEF CountsWhatItSees

LEMMA ReportCounts ==
  ASSUME IInv, CountsWhatItSees,
         TradeEvent \/ StatusEvent \/ Answer \/ ReadOrders \/ TradesFail
  PROVE  CountsWhatItSees'
<1>1. cut' = cut /\ DOMAIN <<>> = {}
  BY DEF TradeEvent, StatusEvent, Answer, ReadOrders, TradesFail
<1>2. CASE TradeEvent
  <2>1. PICK k \in DOMAIN marks : Receive(<<FillFrom(k, 0)>>, Position(k))
    BY <1>2 DEF TradeEvent
  <2>2. k \in 0 .. Len(marks)
    BY DEF IInv, TypeOK
  <2>3. Position(k) \in Int
    BY <2>2, Positions DEF IInv
  <2>4. FillFrom(k, 0).cum = Position(k) /\ FillFrom(k, 0).id = k
    BY <2>3 DEF FillFrom, Position
  <2> QED  BY <1>1, <2>1, <2>4, ReceiveCounts
<1>3. CASE StatusEvent \/ Answer
  BY <1>1, <1>3, ReceiveCounts DEF StatusEvent, Answer
<1>4. CASE ReadOrders \/ TradesFail
  <2>1. report'.fills = <<>> /\ UNCHANGED <<marks, placed, seen, cut>>
    BY <1>4 DEF ReadOrders, TradesFail, NoReport
  <2>2. DOMAIN report'.fills = {}
    BY <2>1
  <2> QED  BY <2>1, <2>2 DEF CountsWhatItSees, Position
<1> QED  BY <1>2, <1>3, <1>4

LEMMA WindowCounts ==
  ASSUME IInv, CountsWhatItSees, ReadTrades
  PROVE  CountsWhatItSees'
<1>1. Len(marks) \in Nat
  BY DEF IInv, TypeOK
<1>2. CASE known \/ report.snapshot # Omitted
  <2>1. PICK w \in 0 .. Len(marks) : \E m \in w .. Len(marks) :
               /\ \E a \in w .. m : \E b \in a .. m : \E s \in a .. b :
                    Receive(Window(w, m, a, s, b), report.snapshot)
               /\ cut' = (cut \/ w > 0)
    BY <1>2 DEF ReadTrades
  <2>2. PICK m \in w .. Len(marks) :
               /\ \E a \in w .. m : \E b \in a .. m : \E s \in a .. b :
                    Receive(Window(w, m, a, s, b), report.snapshot)
               /\ cut' = (cut \/ w > 0)
    BY <2>1
  <2>3. PICK a \in w .. m : \E b \in a .. m : \E s \in a .. b :
               Receive(Window(w, m, a, s, b), report.snapshot)
    BY <2>2
  <2>4. PICK b \in a .. m, s \in Int : /\ s \in a .. b
                                      /\ Receive(Window(w, m, a, s, b), report.snapshot)
    BY <1>1, <2>3
  <2> DEFINE fills == Window(w, m, a, s, b)
  <2>5. ASSUME ~cut' PROVE \A i \in DOMAIN fills : fills[i].cum = Position(fills[i].id)
    <3>1. w = 0
      <4>1. ~(w > 0)
        BY <2>2, <2>5, Zenon
      <4> QED  BY <1>1, <4>1
    <3> SUFFICES ASSUME NEW i \in 1 .. m - w
                 PROVE  fills[i].cum = Position(fills[i].id)
      BY DEF Window
    <3>2. PICK k : k = Turned(w + i, a, s, b)
      OBVIOUS
    <3>3. k \in w + 1 .. Len(marks)
      <4>1. w + i \in w + 1 .. m
        BY <1>1
      <4> QED  BY <1>1, <2>4, <3>2, <4>1 DEF Turned
    <3>4. Position(k) \in Int
      <4>1. k \in 0 .. Len(marks)
        BY <1>1, <3>1, <3>3
      <4> QED  BY <4>1, Positions DEF IInv
    <3>5. fills[i] = FillFrom(k, 0)
      BY <3>1, <3>2 DEF Window
    <3>6. FillFrom(k, 0).cum = Position(k) /\ FillFrom(k, 0).id = k
      BY <3>4 DEF FillFrom, Position
    <3> QED  BY <3>5, <3>6
  <2>6. ~cut' => ~cut
    BY <2>2
  <2>7. Receive(fills, report.snapshot)
    BY <2>4
  <2> HIDE DEF fills
  <2> QED  BY <2>5, <2>6, <2>7, ReceiveCounts
<1>3. CASE ~(known \/ report.snapshot # Omitted)
  BY <1>3, ReceiveCounts DEF ReadTrades
<1> QED  BY <1>2, <1>3

LEMMA ApplyCounts ==
  ASSUME IInv, CountsWhatItSees, IgnoreRepeat \/ DropUnplaced \/ CountTrade
  PROVE  CountsWhatItSees'
<1> SUFFICES ASSUME ~cut PROVE CountsWhatItSees'
  BY DEF CountsWhatItSees, IgnoreRepeat, DropUnplaced, CountTrade, FillDone
<1>0. PICK f : f = NextFill
  OBVIOUS
<1>1. /\ report.fills # <<>> /\ FillDone
      /\ UNCHANGED <<marks, cut>>
  BY DEF IgnoreRepeat, DropUnplaced, CountTrade, FillDone, venueVars
<1>2. /\ f \in Fills /\ TrueFill(f) /\ report'.fills = Tail(report.fills)
  BY <1>0, <1>1, NextIsTrue
<1>3. report.fills \in Seq(Fills)
  BY DEF IInv, TypeOK
<1>4. /\ 1 \in DOMAIN report.fills /\ f = report.fills[1]
      /\ \A i \in DOMAIN Tail(report.fills) : /\ i + 1 \in DOMAIN report.fills
                                              /\ Tail(report.fills)[i] = report.fills[i + 1]
  BY <1>0, <1>1, <1>3 DEF NextFill
<1>5. \A i \in DOMAIN report.fills : report.fills[i].cum = Position(report.fills[i].id)
  BY DEF CountsWhatItSees
<1>6. /\ f.cum = Position(f.id)
      /\ \A i \in DOMAIN report'.fills : report'.fills[i].cum = Position(report'.fills[i].id)
  BY <1>2, <1>4, <1>5
<1>7. \A k : Position(k)' = Position(k)
  BY <1>1 DEF Position
<1>8. CASE IgnoreRepeat
  BY <1>6, <1>7, <1>8 DEF IgnoreRepeat, CountsWhatItSees
<1>9. ASSUME f.id \notin seen
      PROVE  Span(f, Limit) = {<<Position(f.id - 1), Position(f.id)>>}
  <2>1. /\ filled \in Int /\ report.snapshot \in Int /\ f.cum \in Int
    BY <1>2 DEF IInv, TypeOK, Fills
  <2>2. Limit \in Int /\ f.cum <= Limit
    BY <1>0, <2>1 DEF Limit, Larger
  <2> QED  BY <1>2, <1>6, <1>9, <2>2, RoomForTrade
<1>10. CASE DropUnplaced
  BY <1>0, <1>9, <1>10 DEF DropUnplaced
<1>11. CASE CountTrade
  <2>1. f.id \notin seen /\ seen' = seen \cup {f.id}
        /\ Place(f.id, <<Position(f.id - 1), Position(f.id)>>)
    BY <1>0, <1>9, <1>11 DEF CountTrade
  <2>2. /\ DOMAIN placed' = DOMAIN placed \cup {f.id}
        /\ placed'[f.id] = <<Position(f.id - 1), Position(f.id)>>
        /\ \A t \in DOMAIN placed : t # f.id => placed'[t] = placed[t]
    BY <2>1 DEF Place
  <2> QED  BY <1>6, <1>7, <2>1, <2>2 DEF CountsWhatItSees
<1> QED  BY <1>8, <1>10, <1>11

\* Whatever order the reports come in, each reported trade is placed, and
\* where it traded, until a window of time cuts the order's trades in two.
THEOREM CountsEachTrade == Spec => []CountsWhatItSees
<1>1. Init => CountsWhatItSees
  BY DEF Init, CountsWhatItSees, NoReport
<1>2. IInv /\ CountsWhatItSees /\ [Next]_vars => CountsWhatItSees'
  <2> SUFFICES ASSUME IInv, CountsWhatItSees, [Next]_vars PROVE CountsWhatItSees'
    OBVIOUS
  <2>1. CASE ApplySnapshot
    <3>1. report'.fills = <<>> /\ UNCHANGED <<marks, placed, seen, cut>>
      BY <2>1 DEF ApplySnapshot, NoReport
    <3>2. DOMAIN report'.fills = {}
      BY <3>1
    <3> QED  BY <3>1, <3>2 DEF CountsWhatItSees, Position
  <2>2. CASE Close \/ UNCHANGED vars
    BY <2>2 DEF Close, CountsWhatItSees, Position
  <2> QED  BY <2>1, <2>2, VenueCounts, ReportCounts, WindowCounts, ApplyCounts DEF Next
<1> QED  BY <1>1, <1>2, StaysSound, PTL DEF Spec
=============================================================================
