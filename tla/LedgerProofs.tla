---------------------------- MODULE LedgerProofs ----------------------------
(***************************************************************************)
(* The ledger of children and the orders on the venue, step by step: each  *)
(* lemma takes one kind of step from a sound ledger (LedgerTypes and       *)
(* LedgerSound) to a sound ledger.  The argument is that every child but   *)
(* the last is settled, so a step concerns one child and its order, and    *)
(* the sums over the ledger reduce to that child.                          *)
(***************************************************************************)
EXTENDS EngineProperties, ExposureProofs, SequenceTheorems

\* Every entry of the two sequences has its type.
LEMMA LedgerElements ==
  ASSUME LedgerTypes, NEW i \in 1 .. Last
  PROVE  /\ children[i] \in Child /\ orders[i] \in Order
         /\ children[i].qty \in Nat /\ children[i].filled \in Nat
         /\ children[i].status \in ChildOrderStatus
         /\ orders[i].qty \in Nat /\ orders[i].filled \in Nat
         /\ orders[i].state \in OrderState /\ orders[i].ioc \in BOOLEAN
         /\ Last \in Nat /\ DOMAIN children = 1 .. Last /\ DOMAIN orders = 1 .. Last
<1>1. children[i] \in Child /\ orders[i] \in Order
  BY ElementOfSeq DEF LedgerTypes, Last
<1>2. Last \in Nat /\ DOMAIN children = 1 .. Last /\ DOMAIN orders = 1 .. Last
  BY LenProperties DEF LedgerTypes, Last
<1> QED
  BY <1>1, <1>2 DEF Child, Order

\* A bucket that holds q lots holds fewer, and still does when q are marked for
\* a cancel or when more is reserved.
LEMMA HoldsFacts ==
  ASSUME NEW b \in Buckets, NEW q \in Nat
  PROVE  /\ Holds(b, q) => Reserved(b) >= q
         /\ \A p \in Nat : p <= q /\ Holds(b, q) => Holds(b, p)
         /\ Holds(ReserveLiveOpen(b, q), q)
         /\ Holds(ReservePendingSubmit(b, q), q)
         /\ Holds(ReserveUnknown(b, q), q)
         /\ Holds(b, q) => Holds(MarkPendingCancel(b, q), q)
<1>1. b.live \in Nat /\ b.submit \in Nat /\ b.cancel \in Nat /\ b.unknown \in Nat
  BY DEF Buckets
<1>2. Holds(b, q) => Reserved(b) >= q
  BY <1>1 DEF Holds, Reserved
<1>3. \A p \in Nat : p <= q /\ Holds(b, q) => Holds(b, p)
  BY <1>1 DEF Holds
<1>4. /\ ReserveLiveOpen(b, q).live = b.live + q
      /\ ReservePendingSubmit(b, q).submit = b.submit + q
      /\ ReserveUnknown(b, q).unknown = b.unknown + q
  BY DEF ReserveLiveOpen, ReservePendingSubmit, ReserveUnknown, Buckets
<1>5. /\ Holds(ReserveLiveOpen(b, q), q)
      /\ Holds(ReservePendingSubmit(b, q), q)
      /\ Holds(ReserveUnknown(b, q), q)
  BY <1>1, <1>4 DEF Holds
<1>6. ASSUME Holds(b, q) PROVE Holds(MarkPendingCancel(b, q), q)
  BY <1>1, <1>6, MarkedFields DEF Holds, Smaller
<1> QED
  BY <1>2, <1>3, <1>5, <1>6

\* What a step may do to the children it finds: fills only add, a closed child
\* stays as it is and a settled one stays settled.
OnlyAdds ==
  \A i \in 1 .. Last :
    /\ children[i].filled <= children'[i].filled
    /\ children[i].status \in TerminalChild => children'[i].status = children[i].status
    /\ Settled(children[i], orders[i]) =>
         /\ Settled(children'[i], orders'[i])
         /\ children'[i].filled = children[i].filled

\* Steps that touch neither the ledger nor the orders keep both.
LEMMA LedgerKept ==
  ASSUME LedgerTypes, LedgerSound,
         UNCHANGED <<orders, position, required, children, confirmed, buckets>>
  PROVE  LedgerTypes' /\ LedgerSound' /\ OnlyAdds /\ Last' = Last
<1>1. LedgerTypes' /\ LedgerSound' /\ Last' = Last
  BY DEF LedgerTypes, LedgerSound, Counted, Last
<1>2. \A i \in 1 .. Last : children[i].filled \in Nat
  BY LedgerElements
<1> QED
  BY <1>1, <1>2 DEF OnlyAdds

\* Whatever the children learn at once, each lot is counted once.
LEMMA CountedKept ==
  ASSUME LedgerTypes, Counted, NEW n \in Nat, n = Last,
         children' \in Seq(Child), Len(children') = n,
         \A j \in 1 .. n : children[j].filled <= children'[j].filled,
         confirmed' = confirmed +
           LotsBetween(1 .. n, [j \in 1 .. n |-> children[j].filled],
                               [j \in 1 .. n |-> children'[j].filled])
  PROVE  Counted'
<1> DEFINE I    == 1 .. n
           none == [j \in I |-> 0]
           from == [j \in I |-> children[j].filled]
           to   == [j \in I |-> children'[j].filled]
<1>1. DOMAIN children = I /\ DOMAIN children' = I
  BY LenProperties DEF LedgerTypes, Last
<1>2. \A j \in I : children[j].filled \in Nat /\ children'[j].filled \in Nat
  <2> TAKE j \in I
  <2>1. children[j] \in Child /\ children'[j] \in Child
    BY ElementOfSeq DEF LedgerTypes, Last
  <2> QED
    BY <2>1 DEF Child
<1>3. \A j \in I : /\ none[j] \in Int /\ from[j] \in Int /\ to[j] \in Int
                   /\ none[j] <= from[j] /\ from[j] <= to[j]
  <2>1. \A j \in I : none[j] = 0 /\ from[j] = children[j].filled /\ to[j] = children'[j].filled
    OBVIOUS
  <2> HIDE DEF none, from, to
  <2> QED
    BY <1>2, <2>1
<1>4. IsFiniteSet(I)
  <2>1. IsFiniteSet(1 .. n)
    BY ONLY n \in Nat, FS_Interval
  <2> QED
    BY <2>1
<1>5. confirmed = LotsBetween(I, none, from) /\ confirmed' = confirmed + LotsBetween(I, from, to)
  BY <1>1 DEF Counted
<1> HIDE DEF none, from, to, I
<1>6. LotsBetween(I, none, to) = LotsBetween(I, none, from) + LotsBetween(I, from, to)
  BY <1>3, <1>4, LotsSplit
<1>7. confirmed' = LotsBetween(I, none, to)
  BY <1>5, <1>6
<1> QED
  BY <1>1, <1>7 DEF Counted, none, to

\* And when only one child learns something.
LEMMA CountedMoves ==
  ASSUME LedgerTypes, Counted, NEW i \in 1 .. Last, NEW c \in Child,
         children' = [children EXCEPT ![i] = c], children[i].filled <= c.filled,
         confirmed' = confirmed + (c.filled - children[i].filled)
  PROVE  Counted'
<1> DEFINE n    == Last
           from == [j \in 1 .. n |-> children[j].filled]
           to   == [j \in 1 .. n |-> children'[j].filled]
<1>1. /\ children' \in Seq(Child) /\ Len(children') = n /\ n \in Nat
      /\ \A j \in 1 .. n : children'[j] = IF j = i THEN c ELSE children[j]
  BY ExceptSeq, LedgerElements DEF LedgerTypes, Last
<1>2. c.filled \in Nat /\ \A j \in 1 .. n : children[j].filled \in Nat
  BY LedgerElements DEF Child
<1>3. \A j \in 1 .. n : children[j].filled <= children'[j].filled
  BY <1>1, <1>2
<1>4. \A j \in 1 .. n : from[j] = children[j].filled /\ to[j] = children'[j].filled
  OBVIOUS
<1> HIDE DEF from, to
<1>5. \A j \in 1 .. n : from[j] \in Int /\ to[j] \in Int
  BY <1>1, <1>2, <1>4, SMTT(20)
<1>6. \A j \in (1 .. n) \ {i} : to[j] <= from[j]
  BY <1>1, <1>2, <1>4
<1> HIDE DEF n
<1>7. i \in 1 .. n
  BY DEF n
<1>8. LotsBetween(1 .. n, from, to) = IF from[i] < to[i] THEN to[i] - from[i] ELSE 0
  BY <1>5, <1>6, <1>7, LotsOnly
<1>9. from[i] = children[i].filled /\ to[i] = c.filled
  BY <1>1, <1>4, <1>7
<1>10. confirmed' = confirmed + LotsBetween(1 .. n, from, to)
  BY <1>2, <1>7, <1>8, <1>9
<1> QED
  BY <1>1, <1>3, <1>10, CountedKept DEF n, from, to

\* The step most actions are: one child or its order moves on, fills only add,
\* what was settled stays settled and what is still open stays reserved.
LEMMA OneChildMoves ==
  ASSUME LedgerTypes, LedgerSound, required \in Nat,
         NEW i \in 1 .. Last, NEW c \in Child, NEW o \in Order,
         children' = [children EXCEPT ![i] = c],
         orders' = [orders EXCEPT ![i] = o],
         UNCHANGED required, buckets' \in Buckets,
         position' = position + (o.filled - orders[i].filled),
         confirmed' = confirmed + (c.filled - children[i].filled),
         c.qty = children[i].qty, o.qty = orders[i].qty,
         OrderSound(o), ChildMatchesOrder(c, o),
         orders[i].filled <= o.filled, children[i].filled <= c.filled,
         Settled(children[i], orders[i]) =>
           Settled(c, o) /\ c.filled = children[i].filled /\ o.filled = orders[i].filled,
         children[i].status \in TerminalChild => c.status = children[i].status,
         children'[Last].status \notin TerminalChild =>
           Holds(buckets', children'[Last].qty - children'[Last].filled)
  PROVE  LedgerTypes' /\ LedgerSound' /\ OnlyAdds /\ Last' = Last
<1>a. /\ children[i] \in Child /\ orders[i] \in Order /\ Last \in Nat /\ i \in Nat
      /\ children[i].qty \in Nat /\ children[i].filled \in Nat
      /\ orders[i].qty \in Nat /\ orders[i].filled \in Nat
  BY LedgerElements
<1>b. /\ Last > 0 /\ Last \in 1 .. Last
      /\ children[Last].qty \in Nat /\ children[Last].filled \in Nat
      /\ orders[Last].qty \in Nat /\ orders[Last].filled \in Nat
  <2>1. Last > 0 /\ Last \in 1 .. Last
    BY <1>a
  <2> QED
    BY <2>1, LedgerElements
<1>1. /\ children' \in Seq(Child) /\ Len(children') = Last
      /\ \A j \in 1 .. Last : children'[j] = IF j = i THEN c ELSE children[j]
  BY ExceptSeq DEF LedgerTypes, Last
<1>2. /\ orders' \in Seq(Order) /\ Len(orders') = Last
      /\ \A j \in 1 .. Last : orders'[j] = IF j = i THEN o ELSE orders[j]
  BY ExceptSeq DEF LedgerTypes, Last
<1>3. c.qty \in Nat /\ c.filled \in Nat /\ o.qty \in Nat /\ o.filled \in Nat
  BY DEF Child, Order
<1>4. position \in Nat /\ confirmed \in Nat
  BY DEF LedgerTypes
<1>5. position' \in Nat /\ confirmed' \in Nat
  BY <1>a, <1>3, <1>4
<1>6. LedgerTypes'
  BY <1>1, <1>2, <1>5 DEF LedgerTypes
<1>7. Last' = Last /\ Last > 0 /\ Last \in 1 .. Last
  BY <1>b, <1>1 DEF Last
<1>8. ChildMatchesOrder(children[i], orders[i]) /\ OrderSound(orders[i])
  BY DEF LedgerSound
<1>9. \A j \in 1 .. Last : 
        OrderSound(orders'[j]) /\ ChildMatchesOrder(children'[j], orders'[j])
  BY <1>a, <1>b, <1>1, <1>2 DEF LedgerSound
<1>10. \A j \in 1 .. Last - 1 : Settled(children'[j], orders'[j])
  BY <1>a, <1>b, <1>1, <1>2 DEF LedgerSound
<1>11. position = confirmed + orders[Last].filled - children[Last].filled
  BY <1>a, <1>b, <1>7 DEF LedgerSound
<1>12. /\ position' = confirmed' + orders'[Last].filled - children'[Last].filled
       /\ confirmed' <= required
       /\ children'[Last].status \notin TerminalChild =>
            confirmed' + children'[Last].qty - children'[Last].filled <= required
  <2>1. CASE Settled(children[i], orders[i])
    <3>1. confirmed' = confirmed /\ position' = position
      BY <1>a, <1>b, <1>3, <1>4, <2>1
    <3>2. /\ children'[Last].filled = children[Last].filled
          /\ orders'[Last].filled = orders[Last].filled
      BY <1>a, <1>b, <1>1, <1>2, <1>7, <2>1
    <3>3. confirmed <= required
      BY DEF LedgerSound
    <3>4. ASSUME children'[Last].status \notin TerminalChild
          PROVE  confirmed' + children'[Last].qty - children'[Last].filled <= required
      <4>1. CASE i = Last
        <5>1. c.qty = c.filled
          BY <1>a, <1>b, <1>1, <1>7, <2>1, <3>4, <4>1 DEF Settled
        <5> QED
          BY <1>a, <1>b, <1>1, <1>3, <1>4, <1>7, <3>1, <3>3, <4>1, <5>1
      <4>2. CASE i # Last
        BY <1>a, <1>b, <1>1, <1>7, <3>1, <3>4, <4>2 DEF LedgerSound
      <4> QED
        BY <4>1, <4>2
    <3>5. orders[Last].filled \in Nat /\ children[Last].filled \in Nat
      BY <1>a, <1>b, <1>7
    <3> QED
      BY <1>a, <1>b, <1>4, <1>11, <3>1, <3>2, <3>3, <3>4, <3>5
  <2>2. CASE ~Settled(children[i], orders[i])
    <3>1. i = Last
      BY <1>a, <2>2 DEF LedgerSound
    <3>2. children'[Last] = c /\ orders'[Last] = o
      BY <1>a, <1>b, <1>1, <1>2, <1>7, <3>1
    <3>3. children[i].status \notin TerminalChild
      BY <1>a, <1>b, <1>8, <2>2 DEF ChildMatchesOrder
    <3>4. confirmed + children[i].qty - children[i].filled <= required
      BY <1>a, <1>b, <1>7, <3>1, <3>3 DEF LedgerSound
    <3>5. c.filled <= c.qty
      BY <1>a, <1>b, <1>3 DEF OrderSound, ChildMatchesOrder
    <3>6. confirmed' + c.qty - c.filled <= required
      BY <1>a, <1>b, <1>3, <1>4, <3>4
    <3>7. confirmed' <= required
      BY <1>a, <1>b, <1>3, <1>5, <3>5, <3>6
    <3>8. position' = confirmed' + o.filled - c.filled
      BY <1>a, <1>b, <1>3, <1>4, <1>11, <3>1
    <3> QED
      BY <1>a, <1>b, <3>2, <3>6, <3>7, <3>8
  <2> QED
    BY <2>1, <2>2
<1>13. Counted'
  BY CountedMoves DEF LedgerSound
<1>14. LedgerSound'
  BY <1>a, <1>b, <1>7, <1>9, <1>10, <1>12, <1>13 DEF LedgerSound
<1>15. OnlyAdds
  <2>1. \A j \in 1 .. Last : children[j].filled \in Nat
    BY LedgerElements
  <2> QED
    BY <1>1, <1>2, <2>1 DEF OnlyAdds
<1> QED
  BY <1>6, <1>7, <1>14, <1>15

\* Report s of order o: it may be old, but was true.
Reports(s, o) ==
  /\ s.status \in {"OPEN", "PARTIALLY_FILLED", "CANCELLED", "FILLED"}
  /\ s.filled \in Nat /\ s.filled <= o.filled
  /\ s.status \in {"CANCELLED", "FILLED"} => ~Working(o) /\ s.filled = o.filled

\* What the venue shows, and every user event it has produced, is a report.
LEMMA SightingReports ==
  ASSUME NEW o \in Order, OrderSound(o)
  PROVE  /\ OnVenue(o) => Reports(Sighting(o), o)
         /\ \A s \in Sightings(o) : Reports(s, o)
<1>1. ASSUME OnVenue(o) PROVE Reports(Sighting(o), o)
  BY <1>1 DEF OnVenue, Reports, Sighting, StatusOf, Order, OrderState, Working
<1>2. ASSUME NEW s \in Sightings(o) PROVE Reports(s, o)
  <2>1. OnVenue(o)
    BY <1>2 DEF Sightings
  <2>2. CASE s = Sighting(o)
    BY <1>1, <2>1, <2>2
  <2>3. CASE \E f \in 0 .. Smaller(o.filled, o.qty - 1) :
               s = Sighting([o EXCEPT !.filled = f, !.state = "open"])
    <3> PICK f \in 0 .. Smaller(o.filled, o.qty - 1) :
               s = Sighting([o EXCEPT !.filled = f, !.state = "open"])
      BY <2>3
    <3> DEFINE p == [o EXCEPT !.filled = f, !.state = "open"]
    <3>1. p.filled = f /\ p.state = "open"
      BY DEF Order
    <3>2. o.filled \in Nat /\ o.qty \in Nat
      BY DEF Order
    <3>3. f \in Nat /\ f <= o.filled
      BY <3>2 DEF Smaller
    <3> HIDE DEF p
    <3>4. s.filled = f /\ s.status \in {"OPEN", "PARTIALLY_FILLED"}
      <4>1. s = Sighting(p)
        BY DEF p
      <4> QED
        BY <3>1, <4>1 DEF Sighting, StatusOf
    <3> QED
      BY <3>3, <3>4 DEF Reports
  <2> QED
    BY <1>2, <2>1, <2>2, <2>3 DEF Sightings
<1> QED
  BY <1>1, <1>2

\* The child after a report: fills only add, the status moves if it may.
LEMMA SeenFacts ==
  ASSUME NEW c \in Child, NEW o \in Order, NEW s, Reports(s, o), OrderSound(o),
         c.filled <= o.filled
  PROVE  /\ Seen(c, s) \in Child
         /\ Seen(c, s).qty = c.qty
         /\ Seen(c, s).filled = Larger(c.filled, s.filled)
         /\ c.filled <= Seen(c, s).filled /\ Seen(c, s).filled <= o.filled
         /\ Seen(c, s).status = SetChildStatus(c.status, s.status)
<1> DEFINE d == [c EXCEPT !.status = SetChildStatus(@, s.status)]
           e == [d EXCEPT !.filled = Larger(@, s.filled)]
<1>1. /\ c.status \in ChildOrderStatus /\ c.filled \in Nat /\ c.qty \in Nat
      /\ o.filled \in Nat /\ s.filled \in Nat /\ s.filled <= o.filled
  BY DEF Child, Order, Reports
<1>2. SetChildStatus(c.status, s.status) \in ChildOrderStatus
  BY <1>1, SetChildStatusType
<1>3. /\ Larger(c.filled, s.filled) \in Nat
      /\ c.filled <= Larger(c.filled, s.filled)
      /\ Larger(c.filled, s.filled) <= o.filled
  BY <1>1 DEF Larger
<1> HIDE DEF d
<1>4. d \in Child /\ d.qty = c.qty /\ d.filled = c.filled
      /\ d.status = SetChildStatus(c.status, s.status)
  BY <1>2 DEF d, Child
<1> HIDE DEF e
<1>5. e \in Child /\ e.qty = c.qty /\ e.filled = Larger(c.filled, s.filled)
      /\ e.status = SetChildStatus(c.status, s.status)
  BY <1>3, <1>4 DEF e, Child
<1>6. Seen(c, s) = e
  BY DEF Seen, e, d
<1> QED
  BY <1>3, <1>5, <1>6

\* A report never makes a child terminal that could still trade.
LEMMA SeenKept ==
  ASSUME NEW c \in Child, NEW o \in Order, NEW s, Reports(s, o), OrderSound(o),
         ChildMatchesOrder(c, o)
  PROVE  /\ ChildMatchesOrder(Seen(c, s), o)
         /\ Settled(c, o) => Settled(Seen(c, s), o) /\ Seen(c, s).filled = c.filled
         /\ Seen(c, s).status \notin TerminalChild => c.status \notin TerminalChild
<1> DEFINE e == Seen(c, s)
<1>1. c.filled <= o.filled /\ c.qty = o.qty
  BY DEF ChildMatchesOrder
<1>2. /\ e.qty = c.qty /\ e.filled = Larger(c.filled, s.filled)
      /\ e.filled <= o.filled /\ c.filled <= e.filled
      /\ e.status = SetChildStatus(c.status, s.status)
  BY <1>1, SeenFacts
<1> HIDE DEF e
<1>3. /\ c.status \in ChildOrderStatus /\ c.filled \in Nat /\ c.qty \in Nat
      /\ o.filled \in Nat /\ s.filled \in Nat /\ s.filled <= o.filled
  BY DEF Child, Order, Reports
<1>4. e.status \in {c.status, s.status} /\ (c.status \in TerminalChild => e.status = c.status)
  BY <1>2, <1>3, SetChildStatusType
<1>5. Settled(c, o) => Settled(e, o) /\ e.filled = c.filled
  BY <1>2, <1>3, <1>4 DEF Settled, Larger
<1>6. ChildMatchesOrder(e, o)
  <2>1. ASSUME e.status \in TerminalChild PROVE Settled(e, o)
    <3>1. CASE c.status \in TerminalChild
      BY <1>5, <3>1 DEF ChildMatchesOrder
    <3>2. CASE c.status \notin TerminalChild
      <4>1. s.status \in {"CANCELLED", "FILLED"}
        BY <1>4, <2>1, <3>2 DEF Reports, TerminalChild
      <4>2. ~Working(o) /\ s.filled = o.filled
        BY <4>1 DEF Reports
      <4> QED
        BY <1>1, <1>2, <1>3, <2>1, <4>2 DEF Settled, Larger
    <3> QED
      BY <3>1, <3>2
  <2> QED
    BY <1>1, <1>2, <2>1 DEF ChildMatchesOrder
<1> QED
  BY <1>4, <1>5, <1>6 DEF e

\* Buckets rebuilt from the children cover every open child.
LEMMA BucketsOfCover ==
  ASSUME NEW cs \in Seq(Child)
  PROVE  /\ BucketsOf(cs) \in Buckets
         /\ \A i \in 1 .. Len(cs) : cs[i].status \notin TerminalChild =>
              Holds(BucketsOf(cs), cs[i].qty - cs[i].filled)
<1> DEFINE n    == Len(cs)
           I(S) == {i \in DOMAIN cs : cs[i].status \in S}
           L    == Outstanding(cs, I(LiveChild))
           P    == Outstanding(cs, I({"PENDING_SUBMIT"}))
           C    == Outstanding(cs, I({"PENDING_CANCEL"}))
           U    == Outstanding(cs, I({"UNKNOWN"}))
<1>1. n \in Nat /\ DOMAIN cs = 1 .. n
  BY LenProperties
<1>2. \A i \in 1 .. n : /\ cs[i].qty \in Nat /\ cs[i].filled \in Nat
                        /\ cs[i].status \in ChildOrderStatus
  <2> TAKE i \in 1 .. n
  <2>1. cs[i] \in Child
    BY ElementOfSeq
  <2> QED
    BY <2>1 DEF Child
<1>3. ASSUME NEW S
      PROVE  /\ Outstanding(cs, I(S)) \in Nat
             /\ \A j \in I(S) : Outstanding(cs, I(S)) >= cs[j].qty - cs[j].filled
  <2>1. I(S) \in SUBSET (1 .. n)
    BY <1>1
  <2> HIDE DEF n
  <2>2. \A i \in I(S) : cs[i].qty \in Nat /\ cs[i].filled \in Nat
    BY <1>2, <2>1
  <2> HIDE DEF I
  <2> QED
    BY <1>1, <2>1, <2>2, OutstandingAtLeast
<1>4. BucketsOf(cs) = [live |-> L, submit |-> P, cancel |-> C, unknown |-> U]
  BY DEF BucketsOf
<1>5. L \in Nat /\ P \in Nat /\ C \in Nat /\ U \in Nat
  BY <1>3
<1>6. ASSUME NEW i \in 1 .. n, cs[i].status \notin TerminalChild
      PROVE  \/ L >= cs[i].qty - cs[i].filled \/ P >= cs[i].qty - cs[i].filled
             \/ C >= cs[i].qty - cs[i].filled \/ U >= cs[i].qty - cs[i].filled
  <2>1. \/ i \in I(LiveChild) \/ i \in I({"PENDING_SUBMIT"})
        \/ i \in I({"PENDING_CANCEL"}) \/ i \in I({"UNKNOWN"})
    BY <1>1, <1>2, <1>6 DEF ChildOrderStatus, TerminalChild, LiveChild
  <2> QED
    BY <1>3, <2>1
<1> HIDE DEF L, P, C, U
<1> QED
  BY <1>4, <1>5, <1>6 DEF Buckets, Holds

\* What the last child may still trade, if its status is one of S.
OpenIn(cs, S) ==
  IF Len(cs) > 0 /\ cs[Len(cs)].status \in S
  THEN cs[Len(cs)].qty - cs[Len(cs)].filled ELSE 0

\* Buckets rebuilt from children of which only the last may be open hold what it
\* may still trade, in the bucket of its status.
LEMMA BucketsOfOne ==
  ASSUME NEW cs \in Seq(Child), NEW n \in Nat, n = Len(cs),
         \A i \in 1 .. n : cs[i].filled <= cs[i].qty,
         \A i \in 1 .. n - 1 : cs[i].status \in TerminalChild \/ cs[i].filled = cs[i].qty
  PROVE  /\ BucketsOf(cs) =
              [live    |-> OpenIn(cs, LiveChild),
               submit  |-> OpenIn(cs, {"PENDING_SUBMIT"}),
               cancel  |-> OpenIn(cs, {"PENDING_CANCEL"}),
               unknown |-> OpenIn(cs, {"UNKNOWN"})]
         /\ Reserved(BucketsOf(cs)) = OpenIn(cs, ChildOrderStatus \ TerminalChild)
<1> DEFINE I(S) == {i \in DOMAIN cs : cs[i].status \in S}
<1>1. DOMAIN cs = 1 .. n
  BY LenProperties
<1>2. \A i \in 1 .. n : /\ cs[i].qty \in Nat /\ cs[i].filled \in Nat
                        /\ cs[i].status \in ChildOrderStatus
  <2> TAKE i \in 1 .. n
  <2>1. cs[i] \in Child
    BY ElementOfSeq
  <2> QED
    BY <2>1 DEF Child
<1>3. ASSUME NEW S, S \cap TerminalChild = {}
      PROVE  Outstanding(cs, I(S)) = OpenIn(cs, S)
  <2>1. /\ \A i \in I(S) : i \in 1 .. n /\ cs[i].status \in S
        /\ n \in I(S) <=> n > 0 /\ cs[n].status \in S
    BY <1>1
  <2> HIDE DEF I
  <2>2. \A i \in I(S) : cs[i].qty \in Nat /\ cs[i].filled \in Nat
    BY <1>2, <2>1
  <2>3. \A i \in I(S) \ {n} : cs[i].filled = cs[i].qty
    <3> TAKE i \in I(S) \ {n}
    <3>1. i \in 1 .. n - 1 /\ cs[i].status \notin TerminalChild
      BY <1>3, <2>1
    <3> QED
      BY <3>1
  <2>4. Outstanding(cs, I(S))
          = IF n \in I(S) /\ cs[n].filled < cs[n].qty THEN cs[n].qty - cs[n].filled ELSE 0
    BY <2>2, <2>3, OutstandingOnly
  <2>5. n > 0 => /\ cs[n].qty \in Nat /\ cs[n].filled \in Nat
                 /\ cs[n].filled <= cs[n].qty
    <3>1. n > 0 => n \in 1 .. n
      OBVIOUS
    <3> QED
      BY <1>2, <3>1
  <2> QED
    BY <2>1, <2>4, <2>5 DEF OpenIn
<1>4. /\ LiveChild \cap TerminalChild = {}
      /\ {"PENDING_SUBMIT"} \cap TerminalChild = {}
      /\ {"PENDING_CANCEL"} \cap TerminalChild = {}
      /\ {"UNKNOWN"} \cap TerminalChild = {}
  BY DEF LiveChild, TerminalChild
<1>5. BucketsOf(cs) =
        [live    |-> OpenIn(cs, LiveChild),
         submit  |-> OpenIn(cs, {"PENDING_SUBMIT"}),
         cancel  |-> OpenIn(cs, {"PENDING_CANCEL"}),
         unknown |-> OpenIn(cs, {"UNKNOWN"})]
  BY <1>3, <1>4 DEF BucketsOf
<1>6. OpenIn(cs, LiveChild) + OpenIn(cs, {"PENDING_SUBMIT"}) + OpenIn(cs, {"PENDING_CANCEL"})
        + OpenIn(cs, {"UNKNOWN"}) = OpenIn(cs, ChildOrderStatus \ TerminalChild)
  <2>1. n > 0 => /\ cs[n].qty \in Nat /\ cs[n].filled \in Nat
                 /\ cs[n].status \in ChildOrderStatus
    <3>1. n > 0 => n \in 1 .. n
      OBVIOUS
    <3> QED
      BY <1>2, <3>1
  <2> QED
    BY <2>1 DEF OpenIn, ChildOrderStatus, TerminalChild, LiveChild
<1> QED
  BY <1>5, <1>6 DEF Reserved

\* So the buckets rebuilt from the children of a sound ledger fit the target.
LEMMA RebuiltFits ==
  LedgerTypes /\ LedgerSound /\ required \in Nat =>
    /\ BucketsOf(children) \in Buckets
    /\ BucketsOf(children) = [live    |-> OpenIn(children, LiveChild),
                              submit  |-> OpenIn(children, {"PENDING_SUBMIT"}),
                              cancel  |-> OpenIn(children, {"PENDING_CANCEL"}),
                              unknown |-> OpenIn(children, {"UNKNOWN"})]
    /\ confirmed + Reserved(BucketsOf(children)) <= required
<1> HAVE LedgerTypes /\ LedgerSound /\ required \in Nat
<1>1. Last \in Nat /\ Last = Len(children) /\ children \in Seq(Child)
  BY LenProperties DEF Last, LedgerTypes
<1>2. \A i \in 1 .. Last : children[i].filled <= children[i].qty
  BY LedgerElements DEF LedgerSound, ChildMatchesOrder, OrderSound
<1>3. \A i \in 1 .. Last - 1 :
        children[i].status \in TerminalChild \/ children[i].filled = children[i].qty
  BY DEF LedgerSound, Settled
<1>4. Reserved(BucketsOf(children)) = OpenIn(children, ChildOrderStatus \ TerminalChild)
  BY <1>1, <1>2, <1>3, BucketsOfOne
<1>5. Last > 0 => Last \in 1 .. Last
  BY <1>1
<1>6. confirmed + OpenIn(children, ChildOrderStatus \ TerminalChild) <= required
  BY <1>1, <1>5, LedgerElements DEF LedgerTypes, LedgerSound, OpenIn
<1> QED
  BY <1>1, <1>2, <1>3, <1>4, <1>6, BucketsOfCover, BucketsOfOne

\* Learning a report keeps the ledger, whether the buckets are rebuilt or not.
LEMMA LearnStep ==
  ASSUME LedgerTypes, LedgerSound, required \in Nat,
         NEW i \in 1 .. Last, NEW s, Reports(s, orders[i]), Learn(i, s),
         UNCHANGED <<orders, position, required>>,
         buckets' = buckets \/ buckets' = BucketsOf(children')
  PROVE  LedgerTypes' /\ LedgerSound' /\ OnlyAdds /\ Last' = Last
<1> DEFINE c == Seen(children[i], s)
           o == orders[i]
<1>1. /\ children[i] \in Child /\ o \in Order /\ Last \in Nat
      /\ o.filled \in Nat
  BY LedgerElements
<1>2. OrderSound(o) /\ ChildMatchesOrder(children[i], o)
  BY DEF LedgerSound
<1>3. children[i].filled <= o.filled
  BY <1>2 DEF ChildMatchesOrder
<1>4. /\ c \in Child /\ c.qty = children[i].qty
      /\ children[i].filled <= c.filled
  BY <1>1, <1>2, <1>3, SeenFacts
<1>5. /\ ChildMatchesOrder(c, o)
      /\ Settled(children[i], o) => Settled(c, o) /\ c.filled = children[i].filled
      /\ c.status \notin TerminalChild => children[i].status \notin TerminalChild
  BY <1>1, <1>2, SeenKept
<1>6. /\ children' = [children EXCEPT ![i] = c]
      /\ confirmed' = confirmed + (c.filled - children[i].filled)
  BY DEF Learn
<1> HIDE DEF c
<1>7. orders' = [orders EXCEPT ![i] = o]
  BY DEF LedgerTypes
<1>8. position' = position + (o.filled - orders[i].filled)
  BY <1>1 DEF LedgerTypes
<1>9. /\ children' \in Seq(Child) /\ Len(children') = Last
      /\ \A j \in 1 .. Last : children'[j] = IF j = i THEN c ELSE children[j]
  BY <1>4, <1>6, ExceptSeq DEF LedgerTypes, Last
<1>10. Last \in 1 .. Last
  BY <1>1
<1>11. buckets' \in Buckets
  BY <1>9, BucketsOfCover DEF LedgerTypes
<1>12. ASSUME children'[Last].status \notin TerminalChild
       PROVE  Holds(buckets', children'[Last].qty - children'[Last].filled)
  <2>1. CASE buckets' = BucketsOf(children')
    BY <1>9, <1>10, <1>12, <2>1, BucketsOfCover
  <2>2. CASE buckets' = buckets
    <3>1. children[Last].status \notin TerminalChild
      BY <1>5, <1>9, <1>10, <1>12
    <3>2. Holds(buckets, children[Last].qty - children[Last].filled)
      BY <1>1, <3>1 DEF LedgerSound
    <3>3. /\ children'[Last].qty = children[Last].qty
          /\ children'[Last].filled >= children[Last].filled
      <4>1. children[Last].filled \in Nat
        BY <1>10, LedgerElements
      <4> QED
        BY <1>4, <1>9, <1>10, <4>1
    <3>4. /\ children'[Last].filled \in Nat /\ children[Last].filled \in Nat
          /\ children[Last].qty \in Nat
      <4>1. children'[Last] \in Child /\ children[Last] \in Child
        BY <1>9, <1>10, <1>4, LedgerElements
      <4> QED
        BY <4>1 DEF Child
    <3>5. buckets \in Buckets /\ children'[Last].filled <= children'[Last].qty
      <4>1. c.filled <= c.qty
        BY <1>1, <1>2, <1>4, <1>5 DEF ChildMatchesOrder, OrderSound, Order, Child
      <4>2. children[Last].filled <= children[Last].qty
        BY <1>10, LedgerElements DEF LedgerSound, ChildMatchesOrder, OrderSound
      <4> QED
        BY <1>9, <1>10, <4>1, <4>2 DEF LedgerTypes
    <3>6. /\ children'[Last].qty - children'[Last].filled \in Nat
          /\ children[Last].qty - children[Last].filled \in Nat
          /\ children'[Last].qty - children'[Last].filled
               <= children[Last].qty - children[Last].filled
      BY <3>3, <3>4, <3>5
    <3> QED
      BY <2>2, <3>2, <3>5, <3>6, HoldsFacts
  <2> QED
    BY <2>1, <2>2
<1>13. /\ o.filled <= orders[i].filled /\ orders[i].filled <= o.filled /\ o.qty = orders[i].qty
  BY <1>1
<1>14. Settled(children[i], orders[i]) =>
           Settled(c, o) /\ c.filled = children[i].filled /\ o.filled = orders[i].filled
  BY <1>5
<1>15. UNCHANGED required
  OBVIOUS
<1>16. children[i].status \in TerminalChild => c.status = children[i].status
  <2>1. c.status = SetChildStatus(children[i].status, s.status)
    BY <1>1, <1>2, <1>3, SeenFacts DEF c
  <2> QED
    BY <2>1, LedgerElements, SetChildStatusType
<1> HIDE DEF o
<1> QED
  BY <1>1, <1>2, <1>4, <1>5, <1>6, <1>7, <1>8, <1>11, <1>12, <1>13, <1>14, <1>15,
     <1>16, OneChildMoves

\* The venue moves an order on.
LEMMA OrderMoves ==
  ASSUME LedgerTypes, LedgerSound, required \in Nat,
         NEW i \in 1 .. Last, NEW o \in Order,
         orders' = [orders EXCEPT ![i] = o],
         position' = position + (o.filled - orders[i].filled),
         UNCHANGED <<children, confirmed, buckets, required>>,
         o.qty = orders[i].qty, OrderSound(o), orders[i].filled <= o.filled,
         Working(orders[i]) \/ (~Working(o) /\ o.filled = orders[i].filled)
  PROVE  LedgerTypes' /\ LedgerSound' /\ OnlyAdds /\ Last' = Last
<1> DEFINE c == children[i]
<1>1. /\ c \in Child /\ orders[i] \in Order /\ Last \in Nat
      /\ c.filled \in Nat /\ c.qty \in Nat /\ o.filled \in Nat /\ orders[i].filled \in Nat
  BY LedgerElements DEF Order
<1>2. ChildMatchesOrder(c, orders[i]) /\ OrderSound(orders[i])
  BY DEF LedgerSound
<1>3. Settled(c, orders[i]) => Settled(c, o) /\ o.filled = orders[i].filled
  BY DEF Settled
<1>4. ChildMatchesOrder(c, o)
  BY <1>1, <1>2, <1>3 DEF ChildMatchesOrder
<1>5. children' = [children EXCEPT ![i] = c]
  BY DEF LedgerTypes
<1>6. confirmed' = confirmed + (c.filled - children[i].filled)
  BY <1>1 DEF LedgerTypes
<1>7. buckets' \in Buckets
  BY DEF LedgerTypes
<1>8. children'[Last].status \notin TerminalChild =>
           Holds(buckets', children'[Last].qty - children'[Last].filled)
  BY <1>1 DEF LedgerSound
<1>9. c.qty = children[i].qty /\ children[i].filled <= c.filled
  BY <1>1
<1>10. Settled(children[i], orders[i]) =>
         Settled(c, o) /\ c.filled = children[i].filled /\ o.filled = orders[i].filled
  BY <1>3
<1>11. UNCHANGED required /\ c.status = children[i].status
  OBVIOUS
<1> HIDE DEF c
<1> QED
  BY <1>1, <1>4, <1>5, <1>6, <1>7, <1>8, <1>9, <1>10, <1>11, OneChildMoves

\* An order after it has traded.
LEMMA TradedFacts ==
  ASSUME NEW o \in Order, OrderSound(o), NEW k \in Nat, o.filled + k <= o.qty
  PROVE  /\ Traded(o, k) \in Order /\ Traded(o, k).qty = o.qty
         /\ Traded(o, k).filled = o.filled + k
         /\ OrderSound(Traded(o, k))
         /\ Traded(o, k).state \in {"filled", "cancelled", "open"}
         /\ Traded(o, k).state = "open" <=> ~o.ioc /\ o.filled + k # o.qty
<1> DEFINE d == [o EXCEPT !.filled = @ + k]
           st == IF o.filled + k = o.qty THEN "filled"
                      ELSE IF o.ioc THEN "cancelled" ELSE "open"
           e == [d EXCEPT !.state = st]
<1>1. o.filled \in Nat /\ o.qty \in Nat /\ o.ioc \in BOOLEAN /\ o.state \in OrderState
  BY DEF Order
<1>2. st \in OrderState
  BY DEF OrderState
<1>3. /\ st \in {"filled", "cancelled", "open"}
      /\ st = "filled" <=> o.filled + k = o.qty
      /\ st = "open" <=> ~o.ioc /\ o.filled + k # o.qty
  OBVIOUS
<1> HIDE DEF d, st
<1>4. d \in Order /\ d.qty = o.qty /\ d.filled = o.filled + k
  BY <1>1 DEF d, Order
<1> HIDE DEF e
<1>5. e \in Order /\ e.qty = o.qty /\ e.filled = o.filled + k /\ e.state = st
  BY <1>2, <1>4 DEF e, Order
<1>6. Traded(o, k) = e
  BY DEF Traded, e, d, st
<1>7. OrderSound(e)
  BY <1>1, <1>3, <1>5 DEF OrderSound
<1> QED
  BY <1>3, <1>5, <1>6, <1>7

\* An order that is closed by the venue or never arrived.
LEMMA ClosedFacts ==
  ASSUME NEW o \in Order, OrderSound(o), NEW s \in {"cancelled", "absent"},
         s = "absent" => o.filled = 0
  PROVE  LET c == [o EXCEPT !.state = s]
         IN  /\ c \in Order /\ c.qty = o.qty /\ c.filled = o.filled
             /\ c.state = s /\ OrderSound(c) /\ ~Working(c)
BY DEF Order, OrderSound, Working, OrderState

\* The venue's own moves keep the ledger, and what was read of the orders true.
LEMMA ArriveStep ==
  ASSUME LedgerTypes, LedgerSound, required \in Nat,
         NEW i \in DOMAIN orders, Arrive(i) \/ Fill(i) \/ Expire(i),
         UNCHANGED <<children, confirmed, buckets, required>>
  PROVE  /\ LedgerTypes' /\ LedgerSound' /\ OnlyAdds /\ Last' = Last
         /\ \A j \in 1 .. Last : \A s : AnswerSound(s, orders[j]) => AnswerSound(s, orders'[j])
<1>1. i \in 1 .. Last /\ orders[i] \in Order /\ OrderSound(orders[i])
  <2>1. i \in 1 .. Last
    BY LenProperties DEF LedgerTypes, Last
  <2> QED
    BY <2>1, LedgerElements DEF LedgerSound
<1>2. Working(orders[i]) /\ position \in Nat /\ orders[i].filled \in Nat /\ orders[i].qty \in Nat
  BY <1>1 DEF Arrive, Fill, Expire, Working, LedgerTypes, Order
<1>3. PICK o \in Order :
        /\ orders' = [orders EXCEPT ![i] = o]
        /\ position' = position + (o.filled - orders[i].filled)
        /\ o.qty = orders[i].qty /\ OrderSound(o) /\ orders[i].filled <= o.filled
  <2>1. CASE Arrive(i)
    <3>1. PICK k \in TakenOnArrival(orders[i].qty, orders[i].ioc) :
             /\ orders' = [orders EXCEPT ![i] = Traded(orders[i], k)]
             /\ position' = position + k
      BY <2>1 DEF Arrive
    <3>2. k \in Nat /\ orders[i].filled + k <= orders[i].qty
      BY <1>1, <1>2, <2>1 DEF TakenOnArrival, Arrive, OrderSound
    <3> DEFINE o == Traded(orders[i], k)
    <3>3. /\ o \in Order /\ o.qty = orders[i].qty /\ o.filled = orders[i].filled + k
          /\ OrderSound(o)
      BY <1>1, <3>2, TradedFacts
    <3>4. orders' = [orders EXCEPT ![i] = o]
      BY <3>1
    <3> HIDE DEF o
    <3>5. position' = position + (o.filled - orders[i].filled) /\ orders[i].filled <= o.filled
      BY <1>2, <3>1, <3>2, <3>3
    <3> QED
      BY <3>3, <3>4, <3>5
  <2>2. CASE Fill(i)
    <3>1. orders[i].filled + 1 <= orders[i].qty
      BY <1>1, <1>2, <2>2 DEF Fill, OrderSound
    <3> DEFINE o == Traded(orders[i], 1)
    <3>3. /\ o \in Order /\ o.qty = orders[i].qty /\ o.filled = orders[i].filled + 1
          /\ OrderSound(o)
      BY <1>1, <3>1, TradedFacts
    <3>4. orders' = [orders EXCEPT ![i] = o] /\ position' = position + 1
      BY <2>2 DEF Fill
    <3> HIDE DEF o
    <3>5. position' = position + (o.filled - orders[i].filled) /\ orders[i].filled <= o.filled
      BY <1>2, <3>1, <3>3, <3>4
    <3> QED
      BY <3>3, <3>4, <3>5
  <2>3. CASE Expire(i)
    <3> DEFINE o == [orders[i] EXCEPT !.state = "cancelled"]
    <3>3. /\ o \in Order /\ o.qty = orders[i].qty /\ o.filled = orders[i].filled
          /\ OrderSound(o)
      BY <1>1, ClosedFacts
    <3>4. orders' = [orders EXCEPT ![i] = o] /\ position' = position
      BY <2>3 DEF Expire
    <3> HIDE DEF o
    <3>5. position' = position + (o.filled - orders[i].filled) /\ orders[i].filled <= o.filled
      BY <1>2, <3>3, <3>4
    <3> QED
      BY <3>3, <3>4, <3>5
  <2> QED
    BY <2>1, <2>2, <2>3
<1>4. LedgerTypes' /\ LedgerSound' /\ OnlyAdds /\ Last' = Last
  BY <1>1, <1>2, <1>3, OrderMoves
<1>5. ASSUME NEW j \in 1 .. Last, NEW s, AnswerSound(s, orders[j])
      PROVE  AnswerSound(s, orders'[j])
  <2>1. CASE j = i
    BY <1>2, <1>5, <2>1 DEF AnswerSound
  <2>2. CASE j # i
    BY <1>3, <1>5, <2>2
  <2> QED
    BY <2>1, <2>2
<1> QED
  BY <1>4, <1>5

\* A new child brings its fills.
LEMMA CountedAppends ==
  ASSUME LedgerTypes, Counted, NEW c \in Child, NEW f \in Nat, c.filled = f,
         children' = Append(children, c), confirmed' = confirmed + f
  PROVE  Counted'
<1> DEFINE n    == Last
           j    == n + 1
           I    == 1 .. n
           J    == 1 .. j
           old  == [i \in I |-> children[i].filled]
           none == [i \in I |-> 0]
           from == [i \in J |-> 0]
           to   == [i \in J |-> children'[i].filled]
<1>1. /\ n \in Nat /\ DOMAIN children = I /\ DOMAIN children' = J
      /\ \A i \in J : children'[i] = IF i = j THEN c ELSE children[i]
  BY AppendProperties, LenProperties DEF LedgerTypes, Last
<1>2. J = I \cup {j} /\ j \notin I
  BY <1>1
<1>3. \A i \in I : children[i].filled \in Nat
  BY LedgerElements
<1>4. \A i \in J : from[i] = 0 /\ to[i] = IF i = j THEN f ELSE children[i].filled
  BY <1>1
<1>5. \A i \in I : none[i] = 0 /\ old[i] = children[i].filled
  OBVIOUS
<1>6. confirmed = LotsBetween(I, none, old)
  BY <1>1 DEF Counted
<1>7. Counted' <=> confirmed' = LotsBetween(J, from, to)
  BY <1>1 DEF Counted
<1>8. IsFiniteSet(I)
  <2>1. n \in Nat
    BY <1>1
  <2> HIDE DEF n
  <2>2. IsFiniteSet(1 .. n)
    BY ONLY <2>1, FS_Interval
  <2> QED
    BY <2>2
<1> HIDE DEF old, none, from, to, I, J, j
<1>9. \A i \in J : from[i] \in Int /\ to[i] \in Int
  BY <1>2, <1>3, <1>4
<1>10. \A i \in I : none[i] = from[i] /\ old[i] = to[i]
  BY <1>2, <1>4, <1>5
<1>11. from[j] = 0 /\ to[j] = f
  BY <1>2, <1>4
<1>12. LotsBetween(J, from, to) = LotsBetween(I, none, old) + (to[j] - from[j])
  BY <1>2, <1>8, <1>9, <1>10, <1>11, LotsExtend
<1> QED
  BY <1>6, <1>7, <1>11, <1>12

\* A new child may join when all the others are settled and it fits the target.
LEMMA AppendChild ==
  ASSUME LedgerTypes, LedgerSound, required \in Nat,
         \A i \in 1 .. Last : Settled(children[i], orders[i]),
         NEW c \in Child, NEW o \in Order,
         children' = Append(children, c), orders' = Append(orders, o),
         UNCHANGED required, buckets' \in Buckets,
         position' = position + o.filled, confirmed' = confirmed + o.filled,
         OrderSound(o), ChildMatchesOrder(c, o), c.filled = o.filled,
         confirmed + c.qty <= required,
         c.status \notin TerminalChild => Holds(buckets', c.qty - c.filled)
  PROVE  /\ LedgerTypes' /\ LedgerSound' /\ OnlyAdds /\ Last' = Last + 1
         /\ children'[Last + 1] = c /\ orders'[Last + 1] = o
<1>1. /\ children' \in Seq(Child) /\ Len(children') = Last + 1 /\ Last \in Nat
      /\ \A j \in 1 .. Last + 1 : children'[j] = IF j = Last + 1 THEN c ELSE children[j]
  BY AppendProperties, LenProperties DEF LedgerTypes, Last
<1>2. /\ orders' \in Seq(Order) /\ Len(orders') = Last + 1
      /\ \A j \in 1 .. Last + 1 : orders'[j] = IF j = Last + 1 THEN o ELSE orders[j]
  BY AppendProperties, LenProperties DEF LedgerTypes, Last
<1>3. c.qty \in Nat /\ c.filled \in Nat /\ o.filled \in Nat /\ o.qty \in Nat
      /\ confirmed \in Nat /\ position \in Nat
  BY DEF Child, Order, LedgerTypes
<1>4. LedgerTypes'
  BY <1>1, <1>2, <1>3 DEF LedgerTypes
<1>5. Last' = Last + 1
  BY <1>1 DEF Last
<1>6. \A j \in 1 .. Last : /\ OrderSound(orders[j]) /\ ChildMatchesOrder(children[j], orders[j])
                           /\ children[j].filled \in Nat /\ orders[j].filled = children[j].filled
  BY LedgerElements DEF LedgerSound, Settled
<1>7. position = confirmed
  <2>1. CASE Last = 0
    BY <2>1 DEF LedgerSound
  <2>2. CASE Last > 0
    <3>1. Last \in 1 .. Last
      BY <1>1, <2>2
    <3>2. position = confirmed + orders[Last].filled - children[Last].filled
      BY <2>2 DEF LedgerSound
    <3> QED
      BY <1>3, <1>6, <3>1, <3>2
  <2> QED
    BY <1>1, <2>1, <2>2
<1>8. \A j \in 1 .. Last + 1 :
        OrderSound(orders'[j]) /\ ChildMatchesOrder(children'[j], orders'[j])
  BY <1>1, <1>2, <1>6
<1>9. \A j \in 1 .. (Last + 1) - 1 : Settled(children'[j], orders'[j])
  BY <1>1, <1>2
<1>10. children'[Last + 1] = c /\ orders'[Last + 1] = o
  BY <1>1, <1>2
<1>11. position' = confirmed' + o.filled - c.filled
  BY <1>3, <1>7
<1>12. c.filled <= c.qty
  BY <1>3 DEF ChildMatchesOrder, OrderSound
<1>13. confirmed' + c.qty - c.filled <= required /\ confirmed' <= required
  <2>1. confirmed' = confirmed + c.filled
    OBVIOUS
  <2> QED
    BY <1>3, <1>12, <2>1
<1>14. LedgerSound'
  <2>1. \A j \in 1 .. Last' :
          OrderSound(orders'[j]) /\ ChildMatchesOrder(children'[j], orders'[j])
    BY <1>5, <1>8
  <2>2. \A j \in 1 .. Last' - 1 : Settled(children'[j], orders'[j])
    BY <1>5, <1>9
  <2>3. Last' # 0
    BY <1>1, <1>5
  <2>4. /\ position' = confirmed' + orders'[Last'].filled - children'[Last'].filled
        /\ children'[Last'].status \notin TerminalChild =>
             /\ Holds(buckets', children'[Last'].qty - children'[Last'].filled)
             /\ confirmed' + children'[Last'].qty - children'[Last'].filled <= required'
    BY <1>5, <1>10, <1>11, <1>13
  <2>5. Counted'
    <3>1. Counted /\ o.filled \in Nat
      BY <1>3 DEF LedgerSound
    <3> QED
      BY <3>1, CountedAppends
  <2> QED
    BY <1>13, <2>1, <2>2, <2>3, <2>4, <2>5 DEF LedgerSound
<1>15. OnlyAdds
  BY <1>1, <1>2, <1>6 DEF OnlyAdds
<1> QED
  BY <1>4, <1>5, <1>10, <1>14, <1>15

\* When nothing is reserved no child can trade any more: the reason why an
\* order may be sent.
LEMMA NothingReserved ==
  ASSUME LedgerTypes, LedgerSound, ~HasReserved
  PROVE  \A i \in 1 .. Last : Settled(children[i], orders[i])
<1> SUFFICES ASSUME NEW i \in 1 .. Last PROVE Settled(children[i], orders[i])
  OBVIOUS
<1>1. /\ children[i].qty \in Nat /\ children[i].filled \in Nat
      /\ orders[i].qty \in Nat /\ orders[i].filled \in Nat /\ Last \in Nat
      /\ orders[i].state \in OrderState
  BY LedgerElements
<1>2. OrderSound(orders[i]) /\ ChildMatchesOrder(children[i], orders[i])
  BY DEF LedgerSound
<1>3. CASE i # Last
  BY <1>1, <1>3 DEF LedgerSound
<1>4. CASE i = Last /\ children[i].status \in TerminalChild
  BY <1>2, <1>4 DEF ChildMatchesOrder
<1>5. CASE i = Last /\ children[i].status \notin TerminalChild
  <2>1. Reserved(buckets) >= children[i].qty - children[i].filled
    <3>1. Holds(buckets, children[i].qty - children[i].filled) /\ buckets \in Buckets
      BY <1>1, <1>5 DEF LedgerSound, LedgerTypes
    <3>2. children[i].qty - children[i].filled \in Nat
      BY <1>1, <1>2 DEF ChildMatchesOrder, OrderSound
    <3> QED
      BY <3>1, <3>2, HoldsFacts
  <2>2. Reserved(buckets) = 0
    BY ReservedType DEF LedgerTypes, HasReserved
  <2>3. children[i].filled = children[i].qty /\ orders[i].filled = children[i].filled
        /\ orders[i].filled = orders[i].qty
    BY <1>1, <1>2, <2>1, <2>2 DEF ChildMatchesOrder, OrderSound
  <2>4. ~Working(orders[i])
    BY <1>1, <1>2, <2>3 DEF OrderSound, Working
  <2> QED
    BY <2>3, <2>4 DEF Settled
<1> QED
  BY <1>3, <1>4, <1>5

\* Nor can any when the whole target is confirmed: the reasons why an execution
\* may end.
LEMMA EndedSettled ==
  LedgerTypes /\ LedgerSound /\ required \in Nat /\ (TargetFilled \/ ~HasReserved) =>
    \A i \in 1 .. Last : Settled(children[i], orders[i])
<1> HAVE LedgerTypes /\ LedgerSound /\ required \in Nat /\ (TargetFilled \/ ~HasReserved)
<1>1. CASE ~HasReserved
  BY <1>1, NothingReserved
<1>2. CASE TargetFilled
  <2> TAKE i \in 1 .. Last
  <2>1. /\ children[i].qty \in Nat /\ children[i].filled \in Nat
        /\ orders[i].qty \in Nat /\ orders[i].filled \in Nat /\ Last \in Nat
        /\ orders[i].state \in OrderState /\ confirmed \in Nat
    BY LedgerElements DEF LedgerTypes
  <2>2. OrderSound(orders[i]) /\ ChildMatchesOrder(children[i], orders[i])
    BY DEF LedgerSound
  <2>3. CASE i # Last
    BY <2>1, <2>3 DEF LedgerSound
  <2>4. CASE i = Last /\ children[i].status \in TerminalChild
    BY <2>2, <2>4 DEF ChildMatchesOrder
  <2>5. CASE i = Last /\ children[i].status \notin TerminalChild
    <3>1. confirmed + children[i].qty - children[i].filled <= required
      BY <2>1, <2>5 DEF LedgerSound
    <3>2. /\ children[i].filled = children[i].qty
          /\ orders[i].filled = children[i].filled /\ orders[i].filled = orders[i].qty
      BY <1>2, <2>1, <2>2, <3>1 DEF TargetFilled, ChildMatchesOrder, OrderSound
    <3>3. ~Working(orders[i])
      BY <2>1, <2>2, <3>2 DEF OrderSound, Working
    <3> QED
      BY <3>2, <3>3 DEF Settled
  <2> QED
    BY <2>3, <2>4, <2>5
<1> QED
  BY <1>1, <1>2

\* What may still trade on the venue is what the last order has left.
LEMMA ExposureOfLast ==
  LedgerTypes /\ LedgerSound =>
    /\ VenueExposure \in Nat
    /\ VenueExposure = IF Last > 0 /\ Working(orders[Last])
                       THEN orders[Last].qty - orders[Last].filled ELSE 0
<1> HAVE LedgerTypes /\ LedgerSound
<1> DEFINE W == {i \in DOMAIN orders : Working(orders[i])}
<1>1. Last \in Nat /\ DOMAIN orders = 1 .. Last
  BY LenProperties DEF LedgerTypes, Last
<1>2. /\ \A i \in W : i = Last
      /\ Last \in W <=> Last > 0 /\ Working(orders[Last])
      /\ \A i \in W : i \in 1 .. Last
  BY <1>1 DEF LedgerSound, Settled
<1>3. VenueExposure = Outstanding(orders, W)
  BY DEF VenueExposure
<1>4. \A i \in W : orders[i].qty \in Nat /\ orders[i].filled \in Nat
  BY <1>2, LedgerElements
<1> HIDE DEF W
<1>5. VenueExposure = IF Last \in W /\ orders[Last].filled < orders[Last].qty
                      THEN orders[Last].qty - orders[Last].filled ELSE 0
  BY <1>2, <1>3, <1>4, OutstandingOnly
<1>6. Last \in W => orders[Last].filled < orders[Last].qty
  BY <1>2 DEF LedgerSound, OrderSound, Working
<1> QED
  BY <1>2, <1>4, <1>5, <1>6

\* When every child is settled nothing may still trade, and every lot traded
\* is confirmed.
LEMMA SettledLedger ==
  LedgerTypes /\ LedgerSound /\ (\A i \in 1 .. Last : Settled(children[i], orders[i])) =>
    VenueExposure = 0 /\ position = confirmed
<1> HAVE LedgerTypes /\ LedgerSound /\ \A i \in 1 .. Last : Settled(children[i], orders[i])
<1>1. Last \in Nat /\ position \in Nat /\ confirmed \in Nat
  BY LenProperties DEF LedgerTypes, Last
<1>2. CASE Last = 0
  BY <1>1, <1>2, ExposureOfLast DEF LedgerSound
<1>3. CASE Last > 0
  <2>1. Last \in 1 .. Last
    BY <1>1, <1>3
  <2>2. ~Working(orders[Last]) /\ orders[Last].filled = children[Last].filled
    BY <2>1 DEF Settled
  <2>3. position = confirmed + orders[Last].filled - children[Last].filled
    BY <1>3 DEF LedgerSound
  <2> QED
    BY <1>1, <2>1, <2>2, <2>3, ExposureOfLast, LedgerElements
<1> QED
  BY <1>1, <1>2, <1>3

\* A ledger that is settled stays as it is while no child joins.
LEMMA SettledStays ==
  ASSUME LedgerTypes, LedgerSound, LedgerTypes', LedgerSound', OnlyAdds, Last' = Last,
         \A i \in 1 .. Last : Settled(children[i], orders[i])
  PROVE  /\ \A i \in 1 .. Last' : Settled(children'[i], orders'[i])
         /\ confirmed' = confirmed
<1>1. DOMAIN children = 1 .. Last /\ DOMAIN children' = 1 .. Last
  BY LenProperties DEF LedgerTypes, Last
<1>2. \A i \in 1 .. Last : /\ Settled(children'[i], orders'[i])
                           /\ children'[i].filled = children[i].filled
  BY DEF OnlyAdds
<1>3. [i \in DOMAIN children' |-> children'[i].filled]
        = [i \in DOMAIN children |-> children[i].filled]
  BY <1>1, <1>2
<1>4. confirmed' = confirmed
  BY <1>1, <1>3 DEF LedgerSound, Counted
<1> QED
  BY <1>2, <1>4

\* The TWAP schedule at slice n of S, less what is filled, fits the target.
LEMMA QuotientBound ==
  ASSUME NEW R \in Nat, NEW n \in Nat, NEW S \in Nat \ {0}, n <= S, NEW c \in Nat, c <= R
  PROVE  /\ SubtractFloorZero(R * n, c * S) \div S \in Nat
         /\ c + SubtractFloorZero(R * n, c * S) \div S <= R
<1> DEFINE d == SubtractFloorZero(R * n, c * S)
           q == d \div S
<1>1. R * n \in Nat /\ c * S \in Nat /\ R * S \in Nat /\ R * n <= R * S /\ c * S <= R * S
  OBVIOUS
<1>2. d \in Nat /\ d <= (R - c) * S
  BY <1>1 DEF SubtractFloorZero
<1> HIDE DEF d
<1>3. q \in Nat /\ S * q <= d
  BY <1>2
<1> HIDE DEF q
<1>4. S * q <= S * (R - c)
  BY <1>2, <1>3
<1>5. q <= R - c
  BY <1>3, <1>4
<1> QED
  BY <1>3, <1>5 DEF q, d

\* An order a lookup did not find never trades, so its child can be closed.
LEMMA LookupMissingStep ==
  ASSUME LedgerTypes, LedgerSound, required \in Nat, LookupSettles = TRUE,
         NEW i \in 1 .. Last, LookupMissing(i)
  PROVE  LedgerTypes' /\ LedgerSound' /\ OnlyAdds /\ Last' = Last
<1> DEFINE o == [orders[i] EXCEPT !.state = "absent"]
           r == [children[i] EXCEPT !.status = "REJECTED"]
           c == IF children[i].status = "UNKNOWN" THEN r ELSE children[i]
<1>1. /\ children[i] \in Child /\ orders[i] \in Order /\ Last \in Nat
      /\ children[i].filled \in Nat /\ children[i].qty \in Nat
      /\ orders[i].filled \in Nat /\ orders[i].state \in OrderState
  BY LedgerElements
<1>2. OrderSound(orders[i]) /\ ChildMatchesOrder(children[i], orders[i])
  BY DEF LedgerSound
<1>3. orders[i].filled = 0
  BY <1>1, <1>2 DEF LookupMissing, OnVenue, OrderSound, OrderState
<1>4. /\ o \in Order /\ o.qty = orders[i].qty /\ o.filled = orders[i].filled
      /\ OrderSound(o) /\ ~Working(o)
  BY <1>1, <1>2, <1>3, ClosedFacts
<1>5. r \in Child /\ r.qty = children[i].qty /\ r.filled = children[i].filled
      /\ r.status = "REJECTED"
  BY <1>1 DEF Child, ChildOrderStatus
<1> HIDE DEF r
<1>6. c \in Child /\ c.qty = children[i].qty /\ c.filled = children[i].filled
      /\ (c.status = children[i].status \/ c.status = "REJECTED")
  BY <1>1, <1>5
<1>7. /\ children' = [children EXCEPT ![i] = c]
      /\ orders' = [orders EXCEPT ![i] = o]
      /\ UNCHANGED <<position, required, confirmed, buckets>>
  <2>1. CASE children[i].status = "UNKNOWN"
    BY <2>1 DEF LookupMissing, r
  <2>2. CASE children[i].status # "UNKNOWN"
    BY <2>2 DEF LookupMissing, LedgerTypes
  <2> QED
    BY <2>1, <2>2
<1>8. c.status \notin TerminalChild => children[i].status \notin TerminalChild
  BY <1>5, <1>6 DEF TerminalChild
<1>9. c.filled = o.filled
  BY <1>1, <1>2, <1>3, <1>4, <1>6 DEF ChildMatchesOrder
<1> HIDE DEF c, o
<1>10. Settled(children[i], orders[i]) =>
         Settled(c, o) /\ c.filled = children[i].filled /\ o.filled = orders[i].filled
  BY <1>4, <1>6, <1>9 DEF Settled, TerminalChild
<1>11. ChildMatchesOrder(c, o)
  BY <1>1, <1>2, <1>4, <1>6, <1>9 DEF ChildMatchesOrder, Settled
<1>12. position' = position + (o.filled - orders[i].filled)
       /\ confirmed' = confirmed + (c.filled - children[i].filled)
       /\ buckets' \in Buckets
  BY <1>1, <1>4, <1>6, <1>7 DEF LedgerTypes
<1>13. \A j \in 1 .. Last : children'[j] = IF j = i THEN c ELSE children[j]
  BY <1>6, <1>7, ExceptSeq DEF LedgerTypes, Last
<1>14. children'[Last].status \notin TerminalChild =>
           Holds(buckets', children'[Last].qty - children'[Last].filled)
  BY <1>1, <1>6, <1>7, <1>8, <1>13 DEF LedgerSound
<1>15. orders[i].filled <= o.filled /\ children[i].filled <= c.filled
  BY <1>1, <1>4, <1>6
<1>16. UNCHANGED required
  BY <1>7
<1>17. children[i].status \in TerminalChild => c.status = children[i].status
  BY DEF c, TerminalChild
<1> QED
  BY <1>4, <1>6, <1>7, <1>10, <1>11, <1>12, <1>14, <1>15, <1>16, <1>17, OneChildMoves

\* New buckets will do if they still hold what the last child may trade.
LEMMA BucketsReplaced ==
  ASSUME LedgerTypes, LedgerSound,
         UNCHANGED <<orders, position, required, children, confirmed>>,
         buckets' \in Buckets,
         Last > 0 /\ children[Last].status \notin TerminalChild =>
           Holds(buckets', children[Last].qty - children[Last].filled)
  PROVE  LedgerTypes' /\ LedgerSound' /\ OnlyAdds /\ Last' = Last
<1>1. Last' = Last /\ Last \in Nat
  BY LenProperties DEF Last, LedgerTypes
<1>2. LedgerTypes'
  BY DEF LedgerTypes
<1>3. LedgerSound'
  BY <1>1 DEF LedgerSound, Counted
<1>4. OnlyAdds
  BY LedgerElements DEF OnlyAdds
<1> QED
  BY <1>1, <1>2, <1>3, <1>4

\* The end of an exact lookup.
LEMMA BucketsRebuilt ==
  ASSUME LedgerTypes, LedgerSound,
         UNCHANGED <<orders, position, required, children, confirmed>>,
         buckets' = BucketsOf(children)
  PROVE  LedgerTypes' /\ LedgerSound' /\ OnlyAdds /\ Last' = Last
<1>1. buckets' \in Buckets
  BY BucketsOfCover DEF LedgerTypes
<1>2. Last \in Nat
  BY LenProperties DEF Last, LedgerTypes
<1>3. Last > 0 /\ children[Last].status \notin TerminalChild =>
        Holds(buckets', children[Last].qty - children[Last].filled)
  BY <1>2, BucketsOfCover DEF LedgerTypes, Last
<1> QED
  BY <1>1, <1>3, BucketsReplaced

\* Only the last child can be open, so only it can be cancelled.
LEMMA CancellableLast ==
  ASSUME LedgerTypes, LedgerSound, NEW i \in 1 .. Last, Cancellable(i)
  PROVE  /\ i = Last /\ children[i].status \notin TerminalChild
         /\ ~Settled(children[i], orders[i])
<1>1. children[i].filled \in Nat /\ children[i].qty \in Nat /\ Last \in Nat
  BY LedgerElements
<1>2. children[i].status \notin TerminalChild /\ ~Settled(children[i], orders[i])
  BY <1>1 DEF Cancellable, LiveChild, TerminalChild, Settled
<1> QED
  BY <1>1, <1>2 DEF LedgerSound

\* A child marked for a cancel, when a bucket still holds what it may trade.
LEMMA MarkedStep ==
  ASSUME LedgerTypes, LedgerSound, required \in Nat,
         NEW i \in 1 .. Last, Cancellable(i),
         children' = [children EXCEPT ![i].status = "PENDING_CANCEL"],
         buckets' \in Buckets, Holds(buckets', Remaining(i)),
         UNCHANGED <<orders, position, required, confirmed>>
  PROVE  LedgerTypes' /\ LedgerSound' /\ OnlyAdds /\ Last' = Last
<1> DEFINE c == [children[i] EXCEPT !.status = "PENDING_CANCEL"]
           o == orders[i]
<1>1. /\ children[i] \in Child /\ o \in Order /\ Last \in Nat
      /\ children[i].filled \in Nat /\ children[i].qty \in Nat /\ o.filled \in Nat
  BY LedgerElements
<1>2. OrderSound(o) /\ ChildMatchesOrder(children[i], o)
  BY DEF LedgerSound
<1>3. /\ i = Last /\ children[i].status \notin TerminalChild
      /\ ~Settled(children[i], o)
  BY CancellableLast
<1>4. /\ c \in Child /\ c.qty = children[i].qty /\ c.filled = children[i].filled
      /\ c.status = "PENDING_CANCEL"
  BY <1>1 DEF Child, ChildOrderStatus
<1>5. children' = [children EXCEPT ![i] = c]
  OBVIOUS
<1> HIDE DEF c
<1>6. orders' = [orders EXCEPT ![i] = o]
  BY DEF LedgerTypes
<1>9. children'[Last] = c
  BY <1>1, <1>3, <1>4, <1>5, ExceptSeq DEF LedgerTypes, Last
<1>10. Holds(buckets', children'[Last].qty - children'[Last].filled)
  BY <1>3, <1>4, <1>9 DEF Remaining
<1>11. ChildMatchesOrder(c, o)
  BY <1>2, <1>4 DEF ChildMatchesOrder, TerminalChild
<1>12. /\ position' = position + (o.filled - orders[i].filled)
       /\ confirmed' = confirmed + (c.filled - children[i].filled)
  BY <1>1, <1>4 DEF LedgerTypes
<1>13. orders[i].filled <= o.filled /\ children[i].filled <= c.filled /\ o.qty = orders[i].qty
  BY <1>1, <1>4
<1>14. UNCHANGED required
  OBVIOUS
<1>15. Settled(children[i], orders[i]) =>
           Settled(c, o) /\ c.filled = children[i].filled /\ o.filled = orders[i].filled
  BY <1>3
<1> HIDE DEF o
<1> QED
  BY <1>1, <1>2, <1>3, <1>4, <1>5, <1>6, <1>10, <1>11, <1>12, <1>13, <1>14,
     <1>15, OneChildMoves

\* A request that was not answered.
LEMMA CancelRequestedStep ==
  ASSUME LedgerTypes, LedgerSound, required \in Nat,
         NEW i \in 1 .. Last, Cancellable(i), CancelRequested(i),
         UNCHANGED <<orders, position, required>>
  PROVE  LedgerTypes' /\ LedgerSound' /\ OnlyAdds /\ Last' = Last
<1>1. /\ i = Last /\ children[i].status \notin TerminalChild /\ Last \in Nat
      /\ children[i].filled \in Nat /\ children[i].qty \in Nat
  BY CancellableLast, LedgerElements
<1>2. Remaining(i) \in Nat /\ buckets \in Buckets
  BY <1>1 DEF Cancellable, Remaining, LedgerTypes
<1>3. buckets' \in Buckets
  BY <1>2, MarkPendingCancelKeeps DEF CancelRequested
<1>4. Holds(buckets, Remaining(i))
  BY <1>1 DEF LedgerSound, Remaining
<1>5. Holds(buckets', Remaining(i))
  BY <1>2, <1>4, HoldsFacts DEF CancelRequested
<1> QED
  BY <1>3, <1>5, MarkedStep DEF CancelRequested

\* A request that was refused: the buckets fit the target, so the remaining
\* quantity is live again, or was never taken from the bucket that holds it.
LEMMA CancelUndoneStep ==
  ASSUME LedgerTypes, LedgerSound, required \in Nat, ~OverTarget,
         NEW i \in 1 .. Last, Cancellable(i), CancelUndone(i),
         UNCHANGED <<orders, position, required>>
  PROVE  LedgerTypes' /\ LedgerSound' /\ OnlyAdds /\ Last' = Last
<1> DEFINE q == Remaining(i)
           f == Freed(i)
<1>1. /\ i = Last /\ children[i].status \notin TerminalChild /\ Last \in Nat
      /\ children[i].filled \in Nat /\ children[i].qty \in Nat
  BY CancellableLast, LedgerElements
<1>2. q \in Nat /\ buckets \in Buckets /\ confirmed \in Nat
      /\ q = children[Last].qty - children[Last].filled
  BY <1>1 DEF Cancellable, Remaining, LedgerTypes
<1>3. Holds(buckets, q)
  BY <1>1, <1>2 DEF LedgerSound
<1>4. /\ f.live = buckets.live - Smaller(q, buckets.live)
      /\ f.submit = buckets.submit /\ f.unknown = buckets.unknown
      /\ f.cancel = SubtractFloorZero(buckets.cancel + Smaller(q, buckets.live), q)
  BY <1>2, MarkedFields DEF Freed
<1>5. f \in Buckets
  BY <1>2, MarkPendingCancelKeeps, ReserveAdds DEF Freed
<1>6. CASE TakesBack(i)
  <2>1. buckets' = ReserveLiveOpen(f, q) /\ UNCHANGED <<children, confirmed>>
    BY <1>6 DEF CancelUndone
  <2> HIDE DEF q, f
  <2>2. buckets' \in Buckets /\ Holds(buckets', q)
    BY <1>2, <1>5, <2>1, ReserveAdds, HoldsFacts
  <2> QED
    BY <1>2, <2>1, <2>2, BucketsReplaced
<1>7. CASE ~TakesBack(i)
  <2>1. /\ buckets' = f /\ UNCHANGED confirmed
        /\ children' = [children EXCEPT ![i].status = "PENDING_CANCEL"]
    BY <1>7 DEF CancelUndone
  <2>2. confirmed + Reserved(f) + q > required
    BY <1>2, <1>5, <1>7, ReservedType DEF TakesBack
  <2>3. confirmed + Reserved(buckets) <= required
    BY <1>2, ReservedType DEF OverTarget
  <2>4. Holds(f, q)
    <3> HIDE DEF q, f
    <3>1. /\ buckets.live \in Nat /\ buckets.submit \in Nat
          /\ buckets.cancel \in Nat /\ buckets.unknown \in Nat
      BY <1>2 DEF Buckets
    <3> QED
      BY <1>2, <1>3, <1>4, <2>2, <2>3, <3>1
         DEF Holds, Reserved, Smaller, SubtractFloorZero
  <2> QED
    BY <1>5, <2>1, <2>4, MarkedStep
<1> QED
  BY <1>6, <1>7

\* The loop goes on after the answer to a cancel.
AnswerCounts(i) ==
  /\ buckets' = Answered(i, children'[Last])
  /\ confirmed' + Reserved(buckets') <= required
  /\ CancelCounted(i)

\* A bucket that holds what a child may trade holds it without what a cancel frees,
\* when what is reserved then does not fit any more.
LEMMA FreedHolds ==
  ASSUME NEW i \in DOMAIN children, buckets \in Buckets, confirmed \in Nat, required \in Nat,
         Remaining(i) \in Nat, Holds(buckets, Remaining(i)), ~OverTarget,
         confirmed + Reserved(Freed(i)) + Remaining(i) > required
  PROVE  Freed(i) \in Buckets /\ Holds(Freed(i), Remaining(i))
<1> DEFINE q == Remaining(i)
           f == Freed(i)
<1>1. /\ f.live = buckets.live - Smaller(q, buckets.live)
      /\ f.submit = buckets.submit /\ f.unknown = buckets.unknown
      /\ f.cancel = SubtractFloorZero(buckets.cancel + Smaller(q, buckets.live), q)
  BY MarkedFields DEF Freed
<1>2. f \in Buckets
  BY MarkPendingCancelKeeps, ReserveAdds DEF Freed
<1>3. confirmed + Reserved(f) + q > required /\ q \in Nat /\ Holds(buckets, q)
  OBVIOUS
<1>4. confirmed + Reserved(buckets) <= required
  BY ReservedType DEF OverTarget
<1> HIDE DEF q, f
<1>5. /\ buckets.live \in Nat /\ buckets.submit \in Nat
      /\ buckets.cancel \in Nat /\ buckets.unknown \in Nat
  BY DEF Buckets
<1>6. Holds(f, q)
  BY <1>1, <1>3, <1>4, <1>5 DEF Holds, Reserved, Smaller, SubtractFloorZero
<1> QED
  BY <1>2, <1>6 DEF q, f

\* A request that was answered with the order, cancelled or not.
LEMMA CancelAnsweredStep ==
  ASSUME LedgerTypes, LedgerSound, required \in Nat, ~OverTarget,
         NEW i \in 1 .. Last, Cancellable(i), NEW o \in Order,
         orders' = [orders EXCEPT ![i] = o], OnVenue(o), OrderSound(o),
         o.qty = orders[i].qty, o.filled = orders[i].filled,
         CancelAnswered(i), UNCHANGED <<position, required>>
  PROVE  /\ LedgerTypes' /\ LedgerSound' /\ OnlyAdds /\ Last' = Last
         /\ children'[Last].status \in TerminalChild \cup LiveChild
         /\ AnswerCounts(i) \/ (buckets' = Freed(i) /\ Goto("idle"))
<1> DEFINE p == [children[i] EXCEPT !.status = "PENDING_CANCEL"]
           c == Seen(p, Sighting(o))
           freed == Freed(i)
<1>1. /\ children[i] \in Child /\ orders[i] \in Order /\ Last \in Nat
      /\ children[i].filled \in Nat /\ children[i].qty \in Nat /\ o.filled \in Nat
      /\ o.qty \in Nat
  BY LedgerElements DEF Order
<1>2. ChildMatchesOrder(children[i], orders[i])
  BY DEF LedgerSound
<1>3. /\ i = Last /\ ~Settled(children[i], orders[i])
      /\ children[i].status \notin TerminalChild
  BY CancellableLast
<1>4. /\ p \in Child /\ p.qty = children[i].qty /\ p.filled = children[i].filled
      /\ p.status = "PENDING_CANCEL"
  BY <1>1 DEF Child, ChildOrderStatus
<1> HIDE DEF p
<1>5. ChildMatchesOrder(p, o)
  BY <1>2, <1>4 DEF ChildMatchesOrder, TerminalChild
<1>6. Reports(Sighting(o), o)
  BY SightingReports
<1>7. /\ c \in Child /\ c.qty = p.qty /\ p.filled <= c.filled /\ c.filled <= o.filled
      /\ c.status = SetChildStatus("PENDING_CANCEL", Sighting(o).status)
      /\ ChildMatchesOrder(c, o)
  BY <1>4, <1>5, <1>6, SeenFacts, SeenKept DEF ChildMatchesOrder
<1>8. orders'[i] = o
  BY ExceptSeq DEF LedgerTypes, Last
<1>9. /\ children' = [children EXCEPT ![i] = c]
      /\ confirmed' = confirmed + (c.filled - children[i].filled)
      /\ IF confirmed' + Reserved(Answered(i, c)) <= required
         THEN buckets' = Answered(i, c) /\ CancelCounted(i)
         ELSE buckets' = Freed(i) /\ Goto("idle")
  <2> DEFINE e == Seen(p, Sighting(orders'[i]))
  <2>1. /\ children' = [children EXCEPT ![i] = e]
        /\ confirmed' = confirmed + (e.filled - children[i].filled)
        /\ IF confirmed' + Reserved(Answered(i, e)) <= required
           THEN buckets' = Answered(i, e) /\ CancelCounted(i)
           ELSE buckets' = Freed(i) /\ Goto("idle")
    BY DEF CancelAnswered, p
  <2>2. e = c
    BY <1>8
  <2> HIDE DEF c, e
  <2> QED
    BY <2>1, <2>2
<1>10. c.status \in TerminalChild \cup LiveChild
  <2>1. Sighting(o).status \in {"OPEN", "PARTIALLY_FILLED", "CANCELLED", "FILLED"}
    BY <1>6 DEF Reports
  <2>2. ASSUME NEW x \in {"OPEN", "PARTIALLY_FILLED", "CANCELLED", "FILLED"}
        PROVE  SetChildStatus("PENDING_CANCEL", x) = x
    <3>1. ChildTransitions["PENDING_CANCEL"] = {"OPEN", "PARTIALLY_FILLED", "CANCELLED", "FILLED"}
      BY DEF ChildTransitions, ChildOrderStatus
    <3> QED
      BY <3>1 DEF SetChildStatus
  <2> HIDE DEF c
  <2>3. c.status \in {"OPEN", "PARTIALLY_FILLED", "CANCELLED", "FILLED"}
    BY <1>7, <2>1, <2>2
  <2> QED
    BY <2>3 DEF TerminalChild, LiveChild
<1>11. Remaining(i) \in Nat
  BY <1>1 DEF Cancellable, Remaining
<1> HIDE DEF c
<1>12. freed \in Buckets
  BY <1>11, MarkPendingCancelKeeps, ReserveAdds DEF LedgerTypes, Freed
<1> HIDE DEF freed
<1>13. c.qty - c.filled \in Nat /\ c.qty \in Nat /\ c.filled \in Nat
  BY <1>1, <1>4, <1>7 DEF OrderSound, ChildMatchesOrder, Child
<1>14. /\ Answered(i, c) \in Buckets
       /\ c.status \in LiveChild => Holds(Answered(i, c), c.qty - c.filled)
       /\ c.status \in LiveChild =>
            Reserved(Answered(i, c)) = Reserved(freed) + (c.qty - c.filled)
  BY <1>12, <1>13, ReserveAdds, HoldsFacts DEF Answered, freed
<1>15. buckets' \in Buckets /\ (c.status \in LiveChild => Holds(buckets', c.qty - c.filled))
  <2>1. CASE buckets' = Answered(i, c)
    BY <1>14, <2>1
  <2>2. CASE buckets' = freed /\ confirmed' + Reserved(Answered(i, c)) > required
    <3>1. ASSUME c.status \in LiveChild PROVE Holds(freed, c.qty - c.filled)
      <4>1. /\ confirmed \in Nat /\ buckets \in Buckets /\ Reserved(freed) \in Nat
            /\ children[i].filled <= c.filled /\ c.qty = children[i].qty
        BY <1>4, <1>7, <1>12, ReservedType DEF LedgerTypes
      <4>2. Remaining(i) = children[i].qty - children[i].filled
        BY DEF Remaining
      <4>3. confirmed + Reserved(freed) + Remaining(i) > required
        BY <1>1, <1>9, <1>13, <1>14, <2>2, <3>1, <4>1, <4>2
      <4>4. Holds(buckets, Remaining(i))
        BY <1>3, <4>2 DEF LedgerSound
      <4>5. Holds(freed, Remaining(i))
        BY <1>11, <4>1, <4>3, <4>4, FreedHolds DEF freed, Last, LedgerTypes, Cancellable
      <4> QED
        BY <1>1, <1>12, <1>13, <4>1, <4>2, <4>5 DEF Holds, Buckets
    <3> QED
      BY <1>12, <2>2, <3>1
  <2>3. confirmed' \in Nat /\ Reserved(Answered(i, c)) \in Nat /\ required \in Nat
    <3>1. confirmed \in Nat /\ children[i].filled <= c.filled
      BY <1>4, <1>7 DEF LedgerTypes
    <3> QED
      BY <1>1, <1>9, <1>13, <1>14, <3>1, ReservedType
  <2> QED
    BY <1>9, <2>1, <2>2, <2>3 DEF freed
<1>16. children'[Last] = c
  BY <1>1, <1>3, <1>7, <1>9, ExceptSeq DEF LedgerTypes, Last
<1>22. /\ children'[Last].status \in TerminalChild \cup LiveChild
       /\ AnswerCounts(i) \/ (buckets' = Freed(i) /\ Goto("idle"))
  BY <1>9, <1>10, <1>16 DEF AnswerCounts
<1>17. children'[Last].status \notin TerminalChild =>
           Holds(buckets', children'[Last].qty - children'[Last].filled)
  BY <1>10, <1>15, <1>16
<1>18. position' = position + (o.filled - orders[i].filled)
  BY <1>1 DEF LedgerTypes
<1>19. c.qty = children[i].qty /\ children[i].filled <= c.filled /\ orders[i].filled <= o.filled
  BY <1>1, <1>4, <1>7
<1>20. Settled(children[i], orders[i]) =>
           Settled(c, o) /\ c.filled = children[i].filled /\ o.filled = orders[i].filled
  BY <1>3
<1>21. UNCHANGED required
  OBVIOUS
<1> QED
  BY <1>3, <1>7, <1>9, <1>15, <1>17, <1>18, <1>19, <1>20, <1>21, <1>22, OneChildMoves

\* Buckets that are those of the children stay so, whatever a cancel meets.
LEMMA CancelExact ==
  ASSUME LedgerTypes, LedgerSound, required \in Nat,
         NEW i \in 1 .. Last, Cancellable(i), buckets = BucketsOf(children)
  PROVE  /\ ~OverTarget
         /\ Freed(i) = NoExposure /\ TakesBack(i)
         /\ ReserveLiveOpen(Freed(i), Remaining(i)) = buckets
         /\ MarkPendingCancel(buckets, Remaining(i))
              = [NoExposure EXCEPT !.cancel = Remaining(i)]
<1> DEFINE q == Remaining(i)
           f == Freed(i)
           m == MarkPendingCancel(buckets, q)
<1>1. /\ i = Last /\ Last \in Nat /\ Last > 0 /\ Last = Len(children)
      /\ children[i].filled \in Nat /\ children[i].qty \in Nat
      /\ children[i].status \in LiveChild
  BY CancellableLast, LedgerElements DEF Cancellable, Last
<1>2. q \in Nat /\ confirmed \in Nat /\ q = children[Last].qty - children[Last].filled
  BY <1>1 DEF Cancellable, Remaining, LedgerTypes
<1>3. /\ OpenIn(children, LiveChild) = q
      /\ OpenIn(children, {"PENDING_SUBMIT"}) = 0
      /\ OpenIn(children, {"PENDING_CANCEL"}) = 0
      /\ OpenIn(children, {"UNKNOWN"}) = 0
  BY <1>1, <1>2 DEF OpenIn, LiveChild
<1>4. /\ buckets = [live |-> q, submit |-> 0, cancel |-> 0, unknown |-> 0]
      /\ confirmed + Reserved(buckets) <= required
  BY <1>3, RebuiltFits
<1> HIDE DEF q
<1>5. /\ m \in Buckets /\ f \in Buckets
      /\ m.live = 0 /\ m.submit = 0 /\ m.cancel = q /\ m.unknown = 0
      /\ f.live = 0 /\ f.submit = 0 /\ f.cancel = 0 /\ f.unknown = 0
  <2>1. buckets \in Buckets
    BY DEF LedgerTypes
  <2>2. m \in Buckets /\ f \in Buckets
    BY <1>2, <2>1, MarkPendingCancelKeeps, ReserveAdds DEF Freed, q
  <2>3. /\ m.live = buckets.live - Smaller(q, buckets.live)
        /\ m.cancel = buckets.cancel + Smaller(q, buckets.live)
        /\ m.submit = buckets.submit /\ m.unknown = buckets.unknown
        /\ f.live = m.live /\ f.submit = buckets.submit /\ f.unknown = buckets.unknown
        /\ f.cancel = SubtractFloorZero(m.cancel, q)
    BY <1>2, <2>1, MarkedFields DEF Freed, q
  <2>4. buckets.live = q /\ buckets.submit = 0 /\ buckets.cancel = 0 /\ buckets.unknown = 0
    BY <1>4
  <2> HIDE DEF m, f
  <2> QED
    BY <1>2, <2>2, <2>3, <2>4 DEF Smaller, SubtractFloorZero
<1> HIDE DEF m, f
<1>6. f = NoExposure /\ m = [NoExposure EXCEPT !.cancel = q]
  BY <1>2, <1>5 DEF Buckets, NoExposure
<1>7. ReserveLiveOpen(f, q) = buckets
  BY <1>2, <1>4, <1>6 DEF ReserveLiveOpen, NoExposure
<1>8. Reserved(buckets) = q /\ Reserved(f) = 0
  BY <1>2, <1>4, <1>6 DEF Reserved, NoExposure
<1>9. confirmed + Reserved(f) + q <= required /\ ~OverTarget
  BY <1>2, <1>4, <1>8 DEF OverTarget
<1> QED
  BY <1>6, <1>7, <1>9 DEF TakesBack, q, f, m

LEMMA CancelRequestedExact ==
  ASSUME LedgerTypes, LedgerSound, required \in Nat,
         NEW i \in 1 .. Last, Cancellable(i), buckets = BucketsOf(children),
         CancelRequested(i), UNCHANGED <<orders, position, required>>
  PROVE  buckets' = BucketsOf(children')
<1>1. LedgerTypes' /\ LedgerSound' /\ Last' = Last /\ (required \in Nat)'
  BY CancelRequestedStep
<1>2. (BucketsOf(children) = [live    |-> OpenIn(children, LiveChild),
                              submit  |-> OpenIn(children, {"PENDING_SUBMIT"}),
                              cancel  |-> OpenIn(children, {"PENDING_CANCEL"}),
                              unknown |-> OpenIn(children, {"UNKNOWN"})])'
  BY <1>1, RebuiltFits, PTL
<1>3. i = Last /\ Last > 0 /\ Last' = Len(children') /\ children[i] \in Child
  BY CancellableLast, LedgerElements DEF Last
<1>4. /\ children'[Last].status = "PENDING_CANCEL"
      /\ children'[Last].qty - children'[Last].filled = Remaining(i)
  BY <1>3 DEF CancelRequested, LedgerTypes, Last, Child, Remaining
<1>5. buckets' = [NoExposure EXCEPT !.cancel = Remaining(i)]
  BY CancelExact DEF CancelRequested
<1>6. /\ OpenIn(children', LiveChild) = 0
      /\ OpenIn(children', {"PENDING_SUBMIT"}) = 0
      /\ OpenIn(children', {"PENDING_CANCEL"}) = Remaining(i)
      /\ OpenIn(children', {"UNKNOWN"}) = 0
  BY <1>1, <1>3, <1>4 DEF OpenIn, LiveChild
<1> QED
  BY <1>2, <1>5, <1>6 DEF NoExposure

LEMMA CancelAnsweredExact ==
  ASSUME LedgerTypes, LedgerSound, required \in Nat,
         NEW i \in 1 .. Last, Cancellable(i), buckets = BucketsOf(children),
         NEW o \in Order,
         orders' = [orders EXCEPT ![i] = o], OnVenue(o), OrderSound(o),
         o.qty = orders[i].qty, o.filled = orders[i].filled,
         CancelAnswered(i), AnswerCounts(i), UNCHANGED <<position, required>>
  PROVE  buckets' = BucketsOf(children')
<1> DEFINE c == children'[Last]
           q == c.qty - c.filled
<1>1. /\ LedgerTypes' /\ LedgerSound' /\ Last' = Last /\ (required \in Nat)'
      /\ c.status \in TerminalChild \cup LiveChild
      /\ buckets' = IF c.status \in LiveChild THEN ReserveLiveOpen(Freed(i), q)
                    ELSE Freed(i)
  BY CancelAnsweredStep, CancelExact DEF AnswerCounts, Answered
<1>2. (BucketsOf(children) = [live    |-> OpenIn(children, LiveChild),
                              submit  |-> OpenIn(children, {"PENDING_SUBMIT"}),
                              cancel  |-> OpenIn(children, {"PENDING_CANCEL"}),
                              unknown |-> OpenIn(children, {"UNKNOWN"})])'
  BY <1>1, RebuiltFits, PTL
<1>3. Last > 0 /\ Last \in Nat /\ Last' = Len(children')
  BY LedgerElements DEF Last
<1>4. /\ OpenIn(children', LiveChild) = IF c.status \in LiveChild THEN q ELSE 0
      /\ OpenIn(children', {"PENDING_SUBMIT"}) = 0
      /\ OpenIn(children', {"PENDING_CANCEL"}) = 0
      /\ OpenIn(children', {"UNKNOWN"}) = 0
  BY <1>1, <1>3 DEF OpenIn, LiveChild, TerminalChild
<1>5. q \in Nat
  <2>1. c \in Child
    BY <1>1, <1>3, ElementOfSeq DEF LedgerTypes
  <2>2. c.filled <= c.qty
    <3>1. Last \in 1 .. Last'
      BY <1>1, <1>3
    <3>2. orders'[Last] \in Order
      BY <1>1, <1>3, ElementOfSeq DEF LedgerTypes
    <3> QED
      BY <1>1, <2>1, <3>1, <3>2 DEF LedgerSound, ChildMatchesOrder, OrderSound, Order, Child
  <2> QED
    BY <2>1, <2>2 DEF Child
<1>6. Freed(i) = NoExposure
  BY CancelExact
<1> HIDE DEF c, q
<1>7. ReserveLiveOpen(NoExposure, q) = [live |-> q, submit |-> 0, cancel |-> 0, unknown |-> 0]
  BY <1>5 DEF ReserveLiveOpen, NoExposure
<1> QED
  BY <1>1, <1>2, <1>4, <1>6, <1>7 DEF NoExposure

\* A refused request leaves the child and the buckets as they were.
LEMMA CancelUndoneExact ==
  ASSUME LedgerTypes, LedgerSound, required \in Nat,
         NEW i \in 1 .. Last, Cancellable(i), buckets = BucketsOf(children),
         CancelUndone(i)
  PROVE  TakesBack(i) /\ UNCHANGED <<buckets, children>>
BY CancelExact DEF CancelUndone

\* A child after the trades were applied to an answer that may be old.
LEMMA ReconciledKept ==
  ASSUME LedgerTypes, LedgerSound, NEW i \in 1 .. Last,
         answer[i] \in Reading, AnswerSound(answer[i], orders[i])
  PROVE  /\ Reconciled(i) \in Child /\ Reconciled(i).qty = children[i].qty
         /\ ChildMatchesOrder(Reconciled(i), orders[i])
         /\ children[i].filled <= Reconciled(i).filled
         /\ Settled(children[i], orders[i]) =>
              /\ Settled(Reconciled(i), orders[i])
              /\ Reconciled(i).filled = children[i].filled
         /\ Reconciled(i).status \notin TerminalChild =>
              children[i].status \notin TerminalChild
         /\ children[i].status \in TerminalChild =>
              Reconciled(i).status = children[i].status
<1> DEFINE c == children[i]
           o == orders[i]
           s == answer[i]
           r == Reconciled(i)
<1>1. /\ c \in Child /\ o \in Order
      /\ c.filled \in Nat /\ c.qty \in Nat /\ o.filled \in Nat
  BY LedgerElements
<1>2. OrderSound(o) /\ ChildMatchesOrder(c, o) /\ c.filled <= o.filled
  BY DEF LedgerSound, ChildMatchesOrder
<1>3. CASE s = Omitted
  <2>1. r = c
    BY <1>3 DEF Reconciled, Missing, Omitted
  <2>2. c.filled <= c.filled
    BY <1>1
  <2> HIDE DEF r, c, o
  <2>3. r \in Child /\ r.qty = c.qty /\ c.filled <= r.filled
    BY <1>1, <2>1, <2>2
  <2>4. ChildMatchesOrder(r, o) /\ (Settled(c, o) => Settled(r, o) /\ r.filled = c.filled)
    BY <1>2, <2>1
  <2>5. r.status = c.status
    BY <2>1
  <2> QED
    BY <2>3, <2>4, <2>5 DEF r, c, o
<1>4. CASE s = Missing
  <2> DEFINE d == [c EXCEPT !.filled = Larger(@, o.filled)]
  <2>1. r = d
    BY <1>4 DEF Reconciled, Missing, Omitted
  <2>2. Larger(c.filled, o.filled) = o.filled
    BY <1>1, <1>2 DEF Larger
  <2>3. d \in Child /\ d.qty = c.qty /\ d.filled = o.filled /\ d.status = c.status
    BY <1>1, <2>2 DEF Child
  <2> HIDE DEF d, r
  <2>4. Settled(c, o) => Settled(d, o) /\ d.filled = c.filled
    BY <2>3 DEF Settled
  <2>5. ChildMatchesOrder(d, o)
    BY <1>1, <1>2, <2>3, <2>4 DEF ChildMatchesOrder
  <2> QED
    BY <1>2, <2>1, <2>3, <2>4, <2>5 DEF r
<1>5. CASE s \notin {Missing, Omitted}
  <2> DEFINE t == [s EXCEPT !.filled = o.filled]
  <2>1. r = Seen(c, t)
    BY <1>5 DEF Reconciled
  <2>2. t.filled = o.filled /\ t.status = s.status
    BY <1>1 DEF Reading
  <2> HIDE DEF t, r
  <2>3. Reports(t, o)
    BY <1>1, <1>5, <2>2 DEF AnswerSound, Reports
  <2>4. /\ Seen(c, t) \in Child /\ Seen(c, t).qty = c.qty
        /\ c.filled <= Seen(c, t).filled
        /\ Seen(c, t).status = SetChildStatus(c.status, t.status)
    BY <1>1, <1>2, <2>3, SeenFacts
  <2>5. /\ ChildMatchesOrder(Seen(c, t), o)
        /\ Settled(c, o) => Settled(Seen(c, t), o) /\ Seen(c, t).filled = c.filled
        /\ Seen(c, t).status \notin TerminalChild => c.status \notin TerminalChild
    BY <1>1, <1>2, <2>3, SeenKept
  <2>6. c.status \in TerminalChild => Seen(c, t).status = c.status
    BY <1>1, <2>4, SetChildStatusType DEF Child
  <2> QED
    BY <2>1, <2>4, <2>5, <2>6 DEF r
<1> QED
  BY <1>3, <1>4, <1>5

\* A broad reconciliation keeps the ledger: each lot is added once.
LEMMA ReadTradesStep ==
  ASSUME LedgerTypes, LedgerSound, required \in Nat, ReadingSound,
         answer \in Seq(Reading), ReadTrades
  PROVE  LedgerTypes' /\ LedgerSound' /\ OnlyAdds /\ Last' = Last
<1> DEFINE from == [i \in DOMAIN children |-> children[i].filled]
           to   == [i \in DOMAIN children |-> Reconciled(i).filled]
<1>1. Last \in Nat /\ DOMAIN children = 1 .. Last
  BY LenProperties DEF LedgerTypes, Last
<1>2. Len(answer) = Last /\ \A i \in 1 .. Last : AnswerSound(answer[i], orders[i])
  BY DEF ReadTrades, ReadingSound
<1>3. \A i \in 1 .. Last : answer[i] \in Reading
  BY <1>2, ElementOfSeq
<1>4. \A i \in 1 .. Last :
         /\ Reconciled(i) \in Child /\ Reconciled(i).qty = children[i].qty
         /\ ChildMatchesOrder(Reconciled(i), orders[i])
         /\ children[i].filled <= Reconciled(i).filled
         /\ Settled(children[i], orders[i]) =>
              /\ Settled(Reconciled(i), orders[i])
              /\ Reconciled(i).filled = children[i].filled
         /\ Reconciled(i).status \notin TerminalChild =>
              children[i].status \notin TerminalChild
         /\ children[i].status \in TerminalChild =>
              Reconciled(i).status = children[i].status
  BY <1>2, <1>3, ReconciledKept
<1>5. /\ children' = [i \in 1 .. Last |-> Reconciled(i)]
      /\ confirmed' = confirmed + LotsBetween(DOMAIN children, from, to)
      /\ UNCHANGED <<orders, position, required, buckets>>
  BY <1>1 DEF ReadTrades, venueVars, parentVars
<1>6. children' \in Seq(Child) /\ Len(children') = Last
      /\ \A i \in 1 .. Last : children'[i] = Reconciled(i)
  <2>1. children' \in Seq(Child)
    BY <1>1, <1>4, <1>5, SeqDef
  <2>2. Len(children') = Last
    BY <1>1, <1>5, <2>1, LenProperties
  <2> QED
    BY <1>5, <2>1, <2>2
<1>7. Last' = Last
  BY <1>6 DEF Last
<1>8. \A i \in 1 .. Last : /\ from[i] = children[i].filled /\ to[i] = Reconciled(i).filled
                           /\ from[i] \in Nat /\ to[i] \in Nat
  BY <1>1, <1>4, LedgerElements DEF Child
<1> HIDE DEF from, to
<1>9. \A i \in 1 .. Last - 1 : Settled(children[i], orders[i])
  BY DEF LedgerSound
<1>10. /\ confirmed' \in Nat
       /\ Last > 0 => confirmed' = confirmed + (Reconciled(Last).filled - children[Last].filled)
       /\ Last = 0 => confirmed' = confirmed
  <2>1. CASE Last = 0
    <3>1. LotsBetween(DOMAIN children, from, to) = 0
      BY <1>1, <2>1, LotsNone
    <3> QED
      BY <1>5, <2>1, <3>1 DEF LedgerTypes
  <2>2. CASE Last > 0
    <3>1. Last \in 1 .. Last
      BY <1>1, <2>2
    <3>2. \A i \in (1 .. Last) \ {Last} : to[i] <= from[i]
      BY <1>1, <1>4, <1>8, <1>9
    <3>3. \A i \in 1 .. Last : from[i] \in Int /\ to[i] \in Int
      BY <1>8
    <3>4. LotsBetween(DOMAIN children, from, to)
            = IF from[Last] < to[Last] THEN to[Last] - from[Last] ELSE 0
      BY <1>1, <3>1, <3>2, <3>3, LotsOnly
    <3>5. from[Last] <= to[Last]
      BY <1>4, <1>8, <3>1
    <3>6. confirmed' = confirmed + LotsBetween(DOMAIN children, from, to) /\ confirmed \in Nat
      BY <1>5 DEF LedgerTypes
    <3>7. /\ from[Last] = children[Last].filled /\ from[Last] \in Nat
          /\ to[Last] = Reconciled(Last).filled /\ to[Last] \in Nat
      BY <1>8, <3>1
    <3> HIDE DEF Last
    <3> QED
      BY <2>2, <3>4, <3>5, <3>6, <3>7
  <2> QED
    BY <1>1, <2>1, <2>2
<1>11. LedgerTypes'
  BY <1>5, <1>6, <1>10 DEF LedgerTypes, Last
<1>12. \A i \in 1 .. Last' :
          OrderSound(orders'[i]) /\ ChildMatchesOrder(children'[i], orders'[i])
  BY <1>4, <1>5, <1>6, <1>7 DEF LedgerSound
<1>13. \A i \in 1 .. Last' - 1 : Settled(children'[i], orders'[i])
  BY <1>1, <1>4, <1>5, <1>6, <1>7, <1>9
<1>14. Last' = 0 => position' = 0 /\ confirmed' = 0
  BY <1>5, <1>7, <1>10 DEF LedgerSound
<1>15. ASSUME Last > 0
       PROVE  /\ position' = confirmed' + orders'[Last].filled - children'[Last].filled
              /\ confirmed' <= required
              /\ children'[Last].status \notin TerminalChild =>
                   /\ Holds(buckets', children'[Last].qty - children'[Last].filled)
                   /\ confirmed' + children'[Last].qty - children'[Last].filled <= required
  <2> DEFINE r == children'[Last]
             c == children[Last]
             o == orders[Last]
  <2>1. Last \in 1 .. Last
    BY <1>1, <1>15
  <2>2. /\ r.filled \in Nat /\ c.filled \in Nat /\ o.filled \in Nat
        /\ r.qty = c.qty /\ c.qty \in Nat /\ c.filled <= r.filled
    BY <1>4, <1>6, <2>1, LedgerElements DEF Child
  <2>3. /\ Settled(c, o) => Settled(r, o) /\ r.filled = c.filled
        /\ r.status \notin TerminalChild => c.status \notin TerminalChild
        /\ ChildMatchesOrder(r, o) /\ OrderSound(o) /\ ChildMatchesOrder(c, o)
    BY <1>4, <1>6, <2>1 DEF LedgerSound
  <2>4. confirmed' = confirmed + (r.filled - c.filled)
    BY <1>6, <1>10, <1>15, <2>1
  <2>5. /\ position = confirmed + o.filled - c.filled
        /\ confirmed <= required
        /\ c.status \notin TerminalChild =>
             /\ Holds(buckets, c.qty - c.filled)
             /\ confirmed + c.qty - c.filled <= required
    BY <1>15 DEF LedgerSound
  <2>6. position \in Nat /\ confirmed \in Nat /\ buckets \in Buckets
    BY DEF LedgerTypes
  <2>7. o.qty = c.qty /\ r.filled <= o.filled /\ o.filled <= o.qty
    BY <2>3 DEF ChildMatchesOrder, OrderSound
  <2>8. /\ c.status \in TerminalChild => r.filled = c.filled
        /\ r.status \notin TerminalChild => c.status \notin TerminalChild
    BY <2>3 DEF ChildMatchesOrder
  <2>9. orders'[Last] = o /\ position' = position /\ buckets' = buckets
    BY <1>5
  <2> HIDE DEF r, c, o
  <2>10. position' = confirmed' + o.filled - r.filled
    BY <2>2, <2>4, <2>5, <2>6, <2>9
  <2>11. confirmed' <= required
    <3>1. CASE c.status \in TerminalChild
      BY <2>2, <2>4, <2>5, <2>6, <2>8, <3>1
    <3>2. CASE c.status \notin TerminalChild
      <4>1. confirmed + c.qty - c.filled <= required /\ r.filled <= c.qty
        BY <2>2, <2>5, <2>7, <3>2 DEF o
      <4> QED
        BY <2>2, <2>4, <2>6, <4>1
    <3> QED
      BY <3>1, <3>2
  <2>12. ASSUME r.status \notin TerminalChild
         PROVE  /\ Holds(buckets', r.qty - r.filled)
                /\ confirmed' + r.qty - r.filled <= required
    <3>1. /\ Holds(buckets, c.qty - c.filled)
          /\ confirmed + c.qty - c.filled <= required
      BY <2>5, <2>8, <2>12
    <3>2. /\ c.qty - c.filled \in Nat /\ r.qty - r.filled \in Nat
          /\ r.qty - r.filled <= c.qty - c.filled
      BY <2>2, <2>7
    <3>3. Holds(buckets', r.qty - r.filled)
      BY <2>6, <2>9, <3>1, <3>2, HoldsFacts
    <3> QED
      BY <2>2, <2>4, <2>6, <3>1, <3>3
  <2> QED
    BY <2>9, <2>10, <2>11, <2>12 DEF r
<1>16. confirmed' <= required'
  BY <1>1, <1>5, <1>10, <1>15 DEF LedgerSound
<1>17. Counted'
  <2>1. \A i \in 1 .. Last : children[i].filled <= children'[i].filled
    BY <1>4, <1>6
  <2>2. from = [i \in 1 .. Last |-> children[i].filled]
        /\ to = [i \in 1 .. Last |-> children'[i].filled]
    BY <1>1, <1>6 DEF from, to
  <2>3. confirmed' = confirmed + LotsBetween(1 .. Last, from, to)
    BY <1>1, <1>5
  <2> QED
    BY <1>1, <1>6, <2>1, <2>2, <2>3, CountedKept DEF LedgerSound
<1>18. LedgerSound'
  BY <1>1, <1>5, <1>7, <1>12, <1>13, <1>14, <1>15, <1>16, <1>17 DEF LedgerSound
<1>19. OnlyAdds
  BY <1>4, <1>5, <1>6 DEF OnlyAdds
<1> QED
  BY <1>7, <1>11, <1>18, <1>19

\* What the algorithms ask for fits the target.
LEMMA DemandFits ==
  ASSUME LedgerTypes, LedgerSound, required \in Nat, now \in 0 .. Slices, ~HasReserved
  PROVE  Demand \in Nat /\ confirmed + Demand <= required
<1>1. Reserved(buckets) = 0 /\ confirmed \in Nat /\ confirmed <= required
  BY ReservedType DEF LedgerTypes, LedgerSound, HasReserved
<1>2. Slices \in Nat \ {0}
  BY EngineAssumption DEF EngineAssumption
<1>3. CASE request.algorithm = "TWAP"
  <2>1. now \in Nat /\ now <= Slices
    BY <1>2
  <2>2. confirmed + Reserved(buckets) = confirmed
    BY <1>1
  <2>3. Demand = SubtractFloorZero(required * now, confirmed * Slices) \div Slices
    BY <1>3, <2>2 DEF Demand
  <2> QED
    BY <1>1, <1>2, <2>1, <2>3, QuotientBound
<1>4. CASE request.algorithm # "TWAP"
  BY <1>1, <1>4 DEF Demand, AvailableToSubmit, SubtractFloorZero
<1> QED
  BY <1>3, <1>4

\* Sending an order, whatever becomes of it, keeps the ledger.
LEMMA SubmitStep ==
  ASSUME LedgerTypes, LedgerSound, required \in Nat, now \in 0 .. Slices, Submit
  PROVE  LedgerTypes' /\ LedgerSound' /\ OnlyAdds /\ Last' \in {Last, Last + 1}
<1> DEFINE q == Demand
<1>1. ~HasReserved /\ q > 0 /\ required' = required
  BY DEF Submit, AtDemand
<1>2. q \in Nat /\ confirmed + q <= required
  BY <1>1, DemandFits
<1>3. \A i \in 1 .. Last : Settled(children[i], orders[i])
  BY <1>1, NothingReserved
<1>4. /\ UsesAggressivePrice \in BOOLEAN /\ confirmed \in Nat /\ position \in Nat
      /\ buckets \in Buckets
  BY DEF UsesAggressivePrice, LedgerTypes
<1> HIDE DEF q
<1>5. ASSUME NEW st \in ChildOrderStatus, NEW o \in Order, Joins(q, st, o.filled, o),
             OrderSound(o), o.qty = q,
             st \in TerminalChild => ~Working(o),
             position' = position + o.filled, confirmed' = confirmed + o.filled,
             buckets' \in Buckets,
             st \notin TerminalChild => Holds(buckets', q - o.filled)
      PROVE  LedgerTypes' /\ LedgerSound' /\ OnlyAdds /\ Last' = Last + 1
  <2> DEFINE c == [qty |-> q, filled |-> o.filled, status |-> st,
                   aggressive |-> UsesAggressivePrice]
  <2>1. /\ c \in Child /\ c.qty = q /\ c.filled = o.filled /\ c.status = st
    BY <1>2, <1>4, <1>5 DEF Child, Order
  <2>2. children' = Append(children, c) /\ orders' = Append(orders, o)
    BY <1>5 DEF Joins
  <2> HIDE DEF c
  <2>3. o.filled \in Nat
    BY DEF Order
  <2>4. ChildMatchesOrder(c, o)
    BY <1>5, <2>1, <2>3 DEF ChildMatchesOrder, Settled
  <2>5. confirmed + c.qty <= required
    BY <1>2, <2>1
  <2> QED
    BY <1>1, <1>3, <1>5, <2>1, <2>2, <2>4, <2>5, AppendChild
<1> DEFINE lost == Refused(q)
<1>6. ASSUME NEW new \in NewOrders(q, UsesAggressivePrice)
      PROVE  /\ new \in Order /\ new.filled = 0 /\ new.qty = q /\ OrderSound(new)
             /\ new.state = "inflight" /\ new.ioc \in BOOLEAN
  <2>1. PICK ioc \in {FALSE, UsesAggressivePrice} : new = NewOrder(q, ioc)
    BY DEF NewOrders
  <2>2. ioc \in BOOLEAN
    BY <1>4, <2>1
  <2>3. q \in Nat /\ q > 0
    BY <1>1, <1>2 DEF q
  <2> HIDE DEF q
  <2>4. new = [qty |-> q, filled |-> 0, state |-> "inflight", ioc |-> ioc]
    BY <2>1 DEF NewOrder
  <2> QED
    BY <2>2, <2>3, <2>4 DEF Order, OrderState, OrderSound
<1>7. /\ lost \in Order /\ lost.filled = 0 /\ lost.qty = q /\ OrderSound(lost)
      /\ ~Working(lost)
  <2> DEFINE new == NewOrder(q, UsesAggressivePrice)
  <2>1. new \in NewOrders(q, UsesAggressivePrice)
    BY <1>4 DEF NewOrders
  <2>2. new \in Order /\ new.filled = 0 /\ new.qty = q /\ OrderSound(new)
    BY <1>6, <2>1
  <2>3. lost = [new EXCEPT !.state = "absent"]
    BY DEF Refused
  <2> HIDE DEF new, lost
  <2> QED
    BY <2>2, <2>3, ClosedFacts
<1> HIDE DEF lost
<1>8. position = position + 0 /\ confirmed = confirmed + 0 /\ q - 0 = q
  BY <1>2, <1>4
<1>10. CASE SubmitAccepted(q)
  <2> DEFINE Placed(new, k) ==
          /\ Joins(q, SetChildStatus("PENDING_SUBMIT", StatusOf(Traded(new, k))), k,
                   Traded(new, k))
          /\ position' = position + k
          /\ confirmed' = confirmed + k
          /\ buckets' = IF StatusOf(Traded(new, k)) \in LiveChild
                        THEN ReserveLiveOpen(buckets, q - k) ELSE buckets
  <2>0. PICK new \in NewOrders(q, UsesAggressivePrice) :
          \E k \in TakenOnArrival(q, new.ioc) : Placed(new, k)
    BY <1>10 DEF SubmitAccepted
  <2>1. PICK k \in TakenOnArrival(q, new.ioc) : Placed(new, k)
    BY <2>0
  <2> DEFINE o  == Traded(new, k)
             st == SetChildStatus("PENDING_SUBMIT", StatusOf(o))
  <2>2. k \in Nat /\ k <= q /\ q - k \in Nat
    BY <1>2 DEF TakenOnArrival
  <2>3. /\ o \in Order /\ o.qty = q /\ o.filled = k /\ OrderSound(o)
        /\ o.state \in {"filled", "cancelled", "open"}
    BY <1>2, <1>6, <2>2, TradedFacts
  <2>4. /\ Joins(q, st, k, o) /\ position' = position + k /\ confirmed' = confirmed + k
        /\ buckets' = IF StatusOf(o) \in LiveChild
                        THEN ReserveLiveOpen(buckets, q - k) ELSE buckets
    BY <2>1
  <2> HIDE DEF o
  <2>5. StatusOf(o) \in {"OPEN", "PARTIALLY_FILLED", "CANCELLED", "FILLED"}
    BY DEF StatusOf
  <2>6. \A x \in {"OPEN", "PARTIALLY_FILLED", "CANCELLED", "FILLED"} :
          SetChildStatus("PENDING_SUBMIT", x) = x
    BY DEF SetChildStatus, ChildTransitions, ChildShortcuts, ChildOrderStatus
  <2>7. st = StatusOf(o)
    BY <2>5, <2>6
  <2>8. st \in ChildOrderStatus /\ (st \in TerminalChild \/ st \in LiveChild)
    BY <2>5, <2>7 DEF ChildOrderStatus, TerminalChild, LiveChild
  <2>9. st \in TerminalChild => ~Working(o)
    BY <2>3, <2>7 DEF StatusOf, Working, TerminalChild
  <2> HIDE DEF st
  <2>10. buckets' \in Buckets
    BY <1>4, <2>2, <2>4, ReserveAdds
  <2>11. st \notin TerminalChild => Holds(buckets', q - o.filled)
    BY <1>4, <2>2, <2>3, <2>4, <2>7, <2>8, HoldsFacts
  <2> QED
    BY <1>5, <2>3, <2>4, <2>8, <2>9, <2>10, <2>11
<1>11. CASE SubmitTimesOut(q)
  <2>1. PICK new \in NewOrders(q, UsesAggressivePrice) :
          /\ Joins(q, "UNKNOWN", 0, new) /\ UNCHANGED <<position, confirmed>>
          /\ buckets' = ReserveUnknown(buckets, q)
    BY <1>11 DEF SubmitTimesOut
  <2>2. buckets' \in Buckets /\ Holds(buckets', q)
    BY <1>2, <1>4, <2>1, ReserveAdds, HoldsFacts
  <2>3. "UNKNOWN" \in ChildOrderStatus /\ "UNKNOWN" \notin TerminalChild
    BY DEF ChildOrderStatus, TerminalChild
  <2> QED
    BY <1>2, <1>5, <1>6, <1>8, <2>1, <2>2, <2>3
<1>12. CASE SubmitRejected(q) \/ SubmitBanned(q)
  <2>1. /\ Joins(q, "REJECTED", 0, lost) /\ UNCHANGED <<position, confirmed, buckets>>
    BY <1>12 DEF SubmitRejected, SubmitBanned, lost
  <2>2. "REJECTED" \in ChildOrderStatus /\ "REJECTED" \in TerminalChild
    BY DEF ChildOrderStatus, TerminalChild
  <2> QED
    BY <1>4, <1>5, <1>7, <1>8, <2>1, <2>2
<1>13. CASE SubmitAborted(q)
  <2>1. PICK new \in NewOrders(q, UsesAggressivePrice) :
          /\ Joins(q, "PENDING_SUBMIT", 0, new) /\ UNCHANGED <<position, confirmed>>
          /\ buckets' = ReservePendingSubmit(buckets, q)
    BY <1>13 DEF SubmitAborted
  <2>2. buckets' \in Buckets /\ Holds(buckets', q)
    BY <1>2, <1>4, <2>1, ReserveAdds, HoldsFacts
  <2>3. "PENDING_SUBMIT" \in ChildOrderStatus /\ "PENDING_SUBMIT" \notin TerminalChild
    BY DEF ChildOrderStatus, TerminalChild
  <2> QED
    BY <1>2, <1>5, <1>6, <1>8, <2>1, <2>2, <2>3
<1>14. CASE SubmitFails
  BY <1>1, <1>14, LedgerKept DEF SubmitFails, venueVars, ledgerVars
<1> QED
  BY <1>10, <1>11, <1>12, <1>13, <1>14 DEF Submit, q

=============================================================================
