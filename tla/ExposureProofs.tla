---------------------------- MODULE ExposureProofs ----------------------------
(***************************************************************************)
(* What the operators of Exposure and Lifecycle return, for every ledger:  *)
(* counting lots, moving quantities between buckets, and moving a child to *)
(* a reported status.                                                      *)
(***************************************************************************)
EXTENDS Exposure, Lifecycle, FiniteSetTheorems, TLAPS

\* The lots of one order.
LotsOf(i, a, b) == {i} \X (a + 1 .. b)

LEMMA LotsOfOne ==
  ASSUME NEW i, NEW a \in Int, NEW b \in Int
  PROVE  /\ IsFiniteSet(LotsOf(i, a, b))
         /\ Cardinality(LotsOf(i, a, b)) = IF a < b THEN b - a ELSE 0
         /\ b <= a => LotsOf(i, a, b) = {}
<1>1. IsFiniteSet({i}) /\ Cardinality({i}) = 1
  BY FS_Singleton
<1>2. IsFiniteSet(a + 1 .. b)
      /\ Cardinality(a + 1 .. b) = IF a + 1 > b THEN 0 ELSE b - (a + 1) + 1
  BY FS_Interval
<1>3. /\ IsFiniteSet({i} \X (a + 1 .. b))
      /\ Cardinality({i} \X (a + 1 .. b)) = 1 * Cardinality(a + 1 .. b)
  BY <1>1, <1>2, FS_Product
<1>4. b <= a => a + 1 .. b = {}
  OBVIOUS
<1> QED
  BY <1>2, <1>3, <1>4 DEF LotsOf

\* Finitely many orders have finitely many lots.
LEMMA LotsFinite ==
  ASSUME NEW I, IsFiniteSet(I), NEW from, NEW to,
         \A i \in I : from[i] \in Int /\ to[i] \in Int
  PROVE  /\ IsFiniteSet(Lots(I, from, to))
         /\ LotsBetween(I, from, to) \in Nat
<1> DEFINE T == {{i} \X (from[i] + 1 .. to[i]) : i \in I}
           f == [i \in I |-> {i} \X (from[i] + 1 .. to[i])]
<1>1. f \in Surjection(I, T)
  BY DEF Surjection
<1>2. IsFiniteSet(T)
  BY <1>1, FS_Surjection
<1>3. \A t \in T : IsFiniteSet(t)
  BY LotsOfOne DEF LotsOf
<1>4. IsFiniteSet(UNION T)
  BY <1>2, <1>3, FS_UNION
<1>5. Cardinality(UNION T) \in Nat
  BY <1>4, FS_CardinalityType
<1> QED
  BY <1>4, <1>5 DEF LotsBetween, Lots

\* No order counts for more than it is.
LEMMA LotsAtLeast ==
  ASSUME NEW I, IsFiniteSet(I), NEW from, NEW to,
         \A i \in I : from[i] \in Int /\ to[i] \in Int,
         NEW j \in I
  PROVE  LotsBetween(I, from, to) >= to[j] - from[j]
<1>1. IsFiniteSet(Lots(I, from, to)) /\ LotsBetween(I, from, to) \in Nat
  BY LotsFinite
<1>2. LotsOf(j, from[j], to[j]) \in SUBSET Lots(I, from, to)
  BY DEF LotsOf, Lots
<1>3. Cardinality(LotsOf(j, from[j], to[j])) <= LotsBetween(I, from, to)
  BY <1>1, <1>2, FS_Subset DEF LotsBetween
<1>4. Cardinality(LotsOf(j, from[j], to[j]))
        = IF from[j] < to[j] THEN to[j] - from[j] ELSE 0
  BY LotsOfOne
<1> QED
  BY <1>1, <1>3, <1>4

\* Where only one order may differ, its lots are all there are.
LEMMA LotsOnly ==
  ASSUME NEW I, NEW from, NEW to,
         \A i \in I : from[i] \in Int /\ to[i] \in Int,
         NEW j \in I, \A i \in I \ {j} : to[i] <= from[i]
  PROVE  LotsBetween(I, from, to)
           = IF from[j] < to[j] THEN to[j] - from[j] ELSE 0
<1>1. \A i \in I \ {j} : {i} \X (from[i] + 1 .. to[i]) = {}
  BY LotsOfOne DEF LotsOf
<1>2. Lots(I, from, to) = LotsOf(j, from[j], to[j])
  BY <1>1 DEF LotsOf, Lots
<1> QED
  BY <1>2, LotsOfOne DEF LotsBetween

LEMMA LotsNone ==
  ASSUME NEW I, NEW from, NEW to,
         \A i \in I : from[i] \in Int /\ to[i] \in Int /\ to[i] <= from[i]
  PROVE  LotsBetween(I, from, to) = 0
<1>1. \A i \in I : {i} \X (from[i] + 1 .. to[i]) = {}
  BY LotsOfOne DEF LotsOf
<1>2. Lots(I, from, to) = {}
  BY <1>1 DEF Lots
<1> QED
  BY <1>2, FS_EmptySet DEF LotsBetween

\* Counting up to b and on from there counts every lot once.
LEMMA LotsSplit ==
  ASSUME NEW I, IsFiniteSet(I), NEW a, NEW b, NEW c,
         \A i \in I : /\ a[i] \in Int /\ b[i] \in Int /\ c[i] \in Int
                      /\ a[i] <= b[i] /\ b[i] <= c[i]
  PROVE  LotsBetween(I, a, c) = LotsBetween(I, a, b) + LotsBetween(I, b, c)
<1> DEFINE AB == Lots(I, a, b)
           BC == Lots(I, b, c)
<1>1. \A i \in I : /\ a[i] + 1 .. c[i] = (a[i] + 1 .. b[i]) \cup (b[i] + 1 .. c[i])
                   /\ (a[i] + 1 .. b[i]) \cap (b[i] + 1 .. c[i]) = {}
  OBVIOUS
<1>2. Lots(I, a, c) = AB \cup BC
  <2>1. \A i \in I : {i} \X (a[i] + 1 .. c[i])
                      = ({i} \X (a[i] + 1 .. b[i])) \cup ({i} \X (b[i] + 1 .. c[i]))
    BY <1>1
  <2> QED
    BY <2>1 DEF Lots
<1>3. AB \cap BC = {}
  <2> SUFFICES ASSUME NEW x \in AB, x \in BC PROVE FALSE
    OBVIOUS
  <2> PICK i \in I : x \in {i} \X (a[i] + 1 .. b[i])
    BY DEF Lots
  <2> PICK j \in I : x \in {j} \X (b[j] + 1 .. c[j])
    BY DEF Lots
  <2> QED
    BY <1>1
<1>4. IsFiniteSet(AB) /\ IsFiniteSet(BC) /\ Cardinality(AB) \in Nat /\ Cardinality(BC) \in Nat
  BY LotsFinite DEF LotsBetween
<1> HIDE DEF AB, BC
<1>5. Cardinality(AB \cup BC) = Cardinality(AB) + Cardinality(BC) - Cardinality(AB \cap BC)
  BY <1>4, FS_Union
<1>6. Cardinality(AB \cap BC) = 0
  BY <1>3, FS_EmptySet
<1> QED
  BY <1>2, <1>4, <1>5, <1>6 DEF LotsBetween, AB, BC

\* The lots of one more order are added to the others'.
LEMMA LotsExtend ==
  ASSUME NEW I, IsFiniteSet(I), NEW j, j \notin I, NEW J, J = I \cup {j},
         NEW from, NEW to, NEW f, NEW t, \A i \in J : f[i] \in Int /\ t[i] \in Int,
         \A i \in I : from[i] = f[i] /\ to[i] = t[i],
         f[j] <= t[j]
  PROVE  LotsBetween(J, f, t) = LotsBetween(I, from, to) + (t[j] - f[j])
<1> DEFINE A == Lots(I, from, to)
           B == LotsOf(j, f[j], t[j])
<1>1. Lots(J, f, t) = A \cup B
  <2>1. Lots(J, f, t) = Lots(I, f, t) \cup B
    BY DEF Lots, LotsOf
  <2>2. Lots(I, f, t) = A
    BY DEF Lots
  <2> QED
    BY <2>1, <2>2
<1>2. A \cap B = {}
  <2> SUFFICES ASSUME NEW x \in A, x \in B PROVE FALSE
    OBVIOUS
  <2> PICK i \in I : x \in {i} \X (from[i] + 1 .. to[i])
    BY DEF Lots
  <2> QED
    BY DEF LotsOf
<1>3. IsFiniteSet(A) /\ Cardinality(A) \in Nat
  BY LotsFinite DEF LotsBetween
<1>4. IsFiniteSet(B) /\ Cardinality(B) = t[j] - f[j]
  BY LotsOfOne
<1> HIDE DEF A, B
<1>5. Cardinality(A \cup B) = Cardinality(A) + Cardinality(B) - Cardinality(A \cap B)
  BY <1>3, <1>4, FS_Union
<1>6. Cardinality(A \cap B) = 0
  BY <1>2, FS_EmptySet
<1>7. Cardinality(B) \in Nat
  BY <1>4, FS_CardinalityType
<1>8. Cardinality(A \cup B) = Cardinality(A) + Cardinality(B)
  BY <1>3, <1>5, <1>6, <1>7
<1>9. LotsBetween(J, f, t) = Cardinality(A \cup B)
  BY <1>1 DEF LotsBetween
<1>10. LotsBetween(I, from, to) = Cardinality(A)
  BY DEF LotsBetween, A
<1> QED
  BY <1>4, <1>8, <1>9, <1>10

(***************************************************************************)
(* Outstanding quantity of a ledger s, and the buckets.                    *)
(***************************************************************************)
LEMMA OutstandingAtLeast ==
  ASSUME NEW n \in Nat, NEW s, NEW I \in SUBSET (1 .. n),
         \A i \in I : s[i].qty \in Nat /\ s[i].filled \in Nat
  PROVE  /\ Outstanding(s, I) \in Nat
         /\ \A j \in I : Outstanding(s, I) >= s[j].qty - s[j].filled
<1> DEFINE from == [i \in I |-> s[i].filled]
           to   == [i \in I |-> s[i].qty]
<1>1. IsFiniteSet(I)
  <2>1. IsFiniteSet(1 .. n)
    BY FS_Interval
  <2> QED
    BY <2>1, FS_Subset
<1>2. \A i \in I : from[i] \in Int /\ to[i] \in Int
  <2>1. \A i \in I : from[i] = s[i].filled /\ to[i] = s[i].qty
    OBVIOUS
  <2> QED
    BY <2>1, SMT
<1>3. Outstanding(s, I) = LotsBetween(I, from, to)
  BY DEF Outstanding
<1> HIDE DEF from, to
<1>4. LotsBetween(I, from, to) \in Nat
  BY <1>1, <1>2, LotsFinite
<1>5. \A j \in I : LotsBetween(I, from, to) >= to[j] - from[j]
  BY <1>1, <1>2, LotsAtLeast
<1> QED
  BY <1>3, <1>4, <1>5 DEF from, to

\* When nothing is outstanding but at one order, that is the sum.
LEMMA OutstandingOnly ==
  ASSUME NEW s, NEW I, NEW j,
         \A i \in I : s[i].qty \in Nat /\ s[i].filled \in Nat,
         \A i \in I \ {j} : s[i].filled = s[i].qty
  PROVE  Outstanding(s, I)
           = IF j \in I /\ s[j].filled < s[j].qty THEN s[j].qty - s[j].filled ELSE 0
<1> DEFINE from == [i \in I |-> s[i].filled]
           to   == [i \in I |-> s[i].qty]
<1>1. \A i \in I : from[i] \in Int /\ to[i] \in Int
  <2>1. \A i \in I : from[i] = s[i].filled /\ to[i] = s[i].qty
    OBVIOUS
  <2> QED
    BY <2>1, SMT
<1>2. Outstanding(s, I) = LotsBetween(I, from, to)
  BY DEF Outstanding
<1>3. \A i \in I \ {j} : to[i] <= from[i]
  BY <1>1
<1>4. CASE j \in I
  <2>1. from[j] = s[j].filled /\ to[j] = s[j].qty
    BY <1>4
  <2>2. \A i \in I \ {j} : to[i] <= from[i]
    BY <1>3
  <2> HIDE DEF from, to
  <2>3. LotsBetween(I, from, to)
          = IF from[j] < to[j] THEN to[j] - from[j] ELSE 0
    BY <1>1, <1>4, <2>2, LotsOnly
  <2> QED
    BY <1>2, <1>4, <2>1, <2>3
<1>5. CASE j \notin I
  <2>1. \A i \in I : from[i] \in Int /\ to[i] \in Int /\ to[i] <= from[i]
    BY <1>1, <1>5, <1>3
  <2> HIDE DEF from, to
  <2>2. LotsBetween(I, from, to) = 0
    BY <2>1, LotsNone
  <2> QED
    BY <1>2, <1>5, <2>2
<1> QED
  BY <1>4, <1>5

\* Moving a quantity to "being cancelled" reserves as much as before.
LEMMA MarkPendingCancelKeeps ==
  ASSUME NEW b \in Buckets, NEW q \in Nat
  PROVE  /\ MarkPendingCancel(b, q) \in Buckets
         /\ Reserved(MarkPendingCancel(b, q)) = Reserved(b)
<1> DEFINE m == Smaller(q, b.live)
           d == [b EXCEPT !.live = @ - m]
           c == [d EXCEPT !.cancel = @ + m]
<1>1. m \in Nat /\ m <= b.live
  BY DEF Smaller, Buckets
<1>2. MarkPendingCancel(b, q) = c
  BY DEF MarkPendingCancel
<1>3. /\ d \in Buckets /\ d.live = b.live - m
      /\ d.submit = b.submit /\ d.cancel = b.cancel /\ d.unknown = b.unknown
  <2> HIDE DEF m
  <2> QED
    BY <1>1 DEF Buckets
<1>4. /\ c \in Buckets /\ c.live = d.live /\ c.submit = d.submit
      /\ c.cancel = d.cancel + m /\ c.unknown = d.unknown
  <2> HIDE DEF m, d
  <2> QED
    BY <1>1, <1>3 DEF Buckets
<1> HIDE DEF m, d, c
<1> QED
  BY <1>1, <1>2, <1>3, <1>4 DEF Reserved, Buckets

LEMMA ReserveAdds ==
  ASSUME NEW b \in Buckets, NEW q \in Nat
  PROVE  /\ ReserveLiveOpen(b, q) \in Buckets
         /\ ReservePendingSubmit(b, q) \in Buckets
         /\ ReserveUnknown(b, q) \in Buckets
         /\ ReleasePendingCancel(b, q) \in Buckets
         /\ Reserved(ReserveLiveOpen(b, q)) = Reserved(b) + q
         /\ Reserved(ReservePendingSubmit(b, q)) = Reserved(b) + q
         /\ Reserved(ReserveUnknown(b, q)) = Reserved(b) + q
BY DEF ReserveLiveOpen, ReservePendingSubmit, ReserveUnknown,
       ReleasePendingCancel, Buckets, Reserved, SubtractFloorZero

LEMMA ReservedType ==
  ASSUME NEW b \in Buckets
  PROVE  Reserved(b) \in Nat
BY DEF Buckets, Reserved

\* The buckets after lots were marked for a cancel, and after that mark was
\* taken away.
LEMMA MarkedFields ==
  ASSUME NEW b \in Buckets, NEW q \in Nat
  PROVE  LET m == MarkPendingCancel(b, q)
             f == ReleasePendingCancel(m, q)
         IN  /\ m.live = b.live - Smaller(q, b.live)
             /\ m.cancel = b.cancel + Smaller(q, b.live)
             /\ m.submit = b.submit /\ m.unknown = b.unknown
             /\ f.live = m.live /\ f.submit = b.submit /\ f.unknown = b.unknown
             /\ f.cancel = SubtractFloorZero(m.cancel, q)
<1> DEFINE m == MarkPendingCancel(b, q)
<1>1. /\ m.live = b.live - Smaller(q, b.live)
      /\ m.cancel = b.cancel + Smaller(q, b.live)
      /\ m.submit = b.submit /\ m.unknown = b.unknown
  BY DEF MarkPendingCancel, Buckets
<1>2. m \in Buckets
  BY MarkPendingCancelKeeps
<1> HIDE DEF m
<1>3. /\ ReleasePendingCancel(m, q).live = m.live
      /\ ReleasePendingCancel(m, q).submit = m.submit
      /\ ReleasePendingCancel(m, q).unknown = m.unknown
      /\ ReleasePendingCancel(m, q).cancel = SubtractFloorZero(m.cancel, q)
  BY <1>2 DEF ReleasePendingCancel, Buckets
<1> QED
  BY <1>1, <1>3 DEF m

(***************************************************************************)
(* Moving a child to a reported status.                                    *)
(***************************************************************************)
LEMMA SetChildStatusType ==
  ASSUME NEW a \in ChildOrderStatus, NEW b
  PROVE  /\ SetChildStatus(a, b) \in ChildOrderStatus
         /\ SetChildStatus(a, b) \in {a, b}
         /\ a \in TerminalChild => SetChildStatus(a, b) = a
BY DEF SetChildStatus, ChildTransitions, ChildShortcuts, ChildOrderStatus,
       TerminalChild

=============================================================================
