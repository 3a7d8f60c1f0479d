------------------------ MODULE BillingPeriodProofs ------------------------
(***************************************************************************)
(* The calendar arithmetic, proved for every calendar: days lie in months, *)
(* boundaries lie after their instants, and the jump of periodContaining   *)
(* lands where renewals would have led, whatever the guard of its loops.   *)
(***************************************************************************)
EXTENDS BillingPeriod, TLAPS, WellFoundedInduction

\* A set of naturals that is not empty has a least member.
Less == {p \in Nat \X Nat : p[1] < p[2]}

LEMMA Least ==
  ASSUME NEW T \in SUBSET Nat, T # {}
  PROVE  \E x \in T : \A y \in T : x <= y
<1>1. IsWellFoundedOn(Less, Nat)
  BY NatLessThanWellFounded, Zenon DEF OpToRel, Less
<1>2. PICK x \in T : \A y \in T : <<y, x>> \notin Less
  BY <1>1, WFMin, Zenon
<1>3. \A y \in T : ~ (y < x)
  BY <1>2 DEF Less
<1> QED BY <1>3

-----------------------------------------------------------------------------
(* Months and days *)

\* A month is a stretch of days, no longer than an anchor day can be.
LEMMA MonthLength ==
  ASSUME NEW m \in Months
  PROVE  /\ MonthStart[m] \in Nat /\ MonthStart[m + 1] \in Nat
         /\ MonthStart[m] < MonthStart[m + 1] /\ DaysInMonth(m) \in AnchorDays
<1>1. m \in 0 .. LastMonth + 1 /\ m + 1 \in 0 .. LastMonth + 1
  BY CalendarAssumption DEF Months
<1>2. MonthStart[m] \in Nat /\ MonthStart[m + 1] \in Nat
  BY <1>1, CalendarAssumption
<1>3. MonthStart[m + 1] - MonthStart[m] \in 1 .. 31
  BY CalendarAssumption
<1> QED BY <1>2, <1>3 DEF DaysInMonth, AnchorDays

\* Every day of the calendar lies in a month, and two months follow it.
LEMMA MonthFound ==
  ASSUME NEW t \in Days
  PROVE  /\ MonthOf(t) \in Months /\ MonthOf(t) + 1 < LastMonth
         /\ MonthStart[MonthOf(t)] <= t /\ t < MonthStart[MonthOf(t) + 1]
<1>1. /\ LastMonth \in Nat /\ LastMonth > 0 /\ MonthStart[0] = 0
      /\ \A m \in 0 .. LastMonth + 1 : MonthStart[m] \in Nat
      /\ \A m \in Months : MonthStart[m] < MonthStart[m + 1]
  BY CalendarAssumption, MonthLength
<1>2. t \in Nat /\ t < MonthStart[LastMonth - 1]
  BY <1>1 DEF Days
<1> DEFINE later == {k \in Nat : k < LastMonth /\ t < MonthStart[k]}
<1>3. later \in SUBSET Nat /\ LastMonth - 1 \in later
  BY <1>1, <1>2
<1>4. PICK k \in later : \A j \in later : k <= j
  <2> HIDE DEF later
  <2> QED BY <1>3, Least
<1>5. k # 0 /\ k - 1 \notin later /\ k - 1 \in Nat
  BY <1>1, <1>2, <1>4
<1>6. \E m \in Months : MonthStart[m] <= t /\ t < MonthStart[m + 1]
  <2>1. k - 1 \in Months /\ MonthStart[k - 1] <= t /\ t < MonthStart[(k - 1) + 1]
    BY <1>1, <1>2, <1>4, <1>5 DEF Months
  <2> QED BY <2>1
<1>7. MonthOf(t) \in Months /\ MonthStart[MonthOf(t)] <= t /\ t < MonthStart[MonthOf(t) + 1]
  BY <1>6 DEF MonthOf
<1>8. MonthOf(t) # LastMonth - 1 /\ MonthOf(t) # LastMonth
  <2>1. MonthStart[LastMonth - 1] < MonthStart[LastMonth]
    <3>1. LastMonth - 1 \in Months /\ (LastMonth - 1) + 1 = LastMonth
      BY <1>1 DEF Months
    <3> QED BY <1>1, <3>1
  <2>2. MonthStart[LastMonth] \in Nat /\ MonthStart[LastMonth - 1] \in Nat
    BY <1>1
  <2> QED BY <1>2, <1>7, <2>1, <2>2
<1> QED BY <1>1, <1>7, <1>8 DEF Months

\* The boundary after an instant lies after it, and an instant implies an anchor.
LEMMA NextAnchorLater ==
  ASSUME NEW t \in Days, NEW anchor \in AnchorDays
  PROVE  NextAnchorAfter(t, anchor) \in Nat /\ NextAnchorAfter(t, anchor) > t
<1> DEFINE m == MonthOf(t)
<1>1. /\ m \in Nat /\ m + 1 < LastMonth /\ LastMonth \in Nat
      /\ t \in Nat /\ MonthStart[m] <= t /\ t < MonthStart[m + 1]
  BY MonthFound, CalendarAssumption DEF Months, Days
<1> HIDE DEF m
<1>2. m \in Months /\ m + 1 \in Months
  BY <1>1 DEF Months
<1>3. /\ MonthStart[m] \in Nat /\ MonthStart[m + 1] \in Nat
      /\ DaysInMonth(m) \in AnchorDays /\ DaysInMonth(m + 1) \in AnchorDays
  BY <1>2, MonthLength
<1>4. AddMonthsAnchored(t, 0, anchor) \in Nat
  <2>1. m + 0 = m
    BY <1>1
  <2> QED BY <1>1, <1>3, <2>1 DEF AddMonthsAnchored, AnchorDays, m
<1>5. AddMonthsAnchored(t, 1, anchor) \in Nat /\ AddMonthsAnchored(t, 1, anchor) > t
  BY <1>1, <1>3 DEF AddMonthsAnchored, AnchorDays, m
<1> QED BY <1>1, <1>4, <1>5 DEF NextAnchorAfter

LEMMA AnchorImplied ==
  ASSUME NEW t \in Days
  PROVE  AnchorDayOf(t) \in AnchorDays
<1>1. /\ MonthOf(t) \in Months /\ t \in Nat
      /\ MonthStart[MonthOf(t)] <= t /\ t < MonthStart[MonthOf(t) + 1]
  BY MonthFound DEF Days
<1>2. /\ MonthStart[MonthOf(t)] \in Nat /\ MonthStart[MonthOf(t) + 1] \in Nat
      /\ MonthStart[MonthOf(t) + 1] - MonthStart[MonthOf(t)] \in 1 .. 31
  BY <1>1, MonthLength, CalendarAssumption
<1> QED BY <1>1, <1>2 DEF AnchorDayOf, AnchorDays

\* Months begin one after the other: the first that did not would be followed
\* by a month that begins before it.
LEMMA MonthsRise ==
  ASSUME NEW m \in 0 .. LastMonth + 1, NEW n \in 0 .. LastMonth + 1, m < n
  PROVE  MonthStart[m] < MonthStart[n]
<1> DEFINE wrong == {k \in Nat : m < k /\ k <= LastMonth + 1 /\ ~ (MonthStart[m] < MonthStart[k])}
<1>1. LastMonth \in Nat /\ m \in Nat /\ n \in Nat
  BY CalendarAssumption
<1>2. SUFFICES ASSUME n \in wrong PROVE FALSE
  BY <1>1
<1>3. PICK k \in wrong : \A j \in wrong : k <= j
  <2>1. wrong \in SUBSET Nat /\ wrong # {}
    BY <1>2
  <2> HIDE DEF wrong
  <2> QED BY <2>1, Least
<1>4. k \in Nat /\ k - 1 \in Months /\ k - 1 \notin wrong
  BY <1>1, <1>3 DEF Months
<1>5. MonthStart[k - 1] < MonthStart[(k - 1) + 1] /\ MonthStart[k - 1] \in Nat
  BY <1>4, MonthLength
<1>6. (k - 1) + 1 = k /\ MonthStart[k] \in Nat /\ MonthStart[m] \in Nat
  BY <1>1, <1>3, <1>4, CalendarAssumption
<1>7. k - 1 = m \/ MonthStart[m] < MonthStart[k - 1]
  BY <1>1, <1>3, <1>4
<1> QED BY <1>3, <1>5, <1>6, <1>7

\* A day lies in one month only.
LEMMA InMonth ==
  ASSUME NEW t \in Nat, NEW m \in Months, MonthStart[m] <= t, t < MonthStart[m + 1]
  PROVE  MonthOf(t) = m
<1>1. LastMonth \in Nat
  BY CalendarAssumption
<1>2. ASSUME NEW n \in Months, NEW k \in Months, MonthStart[n] <= t, t < MonthStart[k + 1]
      PROVE  n <= k
  <2> SUFFICES ASSUME k + 1 <= n PROVE FALSE
    BY <1>1 DEF Months
  <2>1. k + 1 = n \/ MonthStart[k + 1] < MonthStart[n]
    BY <1>1, MonthsRise DEF Months
  <2>2. MonthStart[k + 1] \in Nat /\ MonthStart[n] \in Nat
    BY MonthLength
  <2> QED BY <1>2, <2>1, <2>2
<1>3. MonthOf(t) \in Months /\ MonthStart[MonthOf(t)] <= t /\ t < MonthStart[MonthOf(t) + 1]
  BY DEF MonthOf
<1>4. MonthOf(t) <= m /\ m <= MonthOf(t)
  BY <1>2, <1>3
<1> QED BY <1>1, <1>3, <1>4 DEF Months

-----------------------------------------------------------------------------
(* Boundaries: the anchor day of a month *)

Anchored(m, anchor) ==
    MonthStart[m] + (IF anchor < DaysInMonth(m) THEN anchor ELSE DaysInMonth(m)) - 1

LEMMA AnchoredIn ==
  ASSUME NEW m \in Months, NEW anchor \in AnchorDays
  PROVE  /\ Anchored(m, anchor) \in Nat
         /\ MonthStart[m] <= Anchored(m, anchor) /\ Anchored(m, anchor) < MonthStart[m + 1]
         /\ MonthOf(Anchored(m, anchor)) = m
<1>1. /\ Anchored(m, anchor) \in Nat
      /\ MonthStart[m] <= Anchored(m, anchor) /\ Anchored(m, anchor) < MonthStart[m + 1]
  BY MonthLength DEF Anchored, DaysInMonth, AnchorDays
<1> QED BY <1>1, InMonth

LEMMA AnchoredRises ==
  ASSUME NEW m \in Months, NEW n \in Months, m < n, NEW anchor \in AnchorDays
  PROVE  Anchored(m, anchor) < Anchored(n, anchor)
<1>1. LastMonth \in Nat
  BY CalendarAssumption
<1>2. m + 1 = n \/ MonthStart[m + 1] < MonthStart[n]
  BY <1>1, MonthsRise DEF Months
<1>3. /\ MonthStart[m + 1] \in Nat /\ MonthStart[n] \in Nat
      /\ Anchored(m, anchor) \in Nat /\ Anchored(m, anchor) < MonthStart[m + 1]
      /\ Anchored(n, anchor) \in Nat /\ MonthStart[n] <= Anchored(n, anchor)
  BY MonthLength, AnchoredIn
<1> QED BY <1>2, <1>3

\* From a boundary the next one is a month away.
LEMMA AnchoredNext ==
  ASSUME NEW m \in Months, m + 1 \in Months, NEW anchor \in AnchorDays
  PROVE  NextAnchorAfter(Anchored(m, anchor), anchor) = Anchored(m + 1, anchor)
<1> DEFINE b == Anchored(m, anchor)
<1>1. MonthOf(b) = m /\ b \in Nat /\ m \in Nat /\ m + 0 = m
  BY AnchoredIn DEF Months
<1> HIDE DEF b
<1>2. AddMonthsAnchored(b, 0, anchor) = b
  BY <1>1 DEF AddMonthsAnchored, Anchored, b
<1>3. AddMonthsAnchored(b, 1, anchor) = Anchored(m + 1, anchor)
  BY <1>1 DEF AddMonthsAnchored, Anchored
<1>4. ~ (b > b)
  BY <1>1
<1> QED BY <1>2, <1>3, <1>4 DEF NextAnchorAfter, b

\* From any day the next one is that of its month or of the month after.
LEMMA FirstBoundary ==
  ASSUME NEW t \in Days, NEW anchor \in AnchorDays
  PROVE  LET m == MonthOf(t) IN
           NextAnchorAfter(t, anchor) = IF Anchored(m, anchor) > t THEN Anchored(m, anchor)
                                        ELSE Anchored(m + 1, anchor)
<1>1. MonthOf(t) \in Nat /\ MonthOf(t) + 0 = MonthOf(t)
  BY MonthFound DEF Months
<1> QED BY <1>1 DEF NextAnchorAfter, AddMonthsAnchored, Anchored

\* The period of the boundary k months on.
LEMMA PeriodAtIs ==
  ASSUME NEW t \in Days, NEW k \in Nat, MonthOf(t) + k + 1 \in Months, NEW anchor \in AnchorDays
  PROVE  PeriodAt(t, k, anchor) = [start |-> Anchored(MonthOf(t) + k, anchor),
                                   end |-> Anchored(MonthOf(t) + k + 1, anchor)]
<1> DEFINE m == MonthOf(t) + k
<1>1. m \in Months /\ m + 1 \in Months
  BY MonthFound, CalendarAssumption DEF Months
<1>2. AddMonthsAnchored(t, k, anchor) = Anchored(m, anchor)
  BY DEF AddMonthsAnchored, Anchored
<1> HIDE DEF m
<1>3. NextAnchorAfter(Anchored(m, anchor), anchor) = Anchored(m + 1, anchor)
  BY <1>1, AnchoredNext
<1>4. PeriodAt(t, k, anchor) = [start |-> Anchored(m, anchor), end |-> Anchored(m + 1, anchor)]
  BY <1>2, <1>3 DEF PeriodAt, ComputeAnchoredPeriod
<1> QED BY <1>4 DEF m

-----------------------------------------------------------------------------
(* The jump *)

\* Time goes through the months in their order.
LEMMA MonthsInOrder ==
  ASSUME NEW t \in Days, NEW at \in Days, t <= at
  PROVE  MonthOf(t) <= MonthOf(at)
<1>1. /\ t \in Nat /\ at \in Nat /\ MonthOf(t) \in Months /\ MonthOf(at) \in Months
      /\ MonthStart[MonthOf(t)] <= t /\ at < MonthStart[MonthOf(at) + 1]
  BY MonthFound DEF Days
<1> DEFINE m == MonthOf(t)
           n == MonthOf(at)
<1>2. LastMonth \in Nat /\ MonthStart[m] \in Nat /\ MonthStart[n + 1] \in Nat
  BY <1>1, CalendarAssumption, MonthLength
<1> HIDE DEF m, n
<1>3. m \in Months /\ n \in Months /\ MonthStart[m] <= t /\ at < MonthStart[n + 1]
  BY <1>1 DEF m, n
<1>4. ASSUME n + 1 <= m PROVE FALSE
  <2>1. n + 1 = m \/ MonthStart[n + 1] < MonthStart[m]
    BY <1>2, <1>3, <1>4, MonthsRise DEF Months
  <2> QED BY <1>1, <1>2, <1>3, <2>1
<1>5. m <= n
  BY <1>2, <1>3, <1>4 DEF Months
<1> QED BY <1>5 DEF m, n

\* A boundary of a month before lies before, one of a month after lies after.
LEMMA MonthsApart ==
  ASSUME NEW at \in Days, NEW n \in Months, NEW anchor \in AnchorDays
  PROVE  /\ n < MonthOf(at) => Anchored(n, anchor) <= at
         /\ n > MonthOf(at) => at < Anchored(n, anchor)
<1> DEFINE m == MonthOf(at)
<1>1. /\ LastMonth \in Nat /\ at \in Nat /\ m \in Months
      /\ MonthStart[m] <= at /\ at < MonthStart[m + 1]
  BY MonthFound, CalendarAssumption DEF Days
<1> HIDE DEF m
<1>2. /\ MonthStart[m] \in Nat /\ MonthStart[m + 1] \in Nat
      /\ MonthStart[n] \in Nat /\ MonthStart[n + 1] \in Nat
  BY <1>1, MonthLength
<1>3. /\ Anchored(n, anchor) \in Nat
      /\ MonthStart[n] <= Anchored(n, anchor) /\ Anchored(n, anchor) < MonthStart[n + 1]
  BY AnchoredIn
<1>4. ASSUME n < m PROVE Anchored(n, anchor) <= at
  <2>1. n + 1 = m \/ MonthStart[n + 1] < MonthStart[m]
    BY <1>1, <1>4, MonthsRise DEF Months
  <2> QED BY <1>1, <1>2, <1>3, <2>1
<1>5. ASSUME n > m PROVE at < Anchored(n, anchor)
  <2>1. m + 1 = n \/ MonthStart[m + 1] < MonthStart[n]
    BY <1>1, <1>5, MonthsRise DEF Months
  <2> QED BY <1>1, <1>2, <1>3, <2>1
<1> QED BY <1>4, <1>5 DEF m

\* The loop forward takes one step at most, and ends where `at` is before the
\* end of the period.
LEMMA Forth ==
  ASSUME NEW t \in Days, NEW at \in Days, t <= at, NEW anchor \in AnchorDays
  PROVE  LET m == MonthOf(t)
             n == MonthOf(at)
             f == StepsForward(t, Jump(t, at), anchor, at)
         IN  /\ f \in Nat \ {0} /\ m + f + 1 \in Months /\ at < Anchored(m + f + 1, anchor)
             /\ f = 1 \/ Anchored(m + f, anchor) <= at
<1> DEFINE m == MonthOf(t)
           n == MonthOf(at)
           k == Jump(t, at)
           Fits(j) == at < PeriodAt(t, j, anchor).end
           ends(j) == /\ Fits(j) \/ j = k + LoopGuard
                      /\ \A i \in k .. j - 1 : at >= PeriodAt(t, i, anchor).end
<1>1. /\ m \in Months /\ n \in Months /\ m \in Nat /\ n \in Nat /\ m <= n /\ m + 1 < LastMonth /\ n + 1 < LastMonth
      /\ LastMonth \in Nat /\ LoopGuard \in Nat \ {0} /\ at \in Nat /\ t \in Nat
  BY MonthFound, MonthsInOrder, CalendarAssumption, GuardAssumption DEF Months, Days
<1>2. k = IF n - m > 2 THEN n - m - 1 ELSE 1
  BY <1>1 DEF Jump
<1> HIDE DEF m, n, k
<1>3. ASSUME NEW j \in Nat, m + j + 1 \in Months
      PROVE  /\ PeriodAt(t, j, anchor).end = Anchored(m + j + 1, anchor)
             /\ Anchored(m + j + 1, anchor) \in Nat
  BY <1>3, PeriodAtIs, AnchoredIn DEF m
<1>4. ASSUME NEW j \in Nat, m + j + 1 \in Months, n < m + j + 1
      PROVE  Fits(j) /\ at < Anchored(m + j + 1, anchor)
  BY <1>3, <1>4, MonthsApart DEF n
<1>5. k \in Nat \ {0} /\ m + k + 1 \in Months
  BY <1>1, <1>2 DEF Months
<1>6. Fits(k) \/ (m + k + 2 \in Months /\ Fits(k + 1) /\ k = n - m - 1)
  <2>1. CASE n - m > 1
    <3>1. k = n - m - 1 /\ k + 1 \in Nat /\ m + (k + 1) + 1 \in Months /\ n < m + (k + 1) + 1
      BY <1>1, <1>2, <2>1 DEF Months
    <3> QED BY <1>1, <1>4, <3>1
  <2>2. CASE n - m <= 1
    <3>1. k \in Nat /\ n < m + k + 1
      BY <1>1, <1>2, <2>2
    <3> QED BY <1>4, <1>5, <3>1
  <2> QED BY <1>1, <2>1, <2>2
<1>7. \A j \in Nat : m + j + 1 \in Months => (Fits(j) <=> ~ (at >= PeriodAt(t, j, anchor).end))
  BY <1>1, <1>3
<1> DEFINE f == StepsForward(t, k, anchor, at)
<1>8. \E j \in k .. k + LoopGuard : ends(j)
  <2>1. CASE Fits(k)
    <3>1. k \in k .. k + LoopGuard /\ ends(k)
      BY <1>1, <1>5, <2>1
    <3> QED BY <3>1
  <2>2. CASE ~ Fits(k)
    <3>1. at >= PeriodAt(t, k, anchor).end
      BY <1>5, <1>7, <2>2
    <3>2. \A i \in k .. (k + 1) - 1 : i = k
      BY <1>5
    <3>3. k + 1 \in k .. k + LoopGuard /\ ends(k + 1)
      BY <1>1, <1>5, <1>6, <2>2, <3>1, <3>2
    <3> QED BY <3>3
  <2> QED BY <2>1, <2>2
<1>9. f \in k .. k + LoopGuard /\ ends(f)
  BY <1>8 DEF StepsForward
<1> HIDE DEF f
<1>10. f \in Nat /\ f >= k
  BY <1>1, <1>5, <1>9
<1>11. CASE f = k
  <2>1. Fits(k)
    BY <1>1, <1>5, <1>9, <1>11
  <2>2. at < Anchored(m + f + 1, anchor)
    BY <1>3, <1>5, <1>11, <2>1
  <2>3. f = 1 \/ Anchored(m + f, anchor) <= at
    <3>1. CASE n - m > 2
      <4>1. m + f \in Months /\ m + f < n
        BY <1>1, <1>2, <1>11, <3>1 DEF Months
      <4> QED BY <4>1, MonthsApart DEF n
    <3>2. CASE ~ (n - m > 2)
      BY <1>2, <1>11, <3>2
    <3> QED BY <3>1, <3>2
  <2> QED BY <1>5, <1>11, <2>2, <2>3 DEF m, n, f, k
<1>12. CASE f # k
  <2>1. k \in k .. f - 1
    BY <1>5, <1>10, <1>12
  <2>2. at >= PeriodAt(t, k, anchor).end
    BY <1>9, <2>1
  <2>3. ~ Fits(k) /\ Anchored(m + k + 1, anchor) <= at
    BY <1>3, <1>5, <1>7, <2>2
  <2>4. m + k + 2 \in Months /\ Fits(k + 1) /\ k = n - m - 1
    BY <1>6, <2>3
  <2>5. k + 1 \in Nat /\ m + (k + 1) + 1 \in Months /\ n < m + (k + 1) + 1
    BY <1>1, <1>5, <2>4
  <2>6. f = k + 1
    <3> SUFFICES ASSUME k + 1 \in k .. f - 1 PROVE FALSE
      BY <1>5, <1>10, <1>12
    <3>1. at >= PeriodAt(t, k + 1, anchor).end
      BY <1>9
    <3> QED BY <1>7, <2>4, <2>5, <3>1
  <2>7. at < Anchored(m + f + 1, anchor)
    BY <1>4, <2>5, <2>6
  <2>8. m + k + 1 = m + f
    BY <1>1, <1>5, <2>6
  <2> QED BY <1>5, <2>3, <2>5, <2>6, <2>7, <2>8 DEF m, n, f, k
<1> QED BY <1>11, <1>12

\* The loop back takes one step at most, from a first boundary that lies beyond
\* `at`; it stays where it is when the boundary does not.
LEMMA Back ==
  ASSUME NEW t \in Days, NEW at \in Days, NEW anchor \in AnchorDays, NEW f \in Nat \ {0},
         MonthOf(t) + f + 1 \in Months
  PROVE  LET m == MonthOf(t)
             b == StepsBack(t, f, anchor, at)
         IN  /\ Anchored(m + f, anchor) <= at => b = f
             /\ f = 1 /\ at < Anchored(m + 1, anchor) /\ t <= Anchored(m, anchor)
                /\ Anchored(m, anchor) <= at => b = 0
<1> DEFINE m == MonthOf(t)
           settled(n) == \/ PeriodAt(t, n, anchor).start <= at
                         \/ PeriodAt(t, n - 1, anchor).start < t
           stops(n) == /\ settled(n) \/ n + LoopGuard = f
                       /\ \A j \in n + 1 .. f : ~settled(j)
           b == StepsBack(t, f, anchor, at)
<1>1. /\ m \in Months /\ m \in Nat /\ m + 1 < LastMonth /\ LastMonth \in Nat /\ m + 0 = m
      /\ LoopGuard \in Nat \ {0} /\ at \in Nat /\ t \in Nat
  BY MonthFound, CalendarAssumption, GuardAssumption DEF Months, Days
<1>2. b = CHOOSE n \in 0 .. f : stops(n)
  BY DEF StepsBack
<1> HIDE DEF m, b
<1>3. ASSUME NEW n \in Nat, m + n + 1 \in Months
      PROVE  PeriodAt(t, n, anchor).start = Anchored(m + n, anchor)
  BY <1>3, PeriodAtIs DEF m
<1>4. ASSUME Anchored(m + f, anchor) <= at PROVE b = f
  <2>1. settled(f)
    BY <1>3, <1>4 DEF m
  <2>2. f \in 0 .. f /\ f + 1 .. f = {}
    OBVIOUS
  <2>3. stops(f)
    BY <2>1, <2>2
  <2>4. b \in 0 .. f /\ stops(b)
    BY <1>2, <2>2, <2>3
  <2>5. b # f => f \in b + 1 .. f
    BY <2>4
  <2> QED BY <2>1, <2>4, <2>5
<1>5. ASSUME f = 1, at < Anchored(m + 1, anchor), t <= Anchored(m, anchor), Anchored(m, anchor) <= at
      PROVE  b = 0
  <2>1. m + 0 + 1 \in Months /\ m + 1 + 1 \in Months /\ 0 \in Nat /\ 1 \in Nat
    BY <1>1, <1>5 DEF Months, m
  <2>2. /\ PeriodAt(t, 0, anchor).start = Anchored(m, anchor)
        /\ PeriodAt(t, 1, anchor).start = Anchored(m + 1, anchor)
    BY <1>1, <1>3, <2>1
  <2>3. settled(0)
    BY <1>5, <2>2
  <2>4. Anchored(m, anchor) \in Nat /\ Anchored(m + 1, anchor) \in Nat
    BY <1>1, <2>1, AnchoredIn
  <2>5. ~ settled(1)
    <3>1. ~ (PeriodAt(t, 1, anchor).start <= at)
      BY <1>1, <1>5, <2>2, <2>4
    <3>2. ~ (PeriodAt(t, 1 - 1, anchor).start < t) 
      <4>1. 1 - 1 = 0
        OBVIOUS
      <4> QED BY <1>1, <1>5, <2>2, <2>4, <4>1
    <3> QED BY <3>1, <3>2
  <2>6. stops(0)
    <3>1. \A j \in 0 + 1 .. f : j = 1
      BY <1>5
    <3> QED BY <2>3, <2>5, <3>1
  <2>7. b \in 0 .. f /\ stops(b)
    <3>1. 0 \in 0 .. f
      BY <1>5
    <3> QED BY <1>2, <2>6, <3>1
  <2>8. b # 1
    <3>1. 1 + LoopGuard # f
      BY <1>1, <1>5
    <3> QED BY <2>5, <2>7, <3>1
  <2> QED BY <1>5, <2>7, <2>8
<1> QED BY <1>4, <1>5 DEF m, b

\* Where the jump lands: in the period that starts at t, or in the period
\* between two boundaries, neither of them before t.
LEMMA JumpLands ==
  ASSUME NEW t \in Days, NEW at \in Days, t <= at, NEW anchor \in AnchorDays
  PROVE  \/ /\ at < NextAnchorAfter(t, anchor)
            /\ PeriodContaining(t, anchor, at) = ComputeAnchoredPeriod(t, anchor)
         \/ /\ NextAnchorAfter(t, anchor) <= at
            /\ \E q \in Months :
                 /\ q + 1 \in Months /\ Anchored(q, anchor) <= at /\ at < Anchored(q + 1, anchor)
                 /\ PeriodContaining(t, anchor, at) =
                      [start |-> Anchored(q, anchor), end |-> Anchored(q + 1, anchor)]
<1> DEFINE m == MonthOf(t)
           f == StepsForward(t, Jump(t, at), anchor, at)
           b == StepsBack(t, f, anchor, at)
           N == NextAnchorAfter(t, anchor)
<1>1. /\ m \in Months /\ m \in Nat /\ m + 1 < LastMonth /\ LastMonth \in Nat /\ m + 0 = m
      /\ at \in Nat /\ t \in Nat /\ N \in Nat
  BY MonthFound, CalendarAssumption, NextAnchorLater DEF Months, Days
<1>2. ComputeAnchoredPeriod(t, anchor).end = N
  BY DEF ComputeAnchoredPeriod
<1>3. CASE at < N
  BY <1>2, <1>3 DEF PeriodContaining
<1>4. CASE ~ (at < N)
  <2>1. N <= at /\ PeriodContaining(t, anchor, at) = PeriodAt(t, b, anchor)
    BY <1>1, <1>2, <1>4 DEF PeriodContaining
  <2>2. /\ f \in Nat \ {0} /\ m + f + 1 \in Months /\ at < Anchored(m + f + 1, anchor)
        /\ f = 1 \/ Anchored(m + f, anchor) <= at
    BY Forth
  <2>3. /\ Anchored(m + f, anchor) <= at => b = f
        /\ f = 1 /\ at < Anchored(m + 1, anchor) /\ t <= Anchored(m, anchor)
             /\ Anchored(m, anchor) <= at => b = 0
    <3> HIDE DEF f
    <3> QED BY <2>2, Back
  <2>4. N = IF Anchored(m, anchor) > t THEN Anchored(m, anchor) ELSE Anchored(m + 1, anchor)
    BY FirstBoundary
  <2> HIDE DEF m, f, b, N
  <2>5. m + 1 \in Months /\ Anchored(m, anchor) \in Nat /\ Anchored(m + 1, anchor) \in Nat
    BY <1>1, AnchoredIn DEF Months
  <2>6. \E q \in Nat : /\ b = q /\ m + q + 1 \in Months
                       /\ Anchored(m + q, anchor) <= at /\ at < Anchored(m + q + 1, anchor)
    <3>1. CASE Anchored(m + f, anchor) <= at
      BY <2>2, <2>3, <3>1
    <3>2. CASE ~ (Anchored(m + f, anchor) <= at)
      <4>1. f = 1 /\ at < Anchored(m + 1, anchor)
        BY <1>1, <2>2, <2>5, <3>2
      <4>2. t <= Anchored(m, anchor) /\ Anchored(m, anchor) <= at
        BY <1>1, <2>1, <2>4, <2>5, <4>1
      <4>3. b = 0
        BY <2>3, <4>1, <4>2
      <4> QED BY <1>1, <2>5, <4>1, <4>2, <4>3
    <3> QED BY <3>1, <3>2
  <2>7. PICK q \in Nat : /\ b = q /\ m + q + 1 \in Months
                         /\ Anchored(m + q, anchor) <= at /\ at < Anchored(m + q + 1, anchor)
    BY <2>6
  <2>8. PeriodAt(t, q, anchor) = [start |-> Anchored(m + q, anchor), end |-> Anchored(m + q + 1, anchor)]
    BY <2>7, PeriodAtIs DEF m
  <2>9. m + q \in Months
    BY <1>1, <2>7 DEF Months
  <2> QED BY <2>1, <2>7, <2>8, <2>9 DEF N
<1> QED BY <1>3, <1>4

-----------------------------------------------------------------------------
(* What the jump promises *)

\* A day lies between one pair of boundaries only.
LEMMA OneMonthHolds ==
  ASSUME NEW x \in Nat, NEW q \in Months, NEW r \in Months, NEW anchor \in AnchorDays,
         q + 1 \in Months, r + 1 \in Months,
         Anchored(q, anchor) <= x, x < Anchored(q + 1, anchor),
         Anchored(r, anchor) <= x, x < Anchored(r + 1, anchor)
  PROVE  q = r
<1>1. LastMonth \in Nat
  BY CalendarAssumption
<1>2. ASSUME NEW i \in Months, NEW j \in Months, j + 1 \in Months, i > j,
             Anchored(i, anchor) <= x, x < Anchored(j + 1, anchor)
      PROVE  FALSE
  <2>1. i = j + 1 \/ Anchored(j + 1, anchor) < Anchored(i, anchor)
    BY <1>1, <1>2, AnchoredRises DEF Months
  <2>2. Anchored(j + 1, anchor) \in Nat /\ Anchored(i, anchor) \in Nat
    BY <1>2, AnchoredIn
  <2> QED BY <1>2, <2>1, <2>2
<1>3. ~ (q > r) /\ ~ (r > q)
  BY <1>2
<1> QED BY <1>1, <1>3 DEF Months

\* The first boundary is that of a month, and the next is a month away.
LEMMA BoundaryFollows ==
  ASSUME NEW t \in Days, NEW anchor \in AnchorDays
  PROVE  \E r \in Months :
           /\ r + 1 \in Months /\ NextAnchorAfter(t, anchor) = Anchored(r, anchor)
           /\ NextAnchorAfter(NextAnchorAfter(t, anchor), anchor) = Anchored(r + 1, anchor)
<1> DEFINE m == MonthOf(t)
<1>1. m \in Nat /\ m + 1 < LastMonth /\ LastMonth \in Nat
  BY MonthFound, CalendarAssumption DEF Months
<1>2. NextAnchorAfter(t, anchor) = Anchored(m, anchor) \/ NextAnchorAfter(t, anchor) = Anchored(m + 1, anchor)
  BY FirstBoundary
<1> HIDE DEF m
<1>3. m \in Months /\ m + 1 \in Months /\ (m + 1) + 1 \in Months
  BY <1>1 DEF Months
<1>4. PICK r \in {m, m + 1} : NextAnchorAfter(t, anchor) = Anchored(r, anchor)
  BY <1>2
<1>5. r \in Months /\ r + 1 \in Months
  BY <1>3, <1>4
<1> QED BY <1>4, <1>5, AnchoredNext

\* Whatever day the period containing a later day is asked for, the answer is
\* a period that contains that day (billing/period.ts, periodContaining).
THEOREM JumpContains ==
  ASSUME NEW t \in Days, NEW at \in Days, t <= at, NEW anchor \in AnchorDays
  PROVE  LET p == PeriodContaining(t, anchor, at) IN
           p.start \in Nat /\ p.end \in Nat /\ t <= p.start /\ p.start <= at /\ at < p.end
<1>1. t \in Nat /\ at \in Nat /\ NextAnchorAfter(t, anchor) \in Nat /\ NextAnchorAfter(t, anchor) > t
  BY NextAnchorLater DEF Days
<1>2. CASE /\ at < NextAnchorAfter(t, anchor)
           /\ PeriodContaining(t, anchor, at) = ComputeAnchoredPeriod(t, anchor)
  BY <1>1, <1>2 DEF ComputeAnchoredPeriod
<1>3. ASSUME NextAnchorAfter(t, anchor) <= at, NEW q \in Months, q + 1 \in Months,
             Anchored(q, anchor) <= at, at < Anchored(q + 1, anchor),
             PeriodContaining(t, anchor, at) =
               [start |-> Anchored(q, anchor), end |-> Anchored(q + 1, anchor)]
      PROVE  LET p == PeriodContaining(t, anchor, at) IN
               p.start \in Nat /\ p.end \in Nat /\ t <= p.start /\ p.start <= at /\ at < p.end
  <2>1. Anchored(q, anchor) \in Nat /\ Anchored(q + 1, anchor) \in Nat
    BY <1>3, AnchoredIn
  <2>2. t <= Anchored(q, anchor)
    <3>1. PICK r \in Months : r + 1 \in Months /\ NextAnchorAfter(t, anchor) = Anchored(r, anchor)
      BY BoundaryFollows
    <3>2. ~ (q < r)
      <4> SUFFICES ASSUME q < r PROVE FALSE
        OBVIOUS
      <4>1. q + 1 = r \/ Anchored(q + 1, anchor) < Anchored(r, anchor)
        BY <1>3, CalendarAssumption, AnchoredRises DEF Months
      <4>2. Anchored(r, anchor) \in Nat
        BY AnchoredIn
      <4> QED BY <1>1, <1>3, <2>1, <3>1, <4>1, <4>2
    <3>3. q = r \/ Anchored(r, anchor) < Anchored(q, anchor)
      BY <3>2, CalendarAssumption, AnchoredRises DEF Months
    <3> QED BY <1>1, <2>1, <3>1, <3>3
  <2> QED BY <1>3, <2>1, <2>2
<1> QED BY <1>2, <1>3, JumpLands

\* The jump leads where a tick that ran every day would have led: on the next
\* day either the period goes on, or it has ended and the next one begins.
\* This is the step of the invariant that PeriodWalk checks.
THEOREM JumpFollowsRenewals ==
  ASSUME NEW t \in Days, NEW at \in Days, t <= at, at + 1 \in Days, NEW anchor \in AnchorDays
  PROVE  LET p == PeriodContaining(t, anchor, at) IN
           PeriodContaining(t, anchor, at + 1) =
             IF at + 1 < p.end THEN p ELSE NextAnchoredPeriod(p, anchor)
<1> DEFINE N == NextAnchorAfter(t, anchor)
           Between(q, x) == /\ q + 1 \in Months /\ Anchored(q, anchor) <= x /\ x < Anchored(q + 1, anchor)
           Month(q) == [start |-> Anchored(q, anchor), end |-> Anchored(q + 1, anchor)]
<1>1. t \in Nat /\ at \in Nat /\ N \in Nat /\ N > t /\ LastMonth \in Nat /\ t <= at + 1
  BY NextAnchorLater, CalendarAssumption DEF Days
<1>2. \/ at < N /\ PeriodContaining(t, anchor, at) = [start |-> t, end |-> N]
      \/ N <= at /\ \E q \in Months : Between(q, at) /\ PeriodContaining(t, anchor, at) = Month(q)
  BY JumpLands DEF ComputeAnchoredPeriod
<1>3. \/ at + 1 < N /\ PeriodContaining(t, anchor, at + 1) = [start |-> t, end |-> N]
      \/ N <= at + 1 /\ \E q \in Months : Between(q, at + 1) /\ PeriodContaining(t, anchor, at + 1) = Month(q)
  <2> DEFINE next == at + 1
  <2>1. next \in Days /\ t <= next
    BY <1>1
  <2> HIDE DEF next
  <2>2. \/ next < N /\ PeriodContaining(t, anchor, next) = [start |-> t, end |-> N]
        \/ N <= next /\ \E q \in Months : Between(q, next) /\ PeriodContaining(t, anchor, next) = Month(q)
    BY <2>1, JumpLands DEF ComputeAnchoredPeriod
  <2> QED BY <2>2 DEF next
<1>4. CASE at + 1 < N
  <2>1. PeriodContaining(t, anchor, at) = [start |-> t, end |-> N]
    BY <1>1, <1>2, <1>4
  <2>2. PeriodContaining(t, anchor, at + 1) = [start |-> t, end |-> N]
    BY <1>1, <1>3, <1>4
  <2> QED BY <1>4, <2>1, <2>2
<1>5. CASE ~ (at + 1 < N)
  <2>1. PICK r \in Months : Between(r, at + 1) /\ PeriodContaining(t, anchor, at + 1) = Month(r)
    BY <1>3, <1>5
  <2>2. Anchored(r, anchor) \in Nat /\ Anchored(r + 1, anchor) \in Nat
    BY <2>1, AnchoredIn
  <2>3. CASE at < N
    <3>1. PICK q \in Months : /\ q + 1 \in Months /\ N = Anchored(q, anchor)
                              /\ NextAnchorAfter(N, anchor) = Anchored(q + 1, anchor)
      BY BoundaryFollows
    <3>2. N = at + 1
      BY <1>1, <1>5, <2>3
    <3>3. Between(q, at + 1)
      <4>1. Anchored(q, anchor) < Anchored(q + 1, anchor)
        BY <1>1, <3>1, AnchoredRises DEF Months
      <4> QED BY <1>1, <3>1, <3>2, <4>1
    <3>4. q = r
      BY <1>1, <2>1, <3>1, <3>3, OneMonthHolds
    <3>5. PeriodContaining(t, anchor, at) = [start |-> t, end |-> N]
      BY <1>1, <1>2, <2>3
    <3>6. NextAnchoredPeriod([start |-> t, end |-> N], anchor) = Month(q)
      BY <3>1 DEF NextAnchoredPeriod, ComputeAnchoredPeriod
    <3> HIDE DEF Month, N
    <3> QED BY <1>5, <2>1, <3>4, <3>5, <3>6
  <2>4. CASE ~ (at < N)
    <3>1. PICK q \in Months : Between(q, at) /\ PeriodContaining(t, anchor, at) = Month(q)
      BY <1>2, <2>4
    <3>2. Anchored(q, anchor) \in Nat /\ Anchored(q + 1, anchor) \in Nat
      BY <3>1, AnchoredIn
    <3>3. CASE at + 1 < Anchored(q + 1, anchor)
      <4>1. Between(q, at + 1)
        BY <1>1, <3>1, <3>2, <3>3
      <4>2. q = r
        BY <1>1, <2>1, <3>1, <4>1, OneMonthHolds
      <4> QED BY <2>1, <3>1, <3>3, <4>2
    <3>4. CASE ~ (at + 1 < Anchored(q + 1, anchor))
      <4>1. Anchored(q + 1, anchor) = at + 1
        BY <1>1, <3>1, <3>2, <3>4
      <4>2. MonthOf(at + 1) = q + 1 /\ MonthOf(at + 1) + 1 < LastMonth
        BY <3>1, <4>1, AnchoredIn, MonthFound
      <4>3. q + 1 \in Months /\ (q + 1) + 1 \in Months
        BY <1>1, <3>1, <4>2 DEF Months
      <4> DEFINE n == q + 1
      <4>4. n \in Months /\ n + 1 \in Months /\ Anchored(n, anchor) = at + 1
        BY <4>1, <4>3
      <4> HIDE DEF n
      <4>5. Between(n, at + 1)
        <5>1. Anchored(n, anchor) < Anchored(n + 1, anchor)
          BY <1>1, <4>4, AnchoredRises DEF Months
        <5> QED BY <1>1, <4>4, <5>1
      <4>6. n = r
        BY <1>1, <2>1, <4>4, <4>5, OneMonthHolds
      <4>7. NextAnchoredPeriod(Month(q), anchor) = Month(n)
        <5>1. NextAnchorAfter(Anchored(n, anchor), anchor) = Anchored(n + 1, anchor)
          BY <4>4, AnchoredNext
        <5> QED BY <5>1 DEF NextAnchoredPeriod, ComputeAnchoredPeriod, n
      <4>8. Month(q).end = Anchored(q + 1, anchor)
        OBVIOUS
      <4> HIDE DEF Month
      <4> QED BY <2>1, <3>1, <3>4, <4>6, <4>7, <4>8
    <3> QED BY <3>3, <3>4
  <2> QED BY <2>3, <2>4
<1> QED BY <1>4, <1>5

\* A renewal, however late, moves the stored row and not the answer: asked from
\* the period that follows, the jump lands in the same period.
THEOREM RenewalKeepsJump ==
  ASSUME NEW t \in Days, NEW at \in Days, t <= at, NEW anchor \in AnchorDays,
         NextAnchorAfter(t, anchor) <= at
  PROVE  PeriodContaining(NextAnchorAfter(t, anchor), anchor, at) = PeriodContaining(t, anchor, at)
<1> DEFINE N == NextAnchorAfter(t, anchor)
           Between(q, x) == /\ q + 1 \in Months /\ Anchored(q, anchor) <= x /\ x < Anchored(q + 1, anchor)
           Month(q) == [start |-> Anchored(q, anchor), end |-> Anchored(q + 1, anchor)]
<1>1. t \in Nat /\ at \in Nat /\ N \in Nat /\ N <= at /\ N \in Days
  BY NextAnchorLater, CalendarAssumption DEF Days
<1>2. PICK r \in Months : /\ r + 1 \in Months /\ N = Anchored(r, anchor)
                          /\ NextAnchorAfter(N, anchor) = Anchored(r + 1, anchor)
  BY BoundaryFollows
<1>3. PICK q \in Months : Between(q, at) /\ PeriodContaining(t, anchor, at) = Month(q)
  BY <1>1, JumpLands
<1>4. \/ at < NextAnchorAfter(N, anchor) /\ PeriodContaining(N, anchor, at) = [start |-> N, end |-> NextAnchorAfter(N, anchor)]
      \/ \E p \in Months : Between(p, at) /\ PeriodContaining(N, anchor, at) = Month(p)
  <2> HIDE DEF N
  <2> QED BY <1>1, JumpLands DEF ComputeAnchoredPeriod
<1>5. PICK p \in Months : Between(p, at) /\ PeriodContaining(N, anchor, at) = Month(p)
  BY <1>1, <1>2, <1>4
<1>6. p = q
  BY <1>1, <1>3, <1>5, OneMonthHolds
<1> QED BY <1>3, <1>5, <1>6

-----------------------------------------------------------------------------
\* PeriodWalk, for any days, anchors and horizon, and any agreement.
Walk(Starts, Anchors, Horizon, first, anchor, at, period) == INSTANCE PeriodWalk

\* The resolver's jump and the renewals of a tick that runs every day agree on
\* every day of every agreement, off its anchor too: whatever the calendar, the
\* first day, the anchor and the guards of the correcting loops
\* (billing/period.ts, periodContaining and nextAnchoredPeriod).
THEOREM RenewalsFollowed ==
  ASSUME NEW CONSTANT Starts, NEW CONSTANT Anchors, NEW CONSTANT Horizon,
         NEW VARIABLE first, NEW VARIABLE anchor, NEW VARIABLE at, NEW VARIABLE period,
         Starts \subseteq Days, Anchors \subseteq AnchorDays,
         Horizon \in Nat, \A t \in Starts : t + Horizon \in Days
  PROVE  Walk(Starts, Anchors, Horizon, first, anchor, at, period)!Spec
           => []Walk(Starts, Anchors, Horizon, first, anchor, at, period)!JumpAgreesWithRenewals
<1> DEFINE Begins == Walk(Starts, Anchors, Horizon, first, anchor, at, period)!Init
           Step == Walk(Starts, Anchors, Horizon, first, anchor, at, period)!Next
           Agrees == Walk(Starts, Anchors, Horizon, first, anchor, at, period)!JumpAgreesWithRenewals
           Where == first \in Starts /\ anchor \in AnchorDays /\ at \in first .. first + Horizon
           v == <<first, anchor, at, period>>
           \* The calendar as that module has it, the same as here:
           Month(t) == Walk(Starts, Anchors, Horizon, first, anchor, at, period)!MonthOf(t)
           Boundary(t, a) == Walk(Starts, Anchors, Horizon, first, anchor, at, period)!NextAnchorAfter(t, a)
           Period(t, k, a) == Walk(Starts, Anchors, Horizon, first, anchor, at, period)!PeriodAt(t, k, a)
           Land(t, x) == Walk(Starts, Anchors, Horizon, first, anchor, at, period)!Jump(t, x)
           On(t, k, a, x) == Walk(Starts, Anchors, Horizon, first, anchor, at, period)!StepsForward(t, k, a, x)
           Again(t, k, a, x) == Walk(Starts, Anchors, Horizon, first, anchor, at, period)!StepsBack(t, k, a, x)
<1>1. ASSUME NEW t \in Starts, NEW d \in t .. t + Horizon PROVE t \in Days /\ d \in Days /\ t <= d
  BY CalendarAssumption DEF Days
<1>2. \A t : Month(t) = MonthOf(t)
  BY DEF Walk!MonthOf, Walk!Months, MonthOf, Months
<1>3. \A t, a : Boundary(t, a) = NextAnchorAfter(t, a)
  BY DEF Walk!NextAnchorAfter, Walk!AddMonthsAnchored, Walk!DaysInMonth, Walk!MonthOf, Walk!Months,
         NextAnchorAfter, AddMonthsAnchored, DaysInMonth, MonthOf, Months
<1>4. \A t, k, a : Period(t, k, a) = PeriodAt(t, k, a)
  BY DEF Walk!PeriodAt, Walk!ComputeAnchoredPeriod, Walk!NextAnchorAfter, Walk!AddMonthsAnchored,
         Walk!DaysInMonth, Walk!MonthOf, Walk!Months, PeriodAt, ComputeAnchoredPeriod,
         NextAnchorAfter, AddMonthsAnchored, DaysInMonth, MonthOf, Months
<1>5. \A t, x : Land(t, x) = Jump(t, x)
  BY DEF Walk!Jump, Walk!MonthOf, Walk!Months, Jump, MonthOf, Months
<1>6. ASSUME NEW t, NEW k, NEW a, NEW x
      PROVE  /\ On(t, k, a, x) = StepsForward(t, k, a, x)
             /\ Again(t, k, a, x) = StepsBack(t, k, a, x)
  <2> HIDE DEF Period
  <2>1. On(t, k, a, x) = CHOOSE n \in k .. k + LoopGuard :
           /\ x < Period(t, n, a).end \/ n = k + LoopGuard
           /\ \A j \in k .. n - 1 : x >= Period(t, j, a).end
    BY Zenon DEF Walk!StepsForward, Period
  <2>2. Again(t, k, a, x) = CHOOSE n \in 0 .. k :
           /\ Period(t, n, a).start <= x \/ Period(t, n - 1, a).start < t \/ n + LoopGuard = k
           /\ \A j \in n + 1 .. k : ~ (Period(t, j, a).start <= x \/ Period(t, j - 1, a).start < t)
    BY Zenon DEF Walk!StepsBack, Period
  <2>3. StepsBack(t, k, a, x) = CHOOSE n \in 0 .. k :
           /\ PeriodAt(t, n, a).start <= x \/ PeriodAt(t, n - 1, a).start < t \/ n + LoopGuard = k
           /\ \A j \in n + 1 .. k : ~ (PeriodAt(t, j, a).start <= x \/ PeriodAt(t, j - 1, a).start < t)
    BY Zenon DEF StepsBack
  <2> HIDE DEF On, Again
  <2> QED BY <1>4, <2>1, <2>2, <2>3, Zenon DEF StepsForward
<1>7. Begins => /\ first \in Starts /\ anchor \in Anchors \cup {AnchorDayOf(first)} /\ at = first
                /\ period = ComputeAnchoredPeriod(first, anchor)
  BY <1>2, <1>3 DEF Walk!Init, Walk!ComputeAnchoredPeriod, ComputeAnchoredPeriod, Walk!AnchorDayOf, AnchorDayOf
<1>8. Step => /\ first' = first /\ anchor' = anchor /\ at < first + Horizon /\ at' = at + 1
              /\ period' = IF at' < period.end THEN period ELSE NextAnchoredPeriod(period, anchor)
  BY <1>3 DEF Walk!Next, Walk!Tomorrow, Walk!NextAnchoredPeriod,
         Walk!ComputeAnchoredPeriod, NextAnchoredPeriod, ComputeAnchoredPeriod
<1>9. Agrees <=> PeriodContaining(first, anchor, at) = period
  BY <1>3, <1>4, <1>5, <1>6
     DEF Walk!JumpAgreesWithRenewals, Walk!PeriodContaining, Walk!ComputeAnchoredPeriod,
         PeriodContaining, ComputeAnchoredPeriod
<1>10. (Agrees <=> PeriodContaining(first, anchor, at) = period)'
  BY <1>9, PTL
<1>11. Begins => Where /\ Agrees
  <2> SUFFICES ASSUME Begins PROVE Where /\ Agrees
    OBVIOUS
  <2> HIDE DEF Begins, Agrees
  <2>1. first \in Starts /\ first \in Days /\ first \in Nat
    <3>1. first \in Starts
      BY <1>7, Zenon
    <3> QED BY <3>1 DEF Days
  <2>2. anchor \in AnchorDays
    BY <1>7, <2>1, AnchorImplied
  <2>3. first < NextAnchorAfter(first, anchor)
    BY <2>1, <2>2, NextAnchorLater
  <2>4. PeriodContaining(first, anchor, first) = ComputeAnchoredPeriod(first, anchor)
    BY <2>3 DEF PeriodContaining, ComputeAnchoredPeriod
  <2> QED BY <1>7, <1>9, <2>1, <2>2, <2>4
<1>12. Where /\ Agrees /\ [Step]_v => Where' /\ Agrees'
  <2> SUFFICES ASSUME Where, Agrees, [Step]_v PROVE Where' /\ Agrees'
    OBVIOUS
  <2> HIDE DEF Agrees, Step
  <2>1. CASE UNCHANGED v
    BY <1>9, <1>10, <2>1
  <2>2. CASE Step
    <3>1. first \in Nat /\ at \in Nat /\ first <= at
      BY <1>1, CalendarAssumption DEF Days
    <3>2. at + 1 \in first .. first + Horizon
      BY <1>8, <2>2, <3>1
    <3>3. first \in Days /\ at \in Days /\ first <= at /\ at + 1 \in Days
      BY <1>1, <3>2
    <3>4. PeriodContaining(first, anchor, at + 1) = period'
      BY <1>8, <1>9, <2>2, <3>3, JumpFollowsRenewals
    <3> QED BY <1>8, <1>10, <2>2, <3>2, <3>4
  <2> QED BY <2>1, <2>2
<1> QED BY <1>11, <1>12, PTL DEF Walk!Spec, Walk!vars
=============================================================================
