---------------------------- MODULE BillingPeriod ----------------------------
(***************************************************************************)
(* The calendar arithmetic of billing/period.ts: anchored monthly periods. *)
(* Instants are local midnights, numbered by the day; the calendar is a    *)
(* constant, the day each month begins on, so that the same definitions    *)
(* are checked on the Gregorian calendar and used on a tiny one.  Time     *)
(* zones and daylight saving only decide which instant a local midnight    *)
(* is, and are left out.  Periods are half-open, [start, end).             *)
(***************************************************************************)
EXTENDS Integers, FiniteSets

CONSTANTS
    LastMonth,     \* bound: the calendar covers the months 0 .. LastMonth
    MonthStart,    \* MonthStart[m] is the first day of month m
    LoopGuard      \* the guard of the correcting loops of periodContaining

Months == 0 .. LastMonth

ASSUME CalendarAssumption ==
    /\ LastMonth \in Nat \ {0}
    /\ MonthStart \in [0 .. LastMonth + 1 -> Nat]
    /\ MonthStart[0] = 0
    /\ \A m \in Months : MonthStart[m + 1] - MonthStart[m] \in 1 .. 31

ASSUME GuardAssumption == LoopGuard \in Nat \ {0}

\* The days of the calendar; the arithmetic below may look two months ahead.
Days == 0 .. MonthStart[LastMonth - 1] - 1

MonthOf(t) == CHOOSE m \in Months : MonthStart[m] <= t /\ t < MonthStart[m + 1]

DaysInMonth(m) == MonthStart[m + 1] - MonthStart[m]

\* The day of the month, the anchor an instant implies.
AnchorDayOf(t) == t - MonthStart[MonthOf(t)] + 1

AnchorDays == 1 .. 31

-----------------------------------------------------------------------------
\* The anchor day n months from the month of t, clamped to that month.
AddMonthsAnchored(t, n, anchor) ==
    LET m == MonthOf(t) + n
    IN  MonthStart[m] + (IF anchor < DaysInMonth(m) THEN anchor ELSE DaysInMonth(m)) - 1

\* The first anchor boundary strictly after t.
NextAnchorAfter(t, anchor) ==
    LET thisMonth == AddMonthsAnchored(t, 0, anchor)
    IN  IF thisMonth > t THEN thisMonth ELSE AddMonthsAnchored(t, 1, anchor)

ComputeAnchoredPeriod(t, anchor) == [start |-> t, end |-> NextAnchorAfter(t, anchor)]

NextAnchoredPeriod(p, anchor) == ComputeAnchoredPeriod(p.end, anchor)

\* The period that starts on the anchor k months after the month of t.
PeriodAt(t, k, anchor) == ComputeAnchoredPeriod(AddMonthsAnchored(t, k, anchor), anchor)

\* Where periodContaining lands before it corrects itself, in months.
Jump(anchorStart, at) ==
    LET apart == MonthOf(at) - MonthOf(anchorStart)
    IN  IF apart - 1 > 1 THEN apart - 1 ELSE 1

\* The first correcting loop steps on while `at` lies beyond the period, ...
StepsForward(t, k, anchor, at) ==
    CHOOSE n \in k .. k + LoopGuard :
        /\ at < PeriodAt(t, n, anchor).end \/ n = k + LoopGuard
        /\ \A j \in k .. n - 1 : at >= PeriodAt(t, j, anchor).end

\* ... the second steps back while `at` lies before it, never to a period that
\* starts before t.
StepsBack(t, k, anchor, at) ==
    LET settled(n) == \/ PeriodAt(t, n, anchor).start <= at
                      \/ PeriodAt(t, n - 1, anchor).start < t
    IN  CHOOSE n \in 0 .. k :
            /\ settled(n) \/ n + LoopGuard = k
            /\ \A j \in n + 1 .. k : ~settled(j)

\* Fault: the jump is taken as the answer.
PeriodContaining_JumpOnly(anchorStart, anchor, at) ==
    IF at < ComputeAnchoredPeriod(anchorStart, anchor).end
    THEN ComputeAnchoredPeriod(anchorStart, anchor)
    ELSE PeriodAt(anchorStart, Jump(anchorStart, at), anchor)

\* The period that contains `at`, rolling on from anchorStart.
PeriodContaining(anchorStart, anchor, at) ==
    IF at < ComputeAnchoredPeriod(anchorStart, anchor).end
    THEN ComputeAnchoredPeriod(anchorStart, anchor)
    ELSE LET forth == StepsForward(anchorStart, Jump(anchorStart, at), anchor, at)
         IN  PeriodAt(anchorStart, StepsBack(anchorStart, forth, anchor, at), anchor)
=============================================================================
