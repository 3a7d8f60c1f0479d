---------------------------- MODULE MCPeriodWalk ----------------------------
(* PeriodWalk on the Gregorian calendar from January 2027, 2028 a leap year. *)
EXTENDS PeriodWalk

MonthLength(m) ==
    CASE m % 12 \in {3, 5, 8, 10} -> 30
      [] m % 12 = 1 -> IF m = 13 THEN 29 ELSE 28
      [] OTHER -> 31

Gregorian ==
    LET begins[m \in 0 .. LastMonth + 1] ==
          IF m = 0 THEN 0 ELSE begins[m - 1] + MonthLength(m - 1)
    IN  [m \in 0 .. LastMonth + 1 |-> begins[m]]

\* The first and the middle of January, its last days and those of February.
WinterDays == {0, 14} \cup 27 .. 31 \cup 57 .. 58
=============================================================================
