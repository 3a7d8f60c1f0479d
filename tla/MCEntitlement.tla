--------------------------- MODULE MCEntitlement ----------------------------
(* Small instances of Entitlement for TLC. *)
EXTENDS Entitlement

CONSTANTS u1, t1, t2

\* Months of two days and one.
ShortMonths == [m \in 0 .. LastMonth + 1 |-> (m \div 2) * 3 + (m % 2) * 2]

\* A trial of one day with a plan to follow.
Trial == [status |-> "TRIALING", start |-> 0, end |-> 1, renew |-> FALSE, anchor |-> 1, sched |-> TRUE]
=============================================================================
