--------------------------- MODULE MCSubscription ---------------------------
(* Small instances of Subscription for TLC. *)
EXTENDS Subscription, TLC

CONSTANTS h1, h2

\* A calendar of months of three and two days: an anchor on the third day is
\* clamped every other month.
UnevenMonths == [m \in 0 .. LastMonth + 1 |-> (m \div 2) * 5 + (m % 2) * 3]

\* Months of two days and one: a catch-up of two periods within three days.
ShortMonths == [m \in 0 .. LastMonth + 1 |-> (m \div 2) * 3 + (m % 2) * 2]

HandlerSymmetry == Permutations(Handlers)
=============================================================================
