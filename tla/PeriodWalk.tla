----------------------------- MODULE PeriodWalk -----------------------------
(***************************************************************************)
(* The two ways the code follows one agreement through time.  The billing  *)
(* tick renews period by period (nextAnchoredPeriod); the resolver, which  *)
(* must answer although no tick ever ran, computes the period that         *)
(* contains the present from the first one (periodContaining).  A day of   *)
(* this specification is a day on which the tick ran on time.              *)
(***************************************************************************)
EXTENDS BillingPeriod

CONSTANTS
    Starts,        \* days on which agreements start, ...
    Anchors,       \* ... and the anchors they may be billed on
    Horizon        \* bound: days an agreement is followed

ASSUME WalkAssumption ==
    /\ Starts \subseteq Days /\ Anchors \subseteq AnchorDays
    /\ Horizon \in Nat /\ \A t \in Starts : t + Horizon \in Days

VARIABLES
    first,         \* the day the agreement starts
    anchor,        \* its anchor day
    at,            \* the present
    period         \* the period the ticks so far have rolled to

vars == <<first, anchor, at, period>>

\* A start need not lie on its anchor: an extension moves the end of a period
\* and with it the start of the next.
Init ==
    /\ first \in Starts
    /\ anchor \in Anchors \cup {AnchorDayOf(first)}
    /\ at = first
    /\ period = ComputeAnchoredPeriod(first, anchor)

Tomorrow ==
    /\ at < first + Horizon
    /\ at' = at + 1
    /\ period' = IF at' < period.end THEN period ELSE NextAnchoredPeriod(period, anchor)
    /\ UNCHANGED <<first, anchor>>

Next == Tomorrow

Spec == Init /\ [][Next]_vars

-----------------------------------------------------------------------------
(* Properties *)

\* The comment of periodContaining: access has zero delay because the jump
\* lands where the renewals would have led, off the anchor too.
JumpAgreesWithRenewals == PeriodContaining(first, anchor, at) = period

=============================================================================
