--------------------------- MODULE EffectiveStatus ---------------------------
(***************************************************************************)
(* billing/effectiveStatus.ts: what a subscription row entitles the hotel  *)
(* to at an instant, computed from the clock.  The row is an input, not    *)
(* the verdict.  Rows without an end date or an anchor (legacy tenants)    *)
(* are not modelled.                                                       *)
(***************************************************************************)
EXTENDS BillingPeriod

Live     == {"TRIALING", "ACTIVE", "PAST_DUE"}   \* LIVE_STATUSES
Served   == {"TRIALING", "ACTIVE", "PAST_DUE"}   \* SERVED
Terminal == {"EXPIRED", "CANCELED"}
SubscriptionStatus == Live \cup Terminal

\* What is stored of a Subscription: the current period is [start, end),
\* sched says that a plan is scheduled for the end of a trial.
Row == [status : SubscriptionStatus, start : Nat, end : Nat,
        renew : BOOLEAN, anchor : AnchorDays, sched : BOOLEAN]

\* A verdict: the status in force, its period, and whether the stored row
\* lags behind it (needsMaterialization).
Verdict(status, period, lags) ==
    [status |-> status, start |-> period.start, end |-> period.end, lags |-> lags]

Stored(sub) == [start |-> sub.start, end |-> sub.end]

\* periodContaining from the end of a stored period, as a table of the calendar.
RolledTo == [from \in Days |-> [anchor \in AnchorDays |-> [at \in Days |-> PeriodContaining(from, anchor, at)]]]

\* Fault: renewal is rolled on from the day it is asked about.
ResolveEffectiveState_RollsFromNow(sub, now) ==
    CASE sub.status \in Terminal \/ now < sub.end ->
           Verdict(sub.status, Stored(sub), FALSE)
      [] sub.status = "TRIALING" /\ now >= sub.end /\ sub.sched ->
           Verdict("ACTIVE", RolledTo[sub.end][AnchorDayOf(sub.end)][now], TRUE)
      [] sub.status \in {"ACTIVE", "PAST_DUE"} /\ now >= sub.end /\ sub.renew ->
           Verdict(sub.status, ComputeAnchoredPeriod(now, sub.anchor), TRUE)
      [] OTHER -> Verdict("EXPIRED", Stored(sub), TRUE)

\* The cases of the resolver, in its order: terminal or inside the stored
\* period; trial converted; renewed; lapsed (trial over or not renewing).
ResolveEffectiveState(sub, now) ==
    CASE sub.status \in Terminal \/ now < sub.end ->
           Verdict(sub.status, Stored(sub), FALSE)
      [] sub.status = "TRIALING" /\ now >= sub.end /\ sub.sched ->
           Verdict("ACTIVE", RolledTo[sub.end][AnchorDayOf(sub.end)][now], TRUE)
      [] sub.status \in {"ACTIVE", "PAST_DUE"} /\ now >= sub.end /\ sub.renew ->
           Verdict(sub.status, RolledTo[sub.end][sub.anchor][now], TRUE)
      [] OTHER -> Verdict("EXPIRED", Stored(sub), TRUE)

IsServed(verdict) == verdict.status \in Served
=============================================================================
