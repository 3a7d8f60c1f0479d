---------------------------- MODULE Entitlement ----------------------------
(***************************************************************************)
(* What a hotel is served and what it is metered, asked of a cache: the    *)
(* subscription row behind Redis, the usage buckets, and the billing tick  *)
(* that closes a period under its lock (services/billing.service.ts from   *)
(* getEffectiveSubscription on, services/usage.service.ts,                 *)
(* bootstrap/crons.ts).                                                    *)
(*                                                                         *)
(* The cache holds the raw row; the verdict is EffectiveStatus at the      *)
(* instant of the call.  The tick here is its renewals only, and converts  *)
(* trials in one step: module Subscription has all of it.                  *)
(***************************************************************************)
EXTENDS EffectiveStatus, FiniteSetsExt

CONSTANTS
    Uses,       \* conversations or AI replies that may be metered at once
    Ticks,      \* processes that run the billing cron
    FirstRow,   \* the row at first
    MaxDay,     \* bound: the last day
    MaxUses,    \* bound: uses metered
    MaxWrites,  \* bound: decisions of staff
    MaxFaults   \* bound: failed Redis calls, locks outlived
ASSUME EntitlementAssumption ==
    /\ FirstRow \in Row /\ FirstRow.start = 0   \* no row starts in the future
    /\ MaxDay \in Days /\ "free" \notin Ticks
    /\ MaxUses \in Nat /\ MaxWrites \in Nat /\ MaxFaults \in Nat

VARIABLES
    now,
    sub,       \* the hotel's latest Subscription row
    cache,     \* the Redis entry: a row, and whether its staleness is accounted for
    dels,      \* DELs that were fired and have not arrived
    use,       \* use[u]: a call that meters one unit
    fill,      \* fill[u]: the row of a SET that was fired and has not arrived
    usage,     \* usage[p]: the bucket of the period that starts on day p
    billed,    \* billed[p]: the usage on the invoice of that period
    tick,      \* tick[t]: a run of the cron
    lock,      \* the holder of the Redis lock
    outlived,  \* runs that outlived their lock
    writes, faults

vars == <<now, sub, cache, dels, use, fill, usage, billed, tick, lock, outlived, writes, faults>>
metering == <<use, fill, usage>>
cron == <<billed, tick, lock, outlived>>

NoRow == [status |-> "NONE", start |-> 0, end |-> 0, renew |-> FALSE, anchor |-> 1, sched |-> FALSE]
NoEntry == [row |-> NoRow, excused |-> FALSE]
NotBilled == -1
IdleUse == [pc |-> "idle", row |-> NoRow, when |-> 0]
IdleTick == [pc |-> "idle", row |-> NoRow, used |-> 0]
Free == "free"
Fault == faults < MaxFaults /\ faults' = faults + 1

\* What staff decide about a row, as opposed to the dates the tick moves on.
Decision(row) == <<row.status, row.renew>>
Stale == cache # NoEntry /\ Decision(cache.row) # Decision(sub)

-----------------------------------------------------------------------------
(* Writes, each followed by a DEL that nobody waits for *)

Invalidate == dels' = dels + 1

Write(row) == sub.status \in Live /\ writes < MaxWrites /\ writes' = writes + 1 /\ sub' = row

\* Fault: the write forgets the cache.
CancelAtPeriodEnd_NoInvalidation ==
    /\ Write([sub EXCEPT !.renew = FALSE]) /\ UNCHANGED <<dels, now, cache, metering, cron, faults>>

CancelAtPeriodEnd ==
    /\ Write([sub EXCEPT !.renew = FALSE]) /\ Invalidate
    /\ UNCHANGED <<now, cache, metering, cron, faults>>

CancelNow ==
    /\ Write([sub EXCEPT !.status = "CANCELED", !.renew = FALSE, !.end = now]) /\ Invalidate
    /\ UNCHANGED <<now, cache, metering, cron, faults>>

MarkPastDue ==
    /\ sub.status = "ACTIVE" /\ Write([sub EXCEPT !.status = "PAST_DUE"]) /\ Invalidate
    /\ UNCHANGED <<now, cache, metering, cron, faults>>

\* The DEL arrives, or it fails and is logged.
Delete ==
    /\ dels > 0 /\ dels' = dels - 1 /\ cache' = NoEntry
    /\ UNCHANGED <<now, sub, metering, cron, writes, faults>>

DeleteFails ==
    /\ dels > 0 /\ Fault /\ dels' = dels - 1
    /\ cache' = IF cache = NoEntry THEN cache ELSE [cache EXCEPT !.excused = TRUE]
    /\ UNCHANGED <<now, sub, metering, cron, writes>>

Expires == cache # NoEntry

\* The entry's time to live runs out.
Expire ==
    /\ Expires /\ cache' = NoEntry
    /\ UNCHANGED <<now, sub, dels, metering, cron, writes, faults>>

\* The time to live is clamped to the next boundary of the cached row.
Boundary(row) == ResolveEffectiveState(row, now).end
Midnight ==
    /\ now < MaxDay /\ now' = now + 1
    /\ cache' = IF cache # NoEntry /\ Boundary(cache.row) = now + 1 THEN NoEntry ELSE cache
    /\ UNCHANGED <<sub, dels, metering, cron, writes, faults>>

-----------------------------------------------------------------------------
(* Metering: the gate and the meter ask one after the other *)

Seen == IF cache # NoEntry THEN cache.row ELSE sub

\* A hotel that is not served is not metered.  The meter's call begins, and
\* takes the time, before it reads the cache.
Begin(u) ==
    /\ use[u].pc = "idle" /\ IsServed(ResolveEffectiveState(Seen, now))
    /\ use' = [use EXCEPT ![u] = [pc |-> "get", row |-> NoRow, when |-> now]]
    /\ UNCHANGED <<now, sub, cache, dels, fill, usage, cron, writes, faults>>

\* A failed GET is a miss.
Get(u) ==
    /\ use[u].pc = "get"
    /\ \/ cache # NoEntry /\ use' = [use EXCEPT ![u].pc = "count", ![u].row = cache.row] /\ UNCHANGED faults
       \/ cache = NoEntry /\ use' = [use EXCEPT ![u].pc = "load"] /\ UNCHANGED faults
       \/ cache # NoEntry /\ Fault /\ use' = [use EXCEPT ![u].pc = "load"]
    /\ UNCHANGED <<now, sub, cache, dels, fill, usage, cron, writes>>

Load(u) ==
    /\ use[u].pc = "load" /\ fill[u] = NoRow
    /\ use' = [use EXCEPT ![u].pc = "count", ![u].row = sub]
    /\ fill' = [fill EXCEPT ![u] = sub]
    /\ UNCHANGED <<now, sub, cache, dels, usage, cron, writes, faults>>

\* The SET arrives, however late; a SET that crossed a write is what the
\* time to live is for.
Fill(u) ==
    /\ fill[u] # NoRow
    /\ cache' = [row |-> fill[u], excused |-> Decision(fill[u]) # Decision(sub)]
    /\ fill' = [fill EXCEPT ![u] = NoRow]
    /\ UNCHANGED <<now, sub, dels, use, usage, cron, writes, faults>>

FillFails(u) ==
    /\ fill[u] # NoRow /\ Fault /\ fill' = [fill EXCEPT ![u] = NoRow]
    /\ UNCHANGED <<now, sub, cache, dels, use, usage, cron, writes>>

\* Fault: the bucket of the stored period, which lags until the tick has run.
UsagePeriod_Stored(row, at) == Stored(row)

\* A hotel with no live row is metered by the calendar month.
UsagePeriod(row, at) ==
    IF row.status \in Live THEN ResolveEffectiveState(row, at)
    ELSE [start |-> MonthStart[MonthOf(at)], end |-> MonthStart[MonthOf(at) + 1]]

Bucket(u) == UsagePeriod(use[u].row, use[u].when)

TotalUsed == FoldSet(LAMBDA p, sum : usage[p] + sum, 0, DOMAIN usage)

Count(u) ==
    /\ use[u].pc = "count" /\ TotalUsed < MaxUses
    /\ usage' = [usage EXCEPT ![Bucket(u).start] = @ + 1]
    /\ use' = [use EXCEPT ![u] = IdleUse]
    /\ UNCHANGED <<now, sub, cache, dels, fill, cron, writes, faults>>

-----------------------------------------------------------------------------
(* The billing tick *)

\* SET NX with a time to live, and a token to know the lock by.
TickStart(t) ==
    /\ tick[t].pc = "idle" /\ lock = Free
    /\ lock' = t /\ tick' = [tick EXCEPT ![t].pc = "list"]
    /\ UNCHANGED <<now, sub, cache, dels, metering, billed, outlived, writes, faults>>

LockExpires(t) ==
    /\ lock = t /\ Fault
    /\ lock' = Free /\ outlived' = outlived \cup {t}
    /\ UNCHANGED <<now, sub, cache, dels, metering, billed, tick, writes>>

Convert(t) ==
    /\ tick[t].pc = "list" /\ sub.status = "TRIALING" /\ sub.sched /\ sub.end <= now
    /\ LET anchor == AnchorDayOf(sub.end)
           period == ComputeAnchoredPeriod(sub.end, anchor)
       IN  sub' = [sub EXCEPT !.status = "ACTIVE", !.start = period.start, !.end = period.end,
                              !.renew = TRUE, !.anchor = anchor, !.sched = FALSE]
    /\ Invalidate
    /\ UNCHANGED <<now, cache, metering, cron, writes, faults>>

Due == sub.status \in {"ACTIVE", "PAST_DUE"} /\ sub.renew /\ sub.end <= now

\* The usage of the period to be closed is read before the transaction that
\* bills it and rolls the row.
RenewRead(t) ==
    /\ tick[t].pc = "list" /\ Due
    /\ tick' = [tick EXCEPT ![t] = [pc |-> "renew", row |-> sub, used |-> usage[sub.start]]]
    /\ UNCHANGED <<now, sub, cache, dels, metering, billed, lock, outlived, writes, faults>>

\* Fault: the invoice carries the new period's dates.
RenewWrite_BillsTheNewPeriod(t) ==
    /\ tick[t].pc = "renew"
    /\ LET closed == tick[t].row
           next == NextAnchoredPeriod(Stored(closed), closed.anchor)
       IN  /\ billed' = [billed EXCEPT ![next.start] = IF @ = NotBilled THEN tick[t].used ELSE @]
           /\ sub' = [sub EXCEPT !.start = next.start, !.end = next.end]
    /\ tick' = [tick EXCEPT ![t] = [IdleTick EXCEPT !.pc = "list"]]
    /\ Invalidate
    /\ UNCHANGED <<now, cache, metering, lock, outlived, writes, faults>>

RenewWrite(t) ==
    /\ tick[t].pc = "renew"
    /\ LET closed == tick[t].row
           next == NextAnchoredPeriod(Stored(closed), closed.anchor)
       IN  /\ billed' = [billed EXCEPT ![closed.start] = IF @ = NotBilled THEN tick[t].used ELSE @]
           /\ sub' = [sub EXCEPT !.start = next.start, !.end = next.end]
    /\ tick' = [tick EXCEPT ![t] = [IdleTick EXCEPT !.pc = "list"]]
    /\ Invalidate
    /\ UNCHANGED <<now, cache, metering, lock, outlived, writes, faults>>

\* Fault: the lock is deleted whoever holds it.
Unlock_Any(t) == lock' = Free
\* Compare and delete: a lock that another run took since is left alone.
Unlock(t) == lock' = IF lock = t THEN Free ELSE lock

TickEnd(t) ==
    /\ tick[t].pc = "list" /\ Unlock(t)
    /\ tick' = [tick EXCEPT ![t] = IdleTick] /\ outlived' = outlived \ {t}
    /\ UNCHANGED <<now, sub, cache, dels, metering, billed, writes, faults>>

-----------------------------------------------------------------------------
Init ==
    /\ now = 0 /\ sub = FirstRow /\ cache = NoEntry /\ dels = 0
    /\ use = [u \in Uses |-> IdleUse] /\ fill = [u \in Uses |-> NoRow]
    /\ usage = [p \in 0 .. MaxDay |-> 0] /\ billed = [p \in 0 .. MaxDay |-> NotBilled]
    /\ tick = [t \in Ticks |-> IdleTick] /\ lock = Free /\ outlived = {}
    /\ writes = 0 /\ faults = 0

Meter(u) == Get(u) \/ Load(u) \/ Fill(u) \/ FillFails(u) \/ Count(u)
Run(t) == Convert(t) \/ RenewRead(t) \/ RenewWrite(t)

Next ==
    \/ CancelAtPeriodEnd \/ CancelNow \/ MarkPastDue \/ Delete \/ DeleteFails \/ Expire \/ Midnight
    \/ \E u \in Uses : Begin(u) \/ Meter(u)
    \/ \E t \in Ticks : TickStart(t) \/ LockExpires(t) \/ Run(t) \/ TickEnd(t)

Spec == Init /\ [][Next]_vars

-----------------------------------------------------------------------------
(* Properties *)

\* The variables have their types, and no invoice bills more than its period was
\* metered, although the usage is read before the transaction that bills it and
\* two runs may close the same period (billing.service.ts:1183).
TypeOK ==
    /\ \A p \in 0 .. MaxDay : usage[p] \in Nat /\ billed[p] \in {NotBilled} \cup 0 .. usage[p]
    /\ sub \in Row /\ cache.row \in Row \cup {NoRow} /\ cache.excused \in BOOLEAN
    /\ now \in 0 .. MaxDay /\ dels \in Nat
    /\ lock \in Ticks \cup {Free} /\ outlived \subseteq {t \in Ticks : tick[t].pc # "idle"}

\* A use is metered into a period that has begun and had not ended when the
\* call was made, however late the tick that rolls the row and however old the
\* cached row, unless the hotel had lapsed (usage.service.ts:56-66: usage must
\* not go to a period that is over).
MeteredInItsPeriod ==
    \A u \in Uses : use[u].pc = "count" =>
        \/ Bucket(u).start <= now /\ use[u].when < Bucket(u).end
        \/ ~IsServed(ResolveEffectiveState(use[u].row, use[u].when))

\* A cached row that says otherwise than the database is about to be deleted,
\* or its DEL failed, or its SET crossed the write: no write forgets the cache.
StaleIsExplained == Stale => dels > 0 \/ cache.excused

\* Two runs of the billing tick overlap only if one of them outlived its lock,
\* and even then the end of that run does not let in a third (crons.ts:36-42).
OneLockedTick ==
    \A s, t \in Ticks \ outlived : tick[s].pc # "idle" /\ tick[t].pc # "idle" => s = t
=============================================================================
