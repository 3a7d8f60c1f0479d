-------------------------- MODULE EntitlementProofs --------------------------
(***************************************************************************)
(* Proofs about Entitlement, for any calendar, any first row, any number   *)
(* of uses, of runs of the cron and of decisions, and any bounds.  The     *)
(* first part is about the cache and the lock, and does not look into the  *)
(* rows; the second is about the rows, the meter and the bills.            *)
(***************************************************************************)
EXTENDS Entitlement, BillingPeriodProofs

\* The shape of what is updated field by field.
Shaped ==
    /\ dels \in Nat
    /\ "excused" \in DOMAIN cache
    /\ DOMAIN tick = Ticks /\ \A t \in Ticks : "pc" \in DOMAIN tick[t]

\* A run that has not outlived its lock holds it.
LockHeld == \A t \in Ticks \ outlived : tick[t].pc # "idle" => lock = t

\* The inductive invariant.
EInv == Shaped /\ LockHeld /\ StaleIsExplained

-----------------------------------------------------------------------------
LEMMA InitEInv == Init => EInv
<1> SUFFICES ASSUME Init PROVE EInv
  OBVIOUS
<1>1. Shaped
  BY DEF Init, Shaped, NoEntry, IdleTick
<1>2. LockHeld
  BY DEF Init, LockHeld, IdleTick
<1>3. StaleIsExplained
  BY DEF Init, StaleIsExplained, Stale
<1> QED BY <1>1, <1>2, <1>3 DEF EInv

-----------------------------------------------------------------------------
(* The cache: a step leaves the cached decision and the stored one as they *)
(* are, or fires a DEL, or empties the cache, or accounts for the entry.   *)

\* A decision of staff is followed by a DEL.
LEMMA WritesExplained ==
  ASSUME EInv, CancelAtPeriodEnd \/ CancelNow \/ MarkPastDue
  PROVE  EInv'
<1>1. dels' = dels + 1 /\ UNCHANGED <<cache, tick, lock, outlived>>
  BY DEF CancelAtPeriodEnd, CancelNow, MarkPastDue, Invalidate, cron
<1>2. dels' > 0 /\ dels' \in Nat
  BY <1>1 DEF EInv, Shaped
<1> QED BY <1>1, <1>2 DEF EInv, Shaped, LockHeld, StaleIsExplained

\* The entry is deleted, expires, or its DEL fails.
LEMMA DropsExplained ==
  ASSUME EInv, Delete \/ DeleteFails \/ Expire \/ Midnight
  PROVE  EInv'
<1>1. UNCHANGED <<tick, lock, outlived>>
  BY DEF Delete, DeleteFails, Expire, Midnight, cron
<1>2. dels' \in Nat
  BY DEF EInv, Shaped, Delete, DeleteFails, Expire, Midnight
<1>3. "excused" \in DOMAIN cache'
  BY DEF EInv, Shaped, Delete, DeleteFails, Expire, Midnight, NoEntry
<1>4. StaleIsExplained'
  <2>1. CASE Delete \/ Expire
    BY <2>1 DEF Delete, Expire, StaleIsExplained, Stale
  <2>2. CASE DeleteFails
    BY <2>2 DEF DeleteFails, StaleIsExplained, Stale, EInv, Shaped
  <2>3. CASE Midnight
    BY <2>3 DEF Midnight, StaleIsExplained, Stale, EInv
  <2> QED BY <2>1, <2>2, <2>3
<1> QED BY <1>1, <1>2, <1>3, <1>4 DEF EInv, Shaped, LockHeld

\* A call that meters: only the SET writes the cache, and it says of itself
\* whether it crossed a write.
LEMMA MeterExplained ==
  ASSUME EInv, NEW u \in Uses, Begin(u) \/ Meter(u)
  PROVE  EInv'
<1>1. UNCHANGED <<sub, dels, tick, lock, outlived>>
  BY DEF Begin, Meter, Get, Load, Fill, FillFails, Count, cron
<1>2. CASE Fill(u)
  BY <1>1, <1>2 DEF Fill, EInv, Shaped, LockHeld, StaleIsExplained, Stale
<1>3. CASE ~Fill(u)
  <2>1. UNCHANGED cache
    BY <1>3 DEF Begin, Meter, Get, Load, FillFails, Count
  <2> QED BY <1>1, <2>1 DEF EInv, Shaped, LockHeld, StaleIsExplained, Stale
<1> QED BY <1>2, <1>3

-----------------------------------------------------------------------------
(* The lock *)

\* Whoever starts found the lock free, so nobody ran who had not outlived his.
LEMMA StartLocks ==
  ASSUME EInv, NEW t \in Ticks, TickStart(t)
  PROVE  EInv'
<1>1. /\ lock = Free /\ lock' = t /\ tick' = [tick EXCEPT ![t].pc = "list"]
      /\ UNCHANGED <<sub, cache, dels, outlived>>
  BY DEF TickStart
<1>2. \A s \in Ticks \ outlived : tick[s].pc = "idle"
  BY <1>1, EntitlementAssumption DEF EInv, LockHeld, Free
<1>3. Shaped'
  BY <1>1 DEF EInv, Shaped
<1>4. LockHeld'
  BY <1>1, <1>2 DEF EInv, Shaped, LockHeld
<1> QED BY <1>1, <1>3, <1>4 DEF EInv, StaleIsExplained, Stale

\* A lock that expires makes its holder one that outlived it.
LEMMA ExpiryKeepsLock ==
  ASSUME EInv, NEW t \in Ticks, LockExpires(t)
  PROVE  EInv'
<1>1. lock = t /\ outlived' = outlived \cup {t} /\ UNCHANGED <<sub, cache, dels, tick>>
  BY DEF LockExpires
<1>2. LockHeld'
  BY <1>1 DEF EInv, LockHeld
<1> QED BY <1>1, <1>2 DEF EInv, Shaped, StaleIsExplained, Stale

\* The passes fire a DEL whenever they write the row, and leave the lock.
LEMMA RunKeepsLock ==
  ASSUME EInv, NEW t \in Ticks, Run(t)
  PROVE  EInv'
<1>1. UNCHANGED <<cache, lock, outlived>>
  BY DEF Run, Convert, RenewRead, RenewWrite, cron
<1>2. tick[t].pc # "idle"
  BY DEF Run, Convert, RenewRead, RenewWrite
<1>3. Shaped' /\ (\A s \in Ticks : tick'[s].pc # "idle" => tick[s].pc # "idle")
  BY <1>2 DEF EInv, Shaped, Run, Convert, RenewRead, RenewWrite, Invalidate, IdleTick, cron
<1>4. LockHeld'
  BY <1>1, <1>3 DEF EInv, LockHeld
<1>5. StaleIsExplained'
  <2>1. CASE RenewRead(t)
    BY <1>1, <2>1 DEF RenewRead, EInv, StaleIsExplained, Stale
  <2>2. CASE Convert(t) \/ RenewWrite(t)
    BY <2>2 DEF Convert, RenewWrite, Invalidate, EInv, Shaped, StaleIsExplained
  <2> QED BY <2>1, <2>2 DEF Run
<1> QED BY <1>3, <1>4, <1>5 DEF EInv

\* The release takes away nobody's lock but one's own.
LEMMA EndUnlocks ==
  ASSUME EInv, NEW t \in Ticks, TickEnd(t)
  PROVE  EInv'
<1>1. /\ lock' = (IF lock = t THEN Free ELSE lock)
      /\ tick' = [tick EXCEPT ![t] = IdleTick] /\ outlived' = outlived \ {t}
      /\ UNCHANGED <<sub, cache, dels>>
  BY DEF TickEnd, Unlock
<1>2. Shaped'
  BY <1>1 DEF EInv, Shaped, IdleTick
<1>3. LockHeld'
  <2> SUFFICES ASSUME NEW s \in Ticks \ outlived', tick'[s].pc # "idle" PROVE lock' = s
    BY DEF LockHeld
  <2>1. s # t
    BY <1>1 DEF EInv, Shaped, IdleTick
  <2>2. lock = s
    BY <1>1, <2>1 DEF EInv, Shaped, LockHeld
  <2> QED BY <1>1, <2>1, <2>2
<1> QED BY <1>1, <1>2, <1>3 DEF EInv, StaleIsExplained, Stale

-----------------------------------------------------------------------------
\* Every step keeps the inductive invariant.
LEMMA NextEInv == EInv /\ [Next]_vars => EInv'
<1> SUFFICES ASSUME EInv, [Next]_vars PROVE EInv'
  OBVIOUS
<1>1. CASE CancelAtPeriodEnd \/ CancelNow \/ MarkPastDue
  BY <1>1, WritesExplained
<1>2. CASE Delete \/ DeleteFails \/ Expire \/ Midnight
  BY <1>2, DropsExplained
<1>3. CASE \E u \in Uses : Begin(u) \/ Meter(u)
  BY <1>3, MeterExplained
<1>4. CASE \E t \in Ticks : TickStart(t) \/ LockExpires(t) \/ Run(t) \/ TickEnd(t)
  BY <1>4, StartLocks, ExpiryKeepsLock, RunKeepsLock, EndUnlocks
<1>5. CASE UNCHANGED vars
  BY <1>5 DEF vars, EInv, Shaped, LockHeld, StaleIsExplained, Stale
<1> QED BY <1>1, <1>2, <1>3, <1>4, <1>5 DEF Next

\* The inductive invariant holds in every reachable state.
THEOREM EntitlementInvariance == Spec => []EInv
  BY InitEInv, NextEInv, PTL DEF Spec

\* A cached row that contradicts the database is about to be deleted, or its
\* DEL failed, or its SET crossed the write: no write of billing.service.ts
\* that is modelled forgets the cache.
THEOREM StalenessExplained == Spec => []StaleIsExplained
<1>1. EInv => StaleIsExplained
  BY DEF EInv
<1> QED BY <1>1, EntitlementInvariance, PTL

\* Two runs of the billing tick overlap only when one outlived its lock, and
\* its release then lets in no third (crons.ts, UNLOCK_LUA).
THEOREM TicksLocked == Spec => []OneLockedTick
<1>1. EInv => OneLockedTick
  BY DEF EInv, LockHeld, OneLockedTick
<1> QED BY <1>1, EntitlementInvariance, PTL

-----------------------------------------------------------------------------
(* Rows and buckets *)

\* Rows that processes hold: none of them starts after today, for the tick
\* rolls a row only to a period that its end has opened.
Kept(row, today) == row \in Row \cup {NoRow} /\ row.start <= today

\* A process of the cron that is about to write has read what it bills.
Reading(run) ==
    run.pc = "renew" =>
        run.row \in Row /\ run.row.end <= now /\ run.used <= usage[run.row.start]

Rows ==
    /\ sub \in Row /\ sub.start <= now
    /\ cache \in [row : Row \cup {NoRow}, excused : BOOLEAN] /\ Kept(cache.row, now)
    /\ fill \in [Uses -> Row \cup {NoRow}] /\ \A u \in Uses : Kept(fill[u], now)

Calls ==
    /\ use \in [Uses -> [pc : {"idle", "get", "load", "count"}, row : Row \cup {NoRow}, when : 0 .. MaxDay]]
    /\ \A u \in Uses : Kept(use[u].row, now) /\ use[u].when <= now

Buckets ==
    /\ usage \in [0 .. MaxDay -> Nat] /\ billed \in [0 .. MaxDay -> Nat \cup {NotBilled}]
    /\ \A p \in 0 .. MaxDay : billed[p] # NotBilled => billed[p] <= usage[p]

Runs ==
    /\ tick \in [Ticks -> [pc : {"idle", "list", "renew"}, row : Row \cup {NoRow}, used : Nat]]
    /\ \A t \in Ticks : Kept(tick[t].row, now) /\ Reading(tick[t])

Locks ==
    /\ lock \in Ticks \cup {Free} /\ outlived \subseteq {t \in Ticks : tick[t].pc # "idle"}
    /\ \A t \in Ticks : lock = t => tick[t].pc # "idle"

\* The second inductive invariant.
MInv == now \in 0 .. MaxDay /\ dels \in Nat /\ Rows /\ Calls /\ Buckets /\ Runs /\ Locks

\* The days that are modelled are days of the calendar.
LEMMA Today ==
  ASSUME NEW d \in 0 .. MaxDay
  PROVE  d \in Days /\ d \in Nat /\ MaxDay \in Nat
BY EntitlementAssumption, CalendarAssumption DEF Days

LEMMA RowFields ==
  ASSUME NEW row \in Row \cup {NoRow}
  PROVE  /\ row.start \in Nat /\ row.end \in Nat /\ row.anchor \in AnchorDays
         /\ row.renew \in BOOLEAN /\ row.sched \in BOOLEAN
<1>1. CASE row \in Row
  BY <1>1 DEF Row
<1>2. CASE row = NoRow
  BY <1>2 DEF NoRow, AnchorDays
<1> QED BY <1>1, <1>2

LEMMA MInvTypes == MInv => TypeOK
<1> SUFFICES ASSUME MInv PROVE TypeOK
  OBVIOUS
<1>1. \A p \in 0 .. MaxDay : usage[p] \in Nat /\ billed[p] \in {NotBilled} \cup 0 .. usage[p]
  BY DEF MInv, Buckets, NotBilled
<1>2. cache.row \in Row \cup {NoRow} /\ cache.excused \in BOOLEAN
  BY DEF MInv, Rows
<1> QED BY <1>1, <1>2 DEF MInv, Rows, Locks, TypeOK

\* Where a call is metered: a row that entitles at the instant of the call
\* leads to a bucket that has begun, and that the call does not lie beyond.
LEMMA BucketHolds ==
  ASSUME NEW row \in Row \cup {NoRow}, NEW when \in Days, NEW today \in Nat,
         row.start <= today, when <= today, IsServed(ResolveEffectiveState(row, when))
  PROVE  UsagePeriod(row, when).start <= today /\ when < UsagePeriod(row, when).end
<1>1. row.start \in Nat /\ row.end \in Nat /\ row.anchor \in AnchorDays /\ when \in Nat
  BY RowFields, CalendarAssumption DEF Days
<1>2. ASSUME NEW anchor \in AnchorDays, row.end <= when
      PROVE  /\ RolledTo[row.end][anchor][when].start <= today
             /\ when < RolledTo[row.end][anchor][when].end
  <2>1. row.end \in Days
    BY <1>1, <1>2, CalendarAssumption DEF Days
  <2>2. RolledTo[row.end][anchor][when] = PeriodContaining(row.end, anchor, when)
    BY <2>1 DEF RolledTo
  <2>3. /\ PeriodContaining(row.end, anchor, when).start \in Nat
        /\ PeriodContaining(row.end, anchor, when).start <= when
        /\ when < PeriodContaining(row.end, anchor, when).end
    BY <1>2, <2>1, JumpContains
  <2> QED BY <1>1, <2>2, <2>3
<1> DEFINE v == ResolveEffectiveState(row, when)
<1>3. CASE row.status \in Terminal
  BY <1>3 DEF ResolveEffectiveState, Verdict, IsServed, Served, Live, Terminal
<1>4. CASE row.status \notin Terminal /\ when < row.end
  <2>1. v = Verdict(row.status, Stored(row), FALSE)
    <3>1. ~ (when >= row.end)
      BY <1>1, <1>4
    <3> QED BY <1>4, <3>1, Zenon DEF ResolveEffectiveState
  <2>2. UsagePeriod(row, when) = v
    <3>1. v.status = row.status
      BY <2>1 DEF Verdict
    <3>2. row.status \in Live
      BY <3>1 DEF IsServed, Served, Live
    <3> QED BY <3>2 DEF UsagePeriod
  <2> QED BY <1>4, <2>1, <2>2 DEF Verdict, Stored
<1>5. CASE row.status \notin Terminal /\ ~ (when < row.end)
  <2>1. row.end <= when /\ when >= row.end
    BY <1>1, <1>5
  <2>2. CASE row.status = "TRIALING" /\ row.sched
    <3>1. v = Verdict("ACTIVE", RolledTo[row.end][AnchorDayOf(row.end)][when], TRUE)
      BY <1>5, <2>1, <2>2 DEF ResolveEffectiveState
    <3>2. UsagePeriod(row, when) = v
      BY <2>2 DEF UsagePeriod, Live
    <3>3. AnchorDayOf(row.end) \in AnchorDays
      <4>1. row.end \in Days
        BY <1>1, <2>1, CalendarAssumption DEF Days
      <4> QED BY <4>1, AnchorImplied
    <3> QED BY <1>2, <2>1, <3>1, <3>2, <3>3 DEF Verdict
  <2>3. CASE row.status \in {"ACTIVE", "PAST_DUE"} /\ row.renew
    <3>1. v = Verdict(row.status, RolledTo[row.end][row.anchor][when], TRUE)
      BY <1>5, <2>1, <2>3 DEF ResolveEffectiveState
    <3>2. UsagePeriod(row, when) = v
      BY <2>3 DEF UsagePeriod, Live
    <3> QED BY <1>1, <1>2, <2>1, <3>1, <3>2 DEF Verdict
  <2>4. CASE ~ (row.status = "TRIALING" /\ row.sched) /\ ~ (row.status \in {"ACTIVE", "PAST_DUE"} /\ row.renew)
    <3>1. v = Verdict("EXPIRED", Stored(row), TRUE)
      BY <1>5, <2>4 DEF ResolveEffectiveState
    <3> QED BY <3>1 DEF Verdict, IsServed, Served, Live
  <2> QED BY <2>2, <2>3, <2>4
<1> QED BY <1>3, <1>4, <1>5

LEMMA MInvMeters == MInv => MeteredInItsPeriod
<1> SUFFICES ASSUME MInv, NEW u \in Uses, IsServed(ResolveEffectiveState(use[u].row, use[u].when))
             PROVE  Bucket(u).start <= now /\ use[u].when < Bucket(u).end
  BY DEF MeteredInItsPeriod
<1>1. /\ use[u].row \in Row \cup {NoRow} /\ use[u].row.start <= now
      /\ use[u].when \in 0 .. MaxDay /\ use[u].when <= now /\ now \in 0 .. MaxDay
  BY DEF MInv, Calls, Kept
<1>2. use[u].when \in Days /\ now \in Nat
  BY <1>1, Today
<1> QED BY <1>1, <1>2, BucketHolds DEF Bucket

-----------------------------------------------------------------------------
(* Every step keeps the second invariant *)

LEMMA InitMInv == Init => MInv
<1> SUFFICES ASSUME Init PROVE MInv
  OBVIOUS
<1>1. now = 0 /\ now \in 0 .. MaxDay /\ 0 \in 0 .. MaxDay /\ dels \in Nat
  BY EntitlementAssumption, CalendarAssumption DEF Init, Days
<1>2. NoRow \in Row \cup {NoRow} /\ NoRow.start = 0
  BY DEF NoRow
<1> HIDE DEF NoRow
<1>3. Rows
  <2>1. sub \in Row /\ sub.start <= now
    BY <1>1, EntitlementAssumption DEF Init
  <2>2. cache \in [row : Row \cup {NoRow}, excused : BOOLEAN] /\ Kept(cache.row, now)
    BY <1>1, <1>2 DEF Init, NoEntry, Kept
  <2>3. fill \in [Uses -> Row \cup {NoRow}] /\ \A u \in Uses : Kept(fill[u], now)
    BY <1>1, <1>2 DEF Init, Kept
  <2> QED BY <2>1, <2>2, <2>3 DEF Rows
<1>4. Calls
  BY <1>1, <1>2 DEF Init, Calls, IdleUse, Kept
<1>5. Buckets
  BY DEF Init, Buckets, NotBilled
<1>6. Runs
  BY <1>1, <1>2 DEF Init, Runs, IdleTick, Kept, Reading
<1>7. Locks
  BY EntitlementAssumption DEF Init, Locks, Free
<1> QED BY <1>1, <1>3, <1>4, <1>5, <1>6, <1>7 DEF MInv

\* What has begun stays begun.
LEMMA KeptLater ==
  ASSUME NEW row, NEW a \in Nat, NEW b \in Nat, a <= b, Kept(row, a)
  PROVE  Kept(row, b)
BY RowFields DEF Kept

\* A decision of staff moves no start.
LEMMA WritesTyped ==
  ASSUME MInv, CancelAtPeriodEnd \/ CancelNow \/ MarkPastDue
  PROVE  MInv'
<1>1. UNCHANGED <<now, cache, use, fill, usage, billed, tick, lock, outlived>> /\ dels' = dels + 1
  BY DEF CancelAtPeriodEnd, CancelNow, MarkPastDue, Invalidate, metering, cron
<1>2. now \in Nat /\ sub \in Row /\ sub.start <= now
  BY Today DEF MInv, Rows
<1>3. sub' \in Row /\ sub'.start = sub.start
  <2>1. CASE CancelAtPeriodEnd
    BY <1>2, <2>1 DEF CancelAtPeriodEnd, Write, Row
  <2>2. CASE CancelNow
    BY <1>2, <2>2 DEF CancelNow, Write, Row, SubscriptionStatus, Terminal
  <2>3. CASE MarkPastDue
    BY <1>2, <2>3 DEF MarkPastDue, Write, Row, SubscriptionStatus, Live
  <2> QED BY <2>1, <2>2, <2>3
<1> QED BY <1>1, <1>2, <1>3 DEF MInv, Rows, Calls, Buckets, Runs, Locks, Reading

LEMMA DropsTyped ==
  ASSUME MInv, Delete \/ DeleteFails \/ Expire
  PROVE  MInv'
<1>1. UNCHANGED <<now, sub, use, fill, usage, billed, tick, lock, outlived>>
  BY DEF Delete, DeleteFails, Expire, metering, cron
<1>2. dels' \in Nat
  BY DEF MInv, Delete, DeleteFails, Expire
<1>3. now \in Nat
  BY Today DEF MInv
<1>4. cache' \in [row : Row \cup {NoRow}, excused : BOOLEAN] /\ Kept(cache'.row, now)
  <2>1. CASE cache' = NoEntry
    <3>1. NoRow.start = 0
      BY DEF NoRow
    <3> QED BY <1>3, <2>1, <3>1 DEF NoEntry, Kept
  <2>2. CASE cache' # NoEntry
    <3>1. cache' = cache \/ cache' = [cache EXCEPT !.excused = TRUE]
      BY <2>2 DEF Delete, DeleteFails, Expire
    <3> QED BY <3>1 DEF MInv, Rows
  <2> QED BY <2>1, <2>2
<1>5. Rows'
  BY <1>1, <1>4 DEF MInv, Rows
<1> QED BY <1>1, <1>2, <1>5 DEF MInv, Calls, Buckets, Runs, Locks, Reading

LEMMA MidnightTyped ==
  ASSUME MInv, Midnight
  PROVE  MInv'
<1>1. /\ now \in Nat /\ now' = now + 1 /\ now' \in 0 .. MaxDay
      /\ UNCHANGED <<sub, dels, use, fill, usage, billed, tick, lock, outlived>>
  BY Today, EntitlementAssumption, CalendarAssumption DEF MInv, Midnight, metering, cron, Days
<1>2. now' \in Nat /\ now <= now'
  BY <1>1
<1>3. \A row : Kept(row, now) => Kept(row, now')
  BY <1>1, <1>2, KeptLater
<1>4. cache' = NoEntry \/ cache' = cache
  BY DEF Midnight
<1>5. Rows'
  <2>1. sub' \in Row /\ sub'.start <= now'
    BY <1>1, <1>2 DEF MInv, Rows, Row
  <2>2. cache' \in [row : Row \cup {NoRow}, excused : BOOLEAN] /\ Kept(cache'.row, now')
    <3>1. NoRow.start = 0 /\ NoRow \in Row \cup {NoRow}
      BY DEF NoRow
    <3>2. CASE cache' = NoEntry
      BY <1>2, <3>1, <3>2 DEF NoEntry, Kept
    <3>3. CASE cache' = cache
      BY <1>3, <3>3 DEF MInv, Rows
    <3> QED BY <1>4, <3>2, <3>3
  <2>3. fill' = fill /\ \A u \in Uses : Kept(fill'[u], now')
    BY <1>1, <1>3 DEF MInv, Rows
  <2> QED BY <2>1, <2>2, <2>3 DEF MInv, Rows
<1>6. Calls'
  <2>1. \A u \in Uses : use[u].when \in Nat /\ use[u].when <= now
    <3>1. \A u \in Uses : use[u].when \in 0 .. MaxDay /\ use[u].when <= now
      BY DEF MInv, Calls
    <3> QED BY <3>1
  <2> QED BY <1>1, <1>2, <1>3, <2>1 DEF MInv, Calls
<1>7. Runs'
  <2>1. \A t \in Ticks : Kept(tick'[t].row, now')
    BY <1>1, <1>3 DEF MInv, Runs
  <2>2. ASSUME NEW t \in Ticks PROVE Reading(tick[t])'
    <3>1. Reading(tick[t]) /\ (tick[t].row \in Row => tick[t].row.end \in Nat)
      BY RowFields DEF MInv, Runs
    <3> QED BY <1>1, <1>2, <3>1 DEF Reading
  <2> QED BY <1>1, <2>1, <2>2 DEF MInv, Runs
<1> QED BY <1>1, <1>5, <1>6, <1>7 DEF MInv, Buckets, Locks

\* A call that begins takes the time of now, and reads a row that is kept.
LEMMA CallsTyped ==
  ASSUME MInv, NEW u \in Uses, Begin(u) \/ Get(u) \/ Load(u)
  PROVE  MInv'
<1>1. UNCHANGED <<now, sub, cache, dels, usage, billed, tick, lock, outlived>>
  BY DEF Begin, Get, Load, cron
<1>2. /\ now \in 0 .. MaxDay /\ now \in Nat
      /\ use \in [Uses -> [pc : {"idle", "get", "load", "count"}, row : Row \cup {NoRow}, when : 0 .. MaxDay]]
      /\ \A v \in Uses : Kept(use[v].row, now) /\ use[v].when <= now
      /\ Kept(cache.row, now) /\ Kept(sub, now)
  BY Today DEF MInv, Calls, Rows, Kept
<1>3. Kept(NoRow, now)
  BY <1>2 DEF Kept, NoRow
<1>4. \E call \in [pc : {"idle", "get", "load", "count"}, row : Row \cup {NoRow}, when : 0 .. MaxDay] :
         use' = [use EXCEPT ![u] = call] /\ Kept(call.row, now) /\ call.when <= now
  <2>1. CASE Begin(u)
    <3> DEFINE call == [pc |-> "get", row |-> NoRow, when |-> now]
    <3>1. /\ use' = [use EXCEPT ![u] = call] /\ Kept(call.row, now) /\ call.when <= now
          /\ call \in [pc : {"idle", "get", "load", "count"}, row : Row \cup {NoRow}, when : 0 .. MaxDay]
      BY <1>2, <1>3, <2>1 DEF Begin
    <3> QED BY <3>1
  <2>2. CASE Get(u) \/ Load(u)
    <3>1. PICK pc \in {"load", "count"}, row \in {use[u].row, cache.row, sub} :
             use' = [use EXCEPT ![u].pc = pc, ![u].row = row]
      <4>1. CASE Load(u)
        BY <4>1 DEF Load
      <4>2. CASE Get(u)
        <5>1. \/ use' = [use EXCEPT ![u].pc = "count", ![u].row = cache.row]
              \/ use' = [use EXCEPT ![u].pc = "load"]
          BY <4>2 DEF Get
        <5>2. [use EXCEPT ![u].pc = "load"] = [use EXCEPT ![u].pc = "load", ![u].row = use[u].row]
          BY <1>2
        <5> QED BY <5>1, <5>2
      <4> QED BY <2>2, <4>1, <4>2
    <3> DEFINE call == [use[u] EXCEPT !.pc = pc, !.row = row]
    <3>2. Kept(row, now)
      BY <1>2
    <3>3. /\ use' = [use EXCEPT ![u] = call] /\ Kept(call.row, now) /\ call.when <= now
          /\ call \in [pc : {"idle", "get", "load", "count"}, row : Row \cup {NoRow}, when : 0 .. MaxDay]
      BY <1>2, <3>1, <3>2 DEF Kept
    <3> QED BY <3>3
  <2> QED BY <2>1, <2>2
<1>5. Calls'
  BY <1>1, <1>2, <1>4 DEF Calls
<1>6. Rows'
  <2>1. fill' = fill \/ fill' = [fill EXCEPT ![u] = sub]
    BY DEF Begin, Get, Load
  <2> QED BY <1>1, <1>2, <2>1 DEF MInv, Rows
<1> QED BY <1>1, <1>5, <1>6 DEF MInv, Buckets, Runs, Locks, Reading

LEMMA FillsTyped ==
  ASSUME MInv, NEW u \in Uses, Fill(u) \/ FillFails(u)
  PROVE  MInv'
<1>1. UNCHANGED <<now, sub, dels, use, usage, billed, tick, lock, outlived>>
  BY DEF Fill, FillFails, cron
<1>2. /\ now \in Nat /\ fill \in [Uses -> Row \cup {NoRow}] /\ Kept(fill[u], now)
      /\ fill' = [fill EXCEPT ![u] = NoRow] /\ Kept(NoRow, now)
  BY Today DEF MInv, Rows, Fill, FillFails, Kept, NoRow
<1>3. cache' \in [row : Row \cup {NoRow}, excused : BOOLEAN] /\ Kept(cache'.row, now)
  <2>1. CASE Fill(u)
    BY <1>2, <2>1 DEF Fill, Kept
  <2>2. CASE FillFails(u)
    BY <2>2 DEF FillFails, MInv, Rows
  <2> QED BY <2>1, <2>2
<1>4. fill' \in [Uses -> Row \cup {NoRow}] /\ \A v \in Uses : Kept(fill'[v], now)
  BY <1>2 DEF MInv, Rows
<1>5. Rows'
  BY <1>1, <1>3, <1>4 DEF MInv, Rows
<1> QED BY <1>1, <1>5 DEF MInv, Calls, Buckets, Runs, Locks, Reading

\* A bucket only grows, so that no invoice comes to bill more than it holds.
LEMMA CountTyped ==
  ASSUME MInv, NEW u \in Uses, Count(u)
  PROVE  MInv'
<1>1. UNCHANGED <<now, sub, cache, dels, fill, billed, tick, lock, outlived>>
  BY DEF Count, cron
<1>2. now \in Nat /\ now \in 0 .. MaxDay /\ MaxDay \in Nat /\ 0 \in 0 .. MaxDay
  <2>1. now \in Nat /\ now \in 0 .. MaxDay /\ MaxDay \in Nat
    BY Today DEF MInv
  <2> QED BY <2>1
<1>3. PICK b : usage' = [usage EXCEPT ![b] = @ + 1]
  BY DEF Count
<1>4. usage \in [0 .. MaxDay -> Nat]
  BY DEF MInv, Buckets
<1>5. usage' \in [0 .. MaxDay -> Nat] /\ \A p \in 0 .. MaxDay : usage[p] <= usage'[p]
  <2>1. \A p \in 0 .. MaxDay : usage'[p] = usage[p] \/ usage'[p] = usage[p] + 1
    BY <1>3, <1>4
  <2>2. DOMAIN usage' = 0 .. MaxDay /\ usage' = [p \in 0 .. MaxDay |-> usage'[p]]
    BY <1>3, <1>4
  <2>3. \A p \in 0 .. MaxDay : usage'[p] \in Nat /\ usage[p] <= usage'[p]
    BY <1>4, <2>1
  <2> QED BY <2>2, <2>3
<1>6. Calls'
  <2>1. use' = [use EXCEPT ![u] = IdleUse]
    BY DEF Count
  <2>2. IdleUse \in [pc : {"idle", "get", "load", "count"}, row : Row \cup {NoRow}, when : 0 .. MaxDay]
    BY <1>2 DEF IdleUse
  <2>3. Kept(IdleUse.row, now) /\ IdleUse.when <= now
    BY <1>2 DEF IdleUse, Kept, NoRow
  <2> HIDE DEF IdleUse
  <2> QED BY <1>1, <2>1, <2>2, <2>3 DEF MInv, Calls
<1>7. Buckets'
  <2>1. billed \in [0 .. MaxDay -> Nat \cup {NotBilled}]
    BY DEF MInv, Buckets
  <2>2. \A p \in 0 .. MaxDay : billed[p] # NotBilled => billed[p] <= usage'[p]
    <3> TAKE p \in 0 .. MaxDay
    <3>1. billed[p] # NotBilled => billed[p] \in Nat /\ billed[p] <= usage[p]
      BY <2>1 DEF MInv, Buckets
    <3>2. usage[p] \in Nat /\ usage'[p] \in Nat /\ usage[p] <= usage'[p]
      BY <1>4, <1>5
    <3> QED BY <3>1, <3>2
  <2> QED BY <1>1, <1>5, <2>1, <2>2 DEF Buckets
<1>8. ASSUME NEW t \in Ticks PROVE Reading(tick[t])'
  <2>1. SUFFICES ASSUME tick[t].pc = "renew"
                 PROVE  /\ tick[t].row \in Row /\ tick[t].row.end <= now
                        /\ tick[t].used <= usage'[tick[t].row.start]
    BY <1>1 DEF Reading
  <2>2. /\ tick[t].row \in Row /\ tick[t].row.end <= now /\ tick[t].used <= usage[tick[t].row.start]
        /\ tick[t].used \in Nat /\ tick[t].row.start <= now
    BY <2>1 DEF MInv, Runs, Reading, Kept
  <2>3. tick[t].row.start \in 0 .. MaxDay
    BY <1>2, <2>2, RowFields, EntitlementAssumption, CalendarAssumption DEF Days
  <2>4. /\ usage[tick[t].row.start] \in Nat /\ usage'[tick[t].row.start] \in Nat
        /\ usage[tick[t].row.start] <= usage'[tick[t].row.start]
    BY <1>4, <1>5, <2>3
  <2> QED BY <2>2, <2>4
<1>9. Runs'
  BY <1>1, <1>8 DEF MInv, Runs
<1> QED BY <1>1, <1>6, <1>7, <1>9 DEF MInv, Rows, Locks

\* The next period of a row that is due starts today at the latest.
LEMMA NextKept ==
  ASSUME NEW row \in Row, NEW anchor \in AnchorDays, now \in 0 .. MaxDay, row.end <= now
  PROVE  LET next == ComputeAnchoredPeriod(row.end, anchor) IN
           next.start = row.end /\ next.start \in Nat /\ next.end \in Nat
<1>1. row.end \in Days
  BY Today, RowFields, EntitlementAssumption, CalendarAssumption DEF Days
<1> QED BY <1>1, NextAnchorLater, RowFields DEF ComputeAnchoredPeriod

LEMMA ConvertTyped ==
  ASSUME MInv, NEW t \in Ticks, Convert(t)
  PROVE  MInv'
<1>1. /\ UNCHANGED <<now, cache, use, fill, usage, billed, tick, lock, outlived>>
      /\ dels' = dels + 1 /\ sub.end <= now
  BY DEF Convert, Invalidate, metering, cron
<1>2. sub \in Row /\ now \in 0 .. MaxDay /\ now \in Nat
  BY Today DEF MInv, Rows
<1> DEFINE anchor == AnchorDayOf(sub.end)
           period == ComputeAnchoredPeriod(sub.end, anchor)
<1>3. anchor \in AnchorDays
  <2>1. sub.end \in Days
    BY <1>1, <1>2, RowFields, EntitlementAssumption, CalendarAssumption DEF Days
  <2> QED BY <2>1, AnchorImplied
<1>4. sub' = [sub EXCEPT !.status = "ACTIVE", !.start = period.start, !.end = period.end,
                         !.renew = TRUE, !.anchor = anchor, !.sched = FALSE]
  BY DEF Convert
<1>5. period.start = sub.end /\ period.start \in Nat /\ period.end \in Nat
  <2> HIDE DEF anchor
  <2> QED BY <1>1, <1>2, <1>3, NextKept
<1> HIDE DEF anchor, period
<1>6. sub' \in Row /\ sub'.start <= now
  BY <1>1, <1>2, <1>3, <1>4, <1>5 DEF Row, SubscriptionStatus, Live
<1> QED BY <1>1, <1>6 DEF MInv, Rows, Calls, Buckets, Runs, Locks, Reading

LEMMA RenewReadTyped ==
  ASSUME MInv, NEW t \in Ticks, RenewRead(t)
  PROVE  MInv'
<1> DEFINE run == [pc |-> "renew", row |-> sub, used |-> usage[sub.start]]
<1>1. /\ UNCHANGED <<now, sub, cache, dels, use, fill, usage, billed, lock, outlived>>
      /\ tick' = [tick EXCEPT ![t] = run] /\ sub.end <= now /\ tick[t].pc # "idle"
  BY DEF RenewRead, Due, metering
<1>2. now \in 0 .. MaxDay /\ sub \in Row /\ sub.start <= now /\ usage \in [0 .. MaxDay -> Nat]
  BY DEF MInv, Rows, Buckets
<1>3. usage[sub.start] \in Nat
  <2>1. sub.start \in 0 .. MaxDay
    BY <1>2, RowFields, Today
  <2> QED BY <1>2, <2>1
<1>4. /\ run \in [pc : {"idle", "list", "renew"}, row : Row \cup {NoRow}, used : Nat]
      /\ Kept(run.row, now) /\ run.pc = "renew" /\ run.row = sub /\ run.used = usage[sub.start]
  BY <1>2, <1>3 DEF Kept
<1>5. run.used <= usage[run.row.start]
  BY <1>3
<1> HIDE DEF run
<1>6. /\ tick' \in [Ticks -> [pc : {"idle", "list", "renew"}, row : Row \cup {NoRow}, used : Nat]]
      /\ \A s \in Ticks : tick'[s] = IF s = t THEN run ELSE tick[s]
  BY <1>1, <1>4 DEF MInv, Runs
<1>7. \A s \in Ticks : Kept(tick'[s].row, now) /\ Reading(tick[s])'
  <2> TAKE s \in Ticks
  <2>1. CASE s = t
    BY <1>1, <1>2, <1>4, <1>5, <1>6, <2>1 DEF Reading
  <2>2. CASE s # t
    BY <1>1, <1>6, <2>2 DEF MInv, Runs, Reading
  <2> QED BY <2>1, <2>2
<1>8. Runs'
  BY <1>1, <1>6, <1>7 DEF Runs
<1>9. Locks'
  BY <1>1, <1>4, <1>6 DEF MInv, Locks
<1> QED BY <1>1, <1>8, <1>9 DEF MInv, Rows, Calls, Buckets

\* The invoice bills what was read, and the bucket holds that at least; the row
\* goes to the period that the end of the closed one opened.
LEMMA RenewWriteTyped ==
  ASSUME MInv, NEW t \in Ticks, RenewWrite(t)
  PROVE  MInv'
<1> DEFINE closed == tick[t].row
           next == NextAnchoredPeriod(Stored(closed), closed.anchor)
           run == [IdleTick EXCEPT !.pc = "list"]
<1>1. /\ UNCHANGED <<now, cache, use, fill, usage, lock, outlived>> /\ dels' = dels + 1
      /\ tick[t].pc = "renew" /\ tick' = [tick EXCEPT ![t] = run]
      /\ billed' = [billed EXCEPT ![closed.start] = IF @ = NotBilled THEN tick[t].used ELSE @]
      /\ sub' = [sub EXCEPT !.start = next.start, !.end = next.end]
  BY DEF RenewWrite, Invalidate, metering
<1>2. /\ now \in 0 .. MaxDay /\ now \in Nat /\ sub \in Row
      /\ closed \in Row /\ closed.end <= now /\ closed.start <= now
      /\ tick[t].used \in Nat /\ tick[t].used <= usage[closed.start]
  BY <1>1, Today DEF MInv, Rows, Runs, Reading, Kept
<1>3. next.start = closed.end /\ next.start \in Nat /\ next.end \in Nat
  <2>1. closed.anchor \in AnchorDays /\ next = ComputeAnchoredPeriod(closed.end, closed.anchor)
    BY <1>2, RowFields DEF NextAnchoredPeriod, Stored
  <2> HIDE DEF next, closed
  <2> QED BY <1>2, <2>1, NextKept
<1> HIDE DEF next
<1>4. sub' \in Row /\ sub'.start <= now
  BY <1>1, <1>2, <1>3 DEF Row
<1>5. Rows'
  BY <1>1, <1>4 DEF MInv, Rows
<1>6. Buckets'
  <2>1. /\ usage \in [0 .. MaxDay -> Nat] /\ billed \in [0 .. MaxDay -> Nat \cup {NotBilled}]
        /\ \A p \in 0 .. MaxDay : billed[p] # NotBilled => billed[p] <= usage[p]
    BY DEF MInv, Buckets
  <2> HIDE DEF closed
  <2>2. billed' \in [0 .. MaxDay -> Nat \cup {NotBilled}]
    BY <1>1, <1>2, <2>1
  <2>3. \A p \in 0 .. MaxDay : billed'[p] = billed[p] \/ (p = closed.start /\ billed'[p] = tick[t].used)
    BY <1>1, <2>1
  <2>4. \A p \in 0 .. MaxDay : billed'[p] # NotBilled => billed'[p] <= usage[p]
    BY <1>2, <2>1, <2>3
  <2> QED BY <1>1, <2>1, <2>2, <2>4 DEF Buckets
<1>7. /\ run \in [pc : {"idle", "list", "renew"}, row : Row \cup {NoRow}, used : Nat]
      /\ Kept(run.row, now) /\ run.pc = "list"
  <2>1. run = [pc |-> "list", row |-> NoRow, used |-> 0]
    BY DEF IdleTick
  <2>2. NoRow \in Row \cup {NoRow} /\ Kept(NoRow, now)
    BY <1>2 DEF Kept, NoRow
  <2> HIDE DEF run
  <2> QED BY <2>1, <2>2
<1> HIDE DEF run
<1>8. /\ tick' \in [Ticks -> [pc : {"idle", "list", "renew"}, row : Row \cup {NoRow}, used : Nat]]
      /\ \A s \in Ticks : tick'[s] = IF s = t THEN run ELSE tick[s]
  BY <1>1, <1>7 DEF MInv, Runs
<1>9. Runs'
  <2>1. \A s \in Ticks : Kept(tick'[s].row, now) /\ Reading(tick[s])'
    <3> TAKE s \in Ticks
    <3>1. CASE s = t
      BY <1>7, <1>8, <3>1 DEF Reading
    <3>2. CASE s # t
      BY <1>1, <1>8, <3>2 DEF MInv, Runs, Reading
    <3> QED BY <3>1, <3>2
  <2> QED BY <1>1, <1>8, <2>1 DEF Runs
<1>10. Locks'
  BY <1>1, <1>7, <1>8 DEF MInv, Locks
<1> QED BY <1>1, <1>5, <1>6, <1>9, <1>10 DEF MInv, Calls

\* The lock: only a run that is on its way holds it, or has outlived it.
LEMMA LocksTyped ==
  ASSUME MInv, NEW t \in Ticks, TickStart(t) \/ LockExpires(t) \/ TickEnd(t)
  PROVE  MInv'
<1>1. UNCHANGED <<now, sub, cache, dels, use, fill, usage, billed>>
  BY DEF TickStart, LockExpires, TickEnd, metering
<1>2. /\ now \in Nat /\ tick \in [Ticks -> [pc : {"idle", "list", "renew"}, row : Row \cup {NoRow}, used : Nat]]
      /\ \A s \in Ticks : Kept(tick[s].row, now) /\ Reading(tick[s])
  BY Today DEF MInv, Runs
<1>3. PICK run \in {IdleTick, [tick[t] EXCEPT !.pc = "list"], tick[t]} :
         /\ tick' = [tick EXCEPT ![t] = run]
         /\ TickStart(t) => run = [tick[t] EXCEPT !.pc = "list"]
         /\ LockExpires(t) => run = tick[t]
  <2>1. CASE TickStart(t)
    <3>1. ~ LockExpires(t)
      BY <2>1, EntitlementAssumption DEF TickStart, LockExpires, Free
    <3>2. tick' = [tick EXCEPT ![t].pc = "list"]
      BY <2>1 DEF TickStart
    <3> QED BY <3>1, <3>2
  <2>2. CASE LockExpires(t) /\ ~ TickStart(t)
    <3>1. tick' = tick /\ tick = [tick EXCEPT ![t] = tick[t]]
      BY <1>2, <2>2 DEF LockExpires
    <3> QED BY <2>2, <3>1
  <2>3. CASE TickEnd(t) /\ ~ TickStart(t) /\ ~ LockExpires(t)
    BY <2>3 DEF TickEnd
  <2> QED BY <2>1, <2>2, <2>3
<1>4. /\ run \in [pc : {"idle", "list", "renew"}, row : Row \cup {NoRow}, used : Nat]
      /\ Kept(run.row, now) /\ (run.pc = "renew" => run = tick[t])
  <2>1. CASE run = IdleTick
    BY <1>2, <2>1 DEF IdleTick, Kept, NoRow
  <2>2. CASE run # IdleTick
    BY <1>2, <1>3, <2>2
  <2> QED BY <2>1, <2>2
<1>5. /\ tick' \in [Ticks -> [pc : {"idle", "list", "renew"}, row : Row \cup {NoRow}, used : Nat]]
      /\ \A s \in Ticks : tick'[s] = IF s = t THEN run ELSE tick[s]
  BY <1>2, <1>3, <1>4
<1>6. Runs'
  <2>1. \A s \in Ticks : Kept(tick'[s].row, now) /\ Reading(tick[s])'
    <3> TAKE s \in Ticks
    <3>1. CASE s = t
      BY <1>1, <1>2, <1>4, <1>5, <3>1 DEF Reading
    <3>2. CASE s # t
      BY <1>1, <1>2, <1>5, <3>2 DEF Reading
    <3> QED BY <3>1, <3>2
  <2> QED BY <1>1, <1>5, <2>1 DEF Runs
<1>7. Locks'
  <2>1. /\ lock \in Ticks \cup {Free} /\ outlived \subseteq Ticks
        /\ \A s \in outlived : tick[s].pc # "idle"
        /\ \A s \in Ticks : lock = s => tick[s].pc # "idle"
        /\ Free \notin Ticks
    BY EntitlementAssumption DEF MInv, Locks, Free
  <2>2. CASE TickStart(t)
    <3>1. tick[t].pc = "idle" /\ lock' = t /\ outlived' = outlived /\ run.pc = "list"
      BY <1>2, <1>3, <2>2 DEF TickStart
    <3> QED BY <1>5, <2>1, <3>1 DEF Locks
  <2>3. CASE LockExpires(t)
    <3>1. lock = t /\ lock' = Free /\ outlived' = outlived \cup {t} /\ tick' = tick
      BY <2>3 DEF LockExpires
    <3> QED BY <2>1, <3>1 DEF Locks
  <2>4. CASE TickEnd(t)
    <3>1. lock' = (IF lock = t THEN Free ELSE lock) /\ outlived' = outlived \ {t}
      BY <2>4 DEF TickEnd, Unlock
    <3> QED BY <1>5, <2>1, <3>1 DEF Locks
  <2> QED BY <2>2, <2>3, <2>4
<1> QED BY <1>1, <1>6, <1>7 DEF MInv, Rows, Calls, Buckets

LEMMA NextMInv == MInv /\ [Next]_vars => MInv'
<1> SUFFICES ASSUME MInv, [Next]_vars PROVE MInv'
  OBVIOUS
<1>1. CASE CancelAtPeriodEnd \/ CancelNow \/ MarkPastDue
  BY <1>1, WritesTyped
<1>2. CASE Delete \/ DeleteFails \/ Expire \/ Midnight
  BY <1>2, DropsTyped, MidnightTyped
<1>3. CASE \E u \in Uses : Begin(u) \/ Meter(u)
  BY <1>3, CallsTyped, FillsTyped, CountTyped DEF Meter
<1>4. CASE \E t \in Ticks : TickStart(t) \/ LockExpires(t) \/ Run(t) \/ TickEnd(t)
  BY <1>4, LocksTyped, ConvertTyped, RenewReadTyped, RenewWriteTyped DEF Run
<1>5. CASE UNCHANGED vars
  BY <1>5 DEF vars, MInv, Rows, Calls, Buckets, Runs, Locks, Reading
<1> QED BY <1>1, <1>2, <1>3, <1>4, <1>5 DEF Next

\* The second inductive invariant holds in every reachable state.
THEOREM MeteringInvariance == Spec => []MInv
  BY InitMInv, NextMInv, PTL DEF Spec

\* The variables keep their types, and no invoice bills more than its period
\* was metered, although the usage is read before the transaction that bills
\* it, two runs may close the same period, and calls are metered meanwhile
\* (billing.service.ts, runRenewals).
THEOREM UsageTyped == Spec => []TypeOK
  BY MInvTypes, MeteringInvariance, PTL

\* A hotel that is served is metered into a period that had begun and was not
\* over, however late the tick and however old the cached row: the resolver
\* rolls the row on to the instant of the call (usage.service.ts).
THEOREM UsageInItsPeriod == Spec => []MeteredInItsPeriod
  BY MInvMeters, MeteringInvariance, PTL
=============================================================================
