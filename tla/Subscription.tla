---------------------------- MODULE Subscription ----------------------------
(***************************************************************************)
(* The subscription life cycle of one hotel (services/billing.service.ts): *)
(* the admin handlers that start, schedule, cancel and extend agreements,  *)
(* the billing tick of bootstrap/crons.ts that writes down what the clock  *)
(* already made true (convert, renew, expire), and the entitlement every   *)
(* request reads meanwhile (getEffectiveSubscription).                     *)
(*                                                                         *)
(* A query whose result is kept across an await is an action of its own;   *)
(* a transaction's writes are one action.  Which invoices are paid is the  *)
(* matter of Settlement: here a delinquent hotel is one that was invoiced  *)
(* at all, and a settling payment may arrive whenever it is suspended.     *)
(***************************************************************************)
EXTENDS EffectiveStatus, Sequences

CONSTANTS
    Handlers,      \* concurrent executions of admin and payment handlers
    TrialDays,     \* trial lengths an admin may grant
    ExtendDays,    \* extensions an admin may grant
    MaxCatchup,    \* MAX_CATCHUP_PERIODS
    Overlap,       \* whether handlers may run during a tick or another handler
    MaxDay,        \* bound: the clock
    MaxRequests,   \* bound: requests handled
    MaxFaults      \* bound: transactions of the tick that fail, and crashes

ASSUME SubscriptionAssumption ==
    /\ TrialDays \subseteq Nat \ {0} /\ ExtendDays \subseteq Nat \ {0}
    /\ MaxCatchup \in Nat \ {0}
    /\ Overlap \in BOOLEAN
    /\ MaxDay \in Days /\ MaxRequests \in Nat /\ MaxFaults \in Nat

VARIABLES
    now,           \* the day
    subs,          \* Subscription rows in order of creation
    hotel,         \* Hotel.subscriptionStatus, billingStartDate, billingEndDate
    invoices,      \* Invoice rows: the subscription and the period billed
    tick,          \* what the billing tick holds between two round trips
    req,           \* what each handler holds between two round trips
    requests,      \* requests handled so far
    faults         \* failures so far

vars == <<now, subs, hotel, invoices, tick, req, requests, faults>>
dbVars == <<subs, hotel, invoices>>

-----------------------------------------------------------------------------
TickPhases == {"idle", "convertList", "convertRead", "convertWrite", "convertInvoice",
               "renewList", "renewWrite", "delinquent", "expireList", "expireRead",
               "expireWrite"}
RequestPhases == {"idle", "scheduleRead", "scheduleWrite", "assignWrite", "assignInvoice",
                  "cancelWrite", "cancelNowWrite", "extendWrite", "reactivateWrite"}

\* pass: the `now` of the running pass; row: the subscription it took from its
\* list; period, rolls: the period being closed and how many were closed.
IdleTick == [pc |-> "idle", pass |-> 0, row |-> 0,
             period |-> [start |-> 0, end |-> 0], rolls |-> 0]

\* at: the `now` of the handler; row, period, status: what it read.
IdleRequest == [pc |-> "idle", at |-> 0, row |-> 0,
                period |-> [start |-> 0, end |-> 0], status |-> "ACTIVE"]

LiveRows == {n \in DOMAIN subs : subs[n].status \in Live}
Last == Len(subs)

\* getEffectiveSubscription: the live row resolved against the clock; without
\* one, the hotel's own status, open-ended.  A period only matters when served.
Entitlement(rows, mirror, t) ==
    LET live == {n \in DOMAIN rows : rows[n].status \in Live}
        verdict == IF live = {}
                   THEN Verdict(mirror.status, [start |-> 0, end |-> 0], FALSE)
                   ELSE ResolveEffectiveState(rows[CHOOSE n \in live : TRUE], t)
    IN  [served |-> IsServed(verdict), status |-> verdict.status,
         period |-> IF IsServed(verdict) THEN [start |-> verdict.start, end |-> verdict.end]
                    ELSE [start |-> 0, end |-> 0]]

\* cancelLiveSubscriptions, then create.
Replaced(rows, row) ==
    Append([n \in DOMAIN rows |->
              IF rows[n].status \in Live THEN [rows[n] EXCEPT !.status = "CANCELED"]
              ELSE rows[n]], row)

TrialRow(start, days) ==
    [status |-> "TRIALING", start |-> start, end |-> start + days, renew |-> FALSE,
     anchor |-> AnchorDayOf(start), sched |-> FALSE]

PaidRow(start) ==
    [status |-> "ACTIVE", start |-> start, end |-> NextAnchorAfter(start, AnchorDayOf(start)),
     renew |-> TRUE, anchor |-> AnchorDayOf(start), sched |-> FALSE]

Mirror(status, start, end) == [status |-> status, start |-> start, end |-> end]
MirrorOf(row) == Mirror(row.status, row.start, row.end)

\* Fault: the invoice table has no unique key on (hotel, periodStart).
IssueInvoice_NoKey(table, n, period) ==
    table \cup {[sub |-> n, start |-> period.start, end |-> period.end]}

\* issueInvoice: one invoice per period start of the hotel; an invoice that is
\* there already is returned as it is.
IssueInvoice(table, n, period) ==
    IF \E i \in table : i.start = period.start THEN table
    ELSE table \cup {[sub |-> n, start |-> period.start, end |-> period.end]}

-----------------------------------------------------------------------------
\* createHotel: with a trial, or (autoStartOnCreate off) without entitlement.
Init ==
    /\ now = 0
    /\ \/ \E days \in TrialDays :
            /\ subs = <<TrialRow(0, days)>>
            /\ hotel = MirrorOf(TrialRow(0, days))
       \/ subs = <<>> /\ hotel = Mirror("EXPIRED", 0, 0)
    /\ invoices = {}
    /\ tick = IdleTick
    /\ req = [h \in Handlers |-> IdleRequest]
    /\ requests = 0
    /\ faults = 0

\* Midnight.  No handler and no pass of the tick lasts a whole day.
Midnight ==
    /\ now < MaxDay
    /\ tick.pc # "idle" => tick.pass = now
    /\ \A h \in Handlers : req[h].pc # "idle" => req[h].at = now
    /\ now' = now + 1
    /\ UNCHANGED <<dbVars, tick, req, requests, faults>>

TickIdle == tick.pc = "idle"
HandlersIdle == \A h \in Handlers : req[h].pc = "idle"

TickAt(pc) == tick.pc = pc /\ UNCHANGED <<now, req, requests, faults>>
Goto(pc) == tick' = [IdleTick EXCEPT !.pc = pc, !.pass = now]

-----------------------------------------------------------------------------
(* The billing tick: one at a time, under the cron lock.                   *)

TickStart ==
    /\ TickAt("idle")
    /\ Overlap \/ HandlersIdle
    /\ Goto("convertList")
    /\ UNCHANGED dbVars

\* convertDueTrials: the trials whose scheduled plan has come into force.
ConvertList ==
    /\ TickAt("convertList")
    /\ LET due == {n \in DOMAIN subs : /\ subs[n].status = "TRIALING"
                                       /\ subs[n].end <= now /\ subs[n].sched}
       IN  IF due = {} THEN Goto("renewList")
           ELSE \E n \in due :
                  tick' = [IdleTick EXCEPT !.pc = "convertRead", !.pass = now, !.row = n,
                                           !.period = Stored(subs[n])]
    /\ UNCHANGED dbVars

\* Re-read under the transaction: converted or closed meanwhile.
ConvertRead ==
    /\ TickAt("convertRead")
    /\ IF subs[tick.row].status = "TRIALING"
       THEN tick' = [tick EXCEPT !.pc = "convertWrite"]
       ELSE Goto("renewList")
    /\ UNCHANGED dbVars

\* The paid period starts exactly where the trial, as listed, ended.
ConvertWrite ==
    /\ TickAt("convertWrite")
    /\ LET paid == PaidRow(tick.period.end) IN
       /\ subs' = Replaced(subs, paid)
       /\ hotel' = MirrorOf(paid)
       /\ tick' = [tick EXCEPT !.pc = "convertInvoice", !.row = Len(subs'),
                               !.period = Stored(paid)]
    /\ UNCHANGED invoices

\* The first invoice; a free plan has none and a failure is only logged.
ConvertInvoice ==
    /\ TickAt("convertInvoice")
    /\ invoices' \in {invoices, IssueInvoice(invoices, tick.row, tick.period)}
    /\ Goto("renewList")
    /\ UNCHANGED <<subs, hotel>>

\* Fault: a subscription in its grace window is not renewed.
RenewList_ActiveOnly ==
    /\ TickAt("renewList")
    /\ LET due == {n \in DOMAIN subs : /\ subs[n].status = "ACTIVE"
                                       /\ subs[n].renew /\ subs[n].end <= now}
       IN  IF due = {} THEN Goto("delinquent")
           ELSE \E n \in due :
                  tick' = [IdleTick EXCEPT !.pc = "renewWrite", !.pass = now, !.row = n,
                                           !.period = Stored(subs[n])]
    /\ UNCHANGED dbVars

\* renewDueSubscriptions reads its list once, periods included.
RenewList ==
    /\ TickAt("renewList")
    /\ LET due == {n \in DOMAIN subs : /\ subs[n].status \in {"ACTIVE", "PAST_DUE"}
                                       /\ subs[n].renew /\ subs[n].end <= now}
       IN  IF due = {} THEN Goto("delinquent")
           ELSE \E n \in due :
                  tick' = [IdleTick EXCEPT !.pc = "renewWrite", !.pass = now, !.row = n,
                                           !.period = Stored(subs[n])]
    /\ UNCHANGED dbVars

\* The next period of the catch-up, from the period and anchor in the list.
NextRolled == NextAnchoredPeriod(tick.period, subs[tick.row].anchor)

Rolling(next) ==
    tick' = IF next.end <= tick.pass /\ tick.rolls + 1 < MaxCatchup
            THEN [tick EXCEPT !.period = next, !.rolls = @ + 1]
            ELSE [IdleTick EXCEPT !.pc = "delinquent", !.pass = now]

\* Fault: the period is rolled and its invoice left to a later write.
RenewWrite_Uninvoiced ==
    /\ TickAt("renewWrite")
    /\ LET next == NextRolled IN
       /\ subs' = [subs EXCEPT ![tick.row].start = next.start, ![tick.row].end = next.end]
       /\ hotel' = [hotel EXCEPT !.start = next.start, !.end = next.end]
       /\ Rolling(next)
    /\ UNCHANGED invoices

\* Fault: the hotel row keeps the dates of the closed period.
RenewWrite_MirrorKept ==
    /\ TickAt("renewWrite")
    /\ LET next == NextRolled IN
       /\ invoices' = IssueInvoice(invoices, tick.row, tick.period)
       /\ subs' = [subs EXCEPT ![tick.row].start = next.start, ![tick.row].end = next.end]
       /\ Rolling(next)
    /\ UNCHANGED hotel

\* One transaction per period closed: its invoice, the roll, the mirror.
RenewWrite ==
    /\ TickAt("renewWrite")
    /\ LET next == NextRolled IN
       /\ invoices' = IssueInvoice(invoices, tick.row, tick.period)
       /\ subs' = [subs EXCEPT ![tick.row].start = next.start, ![tick.row].end = next.end]
       /\ hotel' = [hotel EXCEPT !.start = next.start, !.end = next.end]
       /\ Rolling(next)

Restatus(from, to) ==
    [n \in DOMAIN subs |-> IF subs[n].status \in from THEN [subs[n] EXCEPT !.status = to]
                           ELSE subs[n]]

\* advanceDelinquent, as far as it concerns the subscription: nothing is
\* overdue, or an invoice is past due, or past its grace window.
Delinquent ==
    /\ TickAt("delinquent")
    /\ \/ UNCHANGED <<subs, hotel>>
       \/ /\ invoices # {} /\ hotel.status = "ACTIVE"
          /\ hotel' = [hotel EXCEPT !.status = "PAST_DUE"]
          /\ subs' = Restatus({"ACTIVE"}, "PAST_DUE")
       \/ /\ invoices # {} /\ hotel.status \in Live
          /\ hotel' = [hotel EXCEPT !.status = "EXPIRED"]
          /\ subs' = Restatus(Live, "EXPIRED")
    /\ Goto("expireList")
    /\ UNCHANGED invoices

\* expireOverdueSubscriptions: a live hotel whose billingEndDate is past; on
\* the day itself that depends on the hour.
ExpireList ==
    /\ TickAt("expireList")
    /\ \E later \in BOOLEAN :
         tick' = IF hotel.status \in Live /\ (hotel.end < now \/ (later /\ hotel.end = now))
                 THEN [IdleTick EXCEPT !.pc = "expireRead", !.pass = now]
                 ELSE IdleTick
    /\ UNCHANGED dbVars

\* Fault: a stale billingEndDate is proof enough.
ExpireRead_NoResolver ==
    /\ TickAt("expireRead")
    /\ tick' = [tick EXCEPT !.pc = "expireWrite"]
    /\ UNCHANGED dbVars

\* The resolver is asked whether the hotel really lapsed.
ExpireRead ==
    /\ TickAt("expireRead")
    /\ tick' = IF \A n \in LiveRows :
                      ResolveEffectiveState(subs[n], tick.pass).status = "EXPIRED"
               THEN [tick EXCEPT !.pc = "expireWrite"]
               ELSE IdleTick
    /\ UNCHANGED dbVars

\* The verdict is carried out on whatever the rows are by now.
ExpireWrite ==
    /\ TickAt("expireWrite")
    /\ hotel' = [hotel EXCEPT !.status = "EXPIRED"]
    /\ subs' = Restatus(Live, "EXPIRED")
    /\ tick' = IdleTick
    /\ UNCHANGED invoices

\* A pass whose transaction fails is logged and the next pass runs; a crash
\* ends the tick.
TickFails ==
    /\ faults < MaxFaults
    /\ faults' = faults + 1
    /\ \/ tick.pc \in {"convertRead", "convertWrite"} /\ Goto("renewList")
       \/ tick.pc = "renewWrite" /\ Goto("delinquent")
       \/ tick.pc # "idle" /\ tick' = IdleTick
    /\ UNCHANGED <<now, dbVars, req, requests>>

TickNext ==
    \/ ConvertList \/ ConvertRead \/ ConvertWrite \/ ConvertInvoice
    \/ RenewList \/ RenewWrite \/ Delinquent
    \/ ExpireList \/ ExpireRead \/ ExpireWrite

-----------------------------------------------------------------------------
(* Requests.                                                               *)

RequestAt(h, pc) == req[h].pc = pc /\ UNCHANGED <<now, tick, requests, faults>>

\* Bound: requests; and, without overlap, one thing at a time.
Arrives(h) ==
    /\ req[h].pc = "idle"
    /\ requests < MaxRequests
    /\ requests' = requests + 1
    /\ Overlap \/ (TickIdle /\ HandlersIdle)
    /\ UNCHANGED <<now, tick, faults>>

Hold(h, r) == req' = [req EXCEPT ![h] = r]
Answer(h) == Hold(h, IdleRequest)

\* startTrial is one transaction that reads nothing of the hotel.
StartTrial(h, days) ==
    /\ Arrives(h)
    /\ subs' = Replaced(subs, TrialRow(now, days))
    /\ hotel' = MirrorOf(TrialRow(now, days))
    /\ UNCHANGED <<invoices, req>>

Trialing == \E n \in LiveRows : subs[n].status = "TRIALING" /\ subs[n].end > now

\* assignPlanToHotel, unless told "now": a trialing hotel keeps its trial.
AssignAtTrialEnd(h) ==
    /\ Arrives(h)
    /\ Trialing
    /\ Hold(h, [IdleRequest EXCEPT !.pc = "scheduleRead", !.at = now])
    /\ UNCHANGED dbVars

\* schedulePlanAtTrialEnd takes any row still marked TRIALING.
ScheduleRead(h) ==
    /\ RequestAt(h, "scheduleRead")
    /\ \/ \E n \in LiveRows :
            /\ subs[n].status = "TRIALING"
            /\ Hold(h, [req[h] EXCEPT !.pc = "scheduleWrite", !.row = n])
       \/ /\ \A n \in LiveRows : subs[n].status # "TRIALING"
          /\ Answer(h)
    /\ UNCHANGED dbVars

ScheduleWrite(h) ==
    /\ RequestAt(h, "scheduleWrite")
    /\ subs' = [subs EXCEPT ![req[h].row].sched = TRUE]
    /\ Answer(h)
    /\ UNCHANGED <<hotel, invoices>>

\* Starting today: asked for, or there is no trial to wait for.
AssignNow(h) ==
    /\ Arrives(h)
    /\ Hold(h, [IdleRequest EXCEPT !.pc = "assignWrite", !.at = now])
    /\ UNCHANGED dbVars

AssignWrite(h) ==
    /\ RequestAt(h, "assignWrite")
    /\ LET paid == PaidRow(req[h].at) IN
       /\ subs' = Replaced(subs, paid)
       /\ hotel' = MirrorOf(paid)
       /\ Hold(h, [req[h] EXCEPT !.pc = "assignInvoice", !.row = Len(subs'),
                                 !.period = Stored(paid)])
    /\ UNCHANGED invoices

\* As for a conversion, the first invoice may be missing.
AssignInvoice(h) ==
    /\ RequestAt(h, "assignInvoice")
    /\ invoices' \in {invoices, IssueInvoice(invoices, req[h].row, req[h].period)}
    /\ Answer(h)
    /\ UNCHANGED <<subs, hotel>>

\* cancelSubscription reads the live row and writes it by its id.
CancelRead(h, immediate) ==
    /\ Arrives(h)
    /\ \E n \in LiveRows :
         Hold(h, [IdleRequest EXCEPT !.pc = IF immediate THEN "cancelNowWrite" ELSE "cancelWrite",
                                     !.at = now, !.row = n])
    /\ UNCHANGED dbVars

\* At the period end: service is meant to continue until then.
CancelWrite(h) ==
    /\ RequestAt(h, "cancelWrite")
    /\ subs' = [subs EXCEPT ![req[h].row].renew = FALSE]
    /\ Answer(h)
    /\ UNCHANGED <<hotel, invoices>>

CancelNowWrite(h) ==
    /\ RequestAt(h, "cancelNowWrite")
    /\ LET r == req[h] IN
       /\ subs' = [subs EXCEPT ![r.row].status = "CANCELED", ![r.row].renew = FALSE,
                               ![r.row].end = r.at]
       /\ hotel' = [hotel EXCEPT !.status = "EXPIRED", !.end = r.at]
    /\ Answer(h)
    /\ UNCHANGED invoices

\* extendSubscription: the new end and the status to restore are computed
\* from the row that was read.  Bound: the end stays within the clock.
ExtendRead(h, days) ==
    /\ Arrives(h)
    /\ \E n \in LiveRows :
         /\ subs[n].end + days < MaxDay
         /\ Hold(h, [pc |-> "extendWrite", at |-> now, row |-> n, status |-> subs[n].status,
                     period |-> [start |-> subs[n].start, end |-> subs[n].end + days]])
    /\ UNCHANGED dbVars

ExtendWrite(h) ==
    /\ RequestAt(h, "extendWrite")
    /\ LET r == req[h] IN
       /\ subs' = [subs EXCEPT ![r.row].end = r.period.end]
       /\ hotel' = [hotel EXCEPT !.end = r.period.end,
                                 !.status = IF r.period.end > now THEN r.status ELSE @]
    /\ Answer(h)
    /\ UNCHANGED invoices

\* reactivateAfterPayment: the newest row, if it was suspended and may go on.
ReactivateRead(h) ==
    /\ Arrives(h)
    /\ invoices # {} /\ LiveRows = {} /\ subs # <<>>
    /\ subs[Last].status = "EXPIRED"
    /\ subs[Last].renew \/ subs[Last].end > now
    /\ Hold(h, [IdleRequest EXCEPT !.pc = "reactivateWrite", !.at = now, !.row = Last,
                                   !.period = Stored(subs[Last])])
    /\ UNCHANGED dbVars

\* Fault: the database has no index that admits one live row.
ReactivateWrite_NoIndex(h) ==
    /\ RequestAt(h, "reactivateWrite")
    /\ LET r == req[h] IN
       /\ subs' = [subs EXCEPT ![r.row].status = "ACTIVE"]
       /\ hotel' = Mirror("ACTIVE", r.period.start, r.period.end)
       /\ Answer(h)
    /\ UNCHANGED invoices

\* Subscription_one_live_per_hotel refuses a second live row: rolled back.
ReactivateWrite(h) ==
    /\ RequestAt(h, "reactivateWrite")
    /\ LET r == req[h] IN
       /\ IF LiveRows \subseteq {r.row}
          THEN /\ subs' = [subs EXCEPT ![r.row].status = "ACTIVE"]
               /\ hotel' = Mirror("ACTIVE", r.period.start, r.period.end)
          ELSE UNCHANGED <<subs, hotel>>
       /\ Answer(h)
    /\ UNCHANGED invoices

\* A handler's transaction fails or its process dies: nothing of it is written.
RequestFails(h) ==
    /\ faults < MaxFaults
    /\ faults' = faults + 1
    /\ req[h].pc # "idle"
    /\ Answer(h)
    /\ UNCHANGED <<now, dbVars, tick, requests>>

Continue(h) ==
    \/ ScheduleRead(h) \/ ScheduleWrite(h)
    \/ AssignWrite(h) \/ AssignInvoice(h)
    \/ CancelWrite(h) \/ CancelNowWrite(h) \/ ExtendWrite(h) \/ ReactivateWrite(h)

Request(h) ==
    \/ \E days \in TrialDays : StartTrial(h, days)
    \/ AssignAtTrialEnd(h) \/ AssignNow(h)
    \/ \E immediate \in BOOLEAN : CancelRead(h, immediate)
    \/ \E days \in ExtendDays : ExtendRead(h, days)
    \/ ReactivateRead(h)

Next ==
    \/ Midnight
    \/ TickStart \/ TickNext \/ TickFails
    \/ \E h \in Handlers : Request(h) \/ Continue(h) \/ RequestFails(h)

\* Midnight comes; setInterval starts a tick again and again; a tick and a
\* handler under way go on.
Fairness ==
    /\ WF_vars(Midnight) /\ WF_vars(TickStart) /\ WF_vars(TickNext)
    /\ \A h \in Handlers : WF_vars(Continue(h))

Spec == Init /\ [][Next]_vars
FairSpec == Spec /\ Fairness

-----------------------------------------------------------------------------
(* Properties *)

Period == [start : Nat, end : Nat]

\* Every variable has its type; in particular a hotel never holds two live rows,
\* whatever handlers and tick race (the partial unique index on subscriptions).
TypeOK ==
    /\ now \in 0 .. MaxDay
    /\ subs \in Seq(Row) /\ \A m, n \in LiveRows : m = n
    /\ hotel \in [status : Live \cup {"EXPIRED"}, start : Nat, end : Nat]
    /\ invoices \subseteq [sub : DOMAIN subs, start : Nat, end : Nat]
    /\ tick \in [pc : TickPhases, pass : Nat, row : 0 .. Last, period : Period,
                 rolls : 0 .. MaxCatchup]
    /\ req \in [Handlers -> [pc : RequestPhases, at : Nat, row : 0 .. Last,
                             period : Period, status : Live]]
    /\ requests \in 0 .. MaxRequests
    /\ faults \in 0 .. MaxFaults

\* A subscription never bills a day twice, however extensions, a stale
\* renewal list and failed first invoices combine.
InvoicesDisjoint ==
    \A i, j \in invoices :
        i.sub = j.sub /\ i # j => i.end <= j.start \/ j.end <= i.start

\* No period is left behind without its invoice: the step that moves a
\* subscription to its next period leaves one for the period it closes, across
\* crashes in the middle of a catch-up and requests during it.
BilledBeforeRolled ==
    [][\A n \in DOMAIN subs :
         subs'[n].start # subs[n].start => \E i \in invoices' : i.start = subs[n].start]_vars

\* The header of bootstrap/crons.ts: the tick decides nothing.  But for the
\* delinquency pass, no step of a tick changes what the hotel is entitled to,
\* neither the status nor the period, when no request overlaps it.
TickNeutral ==
    [][tick' # tick /\ tick.pc # "delinquent" =>
         Entitlement(subs', hotel', now) = Entitlement(subs, hotel, now)]_vars

\* Seen through the resolver, periods tile time whether or not the tick wrote
\* them down: a hotel served on two consecutive days is in the same period or
\* at the start of the next, and never outside the period it is told.
PeriodsTile ==
    [][now' # now =>
         LET before == Entitlement(subs, hotel, now)
             after  == Entitlement(subs', hotel', now')
         IN  after.served =>
               /\ before.served
               /\ after.period.start <= now' /\ now' < after.period.end
               /\ \/ after.period = before.period
                  \/ after.period.start = before.period.end /\ now' = before.period.end]_vars

\* The hotel row mirrors the newest subscription row after every request and
\* every write of a tick.
HotelMirrors ==
    IF subs = <<>> THEN hotel.status = "EXPIRED"
    ELSE hotel = [MirrorOf(subs[Last]) EXCEPT
                     !.status = IF @ = "CANCELED" THEN "EXPIRED" ELSE @]

\* The tick owes work on the live row; within the clock's bound it can tell.
Lagging ==
    \E n \in LiveRows : subs[n].end < MaxDay /\ ResolveEffectiveState(subs[n], now).lags

\* Materialisation catches up: what the clock made true is eventually written,
\* in whatever number of ticks MaxCatchup and failures take.
LagClears == Lagging ~> ~Lagging

=============================================================================
