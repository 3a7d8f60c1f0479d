------------------------- MODULE SubscriptionProofs -------------------------
(***************************************************************************)
(* What Subscription keeps, proved for every calendar, every number of     *)
(* handlers and every bound.  First, whatever overlaps: types, at most one *)
(* live row, and an invoice for every period closed.  Then, for handlers   *)
(* and ticks one at a time: the hotel row mirrors the newest subscription, *)
(* no day is billed twice, a tick changes nothing of what the hotel is     *)
(* entitled to, the periods it is told tile time, and what lags behind the *)
(* clock is on a list of the tick.                                         *)
(***************************************************************************)
EXTENDS Subscription, BillingPeriodProofs, SequenceTheorems

-----------------------------------------------------------------------------
(***************************************************************************)
(* The tables and what is held of them, as constant operators: rows of     *)
(* which at most one is live; a tick and handlers that hold rows which     *)
(* exist and days that have come, and, while a period is being closed, the *)
(* start of the very period the row is in.                                 *)
(***************************************************************************)
LiveIn(rows) == {n \in DOMAIN rows : rows[n].status \in Live}

RowsOK(rows) == rows \in Seq(Row) /\ \A m, n \in LiveIn(rows) : m = n

HotelRow == [status : Live \cup {"EXPIRED"}, start : Nat, end : Nat]

InvoicesOK(table, last) == table \subseteq [sub : 1 .. last, start : Nat, end : Nat]

HoldsRow  == {"convertRead", "convertWrite", "convertInvoice", "renewWrite"}
HoldsPast == {"convertRead", "convertWrite", "renewWrite"}

TickRecord(day, last) ==
    [pc : TickPhases, pass : 0 .. day, row : 0 .. last, period : Period, rolls : 0 .. MaxCatchup]

TickOK(t, day, rows) ==
    /\ t \in TickRecord(day, Len(rows))
    /\ t.pc \in HoldsRow => t.row # 0
    /\ t.pc \in HoldsPast => t.period.end <= day
    /\ t.pc = "renewWrite" => t.period.start = rows[t.row].start

HoldsNone == {"idle", "scheduleRead", "assignWrite"}

RequestRecord(day, last) ==
    [pc : RequestPhases, at : 0 .. day, row : 0 .. last, period : Period, status : Live]

Requests(day, last) ==
    {r \in RequestRecord(day, last) : r.pc \notin HoldsNone => r.row # 0}

\* The inductive invariant.
IInv ==
    /\ now \in 0 .. MaxDay /\ requests \in 0 .. MaxRequests /\ faults \in 0 .. MaxFaults
    /\ RowsOK(subs)
    /\ hotel \in HotelRow
    /\ InvoicesOK(invoices, Len(subs))
    /\ TickOK(tick, now, subs)
    /\ req \in [Handlers -> Requests(now, Len(subs))]

-----------------------------------------------------------------------------
(* The operators that write the Subscription table.                        *)

\* The rows of a new table that keeps the old ones in place.
Keeps(rows, next) ==
    /\ Len(rows) <= Len(next)
    /\ \A n \in DOMAIN rows : n \in DOMAIN next /\ next[n].start = rows[n].start

LEMMA RowsTyped ==
  ASSUME NEW rows, RowsOK(rows)
  PROVE  /\ Len(rows) \in Nat /\ DOMAIN rows = 1 .. Len(rows)
         /\ rows \in [1 .. Len(rows) -> Row] /\ \A n \in DOMAIN rows : rows[n] \in Row
<1>1. rows \in Seq(Row)
  BY DEF RowsOK
<1>2. Len(rows) \in Nat /\ DOMAIN rows = 1 .. Len(rows) /\ rows \in [1 .. Len(rows) -> Row]
  BY <1>1, LenProperties
<1> QED BY <1>2

\* A table of as many rows of which at most one is live.
LEMMA RowsMapped ==
  ASSUME NEW rows, RowsOK(rows), NEW next \in [1 .. Len(rows) -> Row],
         LiveIn(next) \subseteq LiveIn(rows)
  PROVE  RowsOK(next) /\ Len(next) = Len(rows) /\ DOMAIN next = DOMAIN rows
<1>1. Len(rows) \in Nat /\ DOMAIN rows = 1 .. Len(rows) /\ DOMAIN next = 1 .. Len(rows)
  BY RowsTyped
<1>2. next \in Seq(Row)
  BY <1>1, SeqDef
<1>3. Len(next) = Len(rows)
  <2>1. Len(next) \in Nat /\ DOMAIN next = 1 .. Len(next)
    BY <1>2, LenProperties
  <2> QED BY <1>1, <2>1
<1>4. \A m, n \in LiveIn(next) : m = n
  BY DEF RowsOK
<1> QED BY <1>1, <1>2, <1>3, <1>4 DEF RowsOK

\* cancelLiveSubscriptions and create leave the new row as the only live one.
LEMMA ReplacedOK ==
  ASSUME NEW rows, RowsOK(rows), NEW row \in Row
  PROVE  /\ RowsOK(Replaced(rows, row)) /\ Keeps(rows, Replaced(rows, row))
         /\ Len(Replaced(rows, row)) = Len(rows) + 1
         /\ Replaced(rows, row)[Len(rows) + 1] = row
         /\ \A n \in DOMAIN rows : Replaced(rows, row)[n] =
               IF rows[n].status \in Live THEN [rows[n] EXCEPT !.status = "CANCELED"] ELSE rows[n]
         /\ LiveIn(Replaced(rows, row)) \subseteq {Len(rows) + 1}
<1> DEFINE closed == [n \in DOMAIN rows |->
                        IF rows[n].status \in Live THEN [rows[n] EXCEPT !.status = "CANCELED"]
                        ELSE rows[n]]
<1>1. /\ Len(rows) \in Nat /\ DOMAIN rows = 1 .. Len(rows)
      /\ \A n \in DOMAIN rows : rows[n] \in Row
  BY RowsTyped
<1>2. \A n \in DOMAIN rows : /\ closed[n] \in Row /\ closed[n].status \notin Live
                             /\ closed[n].start = rows[n].start
  BY <1>1 DEF Row, Live, SubscriptionStatus, Terminal
<1>3. closed \in [1 .. Len(rows) -> Row] /\ LiveIn(closed) \subseteq LiveIn(rows)
  BY <1>1, <1>2 DEF LiveIn
<1>4. closed \in Seq(Row) /\ Len(closed) = Len(rows) /\ DOMAIN closed = DOMAIN rows
  BY <1>3, RowsMapped DEF RowsOK
<1>5. Replaced(rows, row) = Append(closed, row)
  BY DEF Replaced
<1>6. \A n \in DOMAIN rows : closed[n] =
         IF rows[n].status \in Live THEN [rows[n] EXCEPT !.status = "CANCELED"] ELSE rows[n]
  OBVIOUS
<1> HIDE DEF closed
<1>7. /\ Append(closed, row) \in Seq(Row) /\ Len(Append(closed, row)) = Len(rows) + 1
      /\ DOMAIN Append(closed, row) = 1 .. Len(rows) + 1
      /\ Append(closed, row)[Len(rows) + 1] = row
      /\ \A n \in DOMAIN rows : Append(closed, row)[n] = closed[n]
  BY <1>1, <1>4
<1>8. LiveIn(Append(closed, row)) \subseteq {Len(rows) + 1}
  BY <1>1, <1>2, <1>7 DEF LiveIn
<1>9. Keeps(rows, Append(closed, row))
  BY <1>1, <1>2, <1>7 DEF Keeps
<1> QED BY <1>5, <1>6, <1>7, <1>8, <1>9 DEF RowsOK

Written(rows, k, row) == [rows EXCEPT ![k] = row]

\* One row is written; it may be live if no other row is.
LEMMA RowWritten ==
  ASSUME NEW rows, RowsOK(rows), NEW k \in DOMAIN rows, NEW row \in Row,
         row.status \in Live => LiveIn(rows) \subseteq {k},
         NEW next, next = Written(rows, k, row)
  PROVE  /\ RowsOK(next) /\ Len(next) = Len(rows) /\ DOMAIN next = DOMAIN rows
         /\ next[k] = row /\ \A n \in DOMAIN rows : n # k => next[n] = rows[n]
<1>1. /\ Len(rows) \in Nat /\ DOMAIN rows = 1 .. Len(rows)
      /\ rows \in [1 .. Len(rows) -> Row]
  BY RowsTyped
<1>2. /\ next \in [1 .. Len(rows) -> Row] /\ DOMAIN next = DOMAIN rows
      /\ next[k] = row /\ \A n \in DOMAIN rows : n # k => next[n] = rows[n]
  BY <1>1 DEF Written
<1>3. next \in Seq(Row)
  BY <1>1, <1>2, SeqDef
<1>4. Len(next) = Len(rows)
  <2>1. Len(next) \in Nat /\ DOMAIN next = 1 .. Len(next)
    BY <1>3, LenProperties
  <2> QED BY <1>1, <1>2, <2>1
<1>5. \A m, n \in LiveIn(next) : m = n
  <2>1. CASE row.status \in Live
    BY <1>2, <2>1 DEF LiveIn
  <2>2. CASE row.status \notin Live
    BY <1>2, <2>2 DEF LiveIn, RowsOK
  <2> QED BY <2>1, <2>2
<1> QED BY <1>2, <1>3, <1>4, <1>5 DEF RowsOK

\* A sweep over the statuses moves no period and revives nothing.
LEMMA RestatusOK ==
  ASSUME RowsOK(subs), NEW from \in SUBSET Live, NEW to \in {"PAST_DUE", "EXPIRED"}
  PROVE  /\ RowsOK(Restatus(from, to)) /\ Keeps(subs, Restatus(from, to))
         /\ Len(Restatus(from, to)) = Len(subs)
         /\ LiveIn(Restatus(from, to)) \subseteq LiveIn(subs)
         /\ \A n \in DOMAIN subs : Restatus(from, to)[n] =
               IF subs[n].status \in from THEN [subs[n] EXCEPT !.status = to] ELSE subs[n]
<1> DEFINE swept == [n \in DOMAIN subs |-> IF subs[n].status \in from
                                           THEN [subs[n] EXCEPT !.status = to] ELSE subs[n]]
<1>1. /\ Len(subs) \in Nat /\ DOMAIN subs = 1 .. Len(subs)
      /\ \A n \in DOMAIN subs : subs[n] \in Row
  BY RowsTyped
<1>2. \A n \in DOMAIN subs : /\ swept[n] \in Row /\ swept[n].start = subs[n].start
                             /\ swept[n].status \in Live => subs[n].status \in Live
  BY <1>1 DEF Row, Live, SubscriptionStatus, Terminal
<1>3. swept \in [1 .. Len(subs) -> Row] /\ LiveIn(swept) \subseteq LiveIn(subs)
  BY <1>1, <1>2 DEF LiveIn
<1>4. RowsOK(swept) /\ Len(swept) = Len(subs) /\ DOMAIN swept = DOMAIN subs
  <2> HIDE DEF swept
  <2> QED BY <1>3, RowsMapped
<1>5. Keeps(subs, swept)
  BY <1>1, <1>2, <1>4 DEF Keeps
<1> QED BY <1>3, <1>4, <1>5 DEF Restatus

\* The rows the handlers and the tick create.
LEMMA PaidRowOK ==
  ASSUME NEW t \in Days
  PROVE  PaidRow(t) \in Row
<1>1. t \in Nat /\ AnchorDayOf(t) \in AnchorDays
  BY AnchorImplied, CalendarAssumption DEF Days
<1>2. NextAnchorAfter(t, AnchorDayOf(t)) \in Nat
  BY <1>1, NextAnchorLater
<1> QED BY <1>1, <1>2 DEF PaidRow, Row, SubscriptionStatus, Live

LEMMA TrialRowOK ==
  ASSUME NEW t \in Days, NEW days \in TrialDays
  PROVE  TrialRow(t, days) \in Row
<1>1. t \in Nat /\ AnchorDayOf(t) \in AnchorDays /\ days \in Nat
  BY AnchorImplied, CalendarAssumption, SubscriptionAssumption DEF Days
<1> QED BY <1>1 DEF TrialRow, Row, SubscriptionStatus, Live

LEMMA MirrorOK ==
  ASSUME NEW row \in Row, row.status \in Live
  PROVE  MirrorOf(row) \in HotelRow
  BY DEF MirrorOf, Mirror, HotelRow, Row

\* The bound of the clock lies inside the calendar.
LEMMA DaysCome ==
  ASSUME NEW t \in 0 .. MaxDay
  PROVE  t \in Days /\ t \in Nat
<1>1. LastMonth - 1 \in Months
  BY CalendarAssumption DEF Months
<1>2. MonthStart[LastMonth - 1] \in Nat
  BY <1>1, MonthLength
<1> QED BY <1>2, SubscriptionAssumption DEF Days

LEMMA InvoiceIssued ==
  ASSUME NEW table, NEW last \in Nat, InvoicesOK(table, last), NEW n \in 1 .. last,
         NEW period \in Period
  PROVE  /\ InvoicesOK(IssueInvoice(table, n, period), last)
         /\ \E i \in IssueInvoice(table, n, period) : i.start = period.start
<1>1. PICK bill : bill = [sub |-> n, start |-> period.start, end |-> period.end]
  OBVIOUS
<1>2. bill \in [sub : 1 .. last, start : Nat, end : Nat] /\ bill.start = period.start
  BY <1>1 DEF Period
<1>3. CASE \E i \in table : i.start = period.start
  BY <1>3 DEF IssueInvoice
<1>4. CASE ~ \E i \in table : i.start = period.start
  <2>1. IssueInvoice(table, n, period) = table \cup {bill}
    BY <1>1, <1>4 DEF IssueInvoice
  <2> QED BY <1>2, <2>1 DEF InvoicesOK
<1> QED BY <1>3, <1>4

-----------------------------------------------------------------------------
(* Type correctness, and what tick and handlers hold.                      *)

LEMMA Basics ==
  ASSUME IInv
  PROVE  /\ now \in Nat /\ now \in Days /\ MaxDay \in Nat /\ MaxCatchup \in Nat
         /\ Len(subs) \in Nat /\ DOMAIN subs = 1 .. Len(subs)
         /\ \A n \in DOMAIN subs : subs[n] \in Row /\ Stored(subs[n]) \in Period
         /\ Keeps(subs, subs)
<1>1. now \in Nat /\ now \in Days /\ MaxDay \in Nat /\ MaxCatchup \in Nat
  <2>1. MaxDay \in Nat /\ MaxCatchup \in Nat
    BY SubscriptionAssumption, CalendarAssumption, MonthLength DEF Days
  <2> QED BY <2>1, DaysCome DEF IInv
<1>2. /\ Len(subs) \in Nat /\ DOMAIN subs = 1 .. Len(subs)
      /\ \A n \in DOMAIN subs : subs[n] \in Row
  BY RowsTyped DEF IInv
<1>3. \A n \in DOMAIN subs : Stored(subs[n]) \in Period
  BY <1>2 DEF Row, Stored, Period
<1>4. Keeps(subs, subs)
  BY <1>2 DEF Keeps
<1> QED BY <1>1, <1>2, <1>3, <1>4

LEMMA RequestsGrow ==
  ASSUME NEW day \in Nat, NEW later \in Nat, day <= later,
         NEW last \in Nat, NEW next \in Nat, last <= next
  PROVE  Requests(day, last) \subseteq Requests(later, next)
<1>1. 0 .. day \subseteq 0 .. later /\ 0 .. last \subseteq 0 .. next
  OBVIOUS
<1> QED BY <1>1 DEF Requests, RequestRecord

\* A step of the tick.
LEMMA TickStep ==
  ASSUME IInv, RowsOK(subs'), Len(subs) <= Len(subs'), hotel' \in HotelRow,
         InvoicesOK(invoices', Len(subs')), TickOK(tick', now, subs'),
         UNCHANGED <<now, req, requests>>, faults' \in 0 .. MaxFaults
  PROVE  IInv'
<1>1. Len(subs) \in Nat /\ Len(subs') \in Nat /\ now \in Nat
  BY Basics, RowsTyped
<1>2. Requests(now, Len(subs)) \subseteq Requests(now, Len(subs'))
  BY <1>1, RequestsGrow
<1>3. req' \in [Handlers -> Requests(now, Len(subs'))]
  BY <1>2 DEF IInv
<1> QED BY <1>3 DEF IInv

\* A step of the tick that only reads.
LEMMA TickReads ==
  ASSUME IInv, UNCHANGED dbVars, TickOK(tick', now, subs),
         UNCHANGED <<now, req, requests>>, faults' \in 0 .. MaxFaults
  PROVE  IInv'
<1>1. /\ RowsOK(subs') /\ Len(subs) <= Len(subs') /\ hotel' \in HotelRow
      /\ InvoicesOK(invoices', Len(subs')) /\ TickOK(tick', now, subs')
  BY Basics DEF IInv, dbVars
<1> QED BY <1>1, TickStep

\* The tick keeps what it holds while a handler writes.
LEMMA TickKept ==
  ASSUME IInv, UNCHANGED tick, Keeps(subs, subs'), RowsOK(subs')
  PROVE  TickOK(tick', now, subs')
<1>1. /\ Len(subs) \in Nat /\ Len(subs') \in Nat /\ Len(subs) <= Len(subs')
      /\ DOMAIN subs = 1 .. Len(subs)
  BY Basics, RowsTyped DEF Keeps
<1>2. 0 .. Len(subs) \subseteq 0 .. Len(subs')
  BY <1>1
<1>3. tick.pc = "renewWrite" => tick.period.start = subs'[tick.row].start
  BY <1>1 DEF IInv, TickOK, TickRecord, HoldsRow, Keeps
<1> QED BY <1>2, <1>3 DEF IInv, TickOK, TickRecord

\* A step of a handler, or a day that passes.
LEMMA RequestStep ==
  ASSUME IInv, RowsOK(subs'), Keeps(subs, subs'), hotel' \in HotelRow,
         InvoicesOK(invoices', Len(subs')), UNCHANGED <<now, tick>>,
         requests' \in 0 .. MaxRequests, faults' \in 0 .. MaxFaults,
         NEW h \in Handlers, NEW r \in Requests(now, Len(subs')), Hold(h, r) \/ UNCHANGED req
  PROVE  IInv'
<1>1. /\ Len(subs) \in Nat /\ Len(subs') \in Nat /\ Len(subs) <= Len(subs') /\ now \in Nat
  BY Basics, RowsTyped DEF Keeps
<1>2. Requests(now, Len(subs)) \subseteq Requests(now, Len(subs'))
  BY <1>1, RequestsGrow
<1>3. req \in [Handlers -> Requests(now, Len(subs'))]
  BY <1>2 DEF IInv
<1>4. req' \in [Handlers -> Requests(now, Len(subs'))]
  BY <1>3 DEF Hold
<1> QED BY <1>4, TickKept DEF IInv

\* A handler that only reads.
LEMMA RequestReads ==
  ASSUME IInv, UNCHANGED dbVars, UNCHANGED <<now, tick>>,
         requests' \in 0 .. MaxRequests, faults' \in 0 .. MaxFaults,
         NEW h \in Handlers, NEW r \in Requests(now, Len(subs)), Hold(h, r)
  PROVE  IInv'
<1>1. /\ RowsOK(subs') /\ Keeps(subs, subs') /\ hotel' \in HotelRow
      /\ InvoicesOK(invoices', Len(subs')) /\ r \in Requests(now, Len(subs'))
  BY Basics DEF IInv, dbVars
<1> QED BY <1>1, RequestStep

\* Records that hold no row.
LEMMA IdleRecords ==
  ASSUME NEW day \in Nat, NEW last \in Nat
  PROVE  /\ IdleTick \in TickRecord(day, last) /\ IdleTick.pc = "idle"
         /\ IdleRequest \in RequestRecord(day, last) /\ IdleRequest.pc = "idle"
<1>1. [start |-> 0, end |-> 0] \in Period
  BY DEF Period
<1>2. MaxCatchup \in Nat
  BY SubscriptionAssumption
<1> QED
  BY <1>1, <1>2 DEF TickRecord, RequestRecord, IdleTick, IdleRequest, TickPhases, RequestPhases, Live

LEMMA RestsOK ==
  ASSUME NEW rows, RowsOK(rows), NEW day \in Nat
  PROVE  /\ TickOK(IdleTick, day, rows)
         /\ \A phase \in TickPhases \ HoldsRow :
               TickOK([IdleTick EXCEPT !.pc = phase, !.pass = day], day, rows)
         /\ \A phase \in HoldsNone : [IdleRequest EXCEPT !.pc = phase, !.at = day]
                                     \in Requests(day, Len(rows))
         /\ IdleRequest \in Requests(day, Len(rows))
<1>1. Len(rows) \in Nat
  BY RowsTyped
<1>2. HoldsNone \subseteq RequestPhases
  BY DEF HoldsNone, RequestPhases
<1>0. day \in 0 .. day
  OBVIOUS
<1>3. TickOK(IdleTick, day, rows)
  BY <1>1, IdleRecords DEF TickOK, HoldsRow, HoldsPast
<1>4. ASSUME NEW phase \in TickPhases \ HoldsRow
      PROVE  TickOK([IdleTick EXCEPT !.pc = phase, !.pass = day], day, rows)
  <2>1. PICK rest : rest = [IdleTick EXCEPT !.pc = phase, !.pass = day]
    OBVIOUS
  <2>2. IdleTick \in TickRecord(day, Len(rows)) /\ phase \in TickPhases
    BY <1>1, IdleRecords
  <2>3. rest \in TickRecord(day, Len(rows)) /\ rest.pc = phase
    BY <1>0, <2>1, <2>2 DEF TickRecord
  <2> QED BY <2>1, <2>3 DEF TickOK, HoldsRow, HoldsPast
<1>5. ASSUME NEW phase \in HoldsNone
      PROVE  [IdleRequest EXCEPT !.pc = phase, !.at = day] \in Requests(day, Len(rows))
  <2>1. PICK rest : rest = [IdleRequest EXCEPT !.pc = phase, !.at = day]
    OBVIOUS
  <2>2. IdleRequest \in RequestRecord(day, Len(rows)) /\ phase \in RequestPhases
    BY <1>1, <1>2, IdleRecords
  <2>3. rest \in RequestRecord(day, Len(rows)) /\ rest.pc = phase
    BY <1>0, <2>1, <2>2 DEF RequestRecord
  <2> QED BY <2>1, <2>3 DEF Requests
<1>6. IdleRequest \in Requests(day, Len(rows))
  BY <1>1, IdleRecords DEF Requests, HoldsNone
<1> QED BY <1>3, <1>4, <1>5, <1>6
-----------------------------------------------------------------------------
(* The steps of the tick.                                                  *)

\* A write that leaves a row as live as it was.
LEMMA RowMoved ==
  ASSUME NEW rows, RowsOK(rows), NEW k \in DOMAIN rows, NEW row \in Row,
         row.status \in Live => rows[k].status \in Live,
         NEW next, next = Written(rows, k, row)
  PROVE  /\ RowsOK(next) /\ Len(next) = Len(rows) /\ DOMAIN next = DOMAIN rows
         /\ next[k] = row /\ \A n \in DOMAIN rows : n # k => next[n] = rows[n]
<1>1. row.status \in Live => LiveIn(rows) \subseteq {k}
  BY DEF RowsOK, LiveIn
<1> QED BY <1>1, RowWritten

LEMMA PeriodRolled ==
  ASSUME NEW p \in Period, p.end \in Days, NEW anchor \in AnchorDays
  PROVE  /\ NextAnchoredPeriod(p, anchor) \in Period
         /\ NextAnchoredPeriod(p, anchor).start = p.end
         /\ NextAnchoredPeriod(p, anchor).end > p.end
<1>1. NextAnchorAfter(p.end, anchor) \in Nat /\ NextAnchorAfter(p.end, anchor) > p.end
  BY NextAnchorLater
<1> QED BY <1>1 DEF NextAnchoredPeriod, ComputeAnchoredPeriod, Period

LEMMA ListedOK ==
  ASSUME NEW rows, RowsOK(rows), NEW day \in Nat, NEW n \in DOMAIN rows, NEW phase \in HoldsRow,
         NEW period \in Period, period.end <= day, period.start = rows[n].start,
         NEW taken, taken = [IdleTick EXCEPT !.pc = phase, !.pass = day, !.row = n, !.period = period]
  PROVE  TickOK(taken, day, rows)
<1>1. /\ Len(rows) \in Nat /\ DOMAIN rows = 1 .. Len(rows)
      /\ IdleTick \in TickRecord(day, Len(rows)) /\ phase \in TickPhases
  BY RowsTyped, IdleRecords DEF HoldsRow, TickPhases
<1>2. n \in 0 .. Len(rows) /\ n # 0 /\ day \in 0 .. day
  BY <1>1
<1>3. /\ taken \in TickRecord(day, Len(rows))
      /\ taken.pc = phase /\ taken.row = n /\ taken.period = period
  BY <1>1, <1>2 DEF TickRecord
<1> QED BY <1>2, <1>3 DEF TickOK

\* A subscription taken from a list, its period with it.
LEMMA TakenOK ==
  ASSUME IInv, NEW n \in DOMAIN subs, subs[n].end <= now, NEW phase \in HoldsRow,
         tick' = [IdleTick EXCEPT !.pc = phase, !.pass = now, !.row = n, !.period = Stored(subs[n])]
  PROVE  TickOK(tick', now, subs)
<1>1. RowsOK(subs) /\ now \in Nat /\ subs[n] \in Row /\ Stored(subs[n]) \in Period
  BY Basics DEF IInv
<1>2. Stored(subs[n]).end <= now /\ Stored(subs[n]).start = subs[n].start
  BY DEF Stored
<1> QED BY <1>1, <1>2, ListedOK

LEMMA PassGoes ==
  ASSUME IInv, RowsOK(subs'), NEW phase \in TickPhases \ HoldsRow, Goto(phase) \/ tick' = IdleTick
  PROVE  TickOK(tick', now, subs') /\ TickOK(tick', now, subs)
<1>1. now \in Nat /\ RowsOK(subs)
  BY Basics DEF IInv
<1>2. tick' = IdleTick \/ tick' = [IdleTick EXCEPT !.pc = phase, !.pass = now]
  BY DEF Goto
<1>3. ASSUME NEW rows, RowsOK(rows)
      PROVE  TickOK(tick', now, rows)
  <2>1. TickOK(IdleTick, now, rows) /\ TickOK([IdleTick EXCEPT !.pc = phase, !.pass = now], now, rows)
    BY <1>1, <1>3, RestsOK
  <2> QED BY <1>2, <2>1
<1> QED BY <1>1, <1>3

LEMMA PassesFree ==
  {"idle", "convertList", "renewList", "delinquent", "expireList", "expireRead", "expireWrite"}
     \subseteq TickPhases \ HoldsRow
  BY DEF TickPhases, HoldsRow

LEMMA ReadsOK ==
  ASSUME IInv, TickStart \/ ConvertList \/ ConvertRead \/ RenewList \/ ExpireList \/ ExpireRead
  PROVE  IInv'
<1>1. UNCHANGED <<now, req, requests, faults>> /\ UNCHANGED dbVars /\ faults' \in 0 .. MaxFaults
  BY DEF TickStart, ConvertList, ConvertRead, RenewList, ExpireList, ExpireRead, TickAt, IInv
<1>2. RowsOK(subs')
  BY <1>1 DEF IInv, dbVars
<1>3. SUFFICES TickOK(tick', now, subs)
  BY <1>1, TickReads
<1>4. CASE TickStart
  BY <1>2, <1>4, PassGoes, PassesFree DEF TickStart
<1>5. CASE ConvertList
  <2>1. \/ Goto("renewList")
        \/ \E n \in DOMAIN subs :
              /\ subs[n].end <= now
              /\ tick' = [IdleTick EXCEPT !.pc = "convertRead", !.pass = now, !.row = n,
                                          !.period = Stored(subs[n])]
    BY <1>5 DEF ConvertList
  <2> QED BY <1>2, <2>1, PassGoes, PassesFree, TakenOK DEF HoldsRow
<1>6. CASE ConvertRead
  <2>1. CASE Goto("renewList")
    BY <1>2, <2>1, PassGoes, PassesFree
  <2>2. CASE ~ Goto("renewList")
    <3>1. tick' = [tick EXCEPT !.pc = "convertWrite"] /\ tick.pc = "convertRead"
      BY <1>6, <2>2 DEF ConvertRead, TickAt
    <3> QED BY <3>1 DEF IInv, TickOK, TickRecord, TickPhases, HoldsRow, HoldsPast
  <2> QED BY <2>1, <2>2
<1>7. CASE RenewList
  <2>1. \/ Goto("delinquent")
        \/ \E n \in DOMAIN subs :
              /\ subs[n].end <= now
              /\ tick' = [IdleTick EXCEPT !.pc = "renewWrite", !.pass = now, !.row = n,
                                          !.period = Stored(subs[n])]
    BY <1>7 DEF RenewList
  <2> QED BY <1>2, <2>1, PassGoes, PassesFree, TakenOK DEF HoldsRow
<1>8. CASE ExpireList
  <2>1. Goto("expireRead") \/ tick' = IdleTick
    BY <1>8 DEF ExpireList, Goto
  <2> QED BY <1>2, <2>1, PassGoes, PassesFree
<1>9. CASE ExpireRead
  <2>1. CASE tick' = IdleTick
    BY <1>2, <2>1, PassGoes, PassesFree
  <2>2. CASE tick' # IdleTick
    <3>1. tick' = [tick EXCEPT !.pc = "expireWrite"]
      BY <1>9, <2>2 DEF ExpireRead
    <3> QED BY <3>1 DEF IInv, TickOK, TickRecord, TickPhases, HoldsRow, HoldsPast
  <2> QED BY <2>1, <2>2
<1> QED BY <1>4, <1>5, <1>6, <1>7, <1>8, <1>9

LEMMA InvoicesGrow ==
  ASSUME NEW table, NEW last \in Nat, NEW next \in Nat, last <= next, InvoicesOK(table, last)
  PROVE  InvoicesOK(table, next)
<1>1. 1 .. last \subseteq 1 .. next
  OBVIOUS
<1> QED BY <1>1 DEF InvoicesOK

\* A paid plan comes into force on a day of the clock.
LEMMA PaidReplaces ==
  ASSUME IInv, NEW day \in 0 .. MaxDay,
         subs' = Replaced(subs, PaidRow(day)), hotel' = MirrorOf(PaidRow(day)), UNCHANGED invoices
  PROVE  /\ RowsOK(subs') /\ Keeps(subs, subs') /\ hotel' \in HotelRow
         /\ InvoicesOK(invoices', Len(subs'))
         /\ Len(subs') \in Nat /\ Len(subs') = Len(subs) + 1 /\ subs'[Len(subs')] = PaidRow(day)
         /\ PaidRow(day) \in Row /\ Stored(PaidRow(day)) \in Period
<1>1. day \in Days /\ Len(subs) \in Nat
  BY DaysCome, Basics
<1>2. PaidRow(day) \in Row
  BY <1>1, PaidRowOK
<1>3. Stored(PaidRow(day)) \in Period /\ PaidRow(day).status \in Live
  BY <1>2 DEF Stored, Row, Period, PaidRow, Live
<1>4. MirrorOf(PaidRow(day)) \in HotelRow
  BY <1>2, <1>3, MirrorOK
<1>5. PICK row \in Row : row = PaidRow(day)
  BY <1>2
<1>6. /\ RowsOK(subs') /\ Keeps(subs, subs')
      /\ Len(subs') = Len(subs) + 1 /\ subs'[Len(subs) + 1] = row
  BY <1>5, ReplacedOK DEF IInv
<1>7. InvoicesOK(invoices', Len(subs'))
  BY <1>1, <1>6, InvoicesGrow DEF IInv
<1> QED BY <1>1, <1>2, <1>3, <1>4, <1>5, <1>6, <1>7

LEMMA ConvertWriteOK ==
  ASSUME IInv, ConvertWrite
  PROVE  IInv' /\ Keeps(subs, subs')
<1>1. /\ tick \in TickRecord(now, Len(subs)) /\ tick.pc = "convertWrite"
      /\ tick.period.end <= now /\ UNCHANGED <<now, req, requests, faults, invoices>>
      /\ now \in 0 .. MaxDay /\ MaxDay \in Nat
  BY Basics DEF ConvertWrite, TickAt, IInv, TickOK, HoldsPast
<1>2. PICK ended \in 0 .. MaxDay : ended = tick.period.end
  BY <1>1 DEF TickRecord, Period
<1>3. /\ subs' = Replaced(subs, PaidRow(ended)) /\ hotel' = MirrorOf(PaidRow(ended))
      /\ tick' = [tick EXCEPT !.pc = "convertInvoice", !.row = Len(subs'),
                              !.period = Stored(PaidRow(ended))]
  BY <1>2 DEF ConvertWrite
<1>4. /\ RowsOK(subs') /\ Keeps(subs, subs') /\ hotel' \in HotelRow
      /\ InvoicesOK(invoices', Len(subs')) /\ Stored(PaidRow(ended)) \in Period
      /\ Len(subs') = Len(subs) + 1 /\ Len(subs) \in Nat
  <2>1. UNCHANGED invoices
    BY <1>1
  <2>2. Len(subs) \in Nat
    BY Basics
  <2>3. subs' = Replaced(subs, PaidRow(ended)) /\ hotel' = MirrorOf(PaidRow(ended))
    BY <1>3
  <2> QED BY <2>1, <2>2, <2>3, PaidReplaces
<1>5. /\ tick' \in TickRecord(now, Len(subs')) /\ tick'.pc = "convertInvoice"
      /\ tick'.row = Len(subs')
  <2>1. Len(subs') \in 0 .. Len(subs') /\ "convertInvoice" \in TickPhases
    BY <1>4 DEF TickPhases
  <2> QED BY <1>1, <1>3, <1>4, <2>1 DEF TickRecord
<1>6. TickOK(tick', now, subs')
  BY <1>4, <1>5 DEF TickOK, HoldsRow, HoldsPast
<1>7. faults' \in 0 .. MaxFaults /\ Len(subs) <= Len(subs')
  BY <1>1, <1>4 DEF IInv
<1> QED BY <1>1, <1>4, <1>6, <1>7, TickStep

LEMMA ConvertInvoiceOK ==
  ASSUME IInv, ConvertInvoice
  PROVE  IInv'
<1>1. /\ tick.row \in 1 .. Len(subs) /\ tick.period \in Period
      /\ UNCHANGED <<now, req, requests, faults, subs, hotel>> /\ Goto("renewList")
      /\ faults' \in 0 .. MaxFaults /\ InvoicesOK(invoices, Len(subs))
      /\ Len(subs) \in Nat /\ hotel' \in HotelRow /\ RowsOK(subs')
  BY Basics DEF ConvertInvoice, TickAt, IInv, TickOK, TickRecord, HoldsRow
<1>2. InvoicesOK(IssueInvoice(invoices, tick.row, tick.period), Len(subs))
  BY <1>1, InvoiceIssued
<1>3. InvoicesOK(invoices', Len(subs'))
  BY <1>1, <1>2 DEF ConvertInvoice
<1>4. TickOK(tick', now, subs')
  BY <1>1, PassGoes, PassesFree
<1> QED BY <1>1, <1>3, <1>4, TickStep

\* The roll of a renewal: the period held becomes the next one, the row's own.
LEMMA RollOK ==
  ASSUME IInv, RenewWrite
  PROVE  /\ tick.row \in DOMAIN subs /\ tick.period \in Period /\ tick.period.end <= now
         /\ tick.period.start = subs[tick.row].start
         /\ NextRolled \in Period /\ NextRolled.start = tick.period.end
         /\ NextRolled.end > NextRolled.start
         /\ RowsOK(subs') /\ Len(subs') = Len(subs) /\ DOMAIN subs' = DOMAIN subs
         /\ subs'[tick.row].start = NextRolled.start /\ subs'[tick.row].end = NextRolled.end
         /\ subs'[tick.row].status = subs[tick.row].status
         /\ \A n \in DOMAIN subs : n # tick.row => subs'[n] = subs[n]
<1>1. /\ tick \in TickRecord(now, Len(subs)) /\ tick.pc = "renewWrite" /\ tick.row # 0
      /\ tick.period.end <= now /\ tick.period.start = subs[tick.row].start
  BY DEF RenewWrite, TickAt, IInv, TickOK, HoldsPast, HoldsRow
<1>2. tick.row \in DOMAIN subs /\ tick.period \in Period /\ subs[tick.row] \in Row
  BY <1>1, Basics DEF TickRecord
<1>3. tick.period.end \in Days
  <2>1. tick.period.end \in 0 .. MaxDay
    BY <1>1, <1>2, Basics DEF Period, IInv
  <2> QED BY <2>1, DaysCome
<1>4. subs[tick.row].anchor \in AnchorDays
  BY <1>2 DEF Row
<1>5. /\ NextRolled \in Period /\ NextRolled.start = tick.period.end
      /\ NextRolled.end > NextRolled.start
  BY <1>2, <1>3, <1>4, PeriodRolled DEF NextRolled
<1>6. PICK row : row = [[subs[tick.row] EXCEPT !.start = NextRolled.start]
                                   EXCEPT !.end = NextRolled.end]
  OBVIOUS
<1>7. /\ row \in Row /\ row.start = NextRolled.start /\ row.end = NextRolled.end
      /\ row.status = subs[tick.row].status
  BY <1>2, <1>5, <1>6 DEF Row, Period
<1>8. subs' = Written(subs, tick.row, row)
  <2>1. subs' = [subs EXCEPT ![tick.row].start = NextRolled.start,
                             ![tick.row].end = NextRolled.end]
    BY DEF RenewWrite
  <2> QED BY <1>2, <1>6, <2>1 DEF Written
<1>9. /\ RowsOK(subs') /\ Len(subs') = Len(subs) /\ DOMAIN subs' = DOMAIN subs
      /\ subs'[tick.row] = row /\ \A n \in DOMAIN subs : n # tick.row => subs'[n] = subs[n]
  BY <1>2, <1>7, <1>8, RowMoved DEF IInv
<1> QED BY <1>1, <1>2, <1>5, <1>7, <1>9

LEMMA RenewWriteOK ==
  ASSUME IInv, RenewWrite
  PROVE  IInv'
<1> DEFINE next == NextRolled
<1>1. /\ UNCHANGED <<now, req, requests, faults>> /\ faults' \in 0 .. MaxFaults
      /\ tick \in TickRecord(now, Len(subs)) /\ tick.pc = "renewWrite"
      /\ invoices' = IssueInvoice(invoices, tick.row, tick.period)
      /\ hotel' = [hotel EXCEPT !.start = next.start, !.end = next.end]
      /\ Rolling(next)
  BY DEF RenewWrite, TickAt, IInv, TickOK
<1> HIDE DEF next
<1>2. /\ tick.row \in DOMAIN subs /\ tick.period \in Period
      /\ next \in Period /\ RowsOK(subs') /\ Len(subs') = Len(subs)
      /\ subs'[tick.row].start = next.start
  BY RollOK DEF next
<1>3. /\ DOMAIN subs = 1 .. Len(subs) /\ Len(subs) \in Nat /\ now \in Nat /\ MaxCatchup \in Nat
  BY Basics
<1>4. InvoicesOK(invoices', Len(subs'))
  <2>1. InvoicesOK(invoices, Len(subs)) /\ tick.row \in 1 .. Len(subs)
    BY <1>2, <1>3 DEF IInv
  <2>2. InvoicesOK(IssueInvoice(invoices, tick.row, tick.period), Len(subs))
    BY <1>2, <1>3, <2>1, InvoiceIssued
  <2> QED BY <1>1, <1>2, <2>2
<1>5. hotel' \in HotelRow
  BY <1>1, <1>2 DEF IInv, HotelRow, Period
<1>6. TickOK(tick', now, subs')
  <2>1. CASE next.end <= tick.pass /\ tick.rolls + 1 < MaxCatchup
    <3>1. tick' = [tick EXCEPT !.period = next, !.rolls = @ + 1]
      BY <1>1, <2>1 DEF Rolling
    <3>2. tick.rolls + 1 \in 0 .. MaxCatchup /\ next.end <= now
      BY <1>1, <1>2, <1>3, <2>1 DEF TickRecord, Period
    <3>3. /\ tick' \in TickRecord(now, Len(subs')) /\ tick'.pc = "renewWrite"
          /\ tick'.row = tick.row /\ tick'.period = next
      BY <1>1, <1>2, <3>1, <3>2 DEF TickRecord
    <3> QED BY <1>2, <1>3, <3>2, <3>3 DEF TickOK
  <2>2. CASE ~ (next.end <= tick.pass /\ tick.rolls + 1 < MaxCatchup)
    <3>1. now \in Nat /\ tick' = [IdleTick EXCEPT !.pc = "delinquent", !.pass = now]
      BY <1>1, <1>3, <2>2 DEF Rolling
    <3>2. Goto("delinquent")
      BY <3>1 DEF Goto
    <3> QED BY <1>2, <3>2, PassGoes, PassesFree
  <2> QED BY <2>1, <2>2
<1> QED BY <1>1, <1>2, <1>3, <1>4, <1>5, <1>6, TickStep

\* Sweeps over the statuses: delinquency and expiry.
LEMMA SweptOK ==
  ASSUME IInv, NEW from \in SUBSET Live, NEW to \in {"PAST_DUE", "EXPIRED"},
         subs' = Restatus(from, to), hotel' \in HotelRow, UNCHANGED <<invoices, now, req, requests>>,
         faults' \in 0 .. MaxFaults, TickOK(tick', now, subs')
  PROVE  IInv' /\ Keeps(subs, subs')
<1>1. /\ RowsOK(subs') /\ Keeps(subs, subs') /\ Len(subs') = Len(subs) /\ Len(subs) \in Nat
  BY RestatusOK, Basics DEF IInv
<1>2. InvoicesOK(invoices', Len(subs'))
  BY <1>1 DEF IInv
<1> QED BY <1>1, <1>2, TickStep

LEMMA DelinquentOK ==
  ASSUME IInv, Delinquent
  PROVE  IInv' /\ Keeps(subs, subs')
<1>1. /\ UNCHANGED <<now, req, requests, faults, invoices>> /\ faults' \in 0 .. MaxFaults
      /\ Goto("expireList") /\ hotel \in HotelRow
  BY DEF Delinquent, TickAt, IInv
<1>2. ASSUME RowsOK(subs')
      PROVE  TickOK(tick', now, subs') /\ TickOK(tick', now, subs)
  BY <1>1, <1>2, PassGoes, PassesFree
<1>3. CASE UNCHANGED <<subs, hotel>>
  <2>1. UNCHANGED dbVars /\ RowsOK(subs') /\ Keeps(subs, subs')
    BY <1>1, <1>3, Basics DEF dbVars, IInv
  <2> QED BY <1>1, <1>2, <2>1, TickReads
<1>4. ASSUME NEW from \in SUBSET Live, NEW to \in {"PAST_DUE", "EXPIRED"},
             hotel' = [hotel EXCEPT !.status = to], subs' = Restatus(from, to)
      PROVE  IInv' /\ Keeps(subs, subs')
  <2>1. hotel' \in HotelRow
    BY <1>1, <1>4 DEF HotelRow, Live
  <2>2. RowsOK(subs')
    BY <1>4, RestatusOK DEF IInv
  <2> QED BY <1>1, <1>2, <1>4, <2>1, <2>2, SweptOK
<1>5. {"ACTIVE"} \in SUBSET Live /\ Live \in SUBSET Live
  BY DEF Live
<1> QED BY <1>3, <1>4, <1>5 DEF Delinquent

LEMMA ExpireWriteOK ==
  ASSUME IInv, ExpireWrite
  PROVE  IInv' /\ Keeps(subs, subs')
<1>1. /\ UNCHANGED <<now, req, requests, faults, invoices>> /\ faults' \in 0 .. MaxFaults
      /\ tick' = IdleTick /\ hotel \in HotelRow
      /\ subs' = Restatus(Live, "EXPIRED") /\ hotel' = [hotel EXCEPT !.status = "EXPIRED"]
  BY DEF ExpireWrite, TickAt, IInv
<1>2. hotel' \in HotelRow
  BY <1>1 DEF HotelRow
<1>3. RowsOK(subs')
  BY <1>1, RestatusOK DEF IInv
<1>4. TickOK(tick', now, subs') /\ TickOK(tick', now, subs)
  BY <1>1, <1>3, PassGoes, PassesFree
<1> QED BY <1>1, <1>2, <1>4, SweptOK

LEMMA TickFailsOK ==
  ASSUME IInv, TickFails
  PROVE  IInv'
<1>1. UNCHANGED dbVars /\ UNCHANGED <<now, req, requests>> /\ faults' \in 0 .. MaxFaults
  BY SubscriptionAssumption DEF TickFails, IInv
<1>2. RowsOK(subs')
  BY <1>1 DEF dbVars, IInv
<1>3. Goto("renewList") \/ Goto("delinquent") \/ tick' = IdleTick
  BY DEF TickFails
<1>4. TickOK(tick', now, subs)
  BY <1>2, <1>3, PassGoes, PassesFree
<1> QED BY <1>1, <1>4, TickReads

-----------------------------------------------------------------------------
(* The steps of the handlers.                                              *)

LEMMA Handler ==
  ASSUME IInv, NEW h \in Handlers
  PROVE  /\ req[h] \in RequestRecord(now, Len(subs))
         /\ req[h].pc \notin HoldsNone => req[h].row \in DOMAIN subs
         /\ req[h].at \in 0 .. MaxDay /\ req[h].period \in Period /\ req[h].status \in Live
<1>1. req[h] \in Requests(now, Len(subs))
  BY DEF IInv
<1>2. req[h] \in RequestRecord(now, Len(subs)) /\ (req[h].pc \notin HoldsNone => req[h].row # 0)
  BY <1>1 DEF Requests
<1>3. req[h].row \in 0 .. Len(subs) /\ req[h].at \in 0 .. now
  BY <1>2 DEF RequestRecord
<1>4. /\ DOMAIN subs = 1 .. Len(subs) /\ Len(subs) \in Nat
      /\ now \in 0 .. MaxDay /\ MaxDay \in Nat
  BY Basics DEF IInv
<1>5. req[h].at \in 0 .. MaxDay
  BY <1>3, <1>4
<1>6. req[h].pc \notin HoldsNone => req[h].row \in DOMAIN subs
  BY <1>2, <1>3, <1>4
<1> QED BY <1>2, <1>5, <1>6 DEF RequestRecord

\* A request that arrives is counted; one that goes on touches nothing else.
LEMMA Frames ==
  ASSUME IInv, NEW h \in Handlers
  PROVE  /\ Arrives(h) => /\ UNCHANGED <<now, tick, faults>>
                          /\ requests' \in 0 .. MaxRequests /\ faults' \in 0 .. MaxFaults
         /\ \A pc \in RequestPhases :
              RequestAt(h, pc) => /\ UNCHANGED <<now, tick, faults>> /\ req[h].pc = pc
                                  /\ requests' \in 0 .. MaxRequests /\ faults' \in 0 .. MaxFaults
  BY SubscriptionAssumption DEF IInv, Arrives, RequestAt

\* What a handler takes with it after its first read.
LEMMA HeldOK ==
  ASSUME IInv, NEW n \in DOMAIN subs, NEW phase \in RequestPhases, NEW period \in Period, NEW held,
         \/ held = [IdleRequest EXCEPT !.pc = phase, !.at = now, !.row = n]
         \/ held = [IdleRequest EXCEPT !.pc = phase, !.at = now, !.row = n, !.period = period]
  PROVE  held \in Requests(now, Len(subs))
<1>1. /\ Len(subs) \in Nat /\ now \in Nat /\ IdleRequest \in RequestRecord(now, Len(subs))
      /\ DOMAIN subs = 1 .. Len(subs)
  BY Basics, IdleRecords
<1>2. n \in 0 .. Len(subs) /\ n # 0 /\ now \in 0 .. now
  BY <1>1
<1>3. CASE held = [IdleRequest EXCEPT !.pc = phase, !.at = now, !.row = n]
  <2>1. held \in RequestRecord(now, Len(subs)) /\ held.row # 0
    BY <1>1, <1>2, <1>3 DEF RequestRecord
  <2> QED BY <2>1 DEF Requests
<1>4. CASE held = [IdleRequest EXCEPT !.pc = phase, !.at = now, !.row = n, !.period = period]
  <2>1. held \in RequestRecord(now, Len(subs)) /\ held.row # 0
    BY <1>1, <1>2, <1>4 DEF RequestRecord
  <2> QED BY <2>1 DEF Requests
<1> QED BY <1>3, <1>4

LEMMA IdleHeld ==
  ASSUME IInv
  PROVE  /\ IdleRequest \in Requests(now, Len(subs))
         /\ RowsOK(subs') => IdleRequest \in Requests(now, Len(subs'))
<1>1. RowsOK(subs) /\ now \in Nat
  BY Basics DEF IInv
<1> QED BY <1>1, RestsOK

LEMMA StartTrialOK ==
  ASSUME IInv, NEW h \in Handlers, NEW days \in TrialDays, StartTrial(h, days)
  PROVE  IInv' /\ Keeps(subs, subs')
<1>1. /\ UNCHANGED <<now, tick, faults>> /\ requests' \in 0 .. MaxRequests
      /\ faults' \in 0 .. MaxFaults /\ UNCHANGED <<invoices, req>>
      /\ subs' = Replaced(subs, TrialRow(now, days)) /\ hotel' = MirrorOf(TrialRow(now, days))
  BY Frames DEF StartTrial
<1>2. TrialRow(now, days) \in Row /\ TrialRow(now, days).status \in Live
  BY Basics, TrialRowOK DEF TrialRow, Live
<1>3. PICK row \in Row : row = TrialRow(now, days)
  BY <1>2
<1>4. RowsOK(subs') /\ Keeps(subs, subs') /\ Len(subs') = Len(subs) + 1
  BY <1>1, <1>3, ReplacedOK DEF IInv
<1>5. hotel' \in HotelRow
  BY <1>1, <1>2, MirrorOK
<1>6. InvoicesOK(invoices', Len(subs'))
  <2>1. Len(subs) \in Nat /\ invoices' = invoices /\ Len(subs') = Len(subs) + 1
    BY <1>1, <1>4, Basics
  <2> QED BY <2>1, InvoicesGrow DEF IInv
<1>7. IdleRequest \in Requests(now, Len(subs')) /\ UNCHANGED <<now, tick>> /\ UNCHANGED req
  BY <1>1, <1>4, IdleHeld
<1> QED BY <1>1, <1>4, <1>5, <1>6, <1>7, RequestStep

\* Reading handlers: the request, or its next step, holds what was read.
LEMMA AssignReadsOK ==
  ASSUME IInv, NEW h \in Handlers, AssignAtTrialEnd(h) \/ AssignNow(h)
  PROVE  IInv'
<1>1. /\ UNCHANGED <<now, tick>> /\ requests' \in 0 .. MaxRequests
      /\ faults' \in 0 .. MaxFaults /\ UNCHANGED dbVars
      /\ \/ Hold(h, [IdleRequest EXCEPT !.pc = "scheduleRead", !.at = now])
         \/ Hold(h, [IdleRequest EXCEPT !.pc = "assignWrite", !.at = now])
  BY Frames DEF AssignAtTrialEnd, AssignNow
<1>2. \A phase \in HoldsNone :
         [IdleRequest EXCEPT !.pc = phase, !.at = now] \in Requests(now, Len(subs))
  BY Basics, RestsOK DEF IInv
<1>3. PICK held \in Requests(now, Len(subs)) : Hold(h, held)
  BY <1>1, <1>2 DEF HoldsNone
<1> QED BY <1>1, <1>3, RequestReads

LEMMA ScheduleReadOK ==
  ASSUME IInv, NEW h \in Handlers, ScheduleRead(h)
  PROVE  IInv'
<1>1. /\ UNCHANGED <<now, tick>> /\ requests' \in 0 .. MaxRequests
      /\ faults' \in 0 .. MaxFaults /\ UNCHANGED dbVars
      /\ \/ \E n \in LiveRows : Hold(h, [req[h] EXCEPT !.pc = "scheduleWrite", !.row = n])
         \/ Hold(h, IdleRequest)
  BY Frames DEF ScheduleRead, RequestPhases, Answer
<1>2. ASSUME NEW n \in LiveRows
      PROVE  [req[h] EXCEPT !.pc = "scheduleWrite", !.row = n] \in Requests(now, Len(subs))
  <2>1. PICK held : held = [req[h] EXCEPT !.pc = "scheduleWrite", !.row = n]
    OBVIOUS
  <2>2. req[h] \in RequestRecord(now, Len(subs)) /\ "scheduleWrite" \in RequestPhases
    BY Handler DEF RequestPhases
  <2>3. n \in 0 .. Len(subs) /\ n # 0
    BY Basics DEF LiveRows
  <2>4. held \in RequestRecord(now, Len(subs)) /\ held.row # 0
    BY <2>1, <2>2, <2>3 DEF RequestRecord
  <2> QED BY <2>1, <2>4 DEF Requests
<1>3. PICK held \in Requests(now, Len(subs)) : Hold(h, held)
  BY <1>1, <1>2, IdleHeld
<1> QED BY <1>1, <1>3, RequestReads

LEMMA CancelReadOK ==
  ASSUME IInv, NEW h \in Handlers, NEW immediate \in BOOLEAN, CancelRead(h, immediate)
  PROVE  IInv'
<1>1. PICK phase \in RequestPhases : phase = IF immediate THEN "cancelNowWrite" ELSE "cancelWrite"
  BY DEF RequestPhases
<1>2. PICK n \in LiveRows :
        Hold(h, [IdleRequest EXCEPT !.pc = phase, !.at = now, !.row = n])
  BY <1>1 DEF CancelRead
<1>3. /\ UNCHANGED <<now, tick>> /\ requests' \in 0 .. MaxRequests
      /\ faults' \in 0 .. MaxFaults /\ UNCHANGED dbVars
  BY Frames DEF CancelRead
<1>4. PICK held : held = [IdleRequest EXCEPT !.pc = phase, !.at = now, !.row = n]
  OBVIOUS
<1>5. n \in DOMAIN subs /\ Stored(subs[n]) \in Period
  BY Basics DEF LiveRows
<1>6. held \in Requests(now, Len(subs)) /\ Hold(h, held)
  BY <1>2, <1>4, <1>5, HeldOK
<1> QED BY <1>3, <1>6, RequestReads

LEMMA ExtendReadOK ==
  ASSUME IInv, NEW h \in Handlers, NEW days \in ExtendDays, ExtendRead(h, days)
  PROVE  IInv'
<1>1. PICK n \in LiveRows :
        Hold(h, [pc |-> "extendWrite", at |-> now, row |-> n, status |-> subs[n].status,
                 period |-> [start |-> subs[n].start, end |-> subs[n].end + days]])
  BY DEF ExtendRead
<1>2. /\ UNCHANGED <<now, tick>> /\ requests' \in 0 .. MaxRequests
      /\ faults' \in 0 .. MaxFaults /\ UNCHANGED dbVars
  BY Frames DEF ExtendRead
<1>3. PICK held : held = [pc |-> "extendWrite", at |-> now, row |-> n, status |-> subs[n].status,
                          period |-> [start |-> subs[n].start, end |-> subs[n].end + days]]
  OBVIOUS
<1>4. /\ n \in 0 .. Len(subs) /\ n # 0 /\ now \in 0 .. now /\ subs[n] \in Row
      /\ subs[n].status \in Live
  BY Basics DEF LiveRows
<1>5. [start |-> subs[n].start, end |-> subs[n].end + days] \in Period
  BY <1>4, SubscriptionAssumption DEF Row, Period
<1>6. held \in RequestRecord(now, Len(subs)) /\ held.row # 0
  BY <1>3, <1>4, <1>5 DEF RequestRecord, RequestPhases
<1>7. held \in Requests(now, Len(subs)) /\ Hold(h, held)
  BY <1>1, <1>3, <1>6 DEF Requests
<1> QED BY <1>2, <1>7, RequestReads

LEMMA ReactivateReadOK ==
  ASSUME IInv, NEW h \in Handlers, ReactivateRead(h)
  PROVE  IInv'
<1>1. /\ UNCHANGED <<now, tick>> /\ requests' \in 0 .. MaxRequests
      /\ faults' \in 0 .. MaxFaults /\ UNCHANGED dbVars /\ subs # <<>>
      /\ Hold(h, [IdleRequest EXCEPT !.pc = "reactivateWrite", !.at = now, !.row = Last,
                                     !.period = Stored(subs[Last])])
  BY Frames DEF ReactivateRead
<1>2. Last \in DOMAIN subs
  <2>1. subs \in Seq(Row) /\ Len(subs) \in Nat /\ DOMAIN subs = 1 .. Len(subs)
    BY Basics DEF IInv, RowsOK
  <2>2. Len(subs) # 0
    BY <1>1, <2>1, EmptySeq
  <2> QED BY <2>1, <2>2 DEF Last
<1>3. Stored(subs[Last]) \in Period /\ "reactivateWrite" \in RequestPhases
  BY <1>2, Basics DEF RequestPhases
<1>4. PICK held : held = [IdleRequest EXCEPT !.pc = "reactivateWrite", !.at = now, !.row = Last,
                                             !.period = Stored(subs[Last])]
  OBVIOUS
<1>5. held \in Requests(now, Len(subs))
  BY <1>2, <1>3, <1>4, HeldOK
<1>6. Hold(h, held)
  BY <1>1, <1>4
<1> QED BY <1>1, <1>5, <1>6, RequestReads

\* A handler writes the row it holds, by its id, and keeps its period start.
LEMMA RowStep ==
  ASSUME IInv, NEW k \in DOMAIN subs, NEW row \in Row, row.start = subs[k].start,
         row.status \in Live => LiveIn(subs) \subseteq {k},
         subs' = Written(subs, k, row)
  PROVE  /\ RowsOK(subs') /\ Keeps(subs, subs') /\ Len(subs') = Len(subs)
         /\ DOMAIN subs' = DOMAIN subs /\ subs'[k] = row
         /\ \A n \in DOMAIN subs : n # k => subs'[n] = subs[n]
<1>1. /\ RowsOK(subs') /\ Len(subs') = Len(subs) /\ DOMAIN subs' = DOMAIN subs
      /\ subs'[k] = row /\ \A n \in DOMAIN subs : n # k => subs'[n] = subs[n]
  BY RowWritten DEF IInv
<1>2. Keeps(subs, subs')
  BY <1>1, Basics DEF Keeps
<1> QED BY <1>1, <1>2

LEMMA HandlerWrites ==
  ASSUME IInv, NEW h \in Handlers, UNCHANGED <<now, tick, faults>>, requests' \in 0 .. MaxRequests,
         faults' \in 0 .. MaxFaults, Answer(h), hotel' \in HotelRow, UNCHANGED invoices,
         RowsOK(subs'), Keeps(subs, subs'), Len(subs') = Len(subs)
  PROVE  IInv'
<1>1. InvoicesOK(invoices', Len(subs')) /\ IdleRequest \in Requests(now, Len(subs'))
  BY IdleHeld DEF IInv
<1>2. Hold(h, IdleRequest) /\ UNCHANGED <<now, tick>>
  BY DEF Answer
<1> QED BY <1>1, <1>2, RequestStep

\* The live row is alone.
LEMMA LiveAlone ==
  ASSUME IInv, NEW k \in DOMAIN subs, subs[k].status \in Live
  PROVE  LiveIn(subs) \subseteq {k}
  BY DEF IInv, RowsOK, LiveIn

LEMMA ScheduleWriteOK ==
  ASSUME IInv, NEW h \in Handlers, ScheduleWrite(h)
  PROVE  IInv' /\ Keeps(subs, subs')
<1>1. /\ UNCHANGED <<now, tick, faults>> /\ req[h].pc = "scheduleWrite"
      /\ requests' \in 0 .. MaxRequests /\ faults' \in 0 .. MaxFaults
      /\ Answer(h) /\ UNCHANGED invoices /\ hotel' \in HotelRow
  BY Frames DEF ScheduleWrite, RequestPhases, IInv
<1>2. PICK k \in DOMAIN subs : k = req[h].row
  BY <1>1, Handler DEF HoldsNone
<1>3. PICK row : row = [subs[k] EXCEPT !.sched = TRUE]
  OBVIOUS
<1>4. row \in Row /\ row.start = subs[k].start /\ row.status = subs[k].status
  BY <1>3, Basics DEF Row
<1>5. subs' = Written(subs, k, row)
  BY <1>2, <1>3 DEF ScheduleWrite, Written
<1>6. RowsOK(subs') /\ Keeps(subs, subs') /\ Len(subs') = Len(subs)
  BY <1>4, <1>5, LiveAlone, RowStep
<1> QED BY <1>1, <1>6, HandlerWrites

LEMMA CancelWriteOK ==
  ASSUME IInv, NEW h \in Handlers, CancelWrite(h)
  PROVE  IInv' /\ Keeps(subs, subs')
<1>1. /\ UNCHANGED <<now, tick, faults>> /\ req[h].pc = "cancelWrite"
      /\ requests' \in 0 .. MaxRequests /\ faults' \in 0 .. MaxFaults
      /\ Answer(h) /\ UNCHANGED invoices /\ hotel' \in HotelRow
  BY Frames DEF CancelWrite, RequestPhases, IInv
<1>2. PICK k \in DOMAIN subs : k = req[h].row
  BY <1>1, Handler DEF HoldsNone
<1>3. PICK row : row = [subs[k] EXCEPT !.renew = FALSE]
  OBVIOUS
<1>4. row \in Row /\ row.start = subs[k].start /\ row.status = subs[k].status
  BY <1>3, Basics DEF Row
<1>5. subs' = Written(subs, k, row)
  BY <1>2, <1>3 DEF CancelWrite, Written
<1>6. RowsOK(subs') /\ Keeps(subs, subs') /\ Len(subs') = Len(subs)
  BY <1>4, <1>5, LiveAlone, RowStep
<1> QED BY <1>1, <1>6, HandlerWrites

LEMMA CancelNowWriteOK ==
  ASSUME IInv, NEW h \in Handlers, CancelNowWrite(h)
  PROVE  IInv' /\ Keeps(subs, subs')
<1>1. /\ UNCHANGED <<now, tick, faults>> /\ req[h].pc = "cancelNowWrite"
      /\ requests' \in 0 .. MaxRequests /\ faults' \in 0 .. MaxFaults
      /\ Answer(h) /\ UNCHANGED invoices
      /\ hotel' = [hotel EXCEPT !.status = "EXPIRED", !.end = req[h].at]
  BY Frames DEF CancelNowWrite, RequestPhases
<1>2. PICK k \in DOMAIN subs : k = req[h].row
  BY <1>1, Handler DEF HoldsNone
<1>3. PICK at \in Nat : at = req[h].at
  BY Handler
<1>4. PICK row : row = [[[subs[k] EXCEPT !.status = "CANCELED"] EXCEPT !.renew = FALSE]
                                 EXCEPT !.end = at]
  OBVIOUS
<1>5. row \in Row /\ row.start = subs[k].start /\ row.status \notin Live
  BY <1>3, <1>4, Basics DEF Row, SubscriptionStatus, Terminal, Live
<1>6. subs' = Written(subs, k, row)
  <2>1. subs' = [subs EXCEPT ![k].status = "CANCELED", ![k].renew = FALSE, ![k].end = at]
    BY <1>2, <1>3 DEF CancelNowWrite
  <2> QED BY <1>2, <1>4, <2>1 DEF Written
<1>7. RowsOK(subs') /\ Keeps(subs, subs') /\ Len(subs') = Len(subs)
  BY <1>5, <1>6, RowStep
<1>8. hotel' \in HotelRow
  BY <1>1, <1>3 DEF IInv, HotelRow
<1> QED BY <1>1, <1>7, <1>8, HandlerWrites

LEMMA ExtendWriteOK ==
  ASSUME IInv, NEW h \in Handlers, ExtendWrite(h)
  PROVE  IInv' /\ Keeps(subs, subs')
<1>1. /\ UNCHANGED <<now, tick, faults>> /\ req[h].pc = "extendWrite"
      /\ requests' \in 0 .. MaxRequests /\ faults' \in 0 .. MaxFaults
      /\ Answer(h) /\ UNCHANGED invoices
      /\ hotel' = [hotel EXCEPT !.end = req[h].period.end,
                                !.status = IF req[h].period.end > now THEN req[h].status ELSE @]
  BY Frames DEF ExtendWrite, RequestPhases
<1>2. PICK k \in DOMAIN subs : k = req[h].row
  BY <1>1, Handler DEF HoldsNone
<1>3. PICK end \in Nat : end = req[h].period.end
  BY Handler DEF Period
<1>4. PICK row : row = [subs[k] EXCEPT !.end = end]
  OBVIOUS
<1>5. row \in Row /\ row.start = subs[k].start /\ row.status = subs[k].status
  BY <1>3, <1>4, Basics DEF Row
<1>6. subs' = Written(subs, k, row)
  BY <1>2, <1>3, <1>4 DEF ExtendWrite, Written
<1>7. RowsOK(subs') /\ Keeps(subs, subs') /\ Len(subs') = Len(subs)
  BY <1>5, <1>6, LiveAlone, RowStep
<1>8. hotel' \in HotelRow
  BY <1>1, <1>3, Handler DEF IInv, HotelRow
<1> QED BY <1>1, <1>7, <1>8, HandlerWrites

LEMMA ReactivateWriteOK ==
  ASSUME IInv, NEW h \in Handlers, ReactivateWrite(h)
  PROVE  IInv' /\ Keeps(subs, subs')
<1>1. /\ UNCHANGED <<now, tick, faults>> /\ req[h].pc = "reactivateWrite"
      /\ requests' \in 0 .. MaxRequests /\ faults' \in 0 .. MaxFaults
      /\ Answer(h) /\ UNCHANGED invoices
  BY Frames DEF ReactivateWrite, RequestPhases
<1>2. CASE UNCHANGED <<subs, hotel>>
  <2>1. /\ RowsOK(subs') /\ Keeps(subs, subs') /\ Len(subs') = Len(subs) /\ hotel' \in HotelRow
    BY <1>2, Basics DEF IInv
  <2> QED BY <1>1, <2>1, HandlerWrites
<1>3. CASE ~ UNCHANGED <<subs, hotel>>
  <2>1. PICK k \in DOMAIN subs : k = req[h].row
    BY <1>1, Handler DEF HoldsNone
  <2>2. /\ LiveIn(subs) \subseteq {k} /\ subs' = [subs EXCEPT ![k].status = "ACTIVE"]
        /\ hotel' = Mirror("ACTIVE", req[h].period.start, req[h].period.end)
    BY <1>3, <2>1 DEF ReactivateWrite, LiveRows, LiveIn
  <2>3. PICK row : row = [subs[k] EXCEPT !.status = "ACTIVE"]
    OBVIOUS
  <2>4. row \in Row /\ row.start = subs[k].start
    BY <2>3, Basics DEF Row, SubscriptionStatus, Live
  <2>5. subs' = Written(subs, k, row)
    BY <2>2, <2>3 DEF Written
  <2>6. RowsOK(subs') /\ Keeps(subs, subs') /\ Len(subs') = Len(subs)
    BY <2>2, <2>4, <2>5, RowStep
  <2>7. hotel' \in HotelRow
    BY <2>2, Handler DEF Mirror, HotelRow, Period, Live
  <2> QED BY <1>1, <2>6, <2>7, HandlerWrites
<1> QED BY <1>2, <1>3

LEMMA AssignWriteOK ==
  ASSUME IInv, NEW h \in Handlers, AssignWrite(h)
  PROVE  IInv' /\ Keeps(subs, subs')
<1>1. /\ UNCHANGED <<now, tick, faults>>
      /\ requests' \in 0 .. MaxRequests /\ faults' \in 0 .. MaxFaults /\ UNCHANGED invoices
  BY Frames DEF AssignWrite, RequestPhases
<1>2. PICK at \in 0 .. MaxDay : at = req[h].at
  BY Handler
<1>3. /\ subs' = Replaced(subs, PaidRow(at)) /\ hotel' = MirrorOf(PaidRow(at))
      /\ Hold(h, [req[h] EXCEPT !.pc = "assignInvoice", !.row = Len(subs'),
                                !.period = Stored(PaidRow(at))])
  BY <1>2 DEF AssignWrite
<1>4. /\ RowsOK(subs') /\ Keeps(subs, subs') /\ hotel' \in HotelRow
      /\ InvoicesOK(invoices', Len(subs')) /\ Stored(PaidRow(at)) \in Period
      /\ Len(subs') \in Nat /\ Len(subs') = Len(subs) + 1
  BY <1>1, <1>3, PaidReplaces
<1>5. PICK held : held = [req[h] EXCEPT !.pc = "assignInvoice", !.row = Len(subs'),
                                        !.period = Stored(PaidRow(at))]
  OBVIOUS
<1>6. /\ Len(subs') \in 0 .. Len(subs') /\ Len(subs') # 0 /\ "assignInvoice" \in RequestPhases
  BY <1>4, Basics DEF RequestPhases
<1>7. held \in RequestRecord(now, Len(subs')) /\ held.row # 0
  BY <1>4, <1>5, <1>6, Handler DEF RequestRecord
<1>8. held \in Requests(now, Len(subs')) /\ Hold(h, held)
  BY <1>3, <1>5, <1>7 DEF Requests
<1>9. UNCHANGED <<now, tick>>
  BY <1>1
<1> QED BY <1>1, <1>4, <1>8, <1>9, RequestStep

LEMMA AssignInvoiceOK ==
  ASSUME IInv, NEW h \in Handlers, AssignInvoice(h)
  PROVE  IInv' /\ Keeps(subs, subs')
<1>1. /\ UNCHANGED <<now, tick, faults>> /\ req[h].pc = "assignInvoice"
      /\ requests' \in 0 .. MaxRequests /\ faults' \in 0 .. MaxFaults
      /\ Hold(h, IdleRequest) /\ UNCHANGED <<subs, hotel>>
  BY Frames DEF AssignInvoice, RequestPhases, Answer
<1>2. /\ req[h].row \in 1 .. Len(subs) /\ req[h].period \in Period /\ Len(subs) \in Nat
      /\ InvoicesOK(invoices, Len(subs))
  BY <1>1, Handler, Basics DEF HoldsNone, IInv
<1>3. InvoicesOK(IssueInvoice(invoices, req[h].row, req[h].period), Len(subs))
  BY <1>2, InvoiceIssued
<1>4. InvoicesOK(invoices', Len(subs'))
  BY <1>1, <1>2, <1>3 DEF AssignInvoice
<1>5. /\ RowsOK(subs') /\ Keeps(subs, subs') /\ hotel' \in HotelRow
      /\ IdleRequest \in Requests(now, Len(subs')) /\ UNCHANGED <<now, tick>>
  BY <1>1, Basics, IdleHeld DEF IInv
<1> QED BY <1>1, <1>4, <1>5, RequestStep

LEMMA RequestFailsOK ==
  ASSUME IInv, NEW h \in Handlers, RequestFails(h)
  PROVE  IInv'
<1>1. /\ UNCHANGED dbVars /\ UNCHANGED <<now, tick>> /\ requests' \in 0 .. MaxRequests
      /\ faults' \in 0 .. MaxFaults /\ Hold(h, IdleRequest)
  BY SubscriptionAssumption DEF RequestFails, Answer, IInv
<1> QED BY <1>1, IdleHeld, RequestReads

LEMMA MidnightOK ==
  ASSUME IInv, Midnight
  PROVE  IInv'
<1>1. /\ now' = now + 1 /\ now \in 0 .. MaxDay /\ now < MaxDay /\ MaxDay \in Nat /\ now \in Nat
      /\ UNCHANGED <<dbVars, tick, req, requests, faults>> /\ Len(subs) \in Nat
  BY Basics DEF Midnight, IInv
<1>2. now' \in 0 .. MaxDay /\ now <= now' /\ now' \in Nat /\ 0 .. now \subseteq 0 .. now'
  BY <1>1
<1>3. Requests(now, Len(subs)) \subseteq Requests(now', Len(subs))
  BY <1>1, <1>2, RequestsGrow
<1>4. req' \in [Handlers -> Requests(now', Len(subs))]
  BY <1>1, <1>3 DEF IInv
<1>5. TickOK(tick', now', subs)
  <2>1. tick \in TickRecord(now, Len(subs)) /\ tick' = tick
    BY <1>1 DEF IInv, TickOK
  <2>2. tick' \in TickRecord(now', Len(subs))
    BY <1>2, <2>1 DEF TickRecord
  <2>3. tick.pc \in HoldsPast => tick.period.end <= now'
    <3>1. tick.pc \in HoldsPast => tick.period.end <= now /\ tick.period.end \in Nat
      BY <2>1 DEF IInv, TickOK, TickRecord, Period
    <3> QED BY <1>1, <3>1
  <2> QED BY <2>1, <2>2, <2>3 DEF IInv, TickOK
<1> QED BY <1>1, <1>2, <1>4, <1>5 DEF IInv, dbVars

-----------------------------------------------------------------------------
(* The theorems.                                                           *)

LEMMA InitOK ==
  ASSUME Init
  PROVE  IInv
<1>1. MaxDay \in Nat /\ MaxRequests \in Nat /\ MaxFaults \in Nat /\ 0 \in Days
  <2>1. LastMonth - 1 \in Months
    BY CalendarAssumption DEF Months
  <2>2. MonthStart[LastMonth - 1] \in Nat
    BY <2>1, MonthLength
  <2> QED BY <2>2, SubscriptionAssumption DEF Days
<1>2. now = 0 /\ requests = 0 /\ faults = 0 /\ invoices = {} /\ tick = IdleTick
  BY DEF Init
<1>3. RowsOK(subs) /\ hotel \in HotelRow
  <2>1. CASE \E days \in TrialDays : /\ subs = <<TrialRow(0, days)>>
                                     /\ hotel = MirrorOf(TrialRow(0, days))
    <3>1. PICK days \in TrialDays : /\ subs = <<TrialRow(0, days)>>
                                    /\ hotel = MirrorOf(TrialRow(0, days))
      BY <2>1
    <3>2. TrialRow(0, days) \in Row /\ TrialRow(0, days).status \in Live
      BY <1>1, TrialRowOK DEF TrialRow, Live
    <3>3. PICK row \in Row : row = TrialRow(0, days)
      BY <3>2
    <3>4. <<row>> \in Seq(Row) /\ DOMAIN <<row>> = {1}
      BY SeqDef
    <3> QED BY <3>1, <3>2, <3>3, <3>4, MirrorOK DEF RowsOK, LiveIn
  <2>2. CASE subs = <<>> /\ hotel = Mirror("EXPIRED", 0, 0)
    <3>1. subs \in Seq(Row) /\ DOMAIN subs = {}
      BY <2>2, EmptySeq
    <3>2. hotel \in HotelRow
      BY <2>2 DEF Mirror, HotelRow
    <3> QED BY <3>1, <3>2 DEF RowsOK, LiveIn
  <2> QED BY <2>1, <2>2 DEF Init
<1>4. TickOK(tick, now, subs) /\ IdleRequest \in Requests(now, Len(subs))
  BY <1>2, <1>3, RestsOK
<1>5. req \in [Handlers -> Requests(now, Len(subs))]
  BY <1>4 DEF Init
<1> QED BY <1>1, <1>2, <1>3, <1>4, <1>5 DEF IInv, InvoicesOK

\* The steps other than a renewal move no period.
LEMMA StepOK ==
  ASSUME IInv, Next
  PROVE  IInv' /\ (~ RenewWrite => Keeps(subs, subs'))
<1>1. ASSUME UNCHANGED subs
      PROVE  Keeps(subs, subs')
  BY <1>1, Basics
<1>2. CASE Midnight
  BY <1>1, <1>2, MidnightOK DEF Midnight, dbVars
<1>3. CASE TickStart \/ ConvertList \/ ConvertRead \/ RenewList \/ ExpireList \/ ExpireRead
  BY <1>1, <1>3, ReadsOK
     DEF TickStart, ConvertList, ConvertRead, RenewList, ExpireList, ExpireRead, dbVars
<1>4. CASE ConvertWrite \/ Delinquent \/ ExpireWrite
  BY <1>4, ConvertWriteOK, DelinquentOK, ExpireWriteOK
<1>5. CASE ConvertInvoice
  BY <1>1, <1>5, ConvertInvoiceOK DEF ConvertInvoice
<1>6. CASE RenewWrite
  BY <1>6, RenewWriteOK
<1>7. CASE TickFails
  BY <1>1, <1>7, TickFailsOK DEF TickFails, dbVars
<1>8. ASSUME NEW h \in Handlers, Request(h)
      PROVE  IInv' /\ Keeps(subs, subs')
  <2>1. ASSUME NEW days \in TrialDays, StartTrial(h, days)
        PROVE  IInv' /\ Keeps(subs, subs')
    BY <2>1, StartTrialOK
  <2>2. CASE AssignAtTrialEnd(h) \/ AssignNow(h)
    BY <1>1, <2>2, AssignReadsOK DEF AssignAtTrialEnd, AssignNow, dbVars
  <2>3. ASSUME NEW immediate \in BOOLEAN, CancelRead(h, immediate)
        PROVE  IInv' /\ Keeps(subs, subs')
    BY <1>1, <2>3, CancelReadOK DEF CancelRead, dbVars
  <2>4. ASSUME NEW days \in ExtendDays, ExtendRead(h, days)
        PROVE  IInv' /\ Keeps(subs, subs')
    BY <1>1, <2>4, ExtendReadOK DEF ExtendRead, dbVars
  <2>5. CASE ReactivateRead(h)
    BY <1>1, <2>5, ReactivateReadOK DEF ReactivateRead, dbVars
  <2> QED BY <1>8, <2>1, <2>2, <2>3, <2>4, <2>5 DEF Request
<1>9. ASSUME NEW h \in Handlers, Continue(h)
      PROVE  IInv' /\ Keeps(subs, subs')
  <2>1. CASE ScheduleRead(h)
    BY <1>1, <2>1, ScheduleReadOK DEF ScheduleRead, dbVars
  <2>2. CASE AssignWrite(h) \/ AssignInvoice(h)
    BY <2>2, AssignWriteOK, AssignInvoiceOK
  <2>3. CASE \/ ScheduleWrite(h) \/ CancelWrite(h) \/ CancelNowWrite(h)
             \/ ExtendWrite(h) \/ ReactivateWrite(h)
    BY <2>3, ScheduleWriteOK, CancelWriteOK, CancelNowWriteOK, ExtendWriteOK, ReactivateWriteOK
  <2> QED BY <1>9, <2>1, <2>2, <2>3 DEF Continue
<1>10. ASSUME NEW h \in Handlers, RequestFails(h)
       PROVE  IInv' /\ Keeps(subs, subs')
  BY <1>1, <1>10, RequestFailsOK DEF RequestFails, dbVars
<1> QED BY <1>2, <1>3, <1>4, <1>5, <1>6, <1>7, <1>8, <1>9, <1>10 DEF Next, TickNext

\* What tick and handlers hold exists, and the database holds one live row at
\* most, in every reachable state.
THEOREM Held == Spec => []IInv
<1>1. Init => IInv
  BY InitOK
<1>2. IInv /\ [Next]_vars => IInv'
  <2>1. ASSUME IInv, UNCHANGED vars
        PROVE  IInv'
    BY <2>1 DEF IInv, vars
  <2> QED BY <2>1, StepOK
<1> QED BY <1>1, <1>2, PTL DEF Spec

\* Every variable keeps its type, and no two rows of a hotel are ever live,
\* whatever handlers and tick race: startTrial, assignPlanToHotel, the
\* conversion of a trial and reactivateAfterPayment all create or revive one.
THEOREM Typed == Spec => []TypeOK
<1>1. IInv => TypeOK
  <2> SUFFICES ASSUME IInv
               PROVE  TypeOK
    OBVIOUS
  <2>1. now \in Nat /\ DOMAIN subs = 1 .. Len(subs) /\ Len(subs) \in Nat
    BY Basics
  <2>2. subs \in Seq(Row) /\ \A m, n \in LiveRows : m = n
    BY DEF IInv, RowsOK, LiveIn, LiveRows
  <2>3. invoices \subseteq [sub : DOMAIN subs, start : Nat, end : Nat]
    BY <2>1 DEF IInv, InvoicesOK
  <2>4. tick \in [pc : TickPhases, pass : Nat, row : 0 .. Last, period : Period,
                  rolls : 0 .. MaxCatchup]
    BY <2>1 DEF IInv, TickOK, TickRecord, Last
  <2>5. req \in [Handlers -> [pc : RequestPhases, at : Nat, row : 0 .. Last,
                              period : Period, status : Live]]
    <3>1. RequestRecord(now, Len(subs)) \subseteq
             [pc : RequestPhases, at : Nat, row : 0 .. Last, period : Period, status : Live]
      BY <2>1 DEF RequestRecord, Last
    <3>2. Requests(now, Len(subs)) \subseteq RequestRecord(now, Len(subs))
      BY DEF Requests
    <3> QED BY <3>1, <3>2 DEF IInv
  <2> QED BY <2>2, <2>3, <2>4, <2>5 DEF IInv, TypeOK, HotelRow
<1> QED BY <1>1, Held, PTL

\* No period is left behind without its invoice (renewDueSubscriptions): a
\* renewal works on the period its pass listed and later closed itself, and
\* that stays the row's own for as long as the pass holds it, because nothing
\* else moves the start of a period.
THEOREM Billed == Spec => BilledBeforeRolled
<1> DEFINE Rolls == \A n \in DOMAIN subs :
              subs'[n].start # subs[n].start => \E i \in invoices' : i.start = subs[n].start
<1>1. IInv /\ [Next]_vars => [Rolls]_vars
  <2> SUFFICES ASSUME IInv, Next
               PROVE  Rolls
    OBVIOUS
  <2>1. CASE ~ RenewWrite
    BY <2>1, StepOK DEF Keeps
  <2>2. CASE RenewWrite
    <3>1. /\ tick.row \in DOMAIN subs /\ tick.period \in Period
          /\ tick.period.start = subs[tick.row].start
          /\ \A n \in DOMAIN subs : n # tick.row => subs'[n] = subs[n]
      BY <2>2, RollOK
    <3>2. invoices' = IssueInvoice(invoices, tick.row, tick.period)
      BY <2>2 DEF RenewWrite
    <3>3. /\ tick.row \in 1 .. Len(subs) /\ Len(subs) \in Nat
          /\ InvoicesOK(invoices, Len(subs))
      BY <3>1, Basics DEF IInv
    <3>4. \E i \in IssueInvoice(invoices, tick.row, tick.period) : i.start = tick.period.start
      BY <3>1, <3>3, InvoiceIssued
    <3> QED BY <3>1, <3>2, <3>4
  <2> QED BY <2>1, <2>2
<1> QED BY <1>1, Held, PTL DEF Spec, BilledBeforeRolled

-----------------------------------------------------------------------------
(* Handlers and tick one at a time: the hotel row and the invoices.  The   *)
(* newest row is the only one that can be live; no row that was not closed *)
(* ends before it starts; an invoice bills a period the row has left, or   *)
(* the start of the period it is in.                                       *)

NewestLive(rows) == LiveIn(rows) \subseteq {Len(rows)}

OrderedRow(row) == row.status # "CANCELED" => row.start <= row.end

MirroredBy(row, mirror) ==
    /\ mirror.status = IF row.status = "CANCELED" THEN "EXPIRED" ELSE row.status
    /\ mirror.start = row.start /\ mirror.end = row.end

BilledFor(row, bill) ==
    \/ bill.end <= row.start
    \/ bill.start = row.start /\ (row.status # "CANCELED" => bill.end <= row.end)

Disjoint(table) ==
    \A i, j \in table : i.sub = j.sub /\ i # j => i.end <= j.start \/ j.end <= i.start

RowsFine(rows) == NewestLive(rows) /\ \A n \in DOMAIN rows : OrderedRow(rows[n])

Mirrored(rows, mirror) ==
    IF Len(rows) = 0 THEN mirror.status = "EXPIRED" ELSE MirroredBy(rows[Len(rows)], mirror)

BilledIn(rows, table) == Disjoint(table) /\ \A i \in table : BilledFor(rows[i.sub], i)

Books(rows, mirror, table) == RowsFine(rows) /\ Mirrored(rows, mirror) /\ BilledIn(rows, table)

\* What tick and handler hold is what the tables say now.
TickFresh(t, rows) ==
    /\ t.pc \in {"convertInvoice", "renewWrite"} =>
          t.row = Len(rows) /\ t.period = Stored(rows[t.row])
    /\ t.pc = "renewWrite" => rows[t.row].status \in Live

RequestFresh(r, rows) ==
    /\ r.pc \in {"cancelNowWrite", "extendWrite", "reactivateWrite", "assignInvoice"} =>
          r.row = Len(rows)
    /\ r.pc = "extendWrite" => r.status = rows[r.row].status /\ rows[r.row].end <= r.period.end
    /\ r.pc = "reactivateWrite" => rows[r.row].status = "EXPIRED"
    /\ r.pc \in {"reactivateWrite", "assignInvoice"} => r.period = Stored(rows[r.row])

Alone ==
    /\ tick.pc # "idle" => HandlersIdle
    /\ \A h, g \in Handlers : req[h].pc # "idle" /\ req[g].pc # "idle" => h = g

\* The inductive invariant, on top of IInv.
SerialInv ==
    /\ Books(subs, hotel, invoices)
    /\ TickFresh(tick, subs)
    /\ \A h \in Handlers : RequestFresh(req[h], subs)
    /\ Alone

LEMMA NewRowBooks ==
  ASSUME NEW rows, RowsOK(rows), NEW mirror, NEW table, Books(rows, mirror, table),
         InvoicesOK(table, Len(rows)), NEW row \in Row, row.status \in Live, row.start <= row.end
  PROVE  Books(Replaced(rows, row), MirrorOf(row), table)
<1> DEFINE next == Replaced(rows, row)
<1>1. /\ Len(rows) \in Nat /\ DOMAIN rows = 1 .. Len(rows)
      /\ RowsOK(next) /\ Len(next) = Len(rows) + 1 /\ next[Len(rows) + 1] = row
      /\ LiveIn(next) \subseteq {Len(rows) + 1}
      /\ \A n \in DOMAIN rows : next[n] =
            IF rows[n].status \in Live THEN [rows[n] EXCEPT !.status = "CANCELED"] ELSE rows[n]
      /\ \A n \in DOMAIN rows : rows[n] \in Row
  BY ReplacedOK, RowsTyped
<1> HIDE DEF next
<1>2. DOMAIN next = 1 .. Len(rows) + 1
  BY <1>1, RowsTyped
<1>3. \A n \in DOMAIN rows : /\ next[n].start = rows[n].start
                             /\ next[n].status = "CANCELED" \/ next[n] = rows[n]
  BY <1>1 DEF Row
<1>4. RowsFine(next)
  <2>1. NewestLive(next)
    BY <1>1 DEF NewestLive
  <2>2. ASSUME NEW n \in DOMAIN next
        PROVE  OrderedRow(next[n])
    <3>1. CASE n = Len(rows) + 1
      BY <1>1, <3>1 DEF OrderedRow
    <3>2. CASE n # Len(rows) + 1
      <4>1. n \in DOMAIN rows
        BY <1>1, <1>2, <3>2
      <4> QED BY <1>3, <4>1 DEF OrderedRow, Books, RowsFine
    <3> QED BY <3>1, <3>2
  <2> QED BY <2>1, <2>2 DEF RowsFine
<1>5. Mirrored(next, MirrorOf(row))
  <2>1. row.status # "CANCELED" /\ Len(next) # 0 /\ next[Len(next)] = row
    BY <1>1 DEF Live
  <2> QED BY <2>1 DEF Mirrored, MirroredBy, MirrorOf, Mirror
<1>6. BilledIn(next, table)
  <2>1. ASSUME NEW i \in table
        PROVE  BilledFor(next[i.sub], i)
    <3>1. i.sub \in DOMAIN rows
      BY <1>1 DEF InvoicesOK
    <3> QED BY <1>3, <3>1 DEF Books, BilledIn, BilledFor
  <2> QED BY <2>1 DEF Books, BilledIn
<1> QED BY <1>4, <1>5, <1>6 DEF Books, next

\* The newest row is rewritten within its period start.
LEMMA NewestRowBooks ==
  ASSUME NEW rows, RowsOK(rows), NEW mirror, NEW table, Books(rows, mirror, table),
         InvoicesOK(table, Len(rows)), Len(rows) # 0,
         NEW row \in Row, NEW next, NEW after,
         RowsOK(next), Len(next) = Len(rows), next[Len(rows)] = row,
         \A n \in DOMAIN rows : n # Len(rows) => next[n] = rows[n],
         row.start = rows[Len(rows)].start, OrderedRow(row), MirroredBy(row, after),
         row.status # "CANCELED" => /\ rows[Len(rows)].status # "CANCELED"
                                    /\ rows[Len(rows)].end <= row.end
  PROVE  Books(next, after, table)
<1>1. /\ Len(rows) \in Nat /\ DOMAIN rows = 1 .. Len(rows) /\ DOMAIN next = DOMAIN rows
      /\ \A n \in DOMAIN rows : rows[n] \in Row
  BY RowsTyped
<1>2. RowsFine(next)
  <2>1. NewestLive(next)
    BY <1>1 DEF NewestLive, LiveIn, Books, RowsFine
  <2> QED BY <1>1, <2>1 DEF RowsFine, Books
<1>3. Mirrored(next, after)
  BY DEF Mirrored
<1>4. BilledIn(next, table)
  <2>1. ASSUME NEW i \in table
        PROVE  BilledFor(next[i.sub], i)
    <3>1. i.sub \in DOMAIN rows /\ i.end \in Nat /\ BilledFor(rows[i.sub], i)
      BY <1>1 DEF InvoicesOK, Books, BilledIn
    <3>2. CASE i.sub = Len(rows)
      <4>1. rows[Len(rows)].end \in Nat /\ row.end \in Nat
        BY <1>1, <3>1, <3>2 DEF Row
      <4> QED BY <3>1, <3>2, <4>1 DEF BilledFor
    <3>3. CASE i.sub # Len(rows)
      BY <3>1, <3>3
    <3> QED BY <3>2, <3>3
  <2> QED BY <2>1 DEF Books, BilledIn
<1> QED BY <1>2, <1>3, <1>4 DEF Books

\* A write that keeps the periods and revives nothing.
LEMMA SweptBooks ==
  ASSUME NEW rows, RowsOK(rows), NEW mirror, NEW table, Books(rows, mirror, table),
         InvoicesOK(table, Len(rows)), NEW next, NEW after, RowsOK(next), Len(next) = Len(rows),
         \A n \in DOMAIN rows :
            /\ next[n].start = rows[n].start /\ next[n].end = rows[n].end
            /\ \/ next[n].status = rows[n].status
               \/ rows[n].status \in Live /\ next[n].status \in {"PAST_DUE", "EXPIRED"},
         Mirrored(next, after)
  PROVE  Books(next, after, table)
<1>1. /\ Len(rows) \in Nat /\ DOMAIN rows = 1 .. Len(rows) /\ DOMAIN next = DOMAIN rows
  BY RowsTyped
<1>2. RowsFine(next)
  <2>1. \A n \in DOMAIN rows : next[n].status = "CANCELED" <=> rows[n].status = "CANCELED"
    BY DEF Live
  <2>2. LiveIn(next) \subseteq LiveIn(rows)
    BY <1>1 DEF LiveIn
  <2> QED BY <1>1, <2>1, <2>2 DEF RowsFine, Books, NewestLive, OrderedRow
<1>4. BilledIn(next, table)
  <2>1. \A n \in DOMAIN rows : next[n].status = "CANCELED" <=> rows[n].status = "CANCELED"
    BY DEF Live
  <2>2. \A i \in table : i.sub \in DOMAIN rows
    BY <1>1 DEF InvoicesOK
  <2> QED BY <2>1, <2>2 DEF BilledIn, BilledFor, Books
<1> QED BY <1>2, <1>4 DEF Books

\* The newest row's period is billed.
LEMMA IssuedBooks ==
  ASSUME NEW rows, RowsOK(rows), NEW mirror, NEW table, Books(rows, mirror, table),
         InvoicesOK(table, Len(rows)), NEW n \in DOMAIN rows
  PROVE  Books(rows, mirror, IssueInvoice(table, n, Stored(rows[n])))
<1>1. PICK bill : bill = [sub |-> n, start |-> rows[n].start, end |-> rows[n].end]
  OBVIOUS
<1>2. bill.sub = n /\ bill.start = rows[n].start /\ bill.end = rows[n].end
  BY <1>1
<1>3. Stored(rows[n]).start = rows[n].start /\ Stored(rows[n]).end = rows[n].end
  BY DEF Stored
<1>4. CASE \E i \in table : i.start = rows[n].start
  BY <1>3, <1>4 DEF IssueInvoice
<1>5. CASE ~ \E i \in table : i.start = rows[n].start
  <2>1. IssueInvoice(table, n, Stored(rows[n])) = table \cup {bill}
    BY <1>1, <1>3, <1>5 DEF IssueInvoice
  <2>2. \A i \in table : i.sub = n => i.end <= rows[n].start
    BY <1>5 DEF Books, BilledIn, BilledFor
  <2>3. Disjoint(table \cup {bill})
    BY <1>2, <2>2 DEF Disjoint, Books, BilledIn
  <2>4. rows[n].end <= rows[n].end
    BY RowsTyped DEF Row
  <2>5. BilledFor(rows[bill.sub], bill)
    BY <1>2, <2>4 DEF BilledFor
  <2> QED BY <2>1, <2>3, <2>5 DEF Books, BilledIn
<1> QED BY <1>4, <1>5

\* The newest row, live, moves on to a period that starts where its own ended.
LEMMA RolledBooks ==
  ASSUME NEW rows, RowsOK(rows), NEW mirror, NEW table, Books(rows, mirror, table),
         InvoicesOK(table, Len(rows)), NEW next, NEW after, RowsOK(next), Len(next) = Len(rows),
         Len(rows) # 0, rows[Len(rows)].status \in Live,
         \A n \in DOMAIN rows : n # Len(rows) => next[n] = rows[n],
         next[Len(rows)].status = rows[Len(rows)].status,
         next[Len(rows)].start = rows[Len(rows)].end,
         next[Len(rows)].start <= next[Len(rows)].end,
         after.status = mirror.status, after.start = next[Len(rows)].start,
         after.end = next[Len(rows)].end
  PROVE  Books(next, after, table)
<1>1. /\ Len(rows) \in Nat /\ DOMAIN rows = 1 .. Len(rows) /\ DOMAIN next = DOMAIN rows
      /\ \A n \in DOMAIN rows : rows[n] \in Row /\ next[n] \in Row
  BY RowsTyped
<1>2. RowsFine(next)
  <2>1. NewestLive(next)
    BY <1>1 DEF NewestLive, LiveIn, Books, RowsFine
  <2>2. OrderedRow(next[Len(rows)])
    BY DEF OrderedRow
  <2> QED BY <1>1, <2>1, <2>2 DEF RowsFine, Books
<1>3. Mirrored(next, after)
  BY DEF Mirrored, MirroredBy, Books
<1>4. BilledIn(next, table)
  <2>1. ASSUME NEW i \in table
        PROVE  BilledFor(next[i.sub], i)
    <3>1. i.sub \in DOMAIN rows /\ i.end \in Nat /\ BilledFor(rows[i.sub], i)
      BY <1>1 DEF InvoicesOK, Books, BilledIn
    <3>2. CASE i.sub = Len(rows)
      <4>1. /\ rows[Len(rows)].end \in Nat /\ rows[Len(rows)].start \in Nat
            /\ rows[Len(rows)].status # "CANCELED"
        BY <1>1, <3>1, <3>2 DEF Row, Live
      <4>2. rows[Len(rows)].start <= rows[Len(rows)].end
        BY <1>1, <3>1, <3>2, <4>1 DEF Books, RowsFine, OrderedRow
      <4>3. i.end <= rows[Len(rows)].end
        BY <3>1, <3>2, <4>1, <4>2 DEF BilledFor
      <4> QED BY <3>2, <4>3 DEF BilledFor
    <3>3. CASE i.sub # Len(rows)
      BY <3>1, <3>3
    <3> QED BY <3>2, <3>3
  <2> QED BY <2>1 DEF Books, BilledIn
<1> QED BY <1>2, <1>3, <1>4 DEF Books

LEMMA TickSerial ==
  ASSUME SerialInv, tick.pc # "idle" \/ HandlersIdle, UNCHANGED req,
         Books(subs', hotel', invoices'), TickFresh(tick', subs')
  PROVE  SerialInv'
<1>1. HandlersIdle
  BY DEF SerialInv, Alone
<1>2. \A h \in Handlers : req'[h].pc = "idle"
  BY <1>1 DEF HandlersIdle
<1>3. \A h \in Handlers : RequestFresh(req'[h], subs')
  BY <1>2 DEF RequestFresh
<1>4. Alone'
  BY <1>2 DEF Alone, HandlersIdle
<1> QED BY <1>3, <1>4 DEF SerialInv

LEMMA HandlerSerial ==
  ASSUME IInv, SerialInv, NEW h \in Handlers, NEW r, Hold(h, r), UNCHANGED tick, tick.pc = "idle",
         \A g \in Handlers : g # h => req[g].pc = "idle",
         Books(subs', hotel', invoices'), RequestFresh(r, subs')
  PROVE  SerialInv'
<1>1. req'[h] = r /\ \A g \in Handlers : g # h => req'[g].pc = "idle"
  BY DEF Hold, IInv
<1>2. \A g \in Handlers : RequestFresh(req'[g], subs')
  BY <1>1 DEF RequestFresh
<1>3. Alone' /\ TickFresh(tick', subs')
  BY <1>1 DEF Alone, HandlersIdle, TickFresh
<1> QED BY <1>2, <1>3 DEF SerialInv

\* One thing at a time.
LEMMA Solo ==
  ASSUME SerialInv, Overlap = FALSE, NEW h \in Handlers, req[h].pc # "idle" \/ Arrives(h)
  PROVE  tick.pc = "idle" /\ \A g \in Handlers : g # h => req[g].pc = "idle"
  BY DEF SerialInv, Alone, Arrives, TickIdle, HandlersIdle

\* A phase in which the tick relies on nothing it read.
LEMMA PassFresh ==
  ASSUME NEW rows, NEW t, t.pc \notin {"convertInvoice", "renewWrite"}
  PROVE  TickFresh(t, rows)
  BY DEF TickFresh

LEMMA ReadsSerial ==
  ASSUME IInv, SerialInv, Overlap = FALSE,
         TickStart \/ ConvertList \/ ConvertRead \/ RenewList \/ ExpireList \/ ExpireRead
  PROVE  SerialInv'
<1>1. /\ UNCHANGED req /\ UNCHANGED dbVars
      /\ tick.pc # "idle" \/ HandlersIdle
  BY DEF TickStart, ConvertList, ConvertRead, RenewList, ExpireList, ExpireRead, TickAt
<1>2. Books(subs', hotel', invoices')
  BY <1>1 DEF SerialInv, dbVars
<1>3. SUFFICES TickFresh(tick', subs)
  BY <1>1, <1>2, TickSerial DEF dbVars
<1>4. CASE TickStart \/ ConvertList \/ ExpireList
  <2>1. CASE TickStart
    BY <2>1, PassFresh DEF TickStart, Goto, IdleTick
  <2>2. CASE ConvertList
    <3>1. tick'.pc \in {"renewList", "convertRead"}
      BY <2>2 DEF ConvertList, Goto, IdleTick
    <3> QED BY <3>1, PassFresh
  <2>3. CASE ExpireList
    <3>1. tick'.pc \in {"idle", "expireRead"}
      BY <2>3 DEF ExpireList, IdleTick
    <3> QED BY <3>1, PassFresh
  <2> QED BY <1>4, <2>1, <2>2, <2>3
<1>5. CASE ConvertRead \/ ExpireRead
  <2>1. tick \in TickRecord(now, Len(subs))
    BY DEF IInv, TickOK
  <2>2. CASE ConvertRead
    <3>1. tick'.pc \in {"renewList", "convertWrite"}
      BY <2>1, <2>2 DEF ConvertRead, Goto, IdleTick, TickRecord
    <3> QED BY <3>1, PassFresh
  <2>3. CASE ExpireRead
    <3>1. tick'.pc \in {"idle", "expireWrite"}
      BY <2>1, <2>3 DEF ExpireRead, IdleTick, TickRecord
    <3> QED BY <3>1, PassFresh
  <2> QED BY <1>5, <2>2, <2>3
<1>6. CASE RenewList
  <2>1. CASE Goto("delinquent")
    BY <2>1, PassFresh DEF Goto, IdleTick
  <2>2. CASE ~ Goto("delinquent")
    <3>1. PICK n \in DOMAIN subs :
             /\ subs[n].status \in {"ACTIVE", "PAST_DUE"}
             /\ tick' = [IdleTick EXCEPT !.pc = "renewWrite", !.pass = now, !.row = n,
                                         !.period = Stored(subs[n])]
      BY <1>6, <2>2 DEF RenewList
    <3>2. tick'.row = n /\ tick'.period = Stored(subs[n])
      BY <3>1 DEF IdleTick
    <3>3. n = Len(subs) /\ subs[n].status \in Live
      BY <3>1 DEF SerialInv, Books, RowsFine, NewestLive, LiveIn, Live
    <3> QED BY <3>2, <3>3 DEF TickFresh
  <2> QED BY <2>1, <2>2
<1> QED BY <1>4, <1>5, <1>6

LEMMA PaidRowBooks ==
  ASSUME IInv, SerialInv, NEW day \in 0 .. MaxDay,
         subs' = Replaced(subs, PaidRow(day)), hotel' = MirrorOf(PaidRow(day)), UNCHANGED invoices
  PROVE  Books(subs', hotel', invoices')
<1>1. day \in Days /\ day \in Nat /\ AnchorDayOf(day) \in AnchorDays
  BY DaysCome, AnchorImplied
<1>2. PaidRow(day) \in Row /\ PaidRow(day).status \in Live /\ PaidRow(day).start <= PaidRow(day).end
  BY <1>1, PaidRowOK, NextAnchorLater DEF PaidRow, Live
<1>3. PICK row \in Row : row = PaidRow(day)
  BY <1>2
<1>4. Books(Replaced(subs, row), MirrorOf(row), invoices)
  BY <1>2, <1>3, NewRowBooks DEF IInv, SerialInv
<1> QED BY <1>3, <1>4

LEMMA ConvertSerial ==
  ASSUME IInv, SerialInv, ConvertWrite \/ ConvertInvoice
  PROVE  SerialInv'
<1>1. CASE ConvertWrite
  <2>1. /\ tick \in TickRecord(now, Len(subs)) /\ tick.pc = "convertWrite"
        /\ tick.period.end <= now /\ UNCHANGED req /\ UNCHANGED invoices
        /\ now \in 0 .. MaxDay /\ MaxDay \in Nat
    BY <1>1, Basics DEF ConvertWrite, TickAt, IInv, TickOK, HoldsPast
  <2>2. PICK ended \in 0 .. MaxDay : ended = tick.period.end
    BY <2>1 DEF TickRecord, Period
  <2>3. /\ subs' = Replaced(subs, PaidRow(ended)) /\ hotel' = MirrorOf(PaidRow(ended))
        /\ tick' = [tick EXCEPT !.pc = "convertInvoice", !.row = Len(subs'),
                                !.period = Stored(PaidRow(ended))]
    BY <1>1, <2>2 DEF ConvertWrite
  <2>4. Books(subs', hotel', invoices')
    BY <2>1, <2>3, PaidRowBooks
  <2>5. subs'[Len(subs')] = PaidRow(ended)
    BY <2>1, <2>3, PaidReplaces
  <2>6. TickFresh(tick', subs')
    BY <2>1, <2>3, <2>5 DEF TickFresh, TickRecord
  <2> QED BY <2>1, <2>4, <2>6, TickSerial
<1>2. CASE ConvertInvoice
  <2>1. /\ tick.pc = "convertInvoice" /\ tick.row \in DOMAIN subs
        /\ tick.period = Stored(subs[tick.row])
    BY <1>2, Basics DEF ConvertInvoice, TickAt, IInv, TickOK, TickRecord, HoldsRow,
       SerialInv, TickFresh
  <2>2. Books(subs, hotel, IssueInvoice(invoices, tick.row, Stored(subs[tick.row])))
    BY <2>1, IssuedBooks DEF IInv, SerialInv
  <2>3. Books(subs', hotel', invoices')
    BY <1>2, <2>1, <2>2 DEF ConvertInvoice, SerialInv
  <2>4. tick'.pc = "renewList" /\ UNCHANGED req
    BY <1>2 DEF ConvertInvoice, TickAt, Goto, IdleTick
  <2> QED BY <2>1, <2>3, <2>4, PassFresh, TickSerial
<1> QED BY <1>1, <1>2

LEMMA PeriodParts ==
  ASSUME NEW p \in Period
  PROVE  p = [start |-> p.start, end |-> p.end]
  BY DEF Period

LEMMA RenewSerial ==
  ASSUME IInv, SerialInv, RenewWrite
  PROVE  SerialInv'
<1> DEFINE next == NextRolled
           issued == IssueInvoice(invoices, tick.row, tick.period)
<1>1. /\ tick.row \in DOMAIN subs /\ tick.period = Stored(subs[tick.row])
      /\ tick.row = Len(subs) /\ subs[tick.row].status \in Live /\ tick.pc = "renewWrite"
      /\ tick \in TickRecord(now, Len(subs)) /\ UNCHANGED req
  BY RollOK DEF RenewWrite, TickAt, SerialInv, TickFresh, IInv, TickOK
<1>2. /\ next \in Period /\ next.start = subs[tick.row].end /\ next.end > next.start
      /\ RowsOK(subs') /\ Len(subs') = Len(subs)
      /\ subs'[tick.row].start = next.start /\ subs'[tick.row].end = next.end
      /\ subs'[tick.row].status = subs[tick.row].status
      /\ \A n \in DOMAIN subs : n # tick.row => subs'[n] = subs[n]
  BY <1>1, RollOK DEF Stored
<1> HIDE DEF next
<1>3. Books(subs, hotel, issued) /\ InvoicesOK(issued, Len(subs))
  <2>1. Books(subs, hotel, issued)
    BY <1>1, IssuedBooks DEF IInv, SerialInv
  <2>2. tick.row \in 1 .. Len(subs) /\ Len(subs) \in Nat /\ tick.period \in Period
    BY <1>1, Basics, RollOK
  <2>3. InvoicesOK(issued, Len(subs))
    BY <2>2, InvoiceIssued DEF IInv
  <2> QED BY <2>1, <2>3
<1> HIDE DEF issued
<1>4. /\ invoices' = issued /\ hotel' = [hotel EXCEPT !.start = next.start, !.end = next.end]
      /\ Rolling(next)
  BY DEF RenewWrite, next, issued
<1>5. hotel'.status = hotel.status /\ hotel'.start = next.start /\ hotel'.end = next.end
  BY <1>4 DEF IInv, HotelRow
<1>6. /\ Len(subs) # 0 /\ subs'[Len(subs)].start <= subs'[Len(subs)].end
  BY <1>1, <1>2, Basics DEF Period
<1>7. Books(subs', hotel', issued)
  BY <1>1, <1>2, <1>3, <1>5, <1>6, RolledBooks DEF IInv
<1>8. TickFresh(tick', subs')
  <2>1. CASE next.end <= tick.pass /\ tick.rolls + 1 < MaxCatchup
    <3>1. tick' = [tick EXCEPT !.period = next, !.rolls = @ + 1]
      BY <1>4, <2>1 DEF Rolling
    <3>2. tick'.row = tick.row /\ tick'.period = next
      BY <1>1, <3>1 DEF TickRecord
    <3>3. next = Stored(subs'[tick.row])
      BY <1>2, PeriodParts DEF Stored
    <3> QED BY <1>1, <1>2, <3>2, <3>3 DEF TickFresh
  <2>2. CASE ~ (next.end <= tick.pass /\ tick.rolls + 1 < MaxCatchup)
    <3>1. tick'.pc = "delinquent"
      BY <1>4, <2>2 DEF Rolling, IdleTick
    <3> QED BY <3>1, PassFresh
  <2> QED BY <2>1, <2>2
<1> QED BY <1>1, <1>4, <1>7, <1>8, TickSerial

LEMMA GoneTo ==
  /\ IdleTick.pc = "idle"
  /\ \A phase \in TickPhases : Goto(phase) => tick'.pc = phase
<1>1. IdleTick.pc = "idle"
  BY DEF IdleTick
<1>2. ASSUME NEW phase \in TickPhases, Goto(phase)
      PROVE  tick'.pc = phase
  BY <1>2 DEF Goto, IdleTick
<1> QED BY <1>1, <1>2

\* A sweep and the hotel row go to the same status.
LEMMA SweepBooks ==
  ASSUME IInv, SerialInv, NEW from \in SUBSET Live, NEW to \in {"PAST_DUE", "EXPIRED"},
         subs' = Restatus(from, to), hotel' = [hotel EXCEPT !.status = to],
         IF Len(subs) = 0 THEN to = "EXPIRED"
         ELSE \/ subs[Len(subs)].status \in from
              \/ to = "EXPIRED" /\ subs[Len(subs)].status \in Terminal
  PROVE  Books(subs', hotel', invoices) /\ RowsOK(subs')
<1>1. /\ RowsOK(subs') /\ Len(subs') = Len(subs) /\ DOMAIN subs = 1 .. Len(subs)
      /\ Len(subs) \in Nat /\ \A n \in DOMAIN subs : subs[n] \in Row
      /\ \A n \in DOMAIN subs : subs'[n] =
            IF subs[n].status \in from THEN [subs[n] EXCEPT !.status = to] ELSE subs[n]
  BY RestatusOK, Basics DEF IInv
<1>2. \A n \in DOMAIN subs :
         /\ subs'[n].start = subs[n].start /\ subs'[n].end = subs[n].end
         /\ IF subs[n].status \in from THEN subs'[n].status = to
            ELSE subs'[n].status = subs[n].status
  BY <1>1 DEF Row
<1>3. hotel'.status = to /\ hotel'.start = hotel.start /\ hotel'.end = hotel.end
  BY DEF IInv, HotelRow
<1>4. Mirrored(subs', hotel')
  <2>1. CASE Len(subs) = 0
    BY <1>1, <1>3, <2>1 DEF Mirrored
  <2>2. CASE Len(subs) # 0
    <3>1. Len(subs) \in DOMAIN subs
      BY <1>1, <2>2
    <3>2. MirroredBy(subs[Len(subs)], hotel)
      BY <2>2 DEF SerialInv, Books, Mirrored
    <3>3. subs[Len(subs)].status \notin from => subs[Len(subs)].status \in {"EXPIRED", "CANCELED"}
      BY <2>2 DEF Terminal
    <3> QED BY <1>1, <1>2, <1>3, <2>2, <3>1, <3>2, <3>3 DEF Mirrored, MirroredBy
  <2> QED BY <2>1, <2>2
<1>5. \A n \in DOMAIN subs :
         \/ subs'[n].status = subs[n].status
         \/ subs[n].status \in Live /\ subs'[n].status \in {"PAST_DUE", "EXPIRED"}
  BY <1>2
<1>6. Books(subs', hotel', invoices)
  BY <1>1, <1>2, <1>4, <1>5, SweptBooks DEF IInv, SerialInv
<1> QED BY <1>1, <1>6

LEMMA SweepsSerial ==
  ASSUME IInv, SerialInv, Delinquent \/ ExpireWrite
  PROVE  SerialInv'
<1>1. /\ UNCHANGED req /\ UNCHANGED invoices /\ tick'.pc \in {"idle", "expireList"}
      /\ tick.pc # "idle" /\ Mirrored(subs, hotel) /\ Len(subs) \in Nat
      /\ Len(subs) # 0 => subs[Len(subs)] \in Row
  <2>1. UNCHANGED req /\ UNCHANGED invoices /\ tick.pc # "idle"
    BY DEF Delinquent, ExpireWrite, TickAt
  <2>2. Goto("expireList") \/ tick' = IdleTick
    BY DEF Delinquent, ExpireWrite
  <2>3. tick'.pc \in {"idle", "expireList"}
    BY <2>2, GoneTo DEF TickPhases
  <2> QED BY <2>1, <2>3, Basics DEF SerialInv, Books
<1>2. \/ UNCHANGED <<subs, hotel>>
      \/ /\ hotel.status = "ACTIVE" /\ hotel' = [hotel EXCEPT !.status = "PAST_DUE"]
         /\ subs' = Restatus({"ACTIVE"}, "PAST_DUE")
      \/ /\ hotel' = [hotel EXCEPT !.status = "EXPIRED"] /\ subs' = Restatus(Live, "EXPIRED")
  BY DEF Delinquent, ExpireWrite
<1>3. CASE UNCHANGED <<subs, hotel>>
  BY <1>1, <1>3, PassFresh, TickSerial DEF SerialInv
<1>4. CASE /\ hotel.status = "ACTIVE" /\ hotel' = [hotel EXCEPT !.status = "PAST_DUE"]
           /\ subs' = Restatus({"ACTIVE"}, "PAST_DUE")
  <2>1. Len(subs) # 0 /\ subs[Len(subs)].status \in {"ACTIVE"} /\ {"ACTIVE"} \in SUBSET Live
    BY <1>1, <1>4 DEF Mirrored, MirroredBy, Live
  <2>2. Books(subs', hotel', invoices)
    BY <1>4, <2>1, SweepBooks
  <2> QED BY <1>1, <2>2, PassFresh, TickSerial
<1>5. CASE hotel' = [hotel EXCEPT !.status = "EXPIRED"] /\ subs' = Restatus(Live, "EXPIRED")
  <2>1. /\ Len(subs) # 0 => subs[Len(subs)].status \in Live \cup Terminal
        /\ Live \in SUBSET Live
    BY <1>1 DEF Row, SubscriptionStatus
  <2>2. Books(subs', hotel', invoices)
    BY <1>5, <2>1, SweepBooks
  <2> QED BY <1>1, <2>2, PassFresh, TickSerial
<1> QED BY <1>2, <1>3, <1>4, <1>5

LEMMA TickFailsSerial ==
  ASSUME IInv, SerialInv, TickFails
  PROVE  SerialInv'
<1>1. UNCHANGED req /\ UNCHANGED dbVars /\ tick.pc # "idle"
  BY DEF TickFails
<1>2. Goto("renewList") \/ Goto("delinquent") \/ tick' = IdleTick
  BY DEF TickFails
<1>3. tick'.pc \in {"idle", "renewList", "delinquent"}
  BY <1>2, GoneTo DEF TickPhases
<1> QED BY <1>1, <1>3, PassFresh, TickSerial DEF SerialInv, dbVars

-----------------------------------------------------------------------------
(* The handlers, one at a time.                                            *)

\* A phase in which a handler relies on nothing it read.
LEMMA FreeFresh ==
  ASSUME NEW rows, NEW r,
         r.pc \notin {"cancelNowWrite", "extendWrite", "reactivateWrite", "assignInvoice"}
  PROVE  RequestFresh(r, rows)
  BY DEF RequestFresh

\* A live row is the newest one.
LEMMA LiveIsNewest ==
  ASSUME SerialInv, NEW n \in LiveRows
  PROVE  n = Len(subs) /\ n \in DOMAIN subs /\ subs[n].status \in Live
  BY DEF SerialInv, Books, RowsFine, NewestLive, LiveIn, LiveRows

LEMMA HandlerReads ==
  ASSUME IInv, SerialInv, Overlap = FALSE, NEW h \in Handlers, NEW r, Hold(h, r), UNCHANGED tick,
         UNCHANGED dbVars, req[h].pc # "idle" \/ Arrives(h), RequestFresh(r, subs)
  PROVE  SerialInv'
<1>1. tick.pc = "idle" /\ \A g \in Handlers : g # h => req[g].pc = "idle"
  BY Solo
<1>2. Books(subs', hotel', invoices') /\ RequestFresh(r, subs')
  BY DEF SerialInv, dbVars
<1> QED BY <1>1, <1>2, HandlerSerial

LEMMA ArrivalsSerial ==
  ASSUME IInv, SerialInv, Overlap = FALSE, NEW h \in Handlers,
         \/ AssignAtTrialEnd(h) \/ AssignNow(h) \/ ReactivateRead(h)
         \/ \E immediate \in BOOLEAN : CancelRead(h, immediate)
         \/ \E days \in ExtendDays : ExtendRead(h, days)
  PROVE  SerialInv'
<1>1. Arrives(h) /\ UNCHANGED tick /\ UNCHANGED dbVars
  BY DEF AssignAtTrialEnd, AssignNow, ReactivateRead, CancelRead, ExtendRead, Arrives
<1>2. ASSUME NEW r, Hold(h, r), RequestFresh(r, subs)
      PROVE  SerialInv'
  BY <1>1, <1>2, HandlerReads
<1>3. CASE AssignAtTrialEnd(h) \/ AssignNow(h)
  <2>1. PICK phase \in {"scheduleRead", "assignWrite"} :
           Hold(h, [IdleRequest EXCEPT !.pc = phase, !.at = now])
    BY <1>3 DEF AssignAtTrialEnd, AssignNow
  <2>2. PICK r : r = [IdleRequest EXCEPT !.pc = phase, !.at = now]
    OBVIOUS
  <2>3. r.pc = phase
    BY <2>2 DEF IdleRequest
  <2> QED BY <1>2, <2>1, <2>2, <2>3, FreeFresh
<1>4. CASE ReactivateRead(h)
  <2>1. PICK r : r = [IdleRequest EXCEPT !.pc = "reactivateWrite", !.at = now, !.row = Last,
                                         !.period = Stored(subs[Last])]
    OBVIOUS
  <2>2. r.pc = "reactivateWrite" /\ r.row = Len(subs) /\ r.period = Stored(subs[r.row])
    BY <2>1 DEF IdleRequest, Last
  <2>3. Hold(h, r) /\ subs[r.row].status = "EXPIRED"
    BY <1>4, <2>1, <2>2 DEF ReactivateRead, Last
  <2> QED BY <1>2, <2>2, <2>3 DEF RequestFresh
<1>5. ASSUME NEW immediate \in BOOLEAN, CancelRead(h, immediate)
      PROVE  SerialInv'
  <2>1. PICK phase \in {"cancelNowWrite", "cancelWrite"} :
           phase = IF immediate THEN "cancelNowWrite" ELSE "cancelWrite"
    OBVIOUS
  <2>2. PICK n \in LiveRows : Hold(h, [IdleRequest EXCEPT !.pc = phase, !.at = now, !.row = n])
    BY <1>5, <2>1 DEF CancelRead
  <2>3. PICK r : r = [IdleRequest EXCEPT !.pc = phase, !.at = now, !.row = n]
    OBVIOUS
  <2>4. r.pc = phase /\ r.row = n /\ n = Len(subs)
    BY <2>3, LiveIsNewest DEF IdleRequest
  <2> QED BY <1>2, <2>2, <2>3, <2>4 DEF RequestFresh
<1>6. ASSUME NEW days \in ExtendDays, ExtendRead(h, days)
      PROVE  SerialInv'
  <2>1. PICK n \in LiveRows :
          Hold(h, [pc |-> "extendWrite", at |-> now, row |-> n, status |-> subs[n].status,
                   period |-> [start |-> subs[n].start, end |-> subs[n].end + days]])
    BY <1>6 DEF ExtendRead
  <2>2. PICK r : r = [pc |-> "extendWrite", at |-> now, row |-> n, status |-> subs[n].status,
                      period |-> [start |-> subs[n].start, end |-> subs[n].end + days]]
    OBVIOUS
  <2>3. n = Len(subs) /\ subs[n] \in Row /\ days \in Nat
    BY LiveIsNewest, Basics, SubscriptionAssumption
  <2>4. /\ r.pc = "extendWrite" /\ r.row = Len(subs) /\ r.status = subs[r.row].status
        /\ subs[r.row].end <= r.period.end
    BY <2>2, <2>3 DEF Row
  <2> QED BY <1>2, <2>1, <2>2, <2>4 DEF RequestFresh
<1> QED BY <1>3, <1>4, <1>5, <1>6

\* A handler that answers, having left the books in order.
LEMMA AnswerSerial ==
  ASSUME IInv, SerialInv, Overlap = FALSE, NEW h \in Handlers, Answer(h), UNCHANGED tick,
         req[h].pc # "idle", Books(subs', hotel', invoices')
  PROVE  SerialInv'
<1>1. tick.pc = "idle" /\ \A g \in Handlers : g # h => req[g].pc = "idle"
  BY Solo
<1>2. Hold(h, IdleRequest) /\ RequestFresh(IdleRequest, subs')
  BY FreeFresh DEF Answer, IdleRequest
<1> QED BY <1>1, <1>2, HandlerSerial

LEMMA FlagsSerial ==
  ASSUME IInv, SerialInv, Overlap = FALSE, NEW h \in Handlers, ScheduleWrite(h) \/ CancelWrite(h)
  PROVE  SerialInv'
<1>1. /\ req[h].pc \in {"scheduleWrite", "cancelWrite"} /\ Answer(h) /\ UNCHANGED tick
      /\ UNCHANGED hotel /\ UNCHANGED invoices
  BY DEF ScheduleWrite, CancelWrite, RequestAt
<1>2. PICK k \in DOMAIN subs : k = req[h].row
  BY <1>1, Handler DEF HoldsNone
<1>3. PICK row : /\ row = [subs[k] EXCEPT !.sched = TRUE] \/ row = [subs[k] EXCEPT !.renew = FALSE]
                 /\ subs' = Written(subs, k, row)
  BY <1>2 DEF ScheduleWrite, CancelWrite, Written
<1>4. subs[k] \in Row
  BY Basics
<1>5. /\ row \in Row /\ row.start = subs[k].start /\ row.status = subs[k].status
      /\ row.end = subs[k].end
  <2>1. CASE row = [subs[k] EXCEPT !.sched = TRUE]
    BY <1>4, <2>1 DEF Row
  <2>2. CASE row = [subs[k] EXCEPT !.renew = FALSE]
    BY <1>4, <2>2 DEF Row
  <2> QED BY <1>3, <2>1, <2>2
<1>6. /\ RowsOK(subs') /\ Len(subs') = Len(subs) /\ subs'[k] = row
      /\ \A n \in DOMAIN subs : n # k => subs'[n] = subs[n]
  BY <1>3, <1>5, LiveAlone, RowStep
<1>7. \A n \in DOMAIN subs : /\ subs'[n].start = subs[n].start /\ subs'[n].end = subs[n].end
                             /\ subs'[n].status = subs[n].status
  BY <1>5, <1>6
<1>8. Mirrored(subs', hotel')
  <2>1. Mirrored(subs, hotel) /\ (Len(subs) # 0 => Len(subs) \in DOMAIN subs)
    BY Basics DEF SerialInv, Books
  <2> QED BY <1>1, <1>6, <1>7, <2>1 DEF Mirrored, MirroredBy
<1>9. Books(subs', hotel', invoices)
  BY <1>6, <1>7, <1>8, SweptBooks DEF IInv, SerialInv
<1> QED BY <1>1, <1>9, AnswerSerial

\* What the handlers that rewrite a row hold is the newest row as it is.
LEMMA HoldsNewest ==
  ASSUME IInv, SerialInv, NEW h \in Handlers,
         req[h].pc \in {"cancelNowWrite", "extendWrite", "reactivateWrite", "assignInvoice"}
  PROVE  /\ req[h].row = Len(subs) /\ Len(subs) \in DOMAIN subs /\ Len(subs) # 0
         /\ subs[Len(subs)] \in Row
         /\ subs[Len(subs)].status # "CANCELED" => subs[Len(subs)].start <= subs[Len(subs)].end
<1>1. req[h].row = Len(subs) /\ Len(subs) \in DOMAIN subs
  BY Handler DEF SerialInv, RequestFresh, HoldsNone
<1>2. subs[Len(subs)] \in Row /\ Len(subs) # 0
  BY <1>1, Basics
<1> QED BY <1>1, <1>2 DEF SerialInv, Books, RowsFine, OrderedRow

LEMMA RewriteSerial ==
  ASSUME IInv, SerialInv, Overlap = FALSE, NEW h \in Handlers,
         req[h].pc \in {"cancelNowWrite", "extendWrite", "reactivateWrite"},
         NEW row \in Row, subs' = Written(subs, Len(subs), row), row.start = subs[Len(subs)].start,
         row.status \in Live => LiveIn(subs) \subseteq {Len(subs)},
         OrderedRow(row), MirroredBy(row, hotel'),
         row.status # "CANCELED" => /\ subs[Len(subs)].status # "CANCELED"
                                    /\ subs[Len(subs)].end <= row.end,
         Answer(h), UNCHANGED tick, UNCHANGED invoices
  PROVE  SerialInv'
<1>1. Len(subs) \in DOMAIN subs /\ Len(subs) # 0
  BY HoldsNewest
<1>2. /\ RowsOK(subs') /\ Len(subs') = Len(subs) /\ subs'[Len(subs)] = row
      /\ \A n \in DOMAIN subs : n # Len(subs) => subs'[n] = subs[n]
  <2>1. PICK k \in DOMAIN subs : k = Len(subs)
    BY <1>1
  <2> QED BY <2>1, RowStep
<1>3. Books(subs', hotel', invoices)
  BY <1>1, <1>2, NewestRowBooks DEF IInv, SerialInv
<1> QED BY <1>3, AnswerSerial

LEMMA CancelNowSerial ==
  ASSUME IInv, SerialInv, Overlap = FALSE, NEW h \in Handlers, CancelNowWrite(h)
  PROVE  SerialInv'
<1>1. /\ req[h].pc = "cancelNowWrite" /\ Answer(h) /\ UNCHANGED tick /\ UNCHANGED invoices
      /\ hotel' = [hotel EXCEPT !.status = "EXPIRED", !.end = req[h].at]
  BY DEF CancelNowWrite, RequestAt
<1>2. PICK k \in DOMAIN subs : k = Len(subs) /\ k = req[h].row
  BY <1>1, HoldsNewest
<1>3. PICK at \in Nat : at = req[h].at
  BY Handler
<1>4. PICK row : row = [[[subs[k] EXCEPT !.status = "CANCELED"] EXCEPT !.renew = FALSE]
                                 EXCEPT !.end = at]
  OBVIOUS
<1>5. row \in Row /\ row.start = subs[k].start /\ row.status = "CANCELED" /\ row.end = at
  BY <1>3, <1>4, Basics DEF Row, SubscriptionStatus, Terminal
<1>6. subs' = Written(subs, k, row)
  <2>1. subs' = [subs EXCEPT ![k].status = "CANCELED", ![k].renew = FALSE, ![k].end = at]
    BY <1>2, <1>3 DEF CancelNowWrite
  <2> QED BY <1>2, <1>4, <2>1 DEF Written
<1>7. MirroredBy(subs[k], hotel)
  BY <1>1, <1>2, HoldsNewest DEF SerialInv, Books, Mirrored
<1>8. hotel'.status = "EXPIRED" /\ hotel'.end = at /\ hotel'.start = hotel.start
  BY <1>1, <1>3 DEF IInv, HotelRow
<1>9. OrderedRow(row) /\ MirroredBy(row, hotel') /\ row.status \notin Live
  BY <1>5, <1>7, <1>8 DEF OrderedRow, MirroredBy, Live
<1> QED BY <1>1, <1>2, <1>5, <1>6, <1>9, RewriteSerial

LEMMA ExtendSerial ==
  ASSUME IInv, SerialInv, Overlap = FALSE, NEW h \in Handlers, ExtendWrite(h)
  PROVE  SerialInv'
<1>1. /\ req[h].pc = "extendWrite" /\ Answer(h) /\ UNCHANGED tick /\ UNCHANGED invoices
      /\ hotel' = [hotel EXCEPT !.end = req[h].period.end,
                                !.status = IF req[h].period.end > now THEN req[h].status ELSE @]
  BY DEF ExtendWrite, RequestAt
<1>2. PICK k \in DOMAIN subs : k = Len(subs) /\ k = req[h].row
  BY <1>1, HoldsNewest
<1>3. PICK end \in Nat : end = req[h].period.end
  BY Handler DEF Period
<1>4. PICK row : row = [subs[k] EXCEPT !.end = end]
  OBVIOUS
<1>5. /\ row \in Row /\ row.start = subs[k].start /\ row.status = subs[k].status
      /\ row.end = end /\ subs[k] \in Row
  BY <1>3, <1>4, Basics DEF Row
<1>6. subs' = Written(subs, k, row)
  BY <1>2, <1>3, <1>4 DEF ExtendWrite, Written
<1>7. /\ req[h].status = subs[k].status /\ subs[k].end <= end /\ subs[k].status \in Live
  BY <1>1, <1>2, <1>3, Handler DEF SerialInv, RequestFresh
<1>8. MirroredBy(subs[k], hotel) /\ subs[k].status # "CANCELED" /\ subs[k].start <= subs[k].end
  BY <1>1, <1>2, <1>7, HoldsNewest DEF SerialInv, Books, Mirrored, Live
<1>9. /\ hotel'.end = end /\ hotel'.start = hotel.start
      /\ hotel'.status = req[h].status \/ hotel'.status = hotel.status
  BY <1>1, <1>3 DEF IInv, HotelRow
<1>10. MirroredBy(row, hotel')
  BY <1>5, <1>7, <1>8, <1>9 DEF MirroredBy
<1>11. OrderedRow(row)
  BY <1>5, <1>7, <1>8 DEF OrderedRow, Row
<1>12. LiveIn(subs) \subseteq {k}
  BY <1>7, LiveAlone
<1> QED BY <1>1, <1>2, <1>5, <1>6, <1>7, <1>8, <1>10, <1>11, <1>12, RewriteSerial

LEMMA ReactivateSerial ==
  ASSUME IInv, SerialInv, Overlap = FALSE, NEW h \in Handlers, ReactivateWrite(h)
  PROVE  SerialInv'
<1>1. /\ req[h].pc = "reactivateWrite" /\ Answer(h) /\ UNCHANGED tick /\ UNCHANGED invoices
  BY DEF ReactivateWrite, RequestAt
<1>2. PICK k \in DOMAIN subs : k = Len(subs) /\ k = req[h].row
  BY <1>1, HoldsNewest
<1>3. CASE UNCHANGED <<subs, hotel>>
  BY <1>1, <1>3, AnswerSerial DEF SerialInv
<1>4. CASE ~ UNCHANGED <<subs, hotel>>
  <2>1. /\ LiveIn(subs) \subseteq {k} /\ subs' = [subs EXCEPT ![k].status = "ACTIVE"]
        /\ hotel' = Mirror("ACTIVE", req[h].period.start, req[h].period.end)
    BY <1>2, <1>4 DEF ReactivateWrite, LiveRows, LiveIn
  <2>2. PICK row : row = [subs[k] EXCEPT !.status = "ACTIVE"]
    OBVIOUS
  <2>3. /\ row \in Row /\ row.start = subs[k].start /\ row.end = subs[k].end
        /\ row.status = "ACTIVE" /\ subs[k].end <= row.end
    BY <2>2, Basics DEF Row, SubscriptionStatus, Live
  <2>4. subs' = Written(subs, k, row)
    BY <2>1, <2>2 DEF Written
  <2>5. subs[k].status = "EXPIRED" /\ req[h].period = Stored(subs[k])
    BY <1>1, <1>2 DEF SerialInv, RequestFresh
  <2>6. MirroredBy(row, hotel') /\ OrderedRow(row)
    BY <1>1, <1>2, <2>1, <2>3, <2>5, HoldsNewest DEF MirroredBy, OrderedRow, Mirror, Stored
  <2> QED BY <1>1, <1>2, <2>1, <2>3, <2>4, <2>5, <2>6, RewriteSerial
<1> QED BY <1>3, <1>4

LEMMA GoOnSerial ==
  ASSUME IInv, SerialInv, Overlap = FALSE, NEW h \in Handlers,
         ScheduleRead(h) \/ AssignWrite(h) \/ AssignInvoice(h) \/ RequestFails(h)
  PROVE  SerialInv'
<1>1. UNCHANGED tick /\ req[h].pc # "idle" /\ req[h] \in RequestRecord(now, Len(subs))
  BY Handler DEF ScheduleRead, AssignWrite, AssignInvoice, RequestFails, RequestAt
<1>2. CASE RequestFails(h)
  BY <1>1, <1>2, AnswerSerial DEF RequestFails, SerialInv, dbVars
<1>3. CASE ScheduleRead(h)
  <2>1. UNCHANGED dbVars
    BY <1>3 DEF ScheduleRead
  <2>2. CASE Answer(h)
    BY <1>1, <2>1, <2>2, AnswerSerial DEF SerialInv, dbVars
  <2>3. CASE ~ Answer(h)
    <3>1. PICK n \in LiveRows : Hold(h, [req[h] EXCEPT !.pc = "scheduleWrite", !.row = n])
      BY <1>3, <2>3 DEF ScheduleRead
    <3>2. PICK r : r = [req[h] EXCEPT !.pc = "scheduleWrite", !.row = n]
      OBVIOUS
    <3>3. r.pc = "scheduleWrite"
      BY <1>1, <3>2 DEF RequestRecord
    <3> QED BY <1>1, <2>1, <3>1, <3>2, <3>3, FreeFresh, HandlerReads
  <2> QED BY <2>2, <2>3
<1>4. CASE AssignWrite(h)
  <2>1. PICK at \in 0 .. MaxDay : at = req[h].at
    BY Handler
  <2>2. /\ subs' = Replaced(subs, PaidRow(at)) /\ hotel' = MirrorOf(PaidRow(at))
        /\ Hold(h, [req[h] EXCEPT !.pc = "assignInvoice", !.row = Len(subs'),
                                  !.period = Stored(PaidRow(at))])
        /\ UNCHANGED invoices
    BY <1>4, <2>1 DEF AssignWrite
  <2>3. Books(subs', hotel', invoices')
    BY <2>2, PaidRowBooks
  <2>4. subs'[Len(subs')] = PaidRow(at)
    BY <2>2, PaidReplaces
  <2>5. PICK r : r = [req[h] EXCEPT !.pc = "assignInvoice", !.row = Len(subs'),
                                    !.period = Stored(PaidRow(at))]
    OBVIOUS
  <2>6. r.pc = "assignInvoice" /\ r.row = Len(subs') /\ r.period = Stored(PaidRow(at))
    BY <1>1, <2>5 DEF RequestRecord
  <2>7. RequestFresh(r, subs')
    BY <2>4, <2>6 DEF RequestFresh
  <2>8. Hold(h, r) /\ tick.pc = "idle" /\ \A g \in Handlers : g # h => req[g].pc = "idle"
    BY <1>1, <2>2, <2>5, Solo
  <2> QED BY <1>1, <2>3, <2>7, <2>8, HandlerSerial
<1>5. CASE AssignInvoice(h)
  <2>1. /\ req[h].pc = "assignInvoice" /\ Answer(h) /\ UNCHANGED <<subs, hotel>>
        /\ invoices' \in {invoices, IssueInvoice(invoices, req[h].row, req[h].period)}
    BY <1>5 DEF AssignInvoice, RequestAt
  <2>2. PICK k \in DOMAIN subs : k = req[h].row /\ req[h].period = Stored(subs[k])
    BY <2>1, HoldsNewest DEF SerialInv, RequestFresh
  <2>3. Books(subs, hotel, IssueInvoice(invoices, k, Stored(subs[k])))
    BY IssuedBooks DEF IInv, SerialInv
  <2>4. Books(subs', hotel', invoices')
    BY <2>1, <2>2, <2>3 DEF SerialInv
  <2> QED BY <1>1, <2>1, <2>4, AnswerSerial
<1> QED BY <1>2, <1>3, <1>4, <1>5

LEMMA StartTrialSerial ==
  ASSUME IInv, SerialInv, Overlap = FALSE, NEW h \in Handlers, NEW days \in TrialDays,
         StartTrial(h, days)
  PROVE  SerialInv'
<1>1. /\ UNCHANGED tick /\ UNCHANGED req /\ UNCHANGED invoices /\ tick.pc = "idle" /\ HandlersIdle
      /\ subs' = Replaced(subs, TrialRow(now, days)) /\ hotel' = MirrorOf(TrialRow(now, days))
  BY DEF StartTrial, Arrives, TickIdle
<1>2. /\ TrialRow(now, days) \in Row /\ TrialRow(now, days).status \in Live
      /\ TrialRow(now, days).start <= TrialRow(now, days).end
  BY Basics, TrialRowOK, SubscriptionAssumption DEF TrialRow, Live
<1>3. PICK row \in Row : row = TrialRow(now, days)
  BY <1>2
<1>4. Books(Replaced(subs, row), MirrorOf(row), invoices)
  BY <1>2, <1>3, NewRowBooks DEF IInv, SerialInv
<1>5. Books(subs', hotel', invoices')
  BY <1>1, <1>3, <1>4
<1>6. TickFresh(tick', subs')
  BY <1>1, PassFresh
<1> QED BY <1>1, <1>5, <1>6, TickSerial

LEMMA SerialStep ==
  ASSUME IInv, SerialInv, Overlap = FALSE, Next
  PROVE  SerialInv'
<1>1. CASE Midnight
  BY <1>1 DEF Midnight, dbVars, SerialInv, Alone, HandlersIdle
<1>2. CASE TickStart \/ ConvertList \/ ConvertRead \/ RenewList \/ ExpireList \/ ExpireRead
  BY <1>2, ReadsSerial
<1>3. CASE ConvertWrite \/ ConvertInvoice \/ RenewWrite
  BY <1>3, ConvertSerial, RenewSerial
<1>4. CASE Delinquent \/ ExpireWrite \/ TickFails
  BY <1>4, SweepsSerial, TickFailsSerial
<1>5. ASSUME NEW h \in Handlers, Request(h)
      PROVE  SerialInv'
  BY <1>5, ArrivalsSerial, StartTrialSerial DEF Request
<1>6. ASSUME NEW h \in Handlers, Continue(h) \/ RequestFails(h)
      PROVE  SerialInv'
  BY <1>6, GoOnSerial, FlagsSerial, CancelNowSerial, ExtendSerial, ReactivateSerial DEF Continue
<1> QED BY <1>1, <1>2, <1>3, <1>4, <1>5, <1>6 DEF Next, TickNext

LEMMA SerialInit ==
  ASSUME Init
  PROVE  SerialInv
<1>1. invoices = {} /\ tick = IdleTick /\ req = [h \in Handlers |-> IdleRequest]
  BY DEF Init
<1>2. IInv
  BY InitOK
<1>3. RowsFine(subs) /\ Mirrored(subs, hotel)
  <2>1. ASSUME NEW days \in TrialDays, subs = <<TrialRow(0, days)>>,
               hotel = MirrorOf(TrialRow(0, days))
        PROVE  RowsFine(subs) /\ Mirrored(subs, hotel)
    <3>1. Len(subs) = 1 /\ DOMAIN subs = {1} /\ subs[1] = TrialRow(0, days)
      BY <2>1
    <3>2. /\ TrialRow(0, days).status = "TRIALING"
          /\ TrialRow(0, days).start <= TrialRow(0, days).end
      BY SubscriptionAssumption DEF TrialRow
    <3>3. RowsFine(subs)
      BY <3>1, <3>2 DEF RowsFine, NewestLive, LiveIn, OrderedRow
    <3>4. MirroredBy(TrialRow(0, days), hotel)
      BY <2>1, <3>2 DEF MirroredBy, MirrorOf, Mirror
    <3> QED BY <3>1, <3>3, <3>4 DEF Mirrored
  <2>2. CASE subs = <<>> /\ hotel = Mirror("EXPIRED", 0, 0)
    BY <2>2 DEF RowsFine, Mirrored, NewestLive, LiveIn, Mirror
  <2> QED BY <2>1, <2>2 DEF Init
<1>4. Books(subs, hotel, invoices)
  BY <1>1, <1>3 DEF Books, BilledIn, Disjoint
<1>5. \A h \in Handlers : req[h].pc = "idle"
  BY <1>1 DEF IdleRequest
<1>6. TickFresh(tick, subs) /\ tick.pc = "idle"
  BY <1>1 DEF TickFresh, IdleTick
<1> QED BY <1>4, <1>5, <1>6 DEF SerialInv, Alone, HandlersIdle, RequestFresh

\* Without overlap, what tick and handlers hold is never stale.
THEOREM HeldFresh ==
  ASSUME Overlap = FALSE
  PROVE  Spec => [](IInv /\ SerialInv)
<1>1. Init => IInv /\ SerialInv
  BY InitOK, SerialInit
<1>2. IInv /\ SerialInv /\ [Next]_vars => IInv' /\ SerialInv'
  <2>1. ASSUME IInv, SerialInv, UNCHANGED vars
        PROVE  IInv' /\ SerialInv'
    BY <2>1 DEF IInv, SerialInv, Alone, HandlersIdle, vars
  <2>2. ASSUME IInv, SerialInv, Next
        PROVE  IInv' /\ SerialInv'
    BY <2>2, StepOK, SerialStep
  <2> QED BY <2>1, <2>2
<1> QED BY <1>1, <1>2, PTL DEF Spec

LEMMA MirrorParts ==
  ASSUME NEW mirror \in HotelRow, NEW row \in Row, MirroredBy(row, mirror)
  PROVE  mirror = [MirrorOf(row) EXCEPT !.status = IF @ = "CANCELED" THEN "EXPIRED" ELSE @]
<1>1. mirror = [status |-> mirror.status, start |-> mirror.start, end |-> mirror.end]
  BY DEF HotelRow
<1>2. [MirrorOf(row) EXCEPT !.status = IF @ = "CANCELED" THEN "EXPIRED" ELSE @]
      = [status |-> IF row.status = "CANCELED" THEN "EXPIRED" ELSE row.status,
         start |-> row.start, end |-> row.end]
  BY DEF MirrorOf, Mirror
<1> QED BY <1>1, <1>2 DEF MirroredBy

\* While handlers and tick do not overlap, the hotel row mirrors the newest
\* subscription after every write of a handler and of a tick: startTrial,
\* assignment, cancellation, extension, reactivation, conversion, renewal,
\* delinquency and expiry each write both rows in one transaction, and the row
\* each of them read before is still the newest, with the period it read.
THEOREM MirrorKept ==
  ASSUME Overlap = FALSE
  PROVE  Spec => []HotelMirrors
<1>1. IInv /\ SerialInv => HotelMirrors
  <2> SUFFICES ASSUME IInv, SerialInv
               PROVE  HotelMirrors
    OBVIOUS
  <2>1. subs \in Seq(Row) /\ Mirrored(subs, hotel) /\ hotel \in HotelRow
    BY DEF IInv, RowsOK, SerialInv, Books
  <2>2. CASE Len(subs) = 0
    <3>1. subs = <<>>
      BY <2>1, <2>2, EmptySeq
    <3> QED BY <2>1, <2>2, <3>1 DEF Mirrored, HotelMirrors
  <2>3. CASE Len(subs) # 0
    <3>1. subs[Last] \in Row /\ subs # <<>>
      BY <2>1, <2>3, Basics DEF Last
    <3>2. MirroredBy(subs[Last], hotel)
      BY <2>1, <2>3 DEF Mirrored, Last
    <3> QED BY <2>1, <3>1, <3>2, MirrorParts DEF HotelMirrors
  <2> QED BY <2>2, <2>3
<1> QED BY <1>1, HeldFresh, PTL

\* While handlers and tick do not overlap, no day of a subscription is ever
\* billed twice: an invoice bills a period the row has left behind, or the
\* start of the one it is in, and issueInvoice refuses a second one from there.
THEOREM BilledOncePerDay ==
  ASSUME Overlap = FALSE
  PROVE  Spec => []InvoicesDisjoint
<1>1. SerialInv => InvoicesDisjoint
  BY DEF SerialInv, Books, BilledIn, Disjoint, InvoicesDisjoint
<1> QED BY <1>1, HeldFresh, PTL

-----------------------------------------------------------------------------
(* The verdict: what a row entitles to, case by case of the resolver.      *)

\* What Entitlement tells of a verdict.
Entitled(verdict) ==
    [served |-> IsServed(verdict), status |-> verdict.status,
     period |-> IF IsServed(verdict) THEN [start |-> verdict.start, end |-> verdict.end]
                ELSE [start |-> 0, end |-> 0]]

LEMMA EntitlementOfLive ==
  ASSUME NEW rows, NEW mirror, NEW t, NEW n, LiveIn(rows) = {n}
  PROVE  Entitlement(rows, mirror, t) = Entitled(ResolveEffectiveState(rows[n], t))
<1>1. (CHOOSE k \in {n} : TRUE) = n
  OBVIOUS
<1>2. {k \in DOMAIN rows : rows[k].status \in Live} = {n}
  BY DEF LiveIn
<1> QED BY <1>1, <1>2 DEF Entitlement, Entitled

LEMMA EntitlementOfNone ==
  ASSUME NEW rows, NEW mirror, NEW t, LiveIn(rows) = {}
  PROVE  Entitlement(rows, mirror, t)
           = Entitled(Verdict(mirror.status, [start |-> 0, end |-> 0], FALSE))
<1>1. {k \in DOMAIN rows : rows[k].status \in Live} = {}
  BY DEF LiveIn
<1> QED BY <1>1 DEF Entitlement, Entitled

LEMMA VerdictFields ==
  ASSUME NEW status, NEW period, NEW lags
  PROVE  /\ Verdict(status, period, lags).status = status
         /\ Verdict(status, period, lags).start = period.start
         /\ Verdict(status, period, lags).end = period.end
BY DEF Verdict

\* Inside the stored period.
LEMMA InsideVerdict ==
  ASSUME NEW row \in Row, NEW t \in Nat, t < row.end
  PROVE  ResolveEffectiveState(row, t) = Verdict(row.status, Stored(row), FALSE)
<1>1. ~ (t >= row.end)
  BY DEF Row
<1> QED BY <1>1, Zenon DEF ResolveEffectiveState

\* The row of an agreement that renews: the jump from the end of its period.
LEMMA RenewedVerdict ==
  ASSUME NEW row \in Row, NEW t \in Days, row.end <= t,
         row.status \in {"ACTIVE", "PAST_DUE"}, row.renew
  PROVE  /\ row.end \in Days
         /\ ResolveEffectiveState(row, t) =
              Verdict(row.status, PeriodContaining(row.end, row.anchor, t), TRUE)
<1>1. t \in Nat /\ row.end \in Nat /\ row.anchor \in AnchorDays
  BY CalendarAssumption DEF Days, Row
<1>2. row.end \in Days
  BY <1>1, CalendarAssumption DEF Days
<1>3. ~ (t < row.end) /\ t >= row.end /\ row.status \notin Terminal /\ row.status # "TRIALING"
  BY <1>1 DEF Terminal
<1>4. ResolveEffectiveState(row, t) = Verdict(row.status, RolledTo[row.end][row.anchor][t], TRUE)
  BY <1>3, Zenon DEF ResolveEffectiveState
<1>5. RolledTo[row.end][row.anchor][t] = PeriodContaining(row.end, row.anchor, t)
  BY <1>1, <1>2 DEF RolledTo
<1> QED BY <1>2, <1>4, <1>5

\* The row of a trial with a plan to follow.
LEMMA ConvertedVerdict ==
  ASSUME NEW row \in Row, NEW t \in Days, row.end <= t, row.status = "TRIALING", row.sched
  PROVE  /\ row.end \in Days /\ AnchorDayOf(row.end) \in AnchorDays
         /\ ResolveEffectiveState(row, t) =
              Verdict("ACTIVE", PeriodContaining(row.end, AnchorDayOf(row.end), t), TRUE)
<1>1. t \in Nat /\ row.end \in Nat
  BY CalendarAssumption DEF Days, Row
<1>2. row.end \in Days
  BY <1>1, CalendarAssumption DEF Days
<1>3. ~ (t < row.end) /\ t >= row.end /\ row.status \notin Terminal
  BY <1>1 DEF Terminal
<1>4. ResolveEffectiveState(row, t) = Verdict("ACTIVE", RolledTo[row.end][AnchorDayOf(row.end)][t], TRUE)
  BY <1>3, Zenon DEF ResolveEffectiveState
<1>5. AnchorDayOf(row.end) \in AnchorDays
  BY <1>2, AnchorImplied
<1>6. RolledTo[row.end][AnchorDayOf(row.end)][t] = PeriodContaining(row.end, AnchorDayOf(row.end), t)
  <2> DEFINE anchor == AnchorDayOf(row.end)
  <2> HIDE DEF anchor
  <2>1. RolledTo[row.end][anchor][t] = PeriodContaining(row.end, anchor, t)
    BY <1>2, <1>5 DEF RolledTo, anchor
  <2> QED BY <2>1 DEF anchor
<1> QED BY <1>2, <1>4, <1>5, <1>6

\* Neither of the two: lapsed, and it stays so.
Lapsed(row, t) ==
    /\ row.end <= t
    /\ ~ (row.status = "TRIALING" /\ row.sched)
    /\ ~ (row.status \in {"ACTIVE", "PAST_DUE"} /\ row.renew)

LEMMA LapsedVerdict ==
  ASSUME NEW row \in Row, NEW t \in Nat, row.status \in Live
  PROVE  /\ Lapsed(row, t) => ResolveEffectiveState(row, t) = Verdict("EXPIRED", Stored(row), TRUE)
         /\ t \in Days /\ ResolveEffectiveState(row, t).status = "EXPIRED" => Lapsed(row, t)
<1>1. row.end \in Nat /\ row.status \notin Terminal /\ row.status # "EXPIRED"
  BY DEF Row, Live, Terminal
<1>2. ASSUME Lapsed(row, t)
      PROVE  ResolveEffectiveState(row, t) = Verdict("EXPIRED", Stored(row), TRUE)
  <2>1. ~ (t < row.end)
    BY <1>1, <1>2 DEF Lapsed
  <2> QED BY <1>1, <1>2, <2>1, Zenon DEF ResolveEffectiveState, Lapsed
<1>3. ASSUME t \in Days, ResolveEffectiveState(row, t).status = "EXPIRED"
      PROVE  Lapsed(row, t)
  <2>1. row.end <= t
    <3>1. ASSUME t < row.end PROVE FALSE
      <4>1. ResolveEffectiveState(row, t) = Verdict(row.status, Stored(row), FALSE)
        BY <3>1, InsideVerdict
      <4> QED BY <1>1, <1>3, <4>1 DEF Verdict
    <3> QED BY <1>1, <3>1
  <2>2. ASSUME row.status = "TRIALING", row.sched PROVE FALSE
    <3>1. ResolveEffectiveState(row, t)
            = Verdict("ACTIVE", PeriodContaining(row.end, AnchorDayOf(row.end), t), TRUE)
      BY <1>3, <2>1, <2>2, ConvertedVerdict
    <3> QED BY <1>3, <3>1 DEF Verdict
  <2>3. ASSUME row.status \in {"ACTIVE", "PAST_DUE"}, row.renew PROVE FALSE
    <3>1. ResolveEffectiveState(row, t)
            = Verdict(row.status, PeriodContaining(row.end, row.anchor, t), TRUE)
      BY <1>3, <2>1, <2>3, RenewedVerdict
    <3> QED BY <1>1, <1>3, <3>1 DEF Verdict
  <2> QED BY <2>1, <2>2, <2>3 DEF Lapsed
<1> QED BY <1>2, <1>3

\* A row that was rolled on to the period from day e tells what the jump from e
\* told of the row before it, however far behind both of them are.
LEMMA RolledVerdict ==
  ASSUME NEW row \in Row, NEW t \in Days, NEW e \in Days, e <= t,
         row.status \in {"ACTIVE", "PAST_DUE"}, row.renew,
         row.start = e, row.end = NextAnchorAfter(e, row.anchor)
  PROVE  LET v == ResolveEffectiveState(row, t)
             p == PeriodContaining(e, row.anchor, t)
         IN  v.status = row.status /\ v.start = p.start /\ v.end = p.end
<1>1. t \in Nat /\ row.end \in Nat /\ row.anchor \in AnchorDays
  BY CalendarAssumption DEF Days, Row
<1>2. CASE t < row.end
  <2>1. ResolveEffectiveState(row, t) = Verdict(row.status, Stored(row), FALSE)
    BY <1>1, <1>2, InsideVerdict
  <2>2. PeriodContaining(e, row.anchor, t) = [start |-> e, end |-> row.end]
    BY <1>2 DEF PeriodContaining, ComputeAnchoredPeriod
  <2>3. Stored(row).start = e /\ Stored(row).end = row.end
    BY DEF Stored
  <2> QED BY <2>1, <2>2, <2>3 DEF Verdict
<1>3. CASE ~ (t < row.end)
  <2>1. row.end <= t
    BY <1>1, <1>3
  <2>2. ResolveEffectiveState(row, t) = Verdict(row.status, PeriodContaining(row.end, row.anchor, t), TRUE)
    BY <2>1, RenewedVerdict
  <2>3. PeriodContaining(row.end, row.anchor, t) = PeriodContaining(e, row.anchor, t)
    BY <1>1, <2>1, RenewalKeepsJump
  <2> QED BY <2>2, <2>3 DEF Verdict
<1> QED BY <1>2, <1>3

\* What a verdict entitles to is told by its status and its period.
LEMMA SameEntitled ==
  ASSUME NEW v, NEW status, NEW period,
         v.status = status, v.start = period.start, v.end = period.end
  PROVE  Entitled(v) = Entitled(Verdict(status, period, TRUE))
<1> DEFINE w == Verdict(status, period, TRUE)
<1>1. w.status = status /\ w.start = period.start /\ w.end = period.end
  BY DEF Verdict
<1> HIDE DEF w
<1>2. Entitled(v) = Entitled(w)
  BY <1>1 DEF Entitled, IsServed
<1> QED BY <1>2 DEF w

Nothing == [served |-> FALSE, status |-> "EXPIRED", period |-> [start |-> 0, end |-> 0]]

LEMMA ExpiredEntitled ==
  ASSUME NEW period, NEW lags
  PROVE  Entitled(Verdict("EXPIRED", period, lags)) = Nothing
<1> DEFINE w == Verdict("EXPIRED", period, lags)
<1>1. w.status = "EXPIRED" /\ IsServed(w) = FALSE
  BY DEF Verdict, IsServed, Served
<1> HIDE DEF w
<1>2. Entitled(w) = Nothing
  BY <1>1, Zenon DEF Entitled, Nothing
<1> QED BY <1>2 DEF w

-----------------------------------------------------------------------------
(***************************************************************************)
(* The tick decides nothing.  What it is about to write is still due when  *)
(* it writes it: the trial it converts is still a trial with a plan, the   *)
(* agreement it renews still renews, and the hotel it expires has lapsed,  *)
(* as it had when the resolver was asked.  And no row starts in the future.*)
(***************************************************************************)
Begun(rows, day) == \A n \in DOMAIN rows : rows[n].start <= day

Due(t, rows) ==
    /\ t.pc \in {"convertRead", "convertWrite"} =>
          /\ rows[t.row].status = "TRIALING" /\ rows[t.row].sched
          /\ t.period = Stored(rows[t.row])
    /\ t.pc = "renewWrite" => rows[t.row].status \in {"ACTIVE", "PAST_DUE"} /\ rows[t.row].renew
    /\ t.pc = "expireWrite" => \A n \in LiveIn(rows) : Lapsed(rows[n], t.pass)

DueInv == Begun(subs, now) /\ Due(tick, subs)

LEMMA BegunKept ==
  ASSUME Keeps(subs, subs'), Begun(subs, now), UNCHANGED now,
         \A n \in DOMAIN subs' : n \in DOMAIN subs \/ subs'[n].start <= now
  PROVE  Begun(subs', now')
  BY DEF Begun, Keeps

\* A new row starts on a day that has come.
LEMMA NewBegun ==
  ASSUME IInv, Begun(subs, now), UNCHANGED now, NEW row \in Row, row.start <= now,
         subs' = Replaced(subs, row)
  PROVE  Begun(subs', now')
<1>1. /\ Keeps(subs, subs') /\ RowsOK(subs') /\ Len(subs') = Len(subs) + 1
      /\ subs'[Len(subs) + 1] = row
  BY ReplacedOK DEF IInv
<1>2. /\ Len(subs) \in Nat /\ DOMAIN subs = 1 .. Len(subs) /\ DOMAIN subs' = 1 .. Len(subs')
  BY <1>1, RowsTyped, Basics
<1>3. ASSUME NEW n \in DOMAIN subs'
      PROVE  n \in DOMAIN subs \/ subs'[n].start <= now
  <2>1. n \in DOMAIN subs \/ n = Len(subs) + 1
    BY <1>1, <1>2
  <2> QED BY <1>1, <2>1
<1> QED BY <1>1, <1>3, BegunKept

LEMMA PaidBegun ==
  ASSUME IInv, Begun(subs, now), UNCHANGED now, NEW day \in 0 .. MaxDay, day <= now,
         subs' = Replaced(subs, PaidRow(day))
  PROVE  Begun(subs', now')
<1>1. PaidRow(day) \in Row /\ PaidRow(day).start = day
  BY DaysCome, PaidRowOK DEF PaidRow
<1>2. PICK row \in Row : row = PaidRow(day)
  BY <1>1
<1> QED BY <1>1, <1>2, NewBegun

\* A period begins on or before the day on which it is stored.
LEMMA BegunStep ==
  ASSUME IInv, Begun(subs, now), Next
  PROVE  Begun(subs', now')
<1>1. Keeps(subs, subs') \/ RenewWrite
  BY StepOK
<1>2. ASSUME UNCHANGED subs, now' = now \/ now' = now + 1
      PROVE  Begun(subs', now')
  <2>1. now \in Nat /\ \A n \in DOMAIN subs : subs[n].start \in Nat
    BY Basics DEF Row
  <2> QED BY <1>2, <2>1 DEF Begun
<1>3. ASSUME UNCHANGED now, Keeps(subs, subs'), DOMAIN subs' = DOMAIN subs
      PROVE  Begun(subs', now')
  BY <1>3, BegunKept
<1>4. CASE Midnight
  BY <1>2, <1>4 DEF Midnight, dbVars
<1>5. CASE TickStart \/ ConvertList \/ ConvertRead \/ ConvertInvoice \/ RenewList
           \/ ExpireList \/ ExpireRead \/ TickFails
  BY <1>2, <1>5 DEF TickStart, ConvertList, ConvertRead, ConvertInvoice, RenewList, ExpireList,
                    ExpireRead, TickFails, TickAt, dbVars
<1>6. CASE ConvertWrite
  <2>1. /\ tick \in TickRecord(now, Len(subs)) /\ tick.period.end <= now /\ UNCHANGED now
        /\ now \in 0 .. MaxDay /\ MaxDay \in Nat
    BY <1>6, Basics DEF ConvertWrite, TickAt, IInv, TickOK, HoldsPast
  <2>2. PICK ended \in 0 .. MaxDay : ended = tick.period.end
    BY <2>1 DEF TickRecord, Period
  <2>3. subs' = Replaced(subs, PaidRow(ended)) /\ ended <= now
    BY <1>6, <2>1, <2>2 DEF ConvertWrite
  <2> QED BY <2>1, <2>3, PaidBegun
<1>7. CASE RenewWrite
  <2>1. UNCHANGED now /\ now \in Nat
    BY <1>7, Basics DEF RenewWrite, TickAt
  <2>2. /\ DOMAIN subs' = DOMAIN subs /\ subs'[tick.row].start <= now
        /\ \A n \in DOMAIN subs : n # tick.row => subs'[n] = subs[n]
    BY <1>7, RollOK
  <2> QED BY <2>1, <2>2 DEF Begun
<1>8. CASE Delinquent \/ ExpireWrite
  <2>1. UNCHANGED now /\ DOMAIN subs' = DOMAIN subs
    BY <1>8 DEF Delinquent, ExpireWrite, TickAt, Restatus
  <2>2. ~ RenewWrite
    BY <1>8 DEF Delinquent, ExpireWrite, RenewWrite, TickAt
  <2> QED BY <1>1, <1>3, <2>1, <2>2
<1>9. ASSUME NEW h \in Handlers, Request(h)
      PROVE  Begun(subs', now')
  <2>1. ASSUME NEW days \in TrialDays, StartTrial(h, days)
        PROVE  Begun(subs', now')
    <3>1. UNCHANGED now /\ subs' = Replaced(subs, TrialRow(now, days))
      BY <2>1 DEF StartTrial, Arrives
    <3>2. TrialRow(now, days) \in Row /\ TrialRow(now, days).start <= now
      BY Basics, TrialRowOK DEF TrialRow
    <3>3. PICK row \in Row : row = TrialRow(now, days)
      BY <3>2
    <3> QED BY <3>1, <3>2, <3>3, NewBegun
  <2>2. CASE ~ \E days \in TrialDays : StartTrial(h, days)
    BY <1>2, <1>9, <2>2 DEF Request, AssignAtTrialEnd, AssignNow, CancelRead, ExtendRead,
                            ReactivateRead, Arrives, dbVars
  <2> QED BY <2>1, <2>2
<1>10. ASSUME NEW h \in Handlers, Continue(h)
       PROVE  Begun(subs', now')
  <2>1. UNCHANGED now
    BY <1>10 DEF Continue, ScheduleRead, ScheduleWrite, AssignWrite, AssignInvoice, CancelWrite,
                 CancelNowWrite, ExtendWrite, ReactivateWrite, RequestAt
  <2>2. CASE AssignWrite(h)
    <3>1. PICK at \in 0 .. MaxDay : at = req[h].at
      BY Handler
    <3>2. subs' = Replaced(subs, PaidRow(at)) /\ at <= now
      BY <2>2, <3>1, Handler, Basics DEF AssignWrite, RequestRecord
    <3> QED BY <2>1, <3>2, PaidBegun
  <2>3. CASE ~ AssignWrite(h)
    <3>1. Keeps(subs, subs')
      <4>1. CASE ScheduleRead(h) \/ AssignInvoice(h)
        BY <4>1, Basics DEF ScheduleRead, AssignInvoice, dbVars
      <4>2. CASE \/ ScheduleWrite(h) \/ CancelWrite(h) \/ CancelNowWrite(h)
                 \/ ExtendWrite(h) \/ ReactivateWrite(h)
        BY <4>2, ScheduleWriteOK, CancelWriteOK, CancelNowWriteOK, ExtendWriteOK, ReactivateWriteOK
      <4> QED BY <1>10, <2>3, <4>1, <4>2 DEF Continue
    <3>2. DOMAIN subs' = DOMAIN subs
      BY <1>10, <2>3 DEF Continue, ScheduleRead, ScheduleWrite, AssignInvoice, CancelWrite,
                   CancelNowWrite, ExtendWrite, ReactivateWrite, dbVars
    <3> QED BY <1>3, <2>1, <3>1, <3>2
  <2> QED BY <2>2, <2>3
<1>11. ASSUME NEW h \in Handlers, RequestFails(h)
       PROVE  Begun(subs', now')
  BY <1>2, <1>11 DEF RequestFails, dbVars
<1> QED BY <1>4, <1>5, <1>6, <1>7, <1>8, <1>9, <1>10, <1>11 DEF Next, TickNext

\* A phase in which the tick is about to write nothing.
LEMMA NothingDue ==
  ASSUME NEW rows, NEW t, t.pc \notin {"convertRead", "convertWrite", "renewWrite", "expireWrite"}
  PROVE  Due(t, rows)
  BY DEF Due

\* No handler runs while the tick does.
LEMMA HandlersWait ==
  ASSUME SerialInv, Overlap = FALSE, NEW h \in Handlers, Request(h) \/ Continue(h) \/ RequestFails(h)
  PROVE  UNCHANGED tick /\ tick.pc = "idle"
<1>1. UNCHANGED tick /\ (req[h].pc # "idle" \/ Arrives(h))
  BY DEF Request, StartTrial, AssignAtTrialEnd, AssignNow, CancelRead, ExtendRead, ReactivateRead,
         Continue, ScheduleRead, ScheduleWrite, AssignWrite, AssignInvoice, CancelWrite,
         CancelNowWrite, ExtendWrite, ReactivateWrite, RequestAt, RequestFails, Arrives
<1> QED BY <1>1, Solo

\* An agreement that renews and goes on renewing: the roll moves its period.
LEMMA RolledRow ==
  ASSUME IInv, RenewWrite
  PROVE  /\ subs'[tick.row].renew = subs[tick.row].renew
         /\ subs'[tick.row].anchor = subs[tick.row].anchor
         /\ subs'[tick.row] \in Row
<1>1. tick.row \in DOMAIN subs /\ subs[tick.row] \in Row /\ NextRolled \in Period
  BY RollOK, Basics
<1>2. subs'[tick.row] = [subs[tick.row] EXCEPT !.start = NextRolled.start, !.end = NextRolled.end]
  BY <1>1 DEF RenewWrite
<1> QED BY <1>1, <1>2 DEF Row, Period

LEMMA DueStep ==
  ASSUME IInv, SerialInv, Overlap = FALSE, Due(tick, subs), Next
  PROVE  Due(tick', subs')
<1>1. tick \in TickRecord(now, Len(subs)) /\ IdleTick.pc = "idle"
  BY DEF IInv, TickOK, IdleTick
<1>2. CASE Midnight
  BY <1>2 DEF Midnight, dbVars
<1>3. CASE TickStart \/ ConvertInvoice \/ Delinquent \/ ExpireList \/ ExpireWrite \/ TickFails
  <2>1. \/ Goto("convertList") \/ Goto("renewList") \/ Goto("expireList") \/ Goto("delinquent")
        \/ tick' = IdleTick \/ tick' = [IdleTick EXCEPT !.pc = "expireRead", !.pass = now]
    BY <1>3 DEF TickStart, ConvertInvoice, Delinquent, ExpireList, ExpireWrite, TickFails
  <2>2. tick'.pc \in {"convertList", "renewList", "expireList", "delinquent", "idle", "expireRead"}
    BY <1>1, <2>1 DEF Goto, IdleTick
  <2> QED BY <2>2, NothingDue
<1>4. CASE ConvertList
  <2>1. CASE Goto("renewList")
    <3>1. tick'.pc = "renewList"
      BY <2>1, GoneTo DEF TickPhases
    <3> QED BY <3>1, NothingDue
  <2>2. CASE ~ Goto("renewList")
    <3>1. PICK n \in DOMAIN subs :
             /\ subs[n].status = "TRIALING" /\ subs[n].sched
             /\ tick' = [IdleTick EXCEPT !.pc = "convertRead", !.pass = now, !.row = n,
                                         !.period = Stored(subs[n])]
      BY <1>4, <2>2 DEF ConvertList
    <3>2. tick'.pc = "convertRead" /\ tick'.row = n /\ tick'.period = Stored(subs[n])
      BY <3>1 DEF IdleTick
    <3>3. UNCHANGED subs
      BY <1>4 DEF ConvertList, dbVars
    <3> QED BY <3>1, <3>2, <3>3 DEF Due
  <2> QED BY <2>1, <2>2
<1>5. CASE ConvertRead
  <2>1. UNCHANGED subs /\ tick.pc = "convertRead"
    BY <1>5 DEF ConvertRead, TickAt, dbVars
  <2>2. CASE Goto("renewList")
    <3>1. tick'.pc = "renewList"
      BY <2>2, GoneTo DEF TickPhases
    <3> QED BY <3>1, NothingDue
  <2>3. CASE tick' = [tick EXCEPT !.pc = "convertWrite"]
    <3>1. tick'.pc = "convertWrite" /\ tick'.row = tick.row /\ tick'.period = tick.period
      BY <1>1, <2>3 DEF TickRecord
    <3> QED BY <2>1, <3>1 DEF Due
  <2> QED BY <1>5, <2>2, <2>3 DEF ConvertRead
<1>6. CASE ConvertWrite
  <2>1. tick'.pc = "convertInvoice"
    BY <1>1, <1>6 DEF ConvertWrite, TickRecord
  <2> QED BY <2>1, NothingDue
<1>7. CASE RenewList
  <2>1. CASE Goto("delinquent")
    <3>1. tick'.pc = "delinquent"
      BY <2>1, GoneTo DEF TickPhases
    <3> QED BY <3>1, NothingDue
  <2>2. CASE ~ Goto("delinquent")
    <3>1. PICK n \in DOMAIN subs :
             /\ subs[n].status \in {"ACTIVE", "PAST_DUE"} /\ subs[n].renew
             /\ tick' = [IdleTick EXCEPT !.pc = "renewWrite", !.pass = now, !.row = n,
                                         !.period = Stored(subs[n])]
      BY <1>7, <2>2 DEF RenewList
    <3>2. tick'.pc = "renewWrite" /\ tick'.row = n
      BY <3>1 DEF IdleTick
    <3>3. UNCHANGED subs
      BY <1>7 DEF RenewList, dbVars
    <3> QED BY <3>1, <3>2, <3>3 DEF Due
  <2> QED BY <2>1, <2>2
<1>8. CASE RenewWrite
  <2> DEFINE next == NextRolled
  <2>1. Rolling(next) /\ tick.pc = "renewWrite"
    BY <1>8 DEF RenewWrite, TickAt
  <2>2. /\ subs'[tick.row].status = subs[tick.row].status
        /\ subs'[tick.row].renew = subs[tick.row].renew
    BY <1>8, RollOK, RolledRow
  <2> HIDE DEF next
  <2>3. CASE tick' = [tick EXCEPT !.period = next, !.rolls = @ + 1]
    <3>1. tick'.pc = "renewWrite" /\ tick'.row = tick.row
      BY <1>1, <2>1, <2>3 DEF TickRecord
    <3> QED BY <2>1, <2>2, <3>1 DEF Due
  <2>4. CASE tick' = [IdleTick EXCEPT !.pc = "delinquent", !.pass = now]
    <3>1. tick'.pc = "delinquent"
      BY <2>4 DEF IdleTick
    <3> QED BY <3>1, NothingDue
  <2> QED BY <2>1, <2>3, <2>4 DEF Rolling
<1>9. CASE ExpireRead
  <2>1. UNCHANGED subs
    BY <1>9 DEF ExpireRead, dbVars
  <2>2. CASE tick' = IdleTick
    BY <1>1, <2>2, NothingDue
  <2>3. CASE tick' # IdleTick
    <3>1. /\ tick' = [tick EXCEPT !.pc = "expireWrite"]
          /\ \A n \in LiveRows : ResolveEffectiveState(subs[n], tick.pass).status = "EXPIRED"
      BY <1>9, <2>3 DEF ExpireRead
    <3>2. tick'.pc = "expireWrite" /\ tick'.pass = tick.pass
      BY <1>1, <3>1 DEF TickRecord
    <3>3. tick.pass \in Days /\ tick.pass \in Nat
      <4>1. tick.pass \in 0 .. now /\ now \in 0 .. MaxDay /\ MaxDay \in Nat
        BY <1>1, Basics DEF TickRecord, IInv
      <4>2. tick.pass \in 0 .. MaxDay
        BY <4>1
      <4> QED BY <4>2, DaysCome
    <3>4. ASSUME NEW n \in LiveIn(subs)
          PROVE  Lapsed(subs[n], tick.pass)
      <4>1. subs[n] \in Row /\ subs[n].status \in Live /\ n \in LiveRows
        BY Basics DEF LiveIn, LiveRows
      <4> QED BY <3>1, <3>3, <4>1, LapsedVerdict
    <3> QED BY <2>1, <3>2, <3>4 DEF Due
  <2> QED BY <2>2, <2>3
<1>10. ASSUME NEW h \in Handlers, Request(h) \/ Continue(h) \/ RequestFails(h)
       PROVE  Due(tick', subs')
  BY <1>10, HandlersWait, NothingDue
<1> QED BY <1>2, <1>3, <1>4, <1>5, <1>6, <1>7, <1>8, <1>9, <1>10 DEF Next, TickNext

\* Without overlap, what the tick is about to write is due.
LEMMA DueKept ==
  ASSUME Overlap = FALSE
  PROVE  Spec => []DueInv
<1>1. Init => DueInv
  <2> SUFFICES ASSUME Init
               PROVE  DueInv
    OBVIOUS
  <2>1. tick.pc = "idle" /\ now = 0
    BY DEF Init, IdleTick
  <2>2. Begun(subs, now)
    <3>1. CASE subs = <<>>
      BY <3>1 DEF Begun
    <3>2. ASSUME NEW days \in TrialDays, subs = <<TrialRow(0, days)>>
          PROVE  Begun(subs, now)
      <4>1. DOMAIN subs = {1} /\ subs[1].start = 0
        BY <3>2 DEF TrialRow
      <4> QED BY <2>1, <4>1 DEF Begun
    <3> QED BY <3>1, <3>2 DEF Init
  <2> QED BY <2>1, <2>2, NothingDue DEF DueInv
<1>2. IInv /\ SerialInv /\ DueInv /\ [Next]_vars => DueInv'
  <2>1. ASSUME DueInv, UNCHANGED vars
        PROVE  DueInv'
    BY <2>1 DEF DueInv, vars
  <2>2. ASSUME IInv, SerialInv, DueInv, Next
        PROVE  DueInv'
    BY <2>2, BegunStep, DueStep DEF DueInv
  <2> QED BY <2>1, <2>2
<1> QED BY <1>1, <1>2, HeldFresh, PTL DEF Spec

LEMMA LiveOnly ==
  ASSUME IInv, NEW n \in DOMAIN subs, subs[n].status \in Live
  PROVE  LiveIn(subs) = {n}
  BY LiveAlone DEF LiveIn

\* The conversion writes the row the resolver already answered with.
LEMMA ConvertNeutral ==
  ASSUME IInv, Due(tick, subs), ConvertWrite
  PROVE  Entitlement(subs', hotel', now) = Entitlement(subs, hotel, now)
<1>1. /\ tick \in TickRecord(now, Len(subs)) /\ tick.pc = "convertWrite" /\ tick.row # 0
      /\ now \in 0 .. MaxDay /\ MaxDay \in Nat /\ now \in Days /\ now \in Nat
      /\ tick.period.end <= now
  BY Basics DEF ConvertWrite, TickAt, IInv, TickOK, HoldsRow, HoldsPast
<1>2. PICK k \in DOMAIN subs : k = tick.row
  BY <1>1, Basics DEF TickRecord
<1>3. PICK old \in Row : old = subs[k]
  BY Basics
<1>4. PICK e \in 0 .. MaxDay : e = tick.period.end
  BY <1>1 DEF TickRecord, Period
<1>5. /\ old.status = "TRIALING" /\ old.sched /\ old.end = e /\ e <= now /\ e \in Days
  BY <1>1, <1>2, <1>3, <1>4, DaysCome DEF Due, Stored
<1>6. PICK a \in AnchorDays : a = AnchorDayOf(e)
  BY <1>5, AnchorImplied
<1>7. PICK new \in Row : new = PaidRow(e)
  BY <1>5, PaidRowOK
<1>8. /\ new.status = "ACTIVE" /\ new.renew /\ new.start = e /\ new.anchor = a
      /\ new.end = NextAnchorAfter(e, new.anchor)
  BY <1>6, <1>7 DEF PaidRow
<1>9. subs' = Replaced(subs, new)
  BY <1>4, <1>7 DEF ConvertWrite
<1>10. /\ LiveIn(subs') \subseteq {Len(subs) + 1} /\ subs'[Len(subs) + 1] = new
       /\ DOMAIN subs' = 1 .. Len(subs') /\ Len(subs') = Len(subs) + 1 /\ Len(subs) \in Nat
  BY <1>9, ReplacedOK, RowsTyped, Basics DEF IInv
<1>11. LiveIn(subs') = {Len(subs) + 1}
  BY <1>8, <1>10 DEF LiveIn, Live
<1>12. Entitlement(subs', hotel', now) = Entitled(ResolveEffectiveState(new, now))
  BY <1>10, <1>11, EntitlementOfLive
<1>13. Entitlement(subs, hotel, now) = Entitled(ResolveEffectiveState(old, now))
  <2>1. LiveIn(subs) = {k}
    BY <1>3, <1>5, LiveOnly DEF Live
  <2> QED BY <1>3, <2>1, EntitlementOfLive
<1>14. ResolveEffectiveState(old, now) = Verdict("ACTIVE", PeriodContaining(e, a, now), TRUE)
  BY <1>1, <1>5, <1>6, ConvertedVerdict
<1> DEFINE told == ResolveEffectiveState(new, now)
           landed == PeriodContaining(e, a, now)
<1>15. told.status = "ACTIVE" /\ told.start = landed.start /\ told.end = landed.end
  BY <1>1, <1>5, <1>8, RolledVerdict
<1> HIDE DEF told, landed
<1>16. Entitled(told) = Entitled(Verdict("ACTIVE", landed, TRUE))
  BY <1>15, SameEntitled
<1> QED BY <1>12, <1>13, <1>14, <1>16 DEF told, landed

\* A renewal writes one of the periods the resolver already jumped over, or the
\* one it landed in.
LEMMA RenewNeutral ==
  ASSUME IInv, SerialInv, Due(tick, subs), RenewWrite
  PROVE  Entitlement(subs', hotel', now) = Entitlement(subs, hotel, now)
<1>1. /\ tick.pc = "renewWrite" /\ now \in Days /\ now \in Nat
      /\ now \in 0 .. MaxDay /\ MaxDay \in Nat
      /\ tick.period = Stored(subs[tick.row])
  BY Basics DEF RenewWrite, TickAt, IInv, SerialInv, TickFresh
<1>2. PICK k \in DOMAIN subs : k = tick.row
  BY RollOK
<1>3. PICK old \in Row : old = subs[k]
  BY Basics
<1>4. /\ old.status \in {"ACTIVE", "PAST_DUE"} /\ old.renew
      /\ old.end = tick.period.end /\ old.end <= now
  BY <1>1, <1>2, <1>3, RollOK DEF Due, Stored
<1>5. old.end \in Days
  BY <1>1, <1>3, <1>4, RenewedVerdict
<1>6. PICK new \in Row : new = subs'[k]
  BY <1>2, RolledRow
<1>7. /\ new.status = old.status /\ new.renew /\ new.anchor = old.anchor
      /\ new.start = old.end /\ new.end = NextAnchorAfter(old.end, new.anchor)
  <2>1. /\ new.status = old.status /\ new.renew = old.renew /\ new.anchor = old.anchor
        /\ new.start = NextRolled.start /\ new.end = NextRolled.end
    BY <1>2, <1>3, <1>6, RollOK, RolledRow
  <2>2. NextRolled.start = old.end /\ NextRolled.end = NextAnchorAfter(old.end, old.anchor)
    BY <1>2, <1>3, <1>4 DEF NextRolled, NextAnchoredPeriod, ComputeAnchoredPeriod
  <2> QED BY <1>4, <2>1, <2>2
<1>8. LiveIn(subs) = {k} /\ LiveIn(subs') = {k}
  <2>1. LiveIn(subs) = {k}
    BY <1>3, <1>4, LiveOnly DEF Live
  <2>2. DOMAIN subs' = DOMAIN subs /\ \A n \in DOMAIN subs : subs'[n].status = subs[n].status
    BY RollOK
  <2> QED BY <2>1, <2>2 DEF LiveIn
<1>9. /\ Entitlement(subs', hotel', now) = Entitled(ResolveEffectiveState(new, now))
      /\ Entitlement(subs, hotel, now) = Entitled(ResolveEffectiveState(old, now))
  BY <1>3, <1>6, <1>8, EntitlementOfLive
<1> DEFINE told == ResolveEffectiveState(new, now)
           landed == PeriodContaining(old.end, old.anchor, now)
<1>10. ResolveEffectiveState(old, now) = Verdict(old.status, landed, TRUE)
  BY <1>1, <1>4, RenewedVerdict
<1>11. told.status = old.status /\ told.start = landed.start /\ told.end = landed.end
  <2>1. PICK e \in Days : e = old.end
    BY <1>5
  <2> QED BY <1>1, <1>4, <1>7, <2>1, RolledVerdict
<1> HIDE DEF told, landed
<1>12. PICK kept : kept = old.status
  OBVIOUS
<1>13. Entitled(told) = Entitled(Verdict(kept, landed, TRUE))
  BY <1>11, <1>12, SameEntitled
<1> QED BY <1>9, <1>10, <1>12, <1>13 DEF told, landed

\* A hotel without a live row is told that it is not served, unless its own row
\* says otherwise, and while it mirrors the newest subscription it does not.
LEMMA NoneServed ==
  ASSUME NEW rows, NEW mirror, NEW t, LiveIn(rows) = {}, mirror.status = "EXPIRED"
  PROVE  Entitlement(rows, mirror, t) = Nothing
<1>1. PICK period : period = [start |-> 0, end |-> 0]
  OBVIOUS
<1>2. Entitlement(rows, mirror, t) = Entitled(Verdict("EXPIRED", period, FALSE))
  BY <1>1, EntitlementOfNone
<1> QED BY <1>2, ExpiredEntitled

LEMMA LapsedServed ==
  ASSUME NEW rows, NEW mirror, NEW t \in Nat, NEW n, LiveIn(rows) = {n}, rows[n] \in Row,
         Lapsed(rows[n], t)
  PROVE  Entitlement(rows, mirror, t) = Nothing
<1>1. rows[n].status \in Live
  BY DEF LiveIn
<1>2. ResolveEffectiveState(rows[n], t) = Verdict("EXPIRED", Stored(rows[n]), TRUE)
  BY <1>1, LapsedVerdict
<1> QED BY <1>2, ExpiredEntitled, EntitlementOfLive

LEMMA NotLiveMirror ==
  ASSUME IInv, SerialInv, LiveIn(subs) = {}
  PROVE  hotel.status = "EXPIRED"
<1>1. CASE Len(subs) = 0
  BY <1>1 DEF SerialInv, Books, Mirrored
<1>2. CASE Len(subs) # 0
  <2>1. Len(subs) \in DOMAIN subs /\ subs[Len(subs)] \in Row
    BY <1>2, Basics
  <2>2. subs[Len(subs)].status \in Terminal
    BY <2>1 DEF LiveIn, Row, SubscriptionStatus
  <2>3. MirroredBy(subs[Len(subs)], hotel)
    BY <1>2 DEF SerialInv, Books, Mirrored
  <2> QED BY <2>2, <2>3 DEF MirroredBy, Terminal
<1> QED BY <1>1, <1>2

\* Expiry writes what the resolver already said.
LEMMA ExpireNeutral ==
  ASSUME IInv, SerialInv, Due(tick, subs), ExpireWrite
  PROVE  Entitlement(subs', hotel', now) = Entitlement(subs, hotel, now)
<1>1. /\ tick \in TickRecord(now, Len(subs)) /\ tick.pc = "expireWrite" /\ hotel \in HotelRow
      /\ subs' = Restatus(Live, "EXPIRED") /\ hotel' = [hotel EXCEPT !.status = "EXPIRED"]
      /\ now \in Nat
  BY Basics DEF ExpireWrite, TickAt, IInv, TickOK
<1>2. Entitlement(subs', hotel', now) = Nothing
  <2>1. LiveIn(subs') = {}
    <3>1. /\ RowsOK(subs') /\ Len(subs') = Len(subs) /\ DOMAIN subs = 1 .. Len(subs)
          /\ \A n \in DOMAIN subs : subs[n] \in Row
          /\ \A n \in DOMAIN subs : subs'[n] =
               IF subs[n].status \in Live THEN [subs[n] EXCEPT !.status = "EXPIRED"] ELSE subs[n]
      BY <1>1, RestatusOK, Basics DEF IInv
    <3>2. DOMAIN subs' = DOMAIN subs
      BY <3>1, RowsTyped
    <3>3. \A n \in DOMAIN subs : subs'[n].status \notin Live
      BY <3>1 DEF Row, Live
    <3> QED BY <3>2, <3>3 DEF LiveIn
  <2>2. hotel'.status = "EXPIRED"
    BY <1>1 DEF HotelRow
  <2> QED BY <2>1, <2>2, NoneServed
<1>3. CASE LiveIn(subs) = {}
  BY <1>2, <1>3, NotLiveMirror, NoneServed
<1>4. CASE LiveIn(subs) # {}
  <2>1. PICK n \in LiveIn(subs) : TRUE
    BY <1>4
  <2>2. LiveIn(subs) = {n} /\ subs[n] \in Row
    BY LiveOnly, Basics DEF LiveIn
  <2>3. Lapsed(subs[n], tick.pass) /\ tick.pass \in Nat /\ tick.pass <= now
    BY <1>1 DEF Due, TickRecord
  <2>4. Lapsed(subs[n], now)
    BY <1>1, <2>2, <2>3 DEF Lapsed, Row
  <2>5. Entitlement(subs, hotel, now) = Nothing
    BY <1>1, <2>2, <2>4, LapsedServed
  <2> QED BY <1>2, <2>5
<1> QED BY <1>3, <1>4

\* The header of bootstrap/crons.ts: but for the delinquency pass, no step of a
\* tick changes what the hotel is entitled to, when no handler overlaps it.
\* However far the rows lag behind, and wherever a failure or a crash stops it,
\* what a pass of services/billing.service.ts writes is what
\* resolveEffectiveState answered before.
THEOREM TickDecidesNothing ==
  ASSUME Overlap = FALSE
  PROVE  Spec => TickNeutral
<1> DEFINE Neutral == tick' # tick /\ tick.pc # "delinquent" =>
                        Entitlement(subs', hotel', now) = Entitlement(subs, hotel, now)
<1>1. IInv /\ SerialInv /\ DueInv /\ [Next]_vars => [Neutral]_vars
  <2> SUFFICES ASSUME IInv, SerialInv, DueInv, Next
               PROVE  Neutral
    OBVIOUS
  <2>1. Due(tick, subs)
    BY DEF DueInv
  <2>2. CASE TickStart \/ ConvertList \/ ConvertRead \/ ConvertInvoice \/ RenewList
             \/ ExpireList \/ ExpireRead \/ TickFails
    BY <2>2 DEF TickStart, ConvertList, ConvertRead, ConvertInvoice, RenewList, ExpireList,
                ExpireRead, TickFails, dbVars
  <2>3. CASE ConvertWrite
    BY <2>1, <2>3, ConvertNeutral
  <2>4. CASE RenewWrite
    BY <2>1, <2>4, RenewNeutral
  <2>5. CASE ExpireWrite
    BY <2>1, <2>5, ExpireNeutral
  <2>6. CASE Delinquent
    BY <2>6 DEF Delinquent, TickAt
  <2>7. CASE Midnight
    BY <2>7 DEF Midnight
  <2>8. ASSUME NEW h \in Handlers, Request(h) \/ Continue(h) \/ RequestFails(h)
        PROVE  Neutral
    BY <2>8, HandlersWait
  <2> QED BY <2>2, <2>3, <2>4, <2>5, <2>6, <2>7, <2>8 DEF Next, TickNext
<1> QED BY <1>1, HeldFresh, DueKept, PTL DEF Spec, TickNeutral

-----------------------------------------------------------------------------
(* Seen through the resolver, periods tile time.                           *)

\* From one day to the next the jump stays, or goes on to the period after.
LEMMA RolledTiles ==
  ASSUME NEW e \in Days, NEW t \in Days, NEW next \in Days, next = t + 1, e <= next,
         NEW anchor \in AnchorDays
  PROVE  LET p == PeriodContaining(e, anchor, next)
             q == PeriodContaining(e, anchor, t)
         IN  /\ p.start <= next /\ next < p.end
             /\ e = next => p.start = e
             /\ e <= t => \/ p.start = q.start /\ p.end = q.end
                          \/ p.start = q.end /\ next = q.end
<1> DEFINE p == PeriodContaining(e, anchor, next)
           q == PeriodContaining(e, anchor, t)
<1>1. e \in Nat /\ t \in Nat /\ next \in Nat
  BY DEF Days
<1>2. p.start \in Nat /\ e <= p.start /\ p.start <= next /\ next < p.end
  BY JumpContains
<1>3. ASSUME e <= t
      PROVE  \/ p.start = q.start /\ p.end = q.end
             \/ p.start = q.end /\ next = q.end
  <2>1. q.end \in Nat /\ t < q.end
    BY <1>3, JumpContains
  <2>2. p = IF next < q.end THEN q ELSE NextAnchoredPeriod(q, anchor)
    BY <1>3, JumpFollowsRenewals
  <2>3. NextAnchoredPeriod(q, anchor).start = q.end
    BY DEF NextAnchoredPeriod, ComputeAnchoredPeriod
  <2> HIDE DEF p, q
  <2> QED BY <1>1, <2>1, <2>2, <2>3
<1> HIDE DEF p, q
<1>4. e = next => p.start = e
  BY <1>1, <1>2
<1> QED BY <1>2, <1>3, <1>4 DEF p, q

\* A row that has begun, from one day to the next.
LEMMA RowTiles ==
  ASSUME NEW row \in Row, row.status \in Live, NEW t \in Days, NEW next \in Days, next = t + 1,
         row.start <= t
  PROVE  LET before == ResolveEffectiveState(row, t)
             after  == ResolveEffectiveState(row, next)
         IN  IsServed(after) =>
               /\ IsServed(before)
               /\ after.start <= next /\ next < after.end
               /\ \/ after.start = before.start /\ after.end = before.end
                  \/ after.start = before.end /\ next = before.end
<1>1. /\ t \in Nat /\ next \in Nat /\ row.start \in Nat /\ row.end \in Nat
      /\ row.anchor \in AnchorDays /\ Live = Served
  BY DEF Days, Row, Live, Served
<1> DEFINE before == ResolveEffectiveState(row, t)
           after == ResolveEffectiveState(row, next)
<1>2. ASSUME t < row.end
      PROVE  before.status = row.status /\ before.start = row.start /\ before.end = row.end
  <2>1. before = Verdict(row.status, Stored(row), FALSE)
    BY <1>1, <1>2, InsideVerdict
  <2> QED BY <2>1 DEF Verdict, Stored
<1>3. CASE next < row.end
  <2>1. after = Verdict(row.status, Stored(row), FALSE)
    BY <1>1, <1>3, InsideVerdict
  <2>2. after.status = row.status /\ after.start = row.start /\ after.end = row.end
    BY <2>1 DEF Verdict, Stored
  <2>3. t < row.end
    BY <1>1, <1>3
  <2> HIDE DEF before, after
  <2>4. IsServed(before)
    BY <1>1, <1>2, <2>3 DEF IsServed
  <2> QED BY <1>1, <1>2, <1>3, <2>2, <2>3, <2>4 DEF before, after
<1>4. ASSUME row.end <= next, NEW status \in Live, NEW anchor \in AnchorDays, row.end \in Days,
             after = Verdict(status, PeriodContaining(row.end, anchor, next), TRUE),
             row.end <= t => before = Verdict(status, PeriodContaining(row.end, anchor, t), TRUE)
      PROVE  /\ IsServed(before)
             /\ after.start <= next /\ next < after.end
             /\ \/ after.start = before.start /\ after.end = before.end
                \/ after.start = before.end /\ next = before.end
  <2> DEFINE p == PeriodContaining(row.end, anchor, next)
             q == PeriodContaining(row.end, anchor, t)
  <2>1. after.start = p.start /\ after.end = p.end
    BY <1>4 DEF Verdict
  <2>2. /\ p.start <= next /\ next < p.end
        /\ row.end = next => p.start = row.end
        /\ row.end <= t => \/ p.start = q.start /\ p.end = q.end
                           \/ p.start = q.end /\ next = q.end
    <3>1. PICK e \in Days : e = row.end
      BY <1>4
    <3> QED BY <1>4, <3>1, RolledTiles
  <2>3. CASE row.end <= t
    <3>1. before.status = status /\ before.start = q.start /\ before.end = q.end
      BY <1>4, <2>3 DEF Verdict
    <3> HIDE DEF before, after, p, q
    <3> QED BY <1>1, <2>1, <2>2, <2>3, <3>1 DEF IsServed
  <2>4. CASE ~ (row.end <= t)
    <3>1. t < row.end /\ row.end = next
      BY <1>1, <1>4, <2>4
    <3> HIDE DEF before, after, p, q
    <3>2. IsServed(before)
      BY <1>1, <1>2, <3>1 DEF IsServed
    <3> QED BY <1>2, <2>1, <2>2, <3>1, <3>2
  <2> QED BY <2>3, <2>4
<1>5. CASE row.end <= next /\ row.status = "TRIALING" /\ row.sched
  <2>1. /\ row.end \in Days /\ AnchorDayOf(row.end) \in AnchorDays
        /\ after = Verdict("ACTIVE", PeriodContaining(row.end, AnchorDayOf(row.end), next), TRUE)
    BY <1>5, ConvertedVerdict
  <2>2. row.end <= t =>
          before = Verdict("ACTIVE", PeriodContaining(row.end, AnchorDayOf(row.end), t), TRUE)
    BY <1>5, ConvertedVerdict
  <2>3. PICK anchor \in AnchorDays : anchor = AnchorDayOf(row.end)
    BY <2>1
  <2>4. "ACTIVE" \in Live
    BY DEF Live
  <2> HIDE DEF before, after
  <2> QED BY <1>4, <1>5, <2>1, <2>2, <2>3, <2>4 DEF before, after
<1>6. CASE row.end <= next /\ row.status \in {"ACTIVE", "PAST_DUE"} /\ row.renew
  <2>1. /\ row.end \in Days
        /\ after = Verdict(row.status, PeriodContaining(row.end, row.anchor, next), TRUE)
    BY <1>6, RenewedVerdict
  <2>2. row.end <= t =>
          before = Verdict(row.status, PeriodContaining(row.end, row.anchor, t), TRUE)
    BY <1>6, RenewedVerdict
  <2> HIDE DEF before, after
  <2> QED BY <1>1, <1>4, <1>6, <2>1, <2>2 DEF before, after
<1>7. CASE Lapsed(row, next)
  <2>1. after = Verdict("EXPIRED", Stored(row), TRUE)
    BY <1>1, <1>7, LapsedVerdict
  <2>2. after.status = "EXPIRED"
    BY <2>1 DEF Verdict
  <2>3. ~ IsServed(after)
    BY <2>2 DEF IsServed, Served
  <2> QED BY <2>3
<1>8. \/ next < row.end
      \/ row.end <= next /\ row.status = "TRIALING" /\ row.sched
      \/ row.end <= next /\ row.status \in {"ACTIVE", "PAST_DUE"} /\ row.renew
      \/ Lapsed(row, next)
  BY <1>1 DEF Lapsed
<1> HIDE DEF before, after
<1> QED BY <1>3, <1>5, <1>6, <1>7, <1>8 DEF before, after

LEMMA EntitledFields ==
  ASSUME NEW v
  PROVE  /\ Entitled(v).served <=> IsServed(v)
         /\ IsServed(v) => Entitled(v).period = [start |-> v.start, end |-> v.end]
  BY DEF Entitled

LEMMA NothingServed == ~ Nothing.served
  BY DEF Nothing

\* Seen through resolveEffectiveState, periods tile time whether or not the
\* tick of services/billing.service.ts wrote them down, when handlers and ticks
\* do not overlap: a hotel served on two consecutive days is in the same period
\* or at the start of the next, and never outside the period it is told.
THEOREM TimeTiled ==
  ASSUME Overlap = FALSE
  PROVE  Spec => PeriodsTile
<1> DEFINE Before == Entitlement(subs, hotel, now)
           After == Entitlement(subs', hotel', now')
           Tiles == After.served =>
                      /\ Before.served
                      /\ After.period.start <= now' /\ now' < After.period.end
                      /\ \/ After.period = Before.period
                         \/ After.period.start = Before.period.end /\ now' = Before.period.end
<1>1. IInv /\ SerialInv /\ DueInv /\ Midnight => Tiles
  <2> SUFFICES ASSUME IInv, SerialInv, DueInv, Midnight
               PROVE  Tiles
    OBVIOUS
  <2>1. /\ now' = now + 1 /\ now < MaxDay /\ now \in 0 .. MaxDay /\ MaxDay \in Nat
        /\ now \in Nat /\ now \in Days /\ subs' = subs /\ hotel' = hotel
    BY Basics DEF Midnight, dbVars, IInv
  <2>2. PICK next \in 0 .. MaxDay : next = now'
    BY <2>1
  <2>3. next \in Days /\ next \in Nat /\ next = now + 1
    BY <2>1, <2>2, DaysCome
  <2>4. CASE LiveIn(subs) = {}
    <3>1. hotel.status = "EXPIRED"
      BY <2>4, NotLiveMirror
    <3>2. After = Nothing
      BY <2>1, <2>4, <3>1, NoneServed
    <3> QED BY <3>2, NothingServed
  <2>5. CASE LiveIn(subs) # {}
    <3>1. PICK n \in LiveIn(subs) : TRUE
      BY <2>5
    <3>2. LiveIn(subs) = {n} /\ n \in DOMAIN subs /\ subs[n].status \in Live
      BY LiveOnly DEF LiveIn
    <3>3. PICK row \in Row : row = subs[n]
      BY <3>2, Basics
    <3>4. row.status \in Live /\ row.start <= now
      BY <3>2, <3>3 DEF DueInv, Begun
    <3>5. PICK told, tells : told = ResolveEffectiveState(row, now)
                             /\ tells = ResolveEffectiveState(row, next)
      OBVIOUS
    <3>6. Before = Entitled(told) /\ After = Entitled(tells)
      BY <2>1, <2>2, <3>2, <3>3, <3>5, EntitlementOfLive
    <3>7. IsServed(tells) =>
            /\ IsServed(told)
            /\ tells.start <= next /\ next < tells.end
            /\ \/ tells.start = told.start /\ tells.end = told.end
               \/ tells.start = told.end /\ next = told.end
      BY <2>1, <2>3, <3>4, <3>5, RowTiles
    <3> HIDE DEF Before, After
    <3>8. ASSUME After.served
          PROVE  IsServed(tells) /\ IsServed(told)
      BY <3>6, <3>7, <3>8, EntitledFields
    <3>9. ASSUME After.served
          PROVE  /\ Before.served
                 /\ After.period.start = tells.start /\ After.period.end = tells.end
                 /\ Before.period.start = told.start /\ Before.period.end = told.end
                 /\ tells.start = told.start /\ tells.end = told.end => After.period = Before.period
      <4>1. Before.served
        BY <3>6, <3>8, <3>9, EntitledFields
      <4>2. After.period = [start |-> tells.start, end |-> tells.end]
        BY <3>6, <3>8, <3>9, EntitledFields
      <4>3. Before.period = [start |-> told.start, end |-> told.end]
        BY <3>6, <3>8, <3>9, EntitledFields
      <4> QED BY <4>1, <4>2, <4>3
    <3> QED BY <2>2, <3>7, <3>8, <3>9
  <2> QED BY <2>4, <2>5
<1>2. Next => Midnight \/ now' = now
  BY DEF Next, TickNext, Request, Continue, TickStart, TickFails, ConvertList, ConvertRead,
         ConvertWrite, ConvertInvoice, RenewList, RenewWrite, Delinquent, ExpireList, ExpireRead,
         ExpireWrite, TickAt, StartTrial, AssignAtTrialEnd, AssignNow, CancelRead, ExtendRead,
         ReactivateRead, Arrives, ScheduleRead, ScheduleWrite, AssignWrite, AssignInvoice,
         CancelWrite, CancelNowWrite, ExtendWrite, ReactivateWrite, RequestAt, RequestFails
<1>3. IInv /\ SerialInv /\ DueInv /\ [Next]_vars => [now' # now => Tiles]_vars
  <2> HIDE DEF Tiles
  <2> QED BY <1>1, <1>2
<1> QED BY <1>3, HeldFresh, DueKept, PTL DEF Spec, PeriodsTile

-----------------------------------------------------------------------------
(* Whatever the rows owe to the clock is on the list of some pass of the   *)
(* tick, and no pass lists a hotel that owes nothing.                      *)

ConvertDue(n) == subs[n].status = "TRIALING" /\ subs[n].end <= now /\ subs[n].sched
RenewDue(n) == subs[n].status \in {"ACTIVE", "PAST_DUE"} /\ subs[n].renew /\ subs[n].end <= now
ExpireDue == hotel.status \in Live /\ hotel.end <= now

Lags(n) == ResolveEffectiveState(subs[n], now).lags

\* A live row that lags behind the clock is on the list of convertDueTrials, or
\* of renewDueSubscriptions, or lapsed and on the list of
\* expireOverdueSubscriptions, which asks the hotel row and not the
\* subscription; and a hotel on any of the lists has a live row that lags.
LagIsListed ==
    /\ \A n \in LiveRows : Lags(n) =>
         \/ ConvertDue(n)
         \/ RenewDue(n)
         \/ ExpireDue /\ ResolveEffectiveState(subs[n], now).status = "EXPIRED"
    /\ (\E n \in DOMAIN subs : ConvertDue(n) \/ RenewDue(n)) \/ ExpireDue => \E n \in LiveRows : Lags(n)

LEMMA LagsIffOver ==
  ASSUME NEW row \in Row, NEW t \in Days, row.status \in Live
  PROVE  ResolveEffectiveState(row, t).lags <=> row.end <= t
<1>1. t \in Nat /\ row.end \in Nat
  BY CalendarAssumption DEF Days, Row
<1>2. CASE t < row.end
  <2>1. ResolveEffectiveState(row, t) = Verdict(row.status, Stored(row), FALSE)
    BY <1>1, <1>2, InsideVerdict
  <2>2. ResolveEffectiveState(row, t).lags = FALSE
    BY <2>1 DEF Verdict
  <2> QED BY <1>1, <1>2, <2>2
<1>3. CASE row.end <= t
  <2>1. \E status, period : ResolveEffectiveState(row, t) = Verdict(status, period, TRUE)
    <3>1. CASE row.status = "TRIALING" /\ row.sched
      BY <1>3, <3>1, ConvertedVerdict
    <3>2. CASE row.status \in {"ACTIVE", "PAST_DUE"} /\ row.renew
      BY <1>3, <3>2, RenewedVerdict
    <3>3. CASE Lapsed(row, t)
      BY <1>1, <3>3, LapsedVerdict
    <3> QED BY <1>3, <3>1, <3>2, <3>3 DEF Lapsed
  <2>2. ResolveEffectiveState(row, t).lags = TRUE
    BY <2>1 DEF Verdict
  <2> QED BY <1>3, <2>2
<1> QED BY <1>1, <1>2, <1>3

\* The hotel row a live row is mirrored by.
LEMMA MirrorOfLive ==
  ASSUME IInv, SerialInv, NEW n \in LiveRows
  PROVE  hotel.status = subs[n].status /\ hotel.end = subs[n].end
<1>1. n = Len(subs) /\ n \in 1 .. Len(subs) /\ Len(subs) \in Nat
  BY Basics DEF SerialInv, Books, RowsFine, NewestLive, LiveIn, LiveRows
<1>2. MirroredBy(subs[n], hotel)
  BY <1>1 DEF SerialInv, Books, Mirrored
<1> QED BY <1>2 DEF MirroredBy, LiveRows, Live

\* While handlers and tick do not overlap, nothing the clock made true is out of
\* the tick's sight, and nothing it sees is not so: the safety half of
\* LagClears, and what ExpireWrite and the lists rely on (services/billing.service.ts).
THEOREM NoLagUnseen ==
  ASSUME Overlap = FALSE
  PROVE  Spec => []LagIsListed
<1>1. IInv /\ SerialInv => LagIsListed
  <2> SUFFICES ASSUME IInv, SerialInv
               PROVE  LagIsListed
    OBVIOUS
  <2>1. now \in Days /\ now \in Nat /\ subs \in Seq(Row)
    BY Basics, DaysCome DEF IInv, RowsOK
  <2>2. ASSUME NEW n \in LiveRows
        PROVE  subs[n] \in Row /\ subs[n].status \in Live /\ n \in DOMAIN subs /\ (Lags(n) <=> subs[n].end <= now)
    BY <2>1, Basics, LagsIffOver DEF LiveRows, Lags
  <2>3. ASSUME NEW n \in LiveRows, Lags(n), ~ConvertDue(n), ~RenewDue(n)
        PROVE  ExpireDue /\ ResolveEffectiveState(subs[n], now).status = "EXPIRED"
    <3>1. subs[n].end <= now
      BY <2>2, <2>3
    <3>2. Lapsed(subs[n], now)
      BY <2>3, <3>1 DEF Lapsed, ConvertDue, RenewDue
    <3>3. ResolveEffectiveState(subs[n], now) = Verdict("EXPIRED", Stored(subs[n]), TRUE)
      BY <2>1, <2>2, <3>2, LapsedVerdict
    <3>4. ExpireDue
      BY <2>2, <3>1, MirrorOfLive DEF ExpireDue
    <3> QED BY <3>3, <3>4 DEF Verdict
  <2>4. ASSUME NEW n \in DOMAIN subs, ConvertDue(n) \/ RenewDue(n)
        PROVE  n \in LiveRows /\ Lags(n)
    <3>1. n \in LiveRows /\ subs[n].end <= now
      BY <2>4 DEF ConvertDue, RenewDue, LiveRows, Live
    <3> QED BY <2>2, <3>1
  <2>5. ASSUME ExpireDue
        PROVE  \E n \in LiveRows : Lags(n)
    <3>1. hotel.status \in Live /\ hotel.end <= now
      BY <2>5 DEF ExpireDue
    <3>2. Len(subs) # 0
      BY <3>1 DEF SerialInv, Books, Mirrored, Live
    <3>3. PICK n : n = Len(subs)
      OBVIOUS
    <3>4. n \in DOMAIN subs /\ MirroredBy(subs[n], hotel)
      BY <2>1, <3>2, <3>3, Basics DEF SerialInv, Books, Mirrored
    <3>5. subs[n].status \in Live /\ subs[n].end <= now
      BY <3>1, <3>4 DEF MirroredBy, Live
    <3> QED BY <2>2, <3>4, <3>5 DEF LiveRows
  <2> QED BY <2>3, <2>4, <2>5 DEF LagIsListed
<1> QED BY <1>1, HeldFresh, PTL

=============================================================================
