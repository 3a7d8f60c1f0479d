# Vaketta backend: models, checks and proofs

The Vaketta backend serves hotels: guests write over WhatsApp or Instagram, a bot answers from
menus, flows and an AI, bookings are taken, and the hotel pays for all of it with a monthly
subscription. It is one Node process (`src/src/server.ts`) that runs the HTTP handlers, the
BullMQ workers and the cron ticks, over Postgres (Prisma) and Redis; several instances may run.

Nothing in the process is parallel, but every `await` of a query, a Redis call or a provider is
a point where another handler, worker or tick (here or in another instance) may run. Transactions
use Postgres' default isolation, READ COMMITTED; no code sets another one. What is hard here is
therefore hard in the classical way: check-then-act across awaits, absolute writes of values read
earlier, at-least-once delivery, retries, and a clock that moves on whether or not a job ran.

## 1. Inventory

Status: **M** modelled in this development (with what is left out of it named in `PROJECT.json`),
**-** left out. `PROJECT.json` has one entry per part with its sources.

### Money and entitlement

| Part | State | Operations | What makes it correct |
|---|---|---|---|
| Invoice settlement **M** `invoice.service`, `adminBilling.controller` | `Invoice` (status, amountPaid, total), `Payment` (status, amount, providerPaymentId) | recordPayment, transitionPayment, void, overdue queries, reactivation after settlement | never credited past the total; PAID only when covered; decided payments keep their outcome; paying restores service |
| Manual payments **M** `manualPayment.service` | a PENDING `Payment` per claim | submit, review | at most one open claim; approvals never exceed the balance |
| Razorpay **M** `razorpay.controller`, `razorpayPayment.service`, `razorpayWebhook.controller`, `razorpay.worker` | `Invoice.providerOrderId`, `WebhookEvent`, a queue job | open order, callback, webhook intake, settle, retry | a capture is booked once, for what was captured, and never forgotten |
| Subscription life cycle **M** `billing.service`, `plan.controller`, `hotel.service` | `Subscription` rows, the mirror on `Hotel` | start trial, assign now or at trial end, cancel, extend, reactivate | one live row; hotel mirrors it; a cancellation ends service |
| Billing tick **M** `crons`, `billing.service`, `dunning.service` | lists read at the start of each pass | convert, renew and invoice, delinquency, expire | decides nothing the clock has not decided; no period unbilled or billed twice; catches up |
| Billing calendar **M** `billing/period` | none | anchored month arithmetic, `periodContaining` | the jump agrees with the chain of renewals; anchors survive short months |
| Effective status **M** `billing/effectiveStatus` | none | `resolveEffectiveState` | periods tile time |
| Dunning **M** (without its mails) `dunning.service` | `BillingEvent` rows as "already sent" | advanceDelinquent, reminders | suspends only who owes |
| Entitlement cache **M** `billing.service` 218-373 | Redis key per hotel | read-through, unawaited SET and DEL, fail-open | a stale row is explained by a late SET or a lost DEL, and bounded by the next boundary |
| Usage **M** (without quota and overage amounts) `usage.service` | `UsageRecord` per period | gate, increment, billed at the roll | usage is counted in the period it was made in |
| Cron lock **M** `crons` 20-61 | Redis key with a TTL | SET NX EX, compare-and-delete | one tick at a time, while the lock lasts |
| Plans, trial settings, validation, audit, hotel billing pages, scripts **-** | single rows | CRUD, reads | no decision across requests |

### Messages and the bot

| Part | State | Operations | What makes it correct |
|---|---|---|---|
| WhatsApp and Instagram intake **M** | `WebhookEvent`, jobs keyed by message id, `Message` with unique (hotel, wamid) | acknowledge, enqueue, claim, retry, status reports, echoes | each guest message handled once, none lost after the 200 |
| Inbound pipeline **M** `message.service`, `outbound/` | `Message`, `Guest`, usage | dedup, persist, meter, reply, send, media | a retry neither repeats the reply nor loses the message |
| Channel sends **M** `whatsapp.send`, `instagram.send`, renderers, template sends | none | what a payload becomes, and how each provider call may end | the sender is told what the guest got |
| Delayed staff replies **M** `message.service`, `message.controller`, `outboundSend.worker` | PENDING `Message`, delayed job, rate counter | send, undo, claim, delete | undo and send: exactly one wins |
| History sync **M** `history.service`, `historyMedia.worker` | `Hotel.historySyncStatus`, imported rows | chunks, threads, media | a message imported and delivered is one row |
| Session **M** `session.service`, `botEngine` | session in Redis and in Postgres | read-through, write Redis then Postgres unawaited, reset | an answer belongs to the question that was asked |
| Flow runtime **M** `flowRuntime`, `stepRetry`, `flow.service` | session `FLOW:flow:node`, flow variables, retry counters, versions | step loop, waiting nodes, jumps, retries, drafts | bounded steps, retries end, errors leave the flow |
| Flow pause and resume **M** `flowRuntime` 2198-2250, `flowResumeWorker` | `PausedFlow`, delayed job keyed by guest and flow | pause, delete, resume | a paused flow resumes, once |
| Advanced room allocation **M** `automation/nodes/ara` | dialogue phase in the session | ages, allocator, plans, edits, confirm | everybody has a bed within the limits |
| Instagram OAuth and profiles, template synchronisation, AI texts, file storage, push, calls **-** | provider state | provider I/O | |

### Bookings and the rest

| Part | State | Operations | What makes it correct |
|---|---|---|---|
| Bookings and availability **M** | `Booking`, `BookingRoom`, `RoomInventory`, `RoomType.totalRooms` | count, create, edit, confirm, cancel, calendar | unique references; an edit gives back nothing else; no night above capacity (it is not so: section 3) |
| Confirmation sequence **M** | `ConfirmationSequence`, job keyed by booking, progress | keep sequences, preview, submit, steps with a timeout, reconstruct | an accepted submission has every step tried |
| Authentication **-** | blocklist keys, reset tokens | log in, log out, change and reset password | an invalidated token is never accepted |
| Settings, guests, leads, conversations, dashboard, realtime, legal pages, wiring **-** | rows, sockets | CRUD, reads, best effort | |

How they interact: a settled invoice calls `reactivateAfterPayment` (settlement to
subscription); the tick issues invoices, asks the settlement tables who is overdue and suspends
(subscription to settlement and back); every request and every inbound message asks the resolver,
through the cache, whether the hotel is served; the resolver reads only the subscription row and
the clock. The two ways an online payment is reported (callback, webhook) meet in
`settleRazorpayPayment` and delegate to `recordPayment`. A guest's message goes from the intake
through the pipeline (Messaging) to the bot, the session and a flow (Flow), whose nodes may run the
room allocation (RoomAllocation) and create a booking (Booking), and whose answers go out through a
channel (Channel). Messaging takes the bot's decision as a choice and Flow takes the allocation's and
the booking's as choices, so each module's choices include all that its neighbour can do.

The hazards, each at its line and with the properties that cover it, or a note on why none can,
are listed in `PROJECT.json`.

## 2. The modules

| Module | Models | Uses |
|---|---|---|
| `Ledger` | abstract: what the tables promise about invoices, with no handlers | |
| `Settlement` | settlement, manual payments, dunning and reactivation of one hotel, as an implementation of Ledger | `Ledger` |
| `MCSettlement` | instances | `Settlement` |
| `SettlementProofs` | theorems about Settlement | `Settlement`, `Ledger` |
| `BillingPeriod` | calendar arithmetic | |
| `PeriodWalk`, `MCPeriodWalk` | tick's renewals against the resolver's jump, day by day | `BillingPeriod` |
| `BillingPeriodProofs` | theorems about the calendar, the jump and PeriodWalk | `BillingPeriod`, `PeriodWalk` |
| `EffectiveStatus` | the resolver | `BillingPeriod` |
| `Subscription`, `MCSubscription` | subscription handlers and the billing tick of one hotel | `EffectiveStatus` |
| `SubscriptionProofs` | theorems about Subscription | `Subscription`, `BillingPeriodProofs` |
| `Gateway`, `MCGateway` | online payment of one invoice: order, callback, webhook, queue, worker | |
| `GatewayProofs` | theorems about Gateway | `Gateway` |
| `Entitlement`, `MCEntitlement` | entitlement cache, usage metering, the renewing tick under its lock | `EffectiveStatus` |
| `EntitlementProofs` | theorems about the cache, the lock and the meter of Entitlement | `Entitlement`, `BillingPeriodProofs` |
| `Flow`, `MCFlow` | session, bot engine, flow runtime, pause and resume of one guest | |
| `FlowProofs` | theorems about the turns, answers and pauses of Flow | `Flow` |
| `Channel` | what becomes of one thing sent over WhatsApp or Instagram | |
| `Messaging`, `MCMessaging` | intake, inbound pipeline, staff replies, echoes and reports, history sync | `Channel` |
| `MessagingProofs` | theorems about Messaging | `Messaging` |
| `Allocation` | the room allocator and the plans it offers | |
| `RoomAllocation`, `MCRoomAllocation` | the allocation dialogue over a calendar that moves | `Allocation` |
| `Confirmation` | confirmation sequences: validation, resolution, preview, status | |
| `Booking`, `MCBooking` | bookings, availability, the confirmation job | `Confirmation` |
| `BookingProofs` | theorems about Booking | `Booking` |

### Settlement

A handler runs on a worker `w`; `proc[w]` is what it holds between two round trips (the phase,
the invoice, the amount, the `amountPaid` it read). A request arrives by an action that makes the
handler's first query (`AdminRecordPayment`, `SubmitManualPayment`, `SettleRazorpayPayment`,
`TransitionRead`, `VoidRead`, `DunningStart`, `CancelRead`) and goes on by one action per further
query, a transaction being a read step and a commit step.
`applyPaymentToInvoice` writes `amountPaid` absolutely, from the value the transaction read;
`Applied` does the same, so lost updates happen. `transitionPayment` updates its `Payment` row
first and holds that row lock to the commit: `Locked`. The unique key on `providerPaymentId` is
`DuplicatePid`. `reactivateAfterSettlement` swallows its errors: `ReactivateFails`, bounded.

Abstracted: amounts are small integers in units of the smallest payment; an invoice's dates are
`age` (current, due, late); which subscription may be revived is `renewable` (renewing, or the
period still open).

### Subscription, EffectiveStatus, BillingPeriod

Instants are local midnights, numbered by the day. The calendar is a constant (`MonthStart`), so
the definitions checked on the Gregorian calendar in `PeriodWalk` are the ones the life cycle uses
on tiny calendars (months of two and three days, or of one and two) where clamped anchors and
catch-ups happen within a few days. `CalendarAssumption` asks of a calendar that a month has 1 to 31
days, which is what makes the last day of a month an anchor day. `GuardAssumption` asks one step of
the correcting loops of `periodContaining` (the code allows 24); that one is enough is proved. The jump is
a table (`RolledTo`), since the resolver asks it for the same periods over and over.

`subs` are the rows in order of creation, `hotel` the mirror, `invoices` the periods billed. The
tick is one process: each pass keeps a list read once (`ConvertList`, `RenewList`, `ExpireList`),
and writes one transaction per row or per period closed. The list `findMany` returns is one row
here: with one live row per hotel, the passes concern at most one row of a hotel at a time.
Handlers run in between when `Overlap` is TRUE. Which invoices are paid is Settlement's matter:
here `Delinquent` may mark or suspend any hotel that has been invoiced, and a settling payment may
arrive whenever the hotel is suspended.
`Entitlement` is `getEffectiveSubscription` without its cache: what a request would be told.

Days instead of milliseconds means: a comparison on the day itself is decided as at midnight, but
for `billingEndDate < now` of the expiry pass, which depends on the hour and is left open. No
handler and no pass lasts across two midnights. Rows without an end date or an anchor (tenants from
before the anchor migration) are not modelled.

### Gateway

One invoice, a few orders (each is paid at most once, so a payment is named by its order), browser
tabs and worker slots. `intake` counts webhooks acknowledged and not yet queued. `job` is the BullMQ
job under the event's id, with the attempts it has `made` and its `stalls`; a stalled worker (`Stall`)
loses the job and goes on, which is how two runners come to settle one payment. A job that fails for
good is `dead`, with its DeadLetterEvent, or `logged`, with only a line of the log: the letter could not
be written, or the job stalled more than `maxStalledCount` (`Stalled`), which leaves it attempts, and
`isFinalAttempt` takes for a retry. `recordPayment` is two steps here, its read and its
commit; its races with reviews and voids are in Settlement. External and modelled from use: the
gateway's orders, captures and redeliveries; the queue's take, retry, stall and dead letters.

### Entitlement

The loader's row is `sub`; `cache` the Redis entry. The SET of a reader and the DEL of a writer are
fired and arrive later (`fill`, `dels`), in any order, or fail. `excused` is a history variable: the
entry's staleness is due to a failed DEL or to a SET that crossed a write. The clock drops an entry
when the boundary that `boundedCacheTtlSeconds` clamps to is reached; any earlier expiry is `Expire`.
A use asks the gate, then the meter, each through the cache. `TickStart` and `Unlock` are the
SET NX and the compare-and-delete script; `LockExpires` is a tick that outlives its lock.
The tick here is its conversion (one step) and its renewals (read, then write): Subscription has the
rest. A hotel without a live row is metered by the calendar month, as the loader's fallback does; that
fallback's reading of the legacy hotel status is not modelled. `EntitlementAssumption` starts the first
row on day 0: no handler makes a row that starts in the future.

### Flow

`turn[t]` is one run of `processMessage` or of the resume worker: it reads the session (Redis, or
Postgres and back into Redis), is routed, walks the graph one hop per step and writes the one staged
session at the end (`Flush`), as `executeFlowStep` does. Between any two steps other turns of the
guest run. A write of Postgres may be lost, Redis may forget, a node may throw. Each kind of node is
an action; whether an answer parses, a condition holds, or a room is free is a choice. Variables are
those on which clearing, rewinding and booking depend. `stepRetry`'s counters are `tally` (cleared by
an answer) and its producers `Producer`; `rewound` is a history variable beside `tally` that an answer
does not clear, so that it bounds how often a guest is sent back for one booking. The bound is per
booking because creating one clears the counters: a graph that books twice in a run has them twice.
`FlowAssumption` says what a graph is: a sequence of nodes with a start among them. `SaveDraft`, `PublishDraft` and `RollBack` change the
flow under running turns; a turn keeps the nodes it loaded, published or cached.

`asked`, `answered`, `resumed` are history variables: which node prompted and was answered in which
run of the flow, how often a pause was taken up.

### Channel and Messaging

Channel's operators return the set of outcomes of a provider call: `sent`, `mocked` (no credentials:
nothing goes out, the sender is told it did), `declined`, `refused`, `part` (some of the chunks or
parts), `lost` (all of it accepted, and the call throws). Messaging draws one of them per send.

Workers hold `held[k]`; jobs are BullMQ's (waiting, active with a holder, finished, dead), and a
stalled one is taken by another worker while the first goes on. Every query of `logIncomingMessage`,
`executeDelayedSend`, `sendManualReply`, `undoSend`, the webhooks and the workers is a step.
A delayed reply, an upload (`Uploads`) and a reply typed on the phone (`Phone`, known only by its
echo) differ as in the code. `sent[i]` counts what reached the guest. `unnoted` marks a rich answer
that was sent and whose row could not be written, on which the code sends the text as well.

Left out: the cache of channel credentials, messages with neither text nor media, Instagram's
attachment-only messages (which the code does not store). One history chunk carries one message.

`GaveUp` says what is left of a job that failed for good: a letter, or only a line of the log. An
Instagram job that stalls twice leaves the line (`instagram.worker.ts:95`), as in Gateway.

### Allocation and RoomAllocation

`Allocation` translates the allocator (room counts, distribution, children, slots, assignment, price)
and the plan generator as functions of a party and an availability. `RoomAllocation` is the handler:
one action per phase and kind of reply; an unreadable reply changes nothing and is left out. Ages are
"young" or "old"; `calendar` is what other guests leave free and moves in `Shift`, `snapshot` what the
plans were made from. Not modelled: names and pictures of plans, the hints of the AI (any edit may be
read out of free text: `Interpret`), and the second rule of the occupancy hints, which only words.

### Booking and Confirmation

`world` fixes the rows there are at first and the requests that come (`want`). `BookingAssumption`
says which worlds there are: rows with distinct references and at least one night, sequences within
`Steps`, and creations whose booking is new and their own. Every request is a
program counter `at[r]` and what it read (`draft[r]`). The calendar (`CalendarCell`) and the check
(`Available`) read the same rows in their own ways, as in the code. `Numbering` is the advisory lock
per hotel and year, `Locked` the one per booking, which ends with its transaction (`Expire`).
A confirmation is one job per booking: `SendCheck`, `SendRemove`, `SendConfirm`, `SendAdd` are the
awaits of `sendConfirmation`, and `displaced` records whose waiting job a removal took. The worker
tries the steps one after another; `run` is what it knows, `progress` what it managed to report.

Abstracted: in the edit of a group the rooms' prices may change, their types may not; a stalled worker
that goes on beside its successor is not modelled (the job starts over once, then fails). A reference is
its number: the code looks the last one up as text of five digits, which finds the greatest up to
99,999 a year over all hotels; beyond that, two bookings of one hotel would get the same number.

## 3. The runs

Bounds are chosen so that the case a property is about happens; every action fires in some run.

| Run | Question | Bounds |
|---|---|---|
| `settlement_races` | do the row-level promises survive any two handlers interleaved? | 2 invoices of 2 units, 2 workers, all handlers, 2 Payment rows, 1 gateway id |
| `settlement_serial` | one handler at a time: are the books exact, is a paying hotel served, is Ledger implemented? | same, 1 worker, 1 lost reactivation |
| `subscription_serial` | does the tick only write down what the clock decided, and catch up? | 8 days, 2 requests, 1 fault, catch-up of 2 |
| `subscription_races` | one live row, every rolled period billed, whatever interleaves? | 3 days of short months, 2 handlers and the tick, 3 requests, 1 fault |
| `period_walk` | does the jump land where the renewals lead? | Gregorian, 14 months from each of nine winter days, 6 anchors |
| `gateway` | booked once, never forgotten? | 2 orders, 2 deliveries each, 2 workers, 2 attempts, 3 faults, fairness |
| `entitlement` | is staleness always explained, usage in its period, one tick under the lock? | 3 days of short months, 1 use, 1 write, 2 ticks, 1 fault |
| `flow` | do turns end, do answers meet their questions, is a pause taken up once? | 5 graphs with every kind of node, 2 or 3 messages, 1 inbound and 2 resume slots, 1 retry, 6 hops, 4 pauses, 1 fault |
| `messaging` | answered once, undone means unsent, acknowledged means stored? | 17 worlds of one to three items, 2 deliveries, 2 attempts, 2 workers and 2 senders, up to 2 faults |
| `booking` | unique references, edits that keep the rest, accepted means sent? | 9 worlds of two or three requests on 2 hotels, up to 2 faults, 2 steps |
| `overbooked` (violated) | does a PENDING booking block its room? | 2 guests, 1 suite |
| `rooms` | do plans house the party, is sold out true, is no room taken that is gone? | 2 types of at most 2 and 1 rooms, 2 parties, 1 change of the calendar, 3 edits, 4 rooms |

Why these bounds are enough to mean something: a race here needs two holders of a stale read, so two
workers; a lost update needs two payments on one invoice, and settling the last of several needs a
second invoice. A catch-up needs two periods behind one tick and a limit it can meet (`MaxCatchup`
2). A duplicate capture needs a callback and a webhook, or a stalled runner and its successor. Two
attempts let a job be retried and then dead-lettered; three faults let one stall twice, or be retried and
then end without its letter. Two guest messages race for the one
conversation window; two replies in a minute meet the rate limit of one. Six hops exceed the longest
acyclic walk between two waits of the graphs, and the loop of the fifth exceeds six. Two pauses in a row
meet the key of the finished job. A party of four in types of two to four beds has to be split, crammed
or refused as the calendar shrinks.

`Worlds` in Messaging and Booking is a bound on what comes up together, not on the order of the steps:
each world is a set of messages, replies, chunks or requests, and within it everything interleaves.

### Fairness

Subscription: midnight comes, `setInterval` starts ticks again and again, a
started tick and handler go on; failures are bounded, so the tick that does not fail comes.
Gateway: the gateway delivers a webhook for every capture, an acknowledged webhook and a worker go
on. Flow: a turn that has begun takes its next step and an idle resume worker takes a due job.
Messaging: an intake, a worker and a handler that have begun go on, a waiting job is taken. Booking: a
submission that has begun goes on and the worker works. All are `WF` of the next step of something
already begun: the event loop resolves every await, or it fails, which is an action. Not assumed:
that the customer pays, that the browser calls back, that a guest or an admin does anything.

### What the violated run shows

`overbooked`: the schema says of PENDING "availability checked & blocked", and the service says of its
check "prevent overbooking". The check counts CONFIRMED and HOLD rows only, and a guest's booking is
PENDING until the hotel confirms. Two guests ask for the only suite, one after the other, and both get it.

### Divergences seen while modelling

The models contain the following behaviours of the code, and the passing properties are stated so that
they hold in spite of them. The first four were model-checked as violations in an earlier state of this
project; the actions are unchanged.

* Two approvals of different claims on one invoice both pass the balance guard (`invoice.service.ts:541`,
  "this is what makes two claims racing one invoice safe"); the second absolute write loses the first credit.
* The suspension loop suspends a hotel that settled after the loop's list was read (`dunning.service.ts:224`).
* A trial cancelled at its end still converts if a plan is scheduled (`billing.service.ts:762`); the expiry
  pass expires a plan assigned after it asked the resolver (`billing.service.ts:1312`).
* The checkout callback cross-checks the outstanding balance against itself (`razorpay.controller.ts:204`).
* A payment or Instagram job that stalls twice fails with attempts left. The failed handler takes that for a
  retry (`razorpay.worker.ts:108`, "attempt failed — retry scheduled"; `instagram.worker.ts:102`), writes no
  dead letter, and nothing runs the job again. A comment (`instagram.worker.ts:85`) says a stall "counts as
  one failure, then falls to retry policy". Accounted allows the log line, and says when it may be all there is.
* A message stored before a crash is not answered by the retry (`message.service.ts:123`), nor one that
  history sync imported first.
* `undoSend` of an upload that is being sent succeeds, though the guest gets it.
* A rich answer whose row cannot be written (the echo was first, or the query failed) is followed by the
  text (`outbound.service.ts:83`); a staff reply in the same case is reported as failed though delivered.
* `withRetry` posts again after 15 seconds without an answer: the guest may get it twice. A reply claimed
  PENDING to SENT is shown as sent if the worker dies before the call.
* A status webhook that read before another wrote may move READ back to DELIVERED
  (`whatsapp.controller.ts:95`); one that comes before the message id is recorded is lost.
* A media download in flight fills a row that was deleted meanwhile, whose content was to be wiped.
* The rate counter's INCR and EXPIRE are two calls (`message.controller`): a crash in between leaves a
  counter that never expires.
* A final history chunk marks the sync complete, and chunks that come later are skipped; an older chunk
  still in flight puts it back in progress. A media job that fails leaves its row pending, without a
  retry, though the worker's comment speaks of one.
* A pause whose job key is still held by a finished job of the same guest and flow is never resumed
  (`flowRuntime.ts:2230`); a crash after the row is deleted loses the pause.
* A turn that throws after a group was created, or that is repeated by an older session, books the group again.
* A draft of a flow that was never published runs at once; deleting a flow or rolling it back leaves the
  cached one in use for up to five minutes.
* Two confirmation sequences created at once may both be default ("only one default per hotel+channel",
  `confirmationSequence.controller.ts:132`). The resolver takes the oldest scoped sequence where its
  comment prefers the most specific.
* An add that meets a job of the same booking is ignored and answered 202 with the other submission's steps;
  a submission that displaced a waiting job and then fails sends nothing.
* Staff may skip the opening template of a sequence; the saved replies after it then need a window that
  may be closed.
* A room removed by the menu takes its guests with it (`handler.ts:336`), where one removed by free text
  leaves them to be placed again.
* Editing a group without naming its rooms writes a total of one room (`booking.service.ts:110`).

## 4. The proofs

Each theorem holds for every value of the constants that the `ASSUME`s of the modules allow (totals
positive, sentinels outside their sets, bounds natural, calendars, graphs and worlds well formed as
section 2 says); TLC evaluates them on every run. A proof module states its inductive invariant as a
conjunction of named parts, has one lemma per action or group of actions, and ends in the theorems.

**`SettlementProofs`**, for any invoices, totals, number of workers and bounds:

* `Invariance`: `IInv` is inductive. It adds to the type invariant what a handler knows between
  two round trips: that what it is about to book fits the balance **it read** (`HandlersOK`), that a
  claim it holds is still PENDING, and that row locks are exclusive (`LocksExclusive`). The
  invariants alone are not inductive: a commit writes `seen + amt`, and only `HandlersOK` bounds it.
* `TypeCorrect`, `CreditBounded`: the invariants TypeOK and NeverOvercredited of the runs;
  `CaptureIdempotent` and `MirrorKept`: the invariants CapturedOnce and MirrorAgrees, which no run repeats.
  `OutcomesKept`: the action property OutcomesFinal.
* `CreditBacked` (BackedByMoney), for any number of handlers. `Received` is a sum over the Payment rows;
  `MoneyInv` adds that what a handler read and has not written yet is no more than was received, and
  that it knows of the payment it is about to accept. A commit then adds the same amount to both sides, or,
  having lost an update, less to the balance.
* `BooksExact` (LedgerExact) and `MoneyRefinement` (ImplementsLedger), with one handler at a time
  (`Workers = {w}`): what the one handler read is still so, hence the balance is the sum, and every
  step is a step of Ledger or none. `SerialRefinement` is the same refinement with `amountPaid` itself as the
  credit. With two workers neither holds: two claims race.
* `PaidIsServed` (ServedWhenPaid), with one handler at a time. The strengthening, `ServedInv`, names the
  phases in which a suspended hotel that owes nothing may be found: those of its reactivation; and
  it knows that the invoices the suspension loop has on its list are still OPEN.

The facts about sums (a row more, a row whose status changes, a sum of zeros) are proved once, in the
section *Sums*. Induction over sets is not to be had from a theorem with an operator parameter; it is
done by the smallest counterexample, from the well-foundedness of `<` on the naturals.

**`GatewayProofs`**, for any total, tabs, workers, attempts and bounds: `GatewayInvariance` (`GInv` is
inductive) and from it `GatewayTypeCorrect` (the invoice stays within its total), `CaptureBookedOnce`
(CreditedOnce) and `MarkedAfterDecision` (ProcessedIsDecided). The strengthening says what each
phase of a runner implies: a runner about to commit has a captured payment and an amount that fits
the balance it read, a runner about to mark has a decided payment; and that jobs and intake refer to
captures. `RunnerGInv` reduces every step of a runner to what that one runner changes.

* `CapturedMoneyKept` (CapturesKept), the safety half of Accounted: in every state a captured payment is
  booked or refused, given up (`GivenUp`), lost after its 200, or on its way: not yet told, at the intake, in a
  waiting job or in the hands of the worker the queue names. Given up is a dead letter after every attempt, or
  a line of the log after those or after a second stall. The strengthening, `JobsKept`, says what the state
  of a job owes: an active one has that worker, a completed one was decided, and where there is none the
  delivery has not left the intake, or was lost there. `JobsFit` adds that a job that may run has an attempt
  and a stall left, so that none is given up before its time.
* `DecisionsAreFinal` (DecisionsStand), a step property: no late runner takes back a booking or a refusal.

**`BillingPeriodProofs`**, for every calendar `CalendarAssumption` allows and every guard of the loops. From the
months up: every day lies in one month, a boundary lies after its instant, the boundaries of an anchor
rise month by month. Then the jump (`billing/period.ts`, `periodContaining`), which estimates a month and corrects
forth and back by loops: the estimate is at most one boundary off (`MonthsApart`), so that a single step of either
loop lands (`Forth`, `Back`, `JumpLands`). The loops are counters found by CHOOSE, not recursion, which puts
them within the provers' reach.

* `JumpContains`: the period found contains the day it was asked for.
* `JumpFollowsRenewals`: on the next day the jump is where it was, or, that period having ended, where
  `nextAnchoredPeriod` goes. Hence `RenewalsFollowed`, the invariant JumpAgreesWithRenewals of `PeriodWalk`,
  by the induction over days that its run does on nine winters of the Gregorian calendar.
* `RenewalKeepsJump`: asked from the period after, the jump lands in the same period.

**`SubscriptionProofs`**, for any calendar, number of handlers and bounds. Whatever overlaps:

* `Typed` (TypeOK, with its one live row) from `Held`: what a pass or a handler holds exists, at most one
  row is live, and a period being closed is held with the start of the period its row is in. That last part is
  what the others need, and it holds because nothing but the pass itself moves the start of a period.
* `Billed` (BilledBeforeRolled), a step property, from the same invariant.

With requests and ticks one at a time (`Overlap = FALSE`; overlapped they are not promised: section 3 tells of an
expiry that overtakes an assignment):

* `MirrorKept` (HotelMirrors) and `BilledOncePerDay` (InvoicesDisjoint) from `SerialInv`: the only live row
  is the newest, a bill is for a period its row has left behind or begins with the one it is in, and what is
  held between two awaits is what the tables say now.
* `TickDecidesNothing` (TickNeutral) and `TimeTiled` (PeriodsTile), step properties. They need `DueInv` besides
  (checked as an invariant of `subscription_serial` before it was proved): no row starts in the future, and what the
  tick is about to write is still due, the trial still a trial with a plan, the agreement still renewing, the
  hotel still lapsed. A conversion and an expiry then write the resolver's verdict, and a renewal, of whichever
  period of a catch-up, moves the row by a period without moving the jump (`RenewalKeepsJump`). Across a
  midnight the verdict of one row goes on, moves to the next period, or ends (`JumpFollowsRenewals`).
* `NoLagUnseen` (LagIsListed), the safety half of LagClears, from `SerialInv`: a live row that lags behind the
  clock is on the list of the conversion, of the renewal or of the expiry, and a hotel on one of the lists has such
  a row. The expiry asks the hotel row, the resolver the subscription, which agree only when nothing overlaps. With
  overlapping requests TLC refutes both directions: a renewal that crosses the start of a trial writes its date over
  the trial's on the hotel row, and the trial's end is unseen until then; an extension that crosses an expiry revives
  the hotel row alone, which is listed later though no row lags.

**`EntitlementProofs`**, for any calendar, uses, runs of the cron and bounds, in two parts.
`EntitlementInvariance` (`EInv` is inductive) is about the cache and the lock, without a look into the rows,
and from it follow `TicksLocked` (OneLockedTick) and `StalenessExplained`
(StaleIsExplained). `LockHeld`, that whoever runs without having outlived his lock is the one it
names, is the strengthening: that two such runs never overlap does not by itself exclude a third that
finds the lock free. StaleIsExplained is inductive next to the shape of the cache: a write leaves a
DEL to come, only the DEL and the SET change the entry, and the SET records what it crossed.

`MeteringInvariance` (`MInv`) is about the rows, the meter and the bills: no row that anybody holds, in the cache,
on its way to it, in a call or in a run of the cron, starts after today, no call lies after it, and a run about to
bill holds a period that has ended and a count its bucket has reached. `UsageTyped` (TypeOK, in it that a bill counts no
more than its bucket) and `UsageInItsPeriod` (MeteredInItsPeriod) follow, the latter by `JumpContains`, since
a stale row leads to a bucket that had not ended, however many periods behind it is.

**`FlowProofs`**, for any flow graphs, turns and bounds:

* `PauseTakenUpOnce` (ResumedOnce). The strengthening (`FInv`) is that rows are numbered as they are made,
  so that a number not given out and a row still present have both not been taken up; every action
  but `PauseRow` and `DeletePause` leaves the rows alone.
* `FlowTyped` (TypeOK, with its bounds on hops, rewinds and runs) and `AnswersAreAskedFor`
  (AnsweredWhatWasAsked), from `TInv`. A session, wherever it is kept or held (Redis, Postgres, a turn,
  what a turn staged), waits only at a node that prompted in its run (`Parked`), and a turn waits only where
  it entered (`Expecting`); `rewound` equals `tally` where it is bounded; and a run of the flow
  is paid for by a message not yet routed (`RunsCounted`).
* `FinishedJobsTookTheirRow` (FinishedIsTakenUp) and `AcceptedPausesStayDue` (StaysDue), the safety half of
  AcceptedPausesResume: a pause whose job was accepted stays due through stalls and crashes until its row is taken
  up or the job dead-lettered, and no job finishes with its row left behind. The strengthening, `JobHeld`: the
  worker of the active job is before its row and has its number, or past it and the row is gone.
* `TurnsRunOut` (StepsRunOut), the safety half of TurnsEnd: every step a turn takes leaves it fewer of
  the at most `MaxHops + 7` it has, on any graph; `StepsLeft` is the measure, and `WalkAhead` says that
  whatever a hop does it counts itself.

**`MessagingProofs`**, for any messages, replies, workers, deliveries, attempts and failures: `Typed`
(TypeOK, in it that a window is metered once), `BotAnswersOnce` (AnsweredOnce) and `UndoIsKept`
(UndoneMeansUnsent), from `IInv`. For the bot: of the runners at one message, one at most is past the
insert of its row, whose unique key let it pass (`Answers`), and each phase bounds what was sent. For replies:
one runner at most has the claim (`Sends`), and where a reply is decides what its row says and whether it may have
been sent (`ReplyOK`). A stalled job gives a message a second runner, not a second claim.

* `AckedIsNotForgotten` (NothingForgotten), the safety half of AckedIsStored: what the provider read a 200 for is
  stored, in hand, or given up with a letter or a line of the log to tell of it.
* `FinishedSendIsSettled` (FinishedIsSettled), the safety half of ScheduledIsSettled: no delayed job is finished
  whose reply is still PENDING.

Both come from `Owed`: what the state of every job and the phase of every runner owe. A finished job of a message
owes its row, a dead one its letter or its line of the log, a runner past the insert the row, one past its claim the event.

**`BookingProofs`**, for any worlds, bookings and bounds: `Typed` (TypeOK: references unique, overrides
within the rooms, no step shown as sent that was not tried), `NumbersClashAcrossHotels`
(ClashOnlyAcrossHotels) and `LockKeepsTheRest` (EditKeepsTheRest), from `IInv`. A creation that has its number is the only one of its
hotel that has, and no booking of the hotel has the number (`Creating`), since the number is one above the
greatest; an edit that has not outlived its lock is alone on its booking, and what it is about to
write back is what the row holds, or somebody outlived it (`EditOK`); a job past a step has tried it or
left it out (`JobOK`).

* `GuestGetsWhatWasChosen` (NeverThriceNorLeftOut): no step is tried more than twice, and none the staff left out.
* `ResentOnlyAfterAStall` (AgainOnlyIfStalled), a step property: a step that was tried is tried again only for a
  job that stalled.
* `QueuedIsNotDropped` (QueuedUntilServed), a step property and the safety half of AcceptedIsSent: a queued
  submission stays queued until every step is tried or left out, unless another submission removed its
  waiting job or the job stalled.

The strengthening, `Tries`: a job that has not stalled begins with nothing tried, one that has with at most one try
of a step, and its progress says which steps this run is past.

What the proofs changed in the models: the bound on rewinds in Flow's TypeOK held on the instances only
because none of their graphs books twice, and is now stated per booking; ClashOnlyAcrossHotels was said of the
hotel of a row's room type, which an edit may change, and is now said of the row's own hotel. `Received`,
`SplitInstagramMessage`, `DropPlan`, `EditRead` and `RolledTo` were put in forms the provers can expand. Two
assumptions came out of failed proofs: a guard of zero would leave the jump a period off, and a first row
that starts in the future, which Entitlement allowed and no handler makes, is metered into a bucket that has not begun.

**Only model-checked**:

* that what must happen does happen (LagClears, Accounted, TurnsEnd, AcceptedPausesResume, AckedIsStored,
  ScheduledIsSettled, AcceptedIsSent): fairness and ENABLED are out of reach of the installed provers. Proved of each
  is its safety half, named above: until it happens it stays owed, and nobody takes it off the list. TLC checked each
  safety half, with its strengthening, on the instance of the run that checks the liveness property
  (`gateway`, `messaging`, `booking`, `flow`, `subscription_serial`) before it was proved;
* RoomAllocation (TypeOK, PlansHouseTheParty, SoldOutIsTrue, AddedWhileAvailable): its plans come out of folds
  and sorts over rooms, so that what a plan promises is induction over data, and the operators of the TLC and
  community modules it is built with (`SortSeq`, `@@`) are opaque to the provers;
* PendingBlocks, which is violated.

## 5. Not modelled

Prices, taxes, overage amounts, quotas and invoice numbers; audit lines and mail; signatures, parsing
and HTTP; time zones and daylight saving; legacy rows without an end or an anchor; the texts of the
bot and of the AI; template synchronisation, OAuth and file storage; authentication; socket events.
The parts marked **-** above are left out for the reasons `PROJECT.json` gives.

## 6. Plan

Every safety property of the runs but RoomAllocation's is a theorem, and so is the safety half of every liveness
property. What is left, in order:

1. What of HotelMirrors, InvoicesDisjoint, TickNeutral and LagIsListed survives overlapping requests: weaker forms
   that name the overlap which excuses them, as StaleIsExplained does, to be checked on `subscription_races` and
   proved from `Held` and `DueInv`.
2. RoomAllocation, once its sorts and folds are written as choices with the property they establish.
3. Authentication, if the project grows further: single-use reset tokens and invalidation of tokens
   against issue times in seconds.
