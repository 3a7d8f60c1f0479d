------------------------------- MODULE Gateway -------------------------------
(***************************************************************************)
(* Online payment of one invoice: opening a Razorpay order, the checkout   *)
(* callback, the webhook, its queue and worker, and the settlement both    *)
(* ways converge on (controllers/razorpay.controller.ts,                   *)
(* razorpayWebhook.controller.ts, workers/razorpay.worker.ts,              *)
(* services/razorpayPayment.service.ts).                                   *)
(*                                                                         *)
(* The gateway, the customer and BullMQ are external.  recordPayment is a  *)
(* read and a commit here: its races with reviews and voids are the matter *)
(* of Settlement.  Declined payments only leave an audit line.             *)
(***************************************************************************)
EXTENDS Integers, Sequences, FiniteSets

CONSTANTS
    Total,         \* the invoice
    Tabs,          \* web requests: orders being opened and checkout callbacks
    Workers,       \* worker slots (concurrency: 2)
    Attempts,      \* attempts of the queue
    MaxOrders,     \* bound: orders opened
    MaxCopies,     \* bound: deliveries of a webhook
    MaxFaults      \* bound: failed queries, jobs that stall and crashes
ASSUME GatewayAssumption ==
    /\ Total \in Nat \ {0} /\ Attempts \in Nat \ {0}
    /\ Tabs \cap Workers = {}
    /\ MaxOrders \in Nat /\ MaxCopies \in Nat \ {0} /\ MaxFaults \in Nat

VARIABLES
    bill,          \* Invoice: status, amountPaid, providerOrderId
    orders,        \* the gateway's orders: their amounts
    shown,         \* orders a browser was given
    captured,      \* payments the gateway captured; payment p pays order p
    copies,        \* copies[p]: webhook deliveries of p so far
    intake,        \* intake[p]: webhooks of p acknowledged and not yet queued
    event,         \* WebhookEvent row of p
    job,           \* the job of p in the queue
    rows,          \* Payment rows of the gateway: payment and amount
    refused,       \* payments the worker was told not to credit
    lost,          \* payments with a delivery acknowledged and then dropped
    proc,          \* what each request and worker holds between round trips
    faults

vars == <<bill, orders, shown, captured, copies, intake, event, job, rows,
          refused, lost, proc, faults>>
external == <<orders, shown, captured, copies>>
queue == <<intake, event, job, lost>>

NoOrder == 0
NoRunner == "nobody"
Orders   == 1 .. MaxOrders
Payments == Orders                   \* the gateway takes one payment per order
Runners  == Tabs \cup Workers

EventStatus == {"none", "seen", "processed"}
\* A job that failed for good is dead when the failed handler wrote a dead
\* letter, and only logged when it wrote a line in the log and no more.
JobState == {"none", "waiting", "active", "completed", "dead", "logged"}
MaxStalledCount == 1
Phases == {"idle", "createOrder", "storeOrder", "claim", "lookup", "resolve",
           "guard", "commit", "mark"}

Bill == [status : {"OPEN", "PAID", "VOID"}, paid : 0 .. Total, order : {NoOrder} \cup Orders]
\* made: attempts that failed; stalls: locks that were lost.
Job  == [state : JobState, made : 0 .. Attempts, holder : Workers \cup {NoRunner},
         stalls : 0 .. MaxStalledCount + 1]
\* pay, amt, seen: the payment, its amount, and the amountPaid that was read.
Held == [pc : Phases, pay : {0} \cup Payments, amt : 0 .. Total, seen : 0 .. Total]

Idle == [pc |-> "idle", pay |-> 0, amt |-> 0, seen |-> 0]
Become(r, p) == proc' = [proc EXCEPT ![r] = p]
Goto(r, pc) == Become(r, [proc[r] EXCEPT !.pc = pc])
Finish(r) == Become(r, Idle)
At(r, pc) == proc[r].pc = pc

Outstanding == IF bill.paid < Total THEN Total - bill.paid ELSE 0
Recorded(p) == \E n \in DOMAIN rows : rows[n].pay = p

Jobless == [state |-> "none", made |-> 0, holder |-> NoRunner, stalls |-> 0]

\* applyPaymentToInvoice: an absolute write of what was read plus the amount.
Credited(seen, amt) ==
    [bill EXCEPT !.paid = seen + amt,
                 !.status = IF seen + amt >= Total THEN "PAID" ELSE @]

Init ==
    /\ bill = [status |-> "OPEN", paid |-> 0, order |-> NoOrder]
    /\ orders = <<>> /\ shown = {} /\ captured = {}
    /\ copies = [p \in Payments |-> 0]
    /\ intake = [p \in Payments |-> 0]
    /\ event = [p \in Payments |-> "none"]
    /\ job = [p \in Payments |-> Jobless]
    /\ rows = <<>> /\ refused = {} /\ lost = {}
    /\ proc = [r \in Runners |-> Idle]
    /\ faults = 0

-----------------------------------------------------------------------------
(* createInvoiceOrderHandler *)

\* An invoice with something left to pay; an order it already has is reused.
OpenOrder(t) ==
    /\ At(t, "idle")
    /\ bill.status = "OPEN" /\ Outstanding > 0
    /\ IF bill.order # NoOrder
       THEN shown' = shown \cup {bill.order} /\ UNCHANGED proc
       ELSE /\ Become(t, [Idle EXCEPT !.pc = "createOrder", !.amt = Outstanding])
            /\ UNCHANGED shown
    /\ UNCHANGED <<bill, orders, captured, copies, queue, rows, refused, faults>>

\* createRazorpayOrder.  Bound: orders.
CreateOrder(t) ==
    /\ At(t, "createOrder")
    /\ Len(orders) < MaxOrders
    /\ orders' = Append(orders, proc[t].amt)
    /\ Become(t, [proc[t] EXCEPT !.pc = "storeOrder", !.pay = Len(orders')])
    /\ UNCHANGED <<bill, shown, captured, copies, queue, rows, refused, faults>>

StoreOrder(t) ==
    /\ At(t, "storeOrder")
    /\ bill' = [bill EXCEPT !.order = proc[t].pay]
    /\ shown' = shown \cup {proc[t].pay}
    /\ Finish(t)
    /\ UNCHANGED <<orders, captured, copies, queue, rows, refused, faults>>

-----------------------------------------------------------------------------
(* Outside: the customer, the gateway, and what else happens to the invoice *)

\* The customer completes a checkout; the gateway captures the order's amount.
Capture(p) ==
    /\ p \in shown \ captured
    /\ captured' = captured \cup {p}
    /\ UNCHANGED <<bill, orders, shown, copies, queue, rows, refused, proc, faults>>

\* A payment by other means, approved; or the invoice is voided while unpaid.
PaidOtherwise(amt) ==
    /\ bill.status # "VOID" /\ amt <= Outstanding
    /\ bill' = Credited(bill.paid, amt)
    /\ UNCHANGED <<external, queue, rows, refused, proc, faults>>

Void ==
    /\ bill.status = "OPEN" /\ bill.paid = 0
    /\ bill' = [bill EXCEPT !.status = "VOID"]
    /\ UNCHANGED <<external, queue, rows, refused, proc, faults>>

-----------------------------------------------------------------------------
(* handleRazorpayWebhook *)

\* The gateway delivers until it reads a 2xx, so possibly more than once; the
\* handler answers 200 before it does anything.
Deliver(p) ==
    /\ p \in captured /\ copies[p] < MaxCopies
    /\ copies' = [copies EXCEPT ![p] = @ + 1]
    /\ intake' = [intake EXCEPT ![p] = @ + 1]
    /\ UNCHANGED <<bill, orders, shown, captured, event, job, lost, rows, refused, proc,
                   faults>>

RecordEvent(p) ==
    /\ intake[p] > 0 /\ event[p] = "none"
    /\ event' = [event EXCEPT ![p] = "seen"]
    /\ UNCHANGED <<bill, external, intake, job, lost, rows, refused, proc, faults>>

\* With the row there, its own or that of an earlier delivery.  The job id is
\* the event's: a job that is still kept is not added again.
Enqueue(p) ==
    /\ intake[p] > 0 /\ event[p] # "none"
    /\ job' = IF job[p].state = "none" THEN [job EXCEPT ![p].state = "waiting"] ELSE job
    /\ intake' = [intake EXCEPT ![p] = @ - 1]
    /\ UNCHANGED <<bill, external, event, lost, rows, refused, proc, faults>>

\* The database or Redis fails after the 200: the error is logged, and the
\* gateway has no reason to come back.
IntakeFails(p) ==
    /\ intake[p] > 0 /\ faults < MaxFaults
    /\ faults' = faults + 1
    /\ intake' = [intake EXCEPT ![p] = @ - 1]
    /\ lost' = lost \cup {p}
    /\ UNCHANGED <<bill, external, event, job, rows, refused, proc>>

-----------------------------------------------------------------------------
(* settleRazorpayPayment, from the callback (a tab) or the webhook (a worker) *)

\* verifyRazorpayPaymentHandler: the order must be the invoice's; the amount is
\* what is outstanding, not what was paid.
Callback(t, p) ==
    /\ At(t, "idle") /\ p \in captured /\ bill.order = p
    /\ Become(t, [Idle EXCEPT !.pc = "lookup", !.pay = p, !.amt = Outstanding])
    /\ UNCHANGED <<bill, external, queue, rows, refused, faults>>

Answer(r) == IF r \in Workers THEN Goto(r, "mark") ELSE Finish(r)

SettleLookup(r) ==
    /\ At(r, "lookup")
    /\ IF Recorded(proc[r].pay) THEN Answer(r) ELSE Goto(r, "resolve")
    /\ UNCHANGED <<bill, external, queue, rows, refused, faults>>

\* The invoice of the order, open, with exactly this amount outstanding; any
\* other answer is a refusal, final for the worker.
SettleResolve(r) ==
    /\ At(r, "resolve")
    /\ IF /\ bill.order = proc[r].pay /\ bill.status = "OPEN"
          /\ proc[r].amt = Outstanding /\ Outstanding > 0
       THEN Goto(r, "guard") /\ UNCHANGED refused
       ELSE /\ Answer(r)
            /\ refused' = IF r \in Workers THEN refused \cup {proc[r].pay} ELSE refused
    /\ UNCHANGED <<bill, external, queue, rows, faults>>

\* Fault: the cap on the amount is left to settleRazorpayPayment.
SettleGuard_Uncapped(r) ==
    /\ At(r, "guard")
    /\ bill.status # "VOID"
    /\ Become(r, [proc[r] EXCEPT !.pc = "commit", !.seen = bill.paid])
    /\ UNCHANGED <<bill, external, queue, rows, refused, faults>>

\* recordPayment reads the invoice and checks again; if it throws: Throws.
SettleGuard(r) ==
    /\ At(r, "guard")
    /\ bill.status # "VOID" /\ proc[r].amt <= Outstanding
    /\ Become(r, [proc[r] EXCEPT !.pc = "commit", !.seen = bill.paid])
    /\ UNCHANGED <<bill, external, queue, rows, refused, faults>>

Record(r) ==
    /\ bill' = Credited(proc[r].seen, proc[r].amt)
    /\ rows' = Append(rows, [pay |-> proc[r].pay, amt |-> proc[r].amt])

\* Fault: providerPaymentId is not unique.
SettleCommit_NoKey(r) ==
    /\ At(r, "commit")
    /\ Record(r)
    /\ Answer(r)
    /\ UNCHANGED <<external, queue, refused, faults>>

\* Losing on providerPaymentId is a success: the other path credited it.
SettleCommit(r) ==
    /\ At(r, "commit")
    /\ IF Recorded(proc[r].pay) THEN UNCHANGED <<bill, rows>> ELSE Record(r)
    /\ Answer(r)
    /\ UNCHANGED <<external, queue, refused, faults>>

-----------------------------------------------------------------------------
(* workers/razorpay.worker.ts *)

Take(w, p) ==
    /\ At(w, "idle") /\ job[p].state = "waiting"
    /\ job' = [job EXCEPT ![p].state = "active", ![p].holder = w]
    /\ Become(w, [Idle EXCEPT !.pc = "claim", !.pay = p, !.amt = orders[p]])
    /\ UNCHANGED <<bill, external, intake, event, lost, rows, refused, faults>>

Released(j, state) == [j EXCEPT !.state = state, !.holder = NoRunner]

\* A failed attempt is retried, the last one ends as `last`.
Failed(j, last) ==
    [Released(j, IF j.made + 1 < Attempts THEN "waiting" ELSE last) EXCEPT !.made = @ + 1]

\* A lost lock is no attempt: the job is run again, once.  The second time it
\* fails with attempts left, which the failed handler takes for a retry to
\* come: it writes no dead letter.
Stalled(j) ==
    [Released(j, IF j.stalls < MaxStalledCount THEN "waiting" ELSE "logged") EXCEPT !.stalls = @ + 1]

\* What becomes of the job; the queue ignores a runner that lost it.
Mine(w) == job[proc[w].pay].state = "active" /\ job[proc[w].pay].holder = w
Settle(w, j) == job' = IF Mine(w) THEN [job EXCEPT ![proc[w].pay] = j] ELSE job

Complete(w) == Settle(w, Released(job[proc[w].pay], "completed"))

\* The claim counts an attempt on a row not yet processed; it excludes nobody.
Claim(w) ==
    /\ At(w, "claim")
    /\ IF event[proc[w].pay] = "processed" THEN Complete(w) /\ Finish(w)
       ELSE Goto(w, "lookup") /\ UNCHANGED job
    /\ UNCHANGED <<bill, external, intake, event, lost, rows, refused, faults>>

Mark(w) ==
    /\ At(w, "mark")
    /\ event' = [event EXCEPT ![proc[w].pay] = "processed"]
    /\ Complete(w)
    /\ Finish(w)
    /\ UNCHANGED <<bill, external, intake, lost, rows, refused, faults>>

\* Fault: the worker logs the error and does not throw it again.
Retried_Swallowed(w, last) == Complete(w)

Retried(w, last) == Settle(w, Failed(job[proc[w].pay], last))

\* recordPayment throws: the invoice is void or owes less by now.
Throws(r) ==
    /\ At(r, "guard")
    /\ bill.status = "VOID" \/ proc[r].amt > Outstanding
    /\ IF r \in Workers THEN Retried(r, "dead") ELSE UNCHANGED job
    /\ Finish(r)
    /\ UNCHANGED <<bill, external, intake, event, lost, rows, refused, faults>>

\* The database fails a worker at any point, and maybe the dead letter too.
WorkerFails(w) ==
    /\ ~At(w, "idle") /\ faults < MaxFaults
    /\ faults' = faults + 1
    /\ \E last \in {"dead", "logged"} : Retried(w, last)
    /\ Finish(w)
    /\ UNCHANGED <<bill, external, intake, event, lost, rows, refused>>

\* A worker that does not renew its lock in time loses the job and goes on.
Stall(w) ==
    /\ ~At(w, "idle") /\ faults < MaxFaults /\ Mine(w)
    /\ faults' = faults + 1
    /\ Settle(w, Stalled(job[proc[w].pay]))
    /\ UNCHANGED <<bill, external, intake, event, lost, rows, refused, proc>>

\* The process dies with all it holds; its jobs stall.
Crash ==
    /\ faults < MaxFaults
    /\ faults' = faults + 1
    /\ lost' = lost \cup {p \in Payments : intake[p] > 0}
    /\ intake' = [p \in Payments |-> 0]
    /\ job' = [p \in Payments |-> IF job[p].state = "active" THEN Stalled(job[p]) ELSE job[p]]
    /\ proc' = [r \in Runners |-> Idle]
    /\ UNCHANGED <<bill, external, event, rows, refused>>

-----------------------------------------------------------------------------
Step(r) ==
    \/ SettleLookup(r) \/ SettleResolve(r) \/ SettleGuard(r) \/ SettleCommit(r)
    \/ Throws(r)

Work(w) == Claim(w) \/ Mark(w) \/ Step(w) \/ \E p \in Payments : Take(w, p)

Next ==
    \/ \E t \in Tabs : OpenOrder(t) \/ CreateOrder(t) \/ StoreOrder(t) \/ Step(t)
    \/ \E t \in Tabs, p \in Payments : Callback(t, p)
    \/ \E p \in Payments : Capture(p) \/ Deliver(p) \/ RecordEvent(p) \/ Enqueue(p)
                           \/ IntakeFails(p)
    \/ \E amt \in 1 .. Total : PaidOtherwise(amt)
    \/ Void
    \/ \E w \in Workers : Work(w) \/ WorkerFails(w) \/ Stall(w)
    \/ Crash

\* The gateway delivers, handlers and workers go on; the customer, the admin
\* and the browser's callback need never come.
Fairness ==
    /\ \A p \in Payments :
         WF_vars(Deliver(p)) /\ WF_vars(RecordEvent(p)) /\ WF_vars(Enqueue(p))
    /\ \A w \in Workers : WF_vars(Work(w))

Spec == Init /\ [][Next]_vars
FairSpec == Spec /\ Fairness

-----------------------------------------------------------------------------
(* Properties *)

\* Every variable has its type; in particular the invoice is never credited
\* beyond its total.
TypeOK ==
    /\ bill \in Bill
    /\ orders \in Seq(1 .. Total) /\ Len(orders) <= MaxOrders
    /\ captured \subseteq shown /\ shown \subseteq DOMAIN orders
    /\ copies \in [Payments -> 0 .. MaxCopies]
    /\ intake \in [Payments -> 0 .. MaxCopies]
    /\ event \in [Payments -> EventStatus]
    /\ job \in [Payments -> Job]
    /\ rows \in Seq([pay : Payments, amt : 1 .. Total])
    /\ refused \subseteq captured /\ lost \subseteq captured
    /\ proc \in [Runners -> Held]
    /\ faults \in 0 .. MaxFaults

\* A captured payment is booked at most once, whatever callback, redelivery,
\* retry and stalled worker meet on it.
CreditedOnce == \A m, n \in DOMAIN rows : rows[m].pay = rows[n].pay => m = n

\* An event is marked processed only when its payment was decided: booked, or
\* refused for good.  No retry looks at it again, so a crash in between must
\* find it unprocessed.
ProcessedIsDecided ==
    \A p \in Payments : event[p] = "processed" => Recorded(p) \/ p \in refused

\* A job is given up with a dead letter once its attempts are made, and with no
\* more than a line in the log where that letter could not be written, or after
\* a second stall.
GivenUp(p) ==
    \/ job[p].state = "dead" /\ job[p].made = Attempts
    \/ /\ job[p].state = "logged"
       /\ job[p].made = Attempts \/ job[p].stalls > MaxStalledCount

\* Captured money is accounted for: booked, refused on the record, or left in
\* the dead letters.  Two things may leave it with a line in the log instead: a
\* delivery dropped after its 200 (lost), and a job given up without a letter,
\* which takes all its attempts or a second stall.
Accounted ==
    \A p \in Payments : p \in captured ~> Recorded(p) \/ p \in refused \/ p \in lost \/ GivenUp(p)

=============================================================================
