----------------------------- MODULE Settlement -----------------------------
(***************************************************************************)
(* How money reaches an invoice, and how an invoice decides whether the    *)
(* hotel is served.  One hotel, its invoices, its Payment rows, and the    *)
(* request handlers and jobs that write them: services/invoice.service.ts, *)
(* manualPayment.service.ts, razorpayPayment.service.ts, the invoice and   *)
(* payment handlers of adminBilling.controller.ts, the dunning pass of     *)
(* dunning.service.ts and reactivateAfterPayment of billing.service.ts.    *)
(*                                                                         *)
(* A handler runs on a worker w.  Every await of a query is a point where  *)
(* another handler may run, so a handler is one action per database round  *)
(* trip whose result it keeps.  Transactions run at READ COMMITTED (no     *)
(* isolation level is set anywhere): a transaction is a step that reads    *)
(* committed rows into proc[w], then a step that makes its writes visible. *)
(* Amounts are in units of the smallest payment of the instance.           *)
(***************************************************************************)
EXTENDS Integers, Sequences, FiniteSets, FiniteSetsExt

CONSTANTS
    Invoices,      \* the invoices issued to the hotel
    Total,         \* Total[i] is Invoice.total, the amount due on i
    Workers,       \* concurrent executions of handlers and jobs
    GatewayIds,    \* Payment.providerPaymentId values the gateway may report
    NoId,          \* providerPaymentId of a payment no gateway stands behind
    NoInvoice,     \* the invoice field of an idle worker
    Ops,           \* the handlers the instance's traffic exercises
    MaxPayments,   \* bound: Payment rows
    MaxFaults      \* bound: reactivations lost to an error or a crash

AllOps == {"admin", "manual", "gateway", "review", "void", "dunning", "cancel"}

ASSUME TotalAssumption == Total \in [Invoices -> Nat \ {0}]
ASSUME IdAssumption == NoId \notin GatewayIds /\ NoInvoice \notin Invoices
ASSUME OpsAssumption == Ops \subseteq AllOps
ASSUME BoundAssumption == MaxPayments \in Nat /\ MaxFaults \in Nat

VARIABLES
    invoice,       \* Invoice rows: status and amountPaid
    payment,       \* Payment rows in order of insertion
    age,           \* where the clock is against each invoice's dueAt and grace
    sub,           \* Subscription.status of the latest subscription
    hotel,         \* Hotel.subscriptionStatus, the mirror
    renewable,     \* autoRenew, or the period end still lies ahead
    proc,          \* what each worker holds between two round trips
    faults         \* reactivations lost so far (bounds the fault action)

vars == <<invoice, payment, age, sub, hotel, renewable, proc, faults>>
dbVars == <<invoice, payment, age, sub, hotel, renewable>>

-----------------------------------------------------------------------------
InvoiceStatus == {"OPEN", "PAID", "VOID"}
PaymentStatus == {"PENDING", "SUCCEEDED", "FAILED"}
LiveStatuses  == {"ACTIVE", "PAST_DUE"}

Phases == {"idle", "gwResolve", "manualDup", "recRead", "recCommit", "trClaim",
           "trCommit", "voidWrite", "reactBalance", "reactRead", "reactWrite",
           "pastDue", "overdue", "suspend", "cancelWrite"}

Proc == [pc   : Phases,
         inv  : Invoices \cup {NoInvoice},
         amt  : Nat,
         pid  : GatewayIds \cup {NoId},
         kind : {"SUCCEEDED", "PENDING", "FAILED"},
         row  : Nat,
         seen : Nat,
         todo : SUBSET Invoices]

Idle == [pc |-> "idle", inv |-> NoInvoice, amt |-> 0, pid |-> NoId,
         kind |-> "PENDING", row |-> 0, seen |-> 0, todo |-> {}]

PaymentRow == [inv : Invoices, amt : Nat \ {0}, status : PaymentStatus,
               pid : GatewayIds \cup {NoId}]

Outstanding(i) == IF invoice[i].paid < Total[i] THEN Total[i] - invoice[i].paid ELSE 0

\* outstandingBalance: only OPEN invoices are counted.
NothingOwed == \A i \in Invoices : invoice[i].status = "OPEN" => Outstanding(i) = 0

\* The row lock an uncommitted transitionPayment holds on its Payment.
Locked(n) == \E w \in Workers : proc[w].pc = "trCommit" /\ proc[w].row = n

At(w, pc) == proc[w].pc = pc
Starts(w, op) == At(w, "idle") /\ op \in Ops
\* Bound: handlers that insert a row start only while the table has room for
\* their row and for the rows under way.
Inserting == {w \in Workers : proc[w].pc \in {"gwResolve", "manualDup", "recRead", "recCommit"}}
Room == Len(payment) + Cardinality(Inserting) < MaxPayments

Become(w, p) == proc' = [proc EXCEPT ![w] = p]
Finish(w) == Become(w, Idle)

\* Fault: the payment is subtracted from amountPaid.
Applied_Subtracts(row, i, seen, amt) == [row EXCEPT !.paid = seen - amt]

\* applyPaymentToInvoice, with the amountPaid the transaction read earlier:
\* the write is absolute, not an increment, and leaves the status alone
\* unless the invoice is covered.
Applied(row, i, seen, amt) ==
    [row EXCEPT !.paid = seen + amt,
                !.status = IF seen + amt >= Total[i] THEN "PAID" ELSE @]

-----------------------------------------------------------------------------
Init ==
    /\ invoice = [i \in Invoices |-> [status |-> "OPEN", paid |-> 0]]
    /\ payment = <<>>
    /\ age \in [Invoices -> {"current", "late"}]
    /\ renewable \in BOOLEAN
    \* A hotel with an invoice past its grace window may already be suspended.
    /\ sub \in {"ACTIVE"} \cup IF \E i \in Invoices : age[i] = "late"
                               THEN {"PAST_DUE", "EXPIRED"} ELSE {}
    /\ hotel = sub
    /\ proc = [w \in Workers |-> Idle]
    /\ faults = 0

\* Time passes an invoice's dueAt, then the end of its grace window.
Age(i) ==
    /\ age[i] # "late"
    /\ age' = [age EXCEPT ![i] = IF @ = "current" THEN "due" ELSE "late"]
    /\ UNCHANGED <<invoice, payment, sub, hotel, renewable, proc, faults>>

-----------------------------------------------------------------------------
(* recordPayment: read the invoice, insert the row, credit the invoice.    *)

\* Fault: an amount is not capped by the outstanding balance.
CanRecord_Uncapped(i, amt) == invoice[i].status # "VOID" /\ amt \in 1 .. Total[i]

CanRecord(i, amt) == invoice[i].status # "VOID" /\ amt \in 1 .. Outstanding(i)

Recording(i, amt, kind, pid) ==
    [Idle EXCEPT !.pc = "recCommit", !.inv = i, !.amt = amt, !.kind = kind,
                 !.pid = pid, !.seen = invoice[i].paid]

\* The admin handler calls recordPayment directly; an omitted amount is the
\* whole outstanding balance, one of the amounts tried.
AdminRecordPayment(w, i, amt, kind) ==
    /\ Starts(w, "admin") /\ Room
    /\ CanRecord(i, amt)
    /\ Become(w, Recording(i, amt, kind, NoId))
    /\ UNCHANGED <<dbVars, faults>>

\* The read of recordPayment for the callers that looked at the invoice before.
RecordRead(w) ==
    /\ At(w, "recRead")
    /\ LET p == proc[w] IN
       IF CanRecord(p.inv, p.amt)
       THEN Become(w, Recording(p.inv, p.amt, p.kind, p.pid))
       ELSE Finish(w)
    /\ UNCHANGED <<dbVars, faults>>

\* Payment.providerPaymentId is unique; a violation (P2002) rolls back.
DuplicatePid(pid) == pid # NoId /\ \E n \in DOMAIN payment : payment[n].pid = pid

\* Fault: the money of a PENDING claim is credited at once.
RecordCommit_CreditsPending(w) ==
    /\ At(w, "recCommit")
    /\ LET p == proc[w] IN
       /\ ~DuplicatePid(p.pid)
       /\ payment' = Append(payment, [inv |-> p.inv, amt |-> p.amt,
                                      status |-> p.kind, pid |-> p.pid])
       /\ invoice' = [invoice EXCEPT ![p.inv] = Applied(@, p.inv, p.seen, p.amt)]
       /\ Finish(w)
    /\ UNCHANGED <<age, sub, hotel, renewable, faults>>

RecordCommit(w) ==
    /\ At(w, "recCommit")
    /\ LET p == proc[w] IN
       /\ ~DuplicatePid(p.pid)
       /\ payment' = Append(payment, [inv |-> p.inv, amt |-> p.amt,
                                      status |-> p.kind, pid |-> p.pid])
       /\ IF p.kind = "SUCCEEDED"
          THEN /\ invoice' = [invoice EXCEPT ![p.inv] = Applied(@, p.inv, p.seen, p.amt)]
               /\ IF p.seen + p.amt >= Total[p.inv]
                  THEN Become(w, [Idle EXCEPT !.pc = "reactBalance"])
                  ELSE Finish(w)
          ELSE Finish(w) /\ UNCHANGED invoice
    /\ UNCHANGED <<age, sub, hotel, renewable, faults>>

RecordDuplicate(w) ==
    /\ At(w, "recCommit")
    /\ DuplicatePid(proc[w].pid)
    /\ Finish(w)
    /\ UNCHANGED <<dbVars, faults>>

-----------------------------------------------------------------------------
(* submitManualPayment: an offline claim by the hotel, PENDING until       *)
(* reviewed; at most one open claim per invoice is meant to exist.         *)

SubmitManualPayment(w, i, amt) ==
    /\ Starts(w, "manual") /\ Room
    /\ invoice[i].status = "OPEN"
    /\ amt \in 1 .. Outstanding(i)
    /\ Become(w, [Idle EXCEPT !.pc = "manualDup", !.inv = i, !.amt = amt])
    /\ UNCHANGED <<dbVars, faults>>

PendingFor(i) == \E n \in DOMAIN payment : payment[n].inv = i /\ payment[n].status = "PENDING"

ManualDuplicateCheck(w) ==
    /\ At(w, "manualDup")
    /\ IF PendingFor(proc[w].inv) THEN Finish(w)
       ELSE Become(w, [proc[w] EXCEPT !.pc = "recRead", !.kind = "PENDING"])
    /\ UNCHANGED <<dbVars, faults>>

-----------------------------------------------------------------------------
(* settleRazorpayPayment: the checkout callback and the webhook worker     *)
(* both end here with an order's invoice and an amount.                    *)

SettleRazorpayPayment(w, g, i, amt) ==
    /\ Starts(w, "gateway") /\ Room
    /\ ~DuplicatePid(g)
    /\ Become(w, [Idle EXCEPT !.pc = "gwResolve", !.inv = i, !.amt = amt, !.pid = g])
    /\ UNCHANGED <<dbVars, faults>>

SettleResolve(w) ==
    /\ At(w, "gwResolve")
    /\ LET p == proc[w] IN
       IF invoice[p.inv].status = "OPEN" /\ p.amt = Outstanding(p.inv)
       THEN Become(w, [p EXCEPT !.pc = "recRead", !.kind = "SUCCEEDED"])
       ELSE Finish(w)
    /\ UNCHANGED <<dbVars, faults>>

-----------------------------------------------------------------------------
(* transitionPayment: a review moves a PENDING claim, once.                *)

TransitionRead(w, n, target) ==
    /\ Starts(w, "review")
    /\ payment[n].status = "PENDING"
    /\ Become(w, [Idle EXCEPT !.pc = "trClaim", !.row = n, !.kind = target])
    /\ UNCHANGED <<dbVars, faults>>

\* The claim found the row already moved: updateMany counted 0.
TransitionLost(w) ==
    /\ At(w, "trClaim")
    /\ ~Locked(proc[w].row)
    /\ payment[proc[w].row].status # "PENDING"
    /\ Finish(w)
    /\ UNCHANGED <<dbVars, faults>>

\* Fault: the claim does not filter on status = PENDING.
Claims_AnyStatus(w) == At(w, "trClaim") /\ ~Locked(proc[w].row)

\* The claim takes the row; updateMany waits while another transaction holds it.
Claims(w) ==
    /\ At(w, "trClaim")
    /\ ~Locked(proc[w].row)
    /\ payment[proc[w].row].status = "PENDING"

TransitionReject(w) ==
    /\ Claims(w)
    /\ proc[w].kind = "FAILED"
    /\ payment' = [payment EXCEPT ![proc[w].row].status = "FAILED"]
    /\ Finish(w)
    /\ UNCHANGED <<invoice, age, sub, hotel, renewable, faults>>

\* Claim, then read the invoice: void, paid or over-credited rolls back and
\* leaves the row PENDING.
TransitionApprove(w) ==
    /\ Claims(w)
    /\ proc[w].kind = "SUCCEEDED"
    /\ LET row == payment[proc[w].row] IN
       IF invoice[row.inv].status = "OPEN" /\ row.amt <= Outstanding(row.inv)
       THEN Become(w, [proc[w] EXCEPT !.pc = "trCommit", !.inv = row.inv,
                                      !.amt = row.amt, !.seen = invoice[row.inv].paid])
       ELSE Finish(w)
    /\ UNCHANGED <<dbVars, faults>>

\* Fault: approving the claim that settles the invoice reactivates nobody.
TransitionCommit_NoReactivation(w) ==
    /\ At(w, "trCommit")
    /\ LET p == proc[w] IN
       /\ payment' = [payment EXCEPT ![p.row].status = "SUCCEEDED"]
       /\ invoice' = [invoice EXCEPT ![p.inv] = Applied(@, p.inv, p.seen, p.amt)]
    /\ Finish(w)
    /\ UNCHANGED <<age, sub, hotel, renewable, faults>>

TransitionCommit(w) ==
    /\ At(w, "trCommit")
    /\ LET p == proc[w] IN
       /\ payment' = [payment EXCEPT ![p.row].status = "SUCCEEDED"]
       /\ invoice' = [invoice EXCEPT ![p.inv] = Applied(@, p.inv, p.seen, p.amt)]
       /\ IF p.seen + p.amt >= Total[p.inv]
          THEN Become(w, [Idle EXCEPT !.pc = "reactBalance"])
          ELSE Finish(w)
    /\ UNCHANGED <<age, sub, hotel, renewable, faults>>

-----------------------------------------------------------------------------
(* voidInvoiceHandler: the checks and the write are two round trips and    *)
(* the write is unconditional.                                             *)

\* Fault: a part-paid invoice may be voided.
VoidRead_PartPaid(w, i) ==
    /\ Starts(w, "void")
    /\ invoice[i].status = "OPEN"
    /\ Become(w, [Idle EXCEPT !.pc = "voidWrite", !.inv = i])
    /\ UNCHANGED <<dbVars, faults>>

VoidRead(w, i) ==
    /\ Starts(w, "void")
    /\ invoice[i].status = "OPEN"
    /\ invoice[i].paid = 0
    /\ Become(w, [Idle EXCEPT !.pc = "voidWrite", !.inv = i])
    /\ UNCHANGED <<dbVars, faults>>

VoidWrite(w) ==
    /\ At(w, "voidWrite")
    /\ invoice' = [invoice EXCEPT ![proc[w].inv].status = "VOID"]
    /\ Finish(w)
    /\ UNCHANGED <<payment, age, sub, hotel, renewable, faults>>

-----------------------------------------------------------------------------
(* reactivateAfterPayment, called once a payment has settled an invoice.   *)

ReactivateBalance(w) ==
    /\ At(w, "reactBalance")
    /\ IF NothingOwed THEN Become(w, [Idle EXCEPT !.pc = "reactRead"]) ELSE Finish(w)
    /\ UNCHANGED <<dbVars, faults>>

\* Live, cancelled and non-renewable subscriptions are left as they are.
ReactivateRead(w) ==
    /\ At(w, "reactRead")
    /\ IF sub = "EXPIRED" /\ renewable
       THEN Become(w, [Idle EXCEPT !.pc = "reactWrite"])
       ELSE Finish(w)
    /\ UNCHANGED <<dbVars, faults>>

ReactivateWrite(w) ==
    /\ At(w, "reactWrite")
    /\ sub' = "ACTIVE"
    /\ hotel' = "ACTIVE"
    /\ Finish(w)
    /\ UNCHANGED <<invoice, payment, age, renewable, faults>>

\* reactivateAfterSettlement swallows every error, and a crash after the
\* commit of the payment loses the rest of the handler.
ReactivateFails(w) ==
    /\ faults < MaxFaults
    /\ proc[w].pc \in {"reactBalance", "reactRead", "reactWrite"}
    /\ faults' = faults + 1
    /\ Finish(w)
    /\ UNCHANGED dbVars

-----------------------------------------------------------------------------
(* advanceDelinquent.  The cron lock admits one pass at a time; each of    *)
(* its two loops walks a list read before the loop.                        *)

Overdue(late) == {i \in Invoices : invoice[i].status = "OPEN" /\ age[i] \in late}

DunningStart(w) ==
    /\ Starts(w, "dunning")
    /\ \A v \in Workers : proc[v].pc \notin {"pastDue", "overdue", "suspend"}
    /\ Overdue({"due", "late"}) # {}
    /\ Become(w, [Idle EXCEPT !.pc = "pastDue", !.todo = Overdue({"due", "late"})])
    /\ UNCHANGED <<dbVars, faults>>

Walk(w, i, next) ==
    Become(w, [proc[w] EXCEPT !.todo = @ \ {i},
                              !.pc = IF proc[w].todo = {i} THEN next ELSE @])

MarkPastDue(w, i) ==
    /\ At(w, "pastDue")
    /\ i \in proc[w].todo
    /\ hotel' = IF hotel = "ACTIVE" THEN "PAST_DUE" ELSE hotel
    /\ sub' = IF hotel = "ACTIVE" /\ sub = "ACTIVE" THEN "PAST_DUE" ELSE sub
    /\ Walk(w, i, "overdue")
    /\ UNCHANGED <<invoice, payment, age, renewable, faults>>

ListOverdue(w) ==
    /\ At(w, "overdue")
    /\ IF Overdue({"late"}) = {} THEN Finish(w)
       ELSE Become(w, [Idle EXCEPT !.pc = "suspend", !.todo = Overdue({"late"})])
    /\ UNCHANGED <<dbVars, faults>>

\* The suspension never asks whether the invoice is still OPEN.
SuspendUnpaid(w, i) ==
    /\ At(w, "suspend")
    /\ i \in proc[w].todo
    /\ hotel' = IF hotel \in LiveStatuses THEN "EXPIRED" ELSE hotel
    /\ sub' = IF hotel \in LiveStatuses /\ sub \in LiveStatuses THEN "EXPIRED" ELSE sub
    /\ Walk(w, i, "idle")
    /\ UNCHANGED <<invoice, payment, age, renewable, faults>>

-----------------------------------------------------------------------------
(* cancelSubscription(immediate): reads a live subscription, then writes   *)
(* it by id.                                                               *)

CancelRead(w) ==
    /\ Starts(w, "cancel")
    /\ sub \in LiveStatuses
    /\ Become(w, [Idle EXCEPT !.pc = "cancelWrite"])
    /\ UNCHANGED <<dbVars, faults>>

CancelWrite(w) ==
    /\ At(w, "cancelWrite")
    /\ sub' = "CANCELED"
    /\ hotel' = "EXPIRED"
    /\ renewable' = FALSE
    /\ Finish(w)
    /\ UNCHANGED <<invoice, payment, age, faults>>

-----------------------------------------------------------------------------
\* A handler's next round trip, once it is under way.
Continue(w) ==
    \/ RecordRead(w) \/ RecordCommit(w) \/ RecordDuplicate(w)
    \/ ManualDuplicateCheck(w) \/ SettleResolve(w)
    \/ TransitionLost(w) \/ TransitionReject(w) \/ TransitionApprove(w) \/ TransitionCommit(w)
    \/ VoidWrite(w)
    \/ ReactivateBalance(w) \/ ReactivateRead(w) \/ ReactivateWrite(w)
    \/ \E i \in Invoices : MarkPastDue(w, i) \/ SuspendUnpaid(w, i)
    \/ ListOverdue(w)
    \/ CancelWrite(w)

\* A request or a cron tick arrives.
Arrive(w) ==
    \/ \E i \in Invoices : \E amt \in 1 .. Total[i] :
          \/ \E kind \in {"SUCCEEDED", "PENDING"} : AdminRecordPayment(w, i, amt, kind)
          \/ SubmitManualPayment(w, i, amt)
          \/ \E g \in GatewayIds : SettleRazorpayPayment(w, g, i, amt)
    \/ \E n \in DOMAIN payment : \E t \in {"SUCCEEDED", "FAILED"} : TransitionRead(w, n, t)
    \/ \E i \in Invoices : VoidRead(w, i)
    \/ DunningStart(w)
    \/ CancelRead(w)

Next ==
    \/ \E i \in Invoices : Age(i)
    \/ \E w \in Workers : Arrive(w) \/ Continue(w) \/ ReactivateFails(w)

Spec == Init /\ [][Next]_vars
-----------------------------------------------------------------------------
(* Properties *)

\* Every variable has its type; a worker's row and invoice are real ones.
TypeOK ==
    /\ invoice \in [Invoices -> [status : InvoiceStatus, paid : Nat]]
    /\ payment \in Seq(PaymentRow)
    /\ age \in [Invoices -> {"current", "due", "late"}]
    /\ sub \in LiveStatuses \cup {"EXPIRED", "CANCELED"}
    /\ hotel \in LiveStatuses \cup {"EXPIRED"}
    /\ renewable \in BOOLEAN
    /\ proc \in [Workers -> Proc]
    /\ faults \in 0 .. MaxFaults

\* The money of the SUCCEEDED payments of invoice i.
Amounts == [n \in DOMAIN payment |-> payment[n].amt]
Succeeded(i) == {n \in DOMAIN payment : payment[n].inv = i /\ payment[n].status = "SUCCEEDED"}
Received(i) == SumFunctionOnSet(Amounts, Succeeded(i))

AllIdle == \A w \in Workers : At(w, "idle")

\* However handlers interleave, an invoice is never credited beyond its total:
\* every writer of amountPaid caps its amount by the balance it read.
NeverOvercredited == \A i \in Invoices : invoice[i].paid <= Total[i]

\* An invoice never claims more money than its SUCCEEDED payments brought, and
\* is PAID only when they cover it, whatever write was lost meanwhile.
BackedByMoney ==
    \A i \in Invoices :
        /\ invoice[i].paid <= Received(i)
        /\ invoice[i].status = "PAID" => Received(i) >= Total[i]

\* One gateway capture is one Payment row, although the callback and the
\* webhook may both have passed the look-up that precedes the insert.
CapturedOnce ==
    \A m, n \in DOMAIN payment :
        payment[m].pid = payment[n].pid /\ payment[m].pid # NoId => m = n

\* A payment that was accepted or rejected keeps its outcome, amount and
\* invoice for ever, and no row is removed, while reviews race each other.
OutcomesFinal ==
    [][/\ Len(payment) <= Len(payment')
       /\ \A n \in DOMAIN payment :
            /\ payment'[n].inv = payment[n].inv /\ payment'[n].amt = payment[n].amt
            /\ payment[n].status # "PENDING" => payment'[n] = payment[n]]_vars

\* The hotel row mirrors the subscription row across every racing writer.
MirrorAgrees == hotel = IF sub = "CANCELED" THEN "EXPIRED" ELSE sub

\* With one handler at a time amountPaid is exactly the money received, an
\* invoice is PAID exactly when covered, and a voided one received nothing.
LedgerExact ==
    \A i \in Invoices :
        /\ invoice[i].paid = Received(i)
        /\ invoice[i].status = "PAID" <=> Received(i) = Total[i]
        /\ invoice[i].status = "VOID" => Received(i) = 0

\* Between requests a suspended hotel that could be revived owes something,
\* unless an invoice was voided (voiding reactivates nobody) or a
\* reactivation was lost.
ServedWhenPaid ==
    AllIdle /\ sub = "EXPIRED" /\ renewable /\ NothingOwed =>
        \/ \E i \in Invoices : invoice[i].status = "VOID"
        \/ faults > 0

-----------------------------------------------------------------------------
\* The ledger behind the tables: what was received on an invoice, and its status.
LedgerView == INSTANCE Ledger WITH
    credited <- [i \in Invoices |-> Received(i)],
    standing <- [i \in Invoices |-> invoice[i].status]

\* The promises of Ledger, kept by the tables when handlers do not overlap.
ImplementsLedger == LedgerView!LedgerSpec
=============================================================================
