--------------------------- MODULE SettlementProofs ---------------------------
(***************************************************************************)
(* Proofs about Settlement, for any invoices, totals, number of concurrent *)
(* handlers and bounds.                                                    *)
(***************************************************************************)
EXTENDS Settlement, TLAPS, FiniteSetTheorems, WellFoundedInduction

(***************************************************************************)
(* What a handler knows between two round trips: the invoice it works on,  *)
(* that the amount it is about to book fits the balance it read, and that  *)
(* the claim it holds the lock of is still PENDING.                        *)
(***************************************************************************)
HasInvoice == {"gwResolve", "manualDup", "recRead", "recCommit", "trCommit", "voidWrite"}
HasAmount  == {"gwResolve", "manualDup", "recRead", "recCommit", "trCommit"}

HandlerOK(p) ==
    /\ p.pc \in HasInvoice => p.inv \in Invoices
    /\ p.pc \in HasAmount => p.amt > 0
    /\ p.pc \in {"recCommit", "trCommit"} => p.seen + p.amt <= Total[p.inv]
    /\ p.pc \in {"trClaim", "trCommit"} => p.row \in DOMAIN payment
    /\ p.pc = "trCommit" => payment[p.row].status = "PENDING"

HandlersOK == \A w \in Workers : HandlerOK(proc[w])

\* A Payment row is locked by at most one transaction.
LocksExclusive ==
    \A v, w \in Workers :
        At(v, "trCommit") /\ At(w, "trCommit") /\ proc[v].row = proc[w].row => v = w

\* The inductive invariant.
IInv ==
    /\ TypeOK
    /\ HandlersOK
    /\ LocksExclusive
    /\ NeverOvercredited
    /\ CapturedOnce
    /\ MirrorAgrees

-----------------------------------------------------------------------------
\* The record of an idle worker is a handler record with nothing to know.
LEMMA IdleOK == Idle \in Proc /\ HandlerOK(Idle) /\ Idle.pc = "idle"
  BY DEF Idle, Proc, Phases, HandlerOK, HasInvoice, HasAmount

\* Replacing one worker's record changes that record and no other.
LEMMA BecomeChanges ==
  ASSUME TypeOK, NEW w \in Workers, NEW p \in Proc, Become(w, p)
  PROVE  /\ proc' \in [Workers -> Proc]
         /\ proc'[w] = p
         /\ \A v \in Workers : v # w => proc'[v] = proc[v]
  BY DEF TypeOK, Become

\* A step that changes nothing but one worker's record, and takes no row lock,
\* keeps the inductive invariant.
LEMMA QuietStep ==
  ASSUME IInv, NEW w \in Workers, NEW p \in Proc, Become(w, p), HandlerOK(p),
         p.pc # "trCommit", UNCHANGED dbVars, faults' \in 0 .. MaxFaults
  PROVE  IInv'
<1>1. /\ proc' \in [Workers -> Proc]
      /\ proc'[w] = p
      /\ \A v \in Workers : v # w => proc'[v] = proc[v]
  BY BecomeChanges DEF IInv
<1>2. TypeOK'
  BY <1>1 DEF IInv, TypeOK, dbVars
<1>3. HandlersOK'
  BY <1>1 DEF IInv, HandlersOK, HandlerOK, dbVars
<1>4. LocksExclusive'
  BY <1>1 DEF IInv, LocksExclusive, At
<1>5. NeverOvercredited' /\ CapturedOnce' /\ MirrorAgrees'
  BY DEF IInv, NeverOvercredited, CapturedOnce, MirrorAgrees, dbVars
<1> QED BY <1>2, <1>3, <1>4, <1>5 DEF IInv

\* The initial states satisfy the inductive invariant.
LEMMA InitIInv == Init => IInv
<1> SUFFICES ASSUME Init PROVE IInv
  OBVIOUS
<1>1. TypeOK
  BY IdleOK, BoundAssumption, SMTT(30) DEF Init, TypeOK, InvoiceStatus, LiveStatuses
<1>2. HandlersOK /\ LocksExclusive
  BY IdleOK DEF Init, HandlersOK, LocksExclusive, At
<1>3. NeverOvercredited
  BY TotalAssumption DEF Init, NeverOvercredited
<1>4. CapturedOnce
  BY DEF Init, CapturedOnce
<1>5. MirrorAgrees
  BY DEF Init, MirrorAgrees
<1> QED BY <1>1, <1>2, <1>3, <1>4, <1>5 DEF IInv

-----------------------------------------------------------------------------
(* The handlers that only read: each leaves a worker a record that is right
   about the tables it read.                                               *)

\* What recordPayment has read fits the invoice it is about to credit.
LEMMA RecordingOK ==
  ASSUME TypeOK, NEW i \in Invoices, NEW amt \in Nat, CanRecord(i, amt),
         NEW kind \in {"SUCCEEDED", "PENDING", "FAILED"}, NEW pid \in GatewayIds \cup {NoId}
  PROVE  /\ Recording(i, amt, kind, pid) \in Proc
         /\ HandlerOK(Recording(i, amt, kind, pid))
         /\ Recording(i, amt, kind, pid).pc = "recCommit"
<1>1. invoice[i].paid \in Nat /\ Total[i] \in Nat
  BY TotalAssumption DEF TypeOK
<1>2. amt > 0 /\ invoice[i].paid + amt <= Total[i]
  BY <1>1 DEF CanRecord, Outstanding
<1> QED
  BY <1>1, <1>2 DEF Recording, Idle, Proc, Phases, HandlerOK, HasInvoice, HasAmount

\* Every handler that starts, starts from what it read.
LEMMA ArriveIInv ==
  ASSUME IInv, NEW w \in Workers, Arrive(w)
  PROVE  IInv'
<1>1. faults \in 0 .. MaxFaults
  BY DEF IInv, TypeOK
<1>2. ASSUME NEW i \in Invoices, NEW amt \in 1 .. Total[i],
             NEW kind \in {"SUCCEEDED", "PENDING"}, AdminRecordPayment(w, i, amt, kind)
      PROVE  IInv'
  <2>1. amt \in Nat
    BY TotalAssumption
  <2> DEFINE p == Recording(i, amt, kind, NoId)
  <2>2. p \in Proc /\ HandlerOK(p) /\ p.pc # "trCommit"
    BY <1>2, <2>1, RecordingOK DEF IInv, AdminRecordPayment
  <2> HIDE DEF p
  <2> QED BY <1>1, <1>2, <2>2, QuietStep DEF AdminRecordPayment, p
<1>3. ASSUME NEW i \in Invoices, NEW amt \in 1 .. Total[i], SubmitManualPayment(w, i, amt)
      PROVE  IInv'
  <2> DEFINE p == [Idle EXCEPT !.pc = "manualDup", !.inv = i, !.amt = amt]
  <2>0. amt \in Nat /\ amt > 0
    BY TotalAssumption
  <2>1. p \in Proc /\ HandlerOK(p) /\ p.pc # "trCommit"
    BY <2>0 DEF Idle, Proc, Phases, HandlerOK, HasInvoice, HasAmount
  <2> HIDE DEF p
  <2> QED BY <1>1, <1>3, <2>1, QuietStep DEF SubmitManualPayment, p
<1>4. ASSUME NEW i \in Invoices, NEW amt \in 1 .. Total[i], NEW g \in GatewayIds,
             SettleRazorpayPayment(w, g, i, amt)
      PROVE  IInv'
  <2> DEFINE p == [Idle EXCEPT !.pc = "gwResolve", !.inv = i, !.amt = amt, !.pid = g]
  <2>0. amt \in Nat /\ amt > 0
    BY TotalAssumption
  <2>1. p \in Proc /\ HandlerOK(p) /\ p.pc # "trCommit"
    BY <2>0 DEF Idle, Proc, Phases, HandlerOK, HasInvoice, HasAmount
  <2> HIDE DEF p
  <2> QED BY <1>1, <1>4, <2>1, QuietStep DEF SettleRazorpayPayment, p
<1>5. ASSUME NEW n \in DOMAIN payment, NEW t \in {"SUCCEEDED", "FAILED"}, TransitionRead(w, n, t)
      PROVE  IInv'
  <2> DEFINE p == [Idle EXCEPT !.pc = "trClaim", !.row = n, !.kind = t]
  <2>1. n \in Nat
    BY DEF IInv, TypeOK
  <2>2. p \in Proc /\ HandlerOK(p) /\ p.pc # "trCommit"
    BY <2>1 DEF Idle, Proc, Phases, HandlerOK, HasInvoice, HasAmount
  <2> HIDE DEF p
  <2> QED BY <1>1, <1>5, <2>2, QuietStep DEF TransitionRead, p
<1>6. ASSUME NEW i \in Invoices, VoidRead(w, i)
      PROVE  IInv'
  <2> DEFINE p == [Idle EXCEPT !.pc = "voidWrite", !.inv = i]
  <2>1. p \in Proc /\ HandlerOK(p) /\ p.pc # "trCommit"
    BY DEF Idle, Proc, Phases, HandlerOK, HasInvoice, HasAmount
  <2> HIDE DEF p
  <2> QED BY <1>1, <1>6, <2>1, QuietStep DEF VoidRead, p
<1>7. ASSUME DunningStart(w)
      PROVE  IInv'
  <2> DEFINE p == [Idle EXCEPT !.pc = "pastDue", !.todo = Overdue({"due", "late"})]
  <2>1. p \in Proc /\ HandlerOK(p) /\ p.pc # "trCommit"
    BY DEF Idle, Proc, Phases, HandlerOK, HasInvoice, HasAmount, Overdue
  <2> HIDE DEF p
  <2> QED BY <1>1, <1>7, <2>1, QuietStep DEF DunningStart, p
<1>8. ASSUME CancelRead(w)
      PROVE  IInv'
  <2> DEFINE p == [Idle EXCEPT !.pc = "cancelWrite"]
  <2>1. p \in Proc /\ HandlerOK(p) /\ p.pc # "trCommit"
    BY DEF Idle, Proc, Phases, HandlerOK, HasInvoice, HasAmount
  <2> HIDE DEF p
  <2> QED BY <1>1, <1>8, <2>1, QuietStep DEF CancelRead, p
<1> QED BY <1>2, <1>3, <1>4, <1>5, <1>6, <1>7, <1>8 DEF Arrive

-----------------------------------------------------------------------------
(* The round trips of a handler under way that write nothing.              *)

LEMMA ReadsIInv ==
  ASSUME IInv, NEW w \in Workers,
         \/ RecordRead(w) \/ RecordDuplicate(w) \/ ManualDuplicateCheck(w)
         \/ SettleResolve(w) \/ TransitionLost(w) \/ ReactivateBalance(w)
         \/ ReactivateRead(w) \/ ListOverdue(w)
  PROVE  IInv'
<1>1. faults \in 0 .. MaxFaults /\ proc[w] \in Proc /\ HandlerOK(proc[w])
  BY DEF IInv, TypeOK, HandlersOK
<1>2. ASSUME Finish(w), UNCHANGED <<dbVars, faults>>
      PROVE  IInv'
  BY <1>1, <1>2, IdleOK, QuietStep DEF Finish
<1>3. CASE RecordRead(w)
  <2>1. CASE ~CanRecord(proc[w].inv, proc[w].amt)
    BY <1>2, <1>3, <2>1 DEF RecordRead
  <2>2. CASE CanRecord(proc[w].inv, proc[w].amt)
    <3> DEFINE p == Recording(proc[w].inv, proc[w].amt, proc[w].kind, proc[w].pid)
    <3>1. /\ proc[w].inv \in Invoices
          /\ proc[w].amt \in Nat
          /\ proc[w].kind \in {"SUCCEEDED", "PENDING", "FAILED"}
          /\ proc[w].pid \in GatewayIds \cup {NoId}
      BY <1>1, <1>3 DEF RecordRead, At, HandlerOK, HasInvoice, Proc
    <3>2. p \in Proc /\ HandlerOK(p) /\ p.pc # "trCommit"
      BY <2>2, <3>1, RecordingOK DEF IInv
    <3>3. Become(w, p) /\ UNCHANGED <<dbVars, faults>>
      BY <1>3, <2>2 DEF RecordRead
    <3> HIDE DEF p
    <3> QED BY <1>1, <3>2, <3>3, QuietStep
  <2> QED BY <2>1, <2>2
<1>4. CASE ManualDuplicateCheck(w)
  <2> DEFINE p == [proc[w] EXCEPT !.pc = "recRead", !.kind = "PENDING"]
  <2>1. p \in Proc /\ HandlerOK(p) /\ p.pc # "trCommit"
    BY <1>1, <1>4 DEF ManualDuplicateCheck, At, Proc, Phases, HandlerOK, HasInvoice, HasAmount
  <2>2. CASE PendingFor(proc[w].inv)
    BY <1>2, <1>4, <2>2 DEF ManualDuplicateCheck
  <2>3. CASE Become(w, p)
    <3> HIDE DEF p
    <3> QED BY <1>1, <1>4, <2>1, <2>3, QuietStep DEF ManualDuplicateCheck
  <2> QED BY <1>4, <2>2, <2>3 DEF ManualDuplicateCheck
<1>5. CASE SettleResolve(w)
  <2> DEFINE p == [proc[w] EXCEPT !.pc = "recRead", !.kind = "SUCCEEDED"]
  <2>1. p \in Proc /\ HandlerOK(p) /\ p.pc # "trCommit"
    BY <1>1, <1>5 DEF SettleResolve, At, Proc, Phases, HandlerOK, HasInvoice, HasAmount
  <2>2. CASE Finish(w)
    BY <1>2, <1>5, <2>2 DEF SettleResolve
  <2>3. CASE Become(w, p)
    <3> HIDE DEF p
    <3> QED BY <1>1, <1>5, <2>1, <2>3, QuietStep DEF SettleResolve
  <2> QED BY <1>5, <2>2, <2>3 DEF SettleResolve
<1>6. ASSUME NEW pc \in {"reactRead", "reactWrite"}, Become(w, [Idle EXCEPT !.pc = pc]),
             UNCHANGED <<dbVars, faults>>
      PROVE  IInv'
  <2> DEFINE p == [Idle EXCEPT !.pc = pc]
  <2>1. p \in Proc /\ HandlerOK(p) /\ p.pc # "trCommit"
    BY DEF Idle, Proc, Phases, HandlerOK, HasInvoice, HasAmount
  <2> HIDE DEF p
  <2> QED BY <1>1, <1>6, <2>1, QuietStep DEF p
<1>7. CASE ListOverdue(w)
  <2> DEFINE p == [Idle EXCEPT !.pc = "suspend", !.todo = Overdue({"late"})]
  <2>1. p \in Proc /\ HandlerOK(p) /\ p.pc # "trCommit"
    BY DEF Idle, Proc, Phases, HandlerOK, HasInvoice, HasAmount, Overdue
  <2>2. CASE Finish(w)
    BY <1>2, <1>7, <2>2 DEF ListOverdue
  <2>3. CASE Become(w, p)
    <3> HIDE DEF p
    <3> QED BY <1>1, <1>7, <2>1, <2>3, QuietStep DEF ListOverdue
  <2> QED BY <1>7, <2>2, <2>3 DEF ListOverdue
<1> QED
  BY <1>2, <1>3, <1>4, <1>5, <1>6, <1>7
  DEF RecordDuplicate, TransitionLost, ReactivateBalance, ReactivateRead

-----------------------------------------------------------------------------
(* The steps that move the status of the subscription and of the hotel.    *)

\* A step that leaves the money alone and moves both statuses together.
LEMMA StatusStep ==
  ASSUME IInv, NEW w \in Workers, NEW p \in Proc, Become(w, p), HandlerOK(p),
         p.pc # "trCommit", UNCHANGED <<invoice, payment, age, faults>>,
         renewable' \in BOOLEAN,
         sub' \in LiveStatuses \cup {"EXPIRED", "CANCELED"},
         hotel' = IF sub' = "CANCELED" THEN "EXPIRED" ELSE sub'
  PROVE  IInv'
<1>1. /\ proc' \in [Workers -> Proc]
      /\ proc'[w] = p
      /\ \A v \in Workers : v # w => proc'[v] = proc[v]
  BY BecomeChanges DEF IInv
<1>2. TypeOK'
  BY <1>1 DEF IInv, TypeOK, LiveStatuses
<1>3. HandlersOK'
  BY <1>1 DEF IInv, HandlersOK, HandlerOK
<1>4. LocksExclusive'
  BY <1>1 DEF IInv, LocksExclusive, At
<1>5. NeverOvercredited' /\ CapturedOnce' /\ MirrorAgrees'
  BY DEF IInv, NeverOvercredited, CapturedOnce, MirrorAgrees
<1> QED BY <1>2, <1>3, <1>4, <1>5 DEF IInv

\* The record a dunning pass keeps after one invoice of its list.
LEMMA WalkOK ==
  ASSUME IInv, NEW w \in Workers, NEW i \in Invoices, NEW next \in {"overdue", "idle"},
         At(w, "pastDue") \/ At(w, "suspend")
  PROVE  LET p == [proc[w] EXCEPT !.todo = @ \ {i},
                                  !.pc = IF proc[w].todo = {i} THEN next ELSE @]
         IN  p \in Proc /\ HandlerOK(p) /\ p.pc \in {"pastDue", "suspend", "overdue", "idle"}
<1>1. proc[w] \in Proc /\ proc[w].pc \in {"pastDue", "suspend"}
  BY DEF IInv, TypeOK, At
<1> DEFINE pc == IF proc[w].todo = {i} THEN next ELSE proc[w].pc
           todo == proc[w].todo \ {i}
<1>2. pc \in {"pastDue", "suspend", "overdue", "idle"} /\ todo \in SUBSET Invoices
  BY <1>1 DEF Proc
<1> HIDE DEF pc, todo
<1>3. LET p == [proc[w] EXCEPT !.todo = todo, !.pc = pc]
      IN  p \in Proc /\ HandlerOK(p) /\ p.pc \in {"pastDue", "suspend", "overdue", "idle"}
  BY <1>1, <1>2 DEF Proc, Phases, HandlerOK, HasInvoice, HasAmount
<1> QED BY <1>3 DEF pc, todo

LEMMA StatusesIInv ==
  ASSUME IInv, NEW w \in Workers,
         \/ ReactivateWrite(w) \/ CancelWrite(w)
         \/ \E i \in Invoices : MarkPastDue(w, i) \/ SuspendUnpaid(w, i)
  PROVE  IInv'
<1>1. renewable \in BOOLEAN /\ sub \in LiveStatuses \cup {"EXPIRED", "CANCELED"} /\ MirrorAgrees
  BY DEF IInv, TypeOK
<1>2. CASE ReactivateWrite(w)
  BY <1>1, <1>2, IdleOK, StatusStep DEF ReactivateWrite, Finish, LiveStatuses
<1>3. CASE CancelWrite(w)
  BY <1>1, <1>3, IdleOK, StatusStep DEF CancelWrite, Finish
<1>4. ASSUME NEW i \in Invoices, MarkPastDue(w, i)
      PROVE  IInv'
  <2> DEFINE p == [proc[w] EXCEPT !.todo = @ \ {i},
                                  !.pc = IF proc[w].todo = {i} THEN "overdue" ELSE @]
  <2>1. p \in Proc /\ HandlerOK(p) /\ p.pc # "trCommit"
    BY <1>4, WalkOK DEF MarkPastDue
  <2>2. /\ sub' \in LiveStatuses \cup {"EXPIRED", "CANCELED"}
        /\ hotel' = IF sub' = "CANCELED" THEN "EXPIRED" ELSE sub'
    BY <1>1, <1>4 DEF MarkPastDue, MirrorAgrees, LiveStatuses
  <2>3. Become(w, p) /\ UNCHANGED <<invoice, payment, age, renewable, faults>>
    BY <1>4 DEF MarkPastDue, Walk
  <2> HIDE DEF p
  <2> QED BY <1>1, <2>1, <2>2, <2>3, StatusStep
<1>5. ASSUME NEW i \in Invoices, SuspendUnpaid(w, i)
      PROVE  IInv'
  <2> DEFINE p == [proc[w] EXCEPT !.todo = @ \ {i},
                                  !.pc = IF proc[w].todo = {i} THEN "idle" ELSE @]
  <2>1. p \in Proc /\ HandlerOK(p) /\ p.pc # "trCommit"
    BY <1>5, WalkOK DEF SuspendUnpaid
  <2>2. /\ sub' \in LiveStatuses \cup {"EXPIRED", "CANCELED"}
        /\ hotel' = IF sub' = "CANCELED" THEN "EXPIRED" ELSE sub'
    BY <1>1, <1>5 DEF SuspendUnpaid, MirrorAgrees, LiveStatuses
  <2>3. Become(w, p) /\ UNCHANGED <<invoice, payment, age, renewable, faults>>
    BY <1>5 DEF SuspendUnpaid, Walk
  <2> HIDE DEF p
  <2> QED BY <1>1, <2>1, <2>2, <2>3, StatusStep
<1> QED BY <1>2, <1>3, <1>4, <1>5

-----------------------------------------------------------------------------
(* The steps that move money.                                              *)

\* Crediting an amount that fits the balance read keeps the invoice typed and
\* within its total, whatever was written since that read.
LEMMA AppliedOK ==
  ASSUME IInv, NEW i \in Invoices, NEW seen \in Nat, NEW amt \in Nat, seen + amt <= Total[i],
         invoice' = [invoice EXCEPT ![i] = Applied(@, i, seen, amt)]
  PROVE  /\ invoice' \in [Invoices -> [status : InvoiceStatus, paid : Nat]]
         /\ NeverOvercredited'
<1>1. invoice \in [Invoices -> [status : InvoiceStatus, paid : Nat]] /\ NeverOvercredited
  BY DEF IInv, TypeOK
<1>2. Applied(invoice[i], i, seen, amt) \in [status : InvoiceStatus, paid : Nat]
  <2> DEFINE st == IF seen + amt >= Total[i] THEN "PAID" ELSE invoice[i].status
  <2>1. st \in InvoiceStatus /\ seen + amt \in Nat /\ invoice[i] \in [status : InvoiceStatus, paid : Nat]
    BY <1>1 DEF InvoiceStatus
  <2>2. Applied(invoice[i], i, seen, amt) = [invoice[i] EXCEPT !.paid = seen + amt, !.status = st]
    BY <2>1 DEF Applied
  <2> HIDE DEF st
  <2> QED BY <2>1, <2>2
<1>3. Applied(invoice[i], i, seen, amt).paid = seen + amt
  BY <1>1 DEF Applied
<1> QED BY <1>1, <1>2, <1>3 DEF NeverOvercredited

\* recordPayment's transaction: a row is appended and an invoice may be credited.
LEMMA RecordCommitIInv ==
  ASSUME IInv, NEW w \in Workers, RecordCommit(w)
  PROVE  IInv'
<1> DEFINE p == proc[w]
           new == [inv |-> p.inv, amt |-> p.amt, status |-> p.kind, pid |-> p.pid]
<1>1. /\ p \in Proc /\ p.inv \in Invoices /\ p.amt > 0 /\ p.seen + p.amt <= Total[p.inv]
      /\ p.seen \in Nat /\ p.amt \in Nat /\ p.kind \in PaymentStatus
      /\ p.pid \in GatewayIds \cup {NoId}
  BY DEF IInv, TypeOK, HandlersOK, HandlerOK, HasInvoice, HasAmount, RecordCommit, At, Proc,
         PaymentStatus
<1>2. new \in PaymentRow
  BY <1>1 DEF PaymentRow
<1>3. payment \in Seq(PaymentRow) /\ payment' = Append(payment, new) /\ ~DuplicatePid(p.pid)
  BY DEF IInv, TypeOK, RecordCommit
<1> HIDE DEF new
<1>4. /\ payment' \in Seq(PaymentRow)
      /\ DOMAIN payment' = DOMAIN payment \cup {Len(payment) + 1}
      /\ \A n \in DOMAIN payment : payment'[n] = payment[n]
      /\ payment'[Len(payment) + 1] = new
  BY <1>2, <1>3
<1>5. invoice' \in [Invoices -> [status : InvoiceStatus, paid : Nat]] /\ NeverOvercredited'
  <2>1. CASE UNCHANGED invoice
    BY <2>1 DEF IInv, TypeOK, NeverOvercredited
  <2>2. CASE invoice' = [invoice EXCEPT ![p.inv] = Applied(@, p.inv, p.seen, p.amt)]
    BY <1>1, <2>2, AppliedOK
  <2> QED BY <2>1, <2>2 DEF RecordCommit
<1>6. PICK q \in {Idle, [Idle EXCEPT !.pc = "reactBalance"]} : Become(w, q)
  BY DEF RecordCommit, Finish
<1>7. q \in Proc /\ q.pc \in {"idle", "reactBalance"}
  BY <1>6 DEF Idle, Proc, Phases
<1>8. /\ proc' \in [Workers -> Proc]
      /\ proc'[w] = q
      /\ \A v \in Workers : v # w => proc'[v] = proc[v]
  BY <1>6, <1>7, BecomeChanges DEF IInv
<1>9. UNCHANGED <<age, sub, hotel, renewable, faults>>
  BY DEF RecordCommit
<1>10. TypeOK'
  BY <1>4, <1>5, <1>8, <1>9 DEF IInv, TypeOK
<1>11. HandlersOK'
  BY <1>4, <1>7, <1>8 DEF IInv, HandlersOK, HandlerOK, HasInvoice, HasAmount
<1>12. LocksExclusive'
  BY <1>7, <1>8 DEF IInv, LocksExclusive, At
<1>13. CapturedOnce'
  <2>1. new.pid = p.pid /\ CapturedOnce
    BY DEF IInv, new
  <2>2. \A n \in DOMAIN payment : p.pid # NoId => payment[n].pid # p.pid
    BY <1>3 DEF DuplicatePid
  <2> HIDE DEF p
  <2> QED BY <1>4, <2>1, <2>2 DEF CapturedOnce
<1>14. MirrorAgrees'
  BY <1>9 DEF IInv, MirrorAgrees
<1> QED BY <1>5, <1>10, <1>11, <1>12, <1>13, <1>14 DEF IInv

\* voidInvoiceHandler's write touches the status alone.
LEMMA VoidWriteIInv ==
  ASSUME IInv, NEW w \in Workers, VoidWrite(w)
  PROVE  IInv'
<1>1. proc[w].inv \in Invoices
  BY DEF IInv, HandlersOK, HandlerOK, HasInvoice, VoidWrite, At
<1>2. /\ proc' \in [Workers -> Proc]
      /\ proc'[w] = Idle
      /\ \A v \in Workers : v # w => proc'[v] = proc[v]
  BY IdleOK, BecomeChanges DEF IInv, VoidWrite, Finish
<1>3. /\ invoice' \in [Invoices -> [status : InvoiceStatus, paid : Nat]]
      /\ \A i \in Invoices : invoice'[i].paid = invoice[i].paid
  BY <1>1 DEF IInv, TypeOK, VoidWrite, InvoiceStatus
<1>4. TypeOK'
  BY <1>2, <1>3 DEF IInv, TypeOK, VoidWrite
<1>5. HandlersOK'
  BY <1>2, IdleOK DEF IInv, HandlersOK, HandlerOK, VoidWrite
<1>6. LocksExclusive'
  BY <1>2, IdleOK DEF IInv, LocksExclusive, At
<1>7. NeverOvercredited' /\ CapturedOnce' /\ MirrorAgrees'
  BY <1>3 DEF IInv, NeverOvercredited, CapturedOnce, MirrorAgrees, VoidWrite
<1> QED BY <1>4, <1>5, <1>6, <1>7 DEF IInv

\* transitionPayment's claim takes the row lock; nothing is written yet.
LEMMA TransitionApproveIInv ==
  ASSUME IInv, NEW w \in Workers, TransitionApprove(w)
  PROVE  IInv'
<1> DEFINE row == payment[proc[w].row]
           p == [proc[w] EXCEPT !.pc = "trCommit", !.inv = row.inv,
                                !.amt = row.amt, !.seen = invoice[row.inv].paid]
<1>1. /\ proc[w] \in Proc /\ proc[w].row \in DOMAIN payment
      /\ row \in PaymentRow /\ row.status = "PENDING" /\ ~Locked(proc[w].row)
      /\ faults \in 0 .. MaxFaults
  BY DEF IInv, TypeOK, HandlersOK, HandlerOK, TransitionApprove, Claims, At
<1>2. CASE Finish(w)
  BY <1>1, <1>2, IdleOK, QuietStep DEF Finish, TransitionApprove
<1>3. CASE /\ invoice[row.inv].status = "OPEN" /\ row.amt <= Outstanding(row.inv)
           /\ Become(w, p)
  <2>1. /\ row.inv \in Invoices /\ row.amt \in Nat /\ row.amt > 0
        /\ invoice[row.inv].paid \in Nat /\ Total[row.inv] \in Nat
    <3> HIDE DEF row
    <3>1. row.inv \in Invoices /\ row.amt \in Nat /\ row.amt > 0
      BY <1>1 DEF PaymentRow
    <3>2. \A i \in Invoices : invoice[i].paid \in Nat
      BY DEF IInv, TypeOK
    <3> QED BY <3>1, <3>2, TotalAssumption
  <2>2. invoice[row.inv].paid + row.amt <= Total[row.inv]
    <3>1. row.amt <= Outstanding(row.inv)
      BY <1>3
    <3> HIDE DEF row
    <3> QED BY <2>1, <3>1 DEF Outstanding
  <2>3. p \in Proc
    BY <1>1, <2>1 DEF Proc, Phases
  <2>4. HandlerOK(p) /\ p.pc = "trCommit" /\ p.row = proc[w].row
    BY <1>1, <2>1, <2>2 DEF HandlerOK, Proc, HasInvoice, HasAmount
  <2>5. /\ proc' \in [Workers -> Proc]
        /\ proc'[w] = p
        /\ \A v \in Workers : v # w => proc'[v] = proc[v]
    BY <1>3, <2>3, BecomeChanges DEF IInv
  <2> HIDE DEF p
  <2>6. UNCHANGED <<dbVars, faults>>
    BY DEF TransitionApprove
  <2>7. TypeOK'
    BY <2>5, <2>6 DEF IInv, TypeOK, dbVars
  <2>8. HandlersOK'
    BY <2>4, <2>5, <2>6 DEF IInv, HandlersOK, HandlerOK, dbVars
  <2>9. LocksExclusive'
    BY <1>1, <2>4, <2>5 DEF IInv, LocksExclusive, At, Locked
  <2>10. NeverOvercredited' /\ CapturedOnce' /\ MirrorAgrees'
    BY <2>6 DEF IInv, NeverOvercredited, CapturedOnce, MirrorAgrees, dbVars
  <2> QED BY <2>7, <2>8, <2>9, <2>10 DEF IInv
<1> QED BY <1>2, <1>3 DEF TransitionApprove

\* A review's outcome lands on one row, which no other transaction has locked.
LEMMA OutcomeIInv ==
  ASSUME IInv, NEW w \in Workers, NEW status \in {"SUCCEEDED", "FAILED"},
         NEW q \in {Idle, [Idle EXCEPT !.pc = "reactBalance"]}, Become(w, q),
         proc[w].row \in DOMAIN payment,
         \A v \in Workers : v # w /\ At(v, "trCommit") => proc[v].row # proc[w].row,
         payment' = [payment EXCEPT ![proc[w].row].status = status],
         invoice' \in [Invoices -> [status : InvoiceStatus, paid : Nat]],
         NeverOvercredited',
         UNCHANGED <<age, sub, hotel, renewable, faults>>
  PROVE  IInv'
<1>1. q \in Proc /\ q.pc \in {"idle", "reactBalance"}
  BY DEF Idle, Proc, Phases
<1>2. /\ proc' \in [Workers -> Proc]
      /\ proc'[w] = q
      /\ \A v \in Workers : v # w => proc'[v] = proc[v]
  BY <1>1, BecomeChanges DEF IInv
<1>3. payment \in Seq(PaymentRow) /\ payment[proc[w].row] \in PaymentRow
  BY DEF IInv, TypeOK
<1>4. [payment[proc[w].row] EXCEPT !.status = status] \in PaymentRow
  BY <1>3 DEF PaymentRow, PaymentStatus
<1>5. /\ payment' \in Seq(PaymentRow)
      /\ DOMAIN payment' = DOMAIN payment
      /\ \A n \in DOMAIN payment : n # proc[w].row => payment'[n] = payment[n]
      /\ \A n \in DOMAIN payment : payment'[n].pid = payment[n].pid
  BY <1>3, <1>4, SMTT(30) DEF PaymentRow
<1>6. TypeOK'
  BY <1>2, <1>5 DEF IInv, TypeOK
<1>7. HandlersOK'
  BY <1>1, <1>2, <1>5 DEF IInv, HandlersOK, HandlerOK, HasInvoice, HasAmount, At
<1>8. LocksExclusive'
  BY <1>1, <1>2 DEF IInv, LocksExclusive, At
<1>9. CapturedOnce' /\ MirrorAgrees'
  BY <1>5 DEF IInv, CapturedOnce, MirrorAgrees
<1> QED BY <1>6, <1>7, <1>8, <1>9 DEF IInv

LEMMA TransitionRejectIInv ==
  ASSUME IInv, NEW w \in Workers, TransitionReject(w)
  PROVE  IInv'
<1>1. proc[w].row \in DOMAIN payment /\ ~Locked(proc[w].row)
  BY DEF IInv, HandlersOK, HandlerOK, TransitionReject, Claims, At
<1>2. invoice' \in [Invoices -> [status : InvoiceStatus, paid : Nat]] /\ NeverOvercredited'
  BY DEF IInv, TypeOK, NeverOvercredited, TransitionReject
<1> QED BY <1>1, <1>2, OutcomeIInv DEF TransitionReject, Finish, Locked, At

LEMMA TransitionCommitIInv ==
  ASSUME IInv, NEW w \in Workers, TransitionCommit(w)
  PROVE  IInv'
<1> DEFINE p == proc[w]
<1>1. /\ p \in Proc /\ p.pc = "trCommit" /\ p.row \in DOMAIN payment
      /\ p.inv \in Invoices /\ p.seen \in Nat /\ p.amt \in Nat /\ p.seen + p.amt <= Total[p.inv]
  BY DEF IInv, TypeOK, HandlersOK, HandlerOK, HasInvoice, TransitionCommit, At, Proc
<1>2. invoice' \in [Invoices -> [status : InvoiceStatus, paid : Nat]] /\ NeverOvercredited'
  BY <1>1, AppliedOK DEF TransitionCommit
<1>3. \A v \in Workers : v # w /\ At(v, "trCommit") => proc[v].row # p.row
  BY <1>1 DEF IInv, LocksExclusive, At
<1>4. PICK q \in {Idle, [Idle EXCEPT !.pc = "reactBalance"]} : Become(w, q)
  BY DEF TransitionCommit, Finish
<1> QED BY <1>1, <1>2, <1>3, <1>4, OutcomeIInv DEF TransitionCommit

-----------------------------------------------------------------------------
\* Every step of the system keeps the inductive invariant.
LEMMA NextIInv == IInv /\ [Next]_vars => IInv'
<1> SUFFICES ASSUME IInv, [Next]_vars PROVE IInv'
  OBVIOUS
<1>1. ASSUME NEW i \in Invoices, Age(i)
      PROVE  IInv'
  <2>1. TypeOK'
    BY <1>1 DEF IInv, TypeOK, Age
  <2>2. HandlersOK' /\ LocksExclusive'
    BY <1>1 DEF IInv, HandlersOK, HandlerOK, LocksExclusive, At, Age
  <2>3. NeverOvercredited' /\ CapturedOnce' /\ MirrorAgrees'
    BY <1>1 DEF IInv, NeverOvercredited, CapturedOnce, MirrorAgrees, Age
  <2> QED BY <2>1, <2>2, <2>3 DEF IInv
<1>2. ASSUME NEW w \in Workers, Continue(w)
      PROVE  IInv'
  BY <1>2, ReadsIInv, StatusesIInv, RecordCommitIInv, VoidWriteIInv, TransitionApproveIInv,
     TransitionRejectIInv, TransitionCommitIInv
  DEF Continue
<1>3. ASSUME NEW w \in Workers, ReactivateFails(w)
      PROVE  IInv'
  <2>1. faults' \in 0 .. MaxFaults
    BY <1>3, BoundAssumption DEF IInv, TypeOK, ReactivateFails
  <2> QED BY <1>3, <2>1, IdleOK, QuietStep DEF ReactivateFails, Finish
<1>4. CASE UNCHANGED vars
  <2>1. TypeOK'
    BY <1>4 DEF IInv, TypeOK, vars
  <2>2. HandlersOK' /\ LocksExclusive'
    BY <1>4 DEF IInv, HandlersOK, HandlerOK, LocksExclusive, At, vars
  <2>3. NeverOvercredited' /\ CapturedOnce' /\ MirrorAgrees'
    BY <1>4 DEF IInv, NeverOvercredited, CapturedOnce, MirrorAgrees, vars
  <2> QED BY <2>1, <2>2, <2>3 DEF IInv
<1> QED BY <1>1, <1>2, <1>3, <1>4, ArriveIInv DEF Next

\* The inductive invariant holds of every reachable state, whatever the number
\* of handlers that interleave.
THEOREM Invariance == Spec => []IInv
<1>1. Init => IInv
  BY InitIInv
<1>2. IInv /\ [Next]_vars => IInv'
  BY NextIInv
<1> QED BY <1>1, <1>2, PTL DEF Spec

\* Every table and every handler record keeps its type.
THEOREM TypeCorrect == Spec => []TypeOK
<1>1. IInv => TypeOK
  BY DEF IInv
<1> QED BY <1>1, Invariance, PTL

\* No interleaving of payment handlers credits an invoice beyond its total.
THEOREM CreditBounded == Spec => []NeverOvercredited
<1>1. IInv => NeverOvercredited
  BY DEF IInv
<1> QED BY <1>1, Invariance, PTL

\* The callback, the webhook and every retry of either leave one Payment row
\* for one gateway capture.
THEOREM CaptureIdempotent == Spec => []CapturedOnce
<1>1. IInv => CapturedOnce
  BY DEF IInv
<1> QED BY <1>1, Invariance, PTL

\* Dunning, cancellation and reactivation never let the hotel row and the
\* subscription row disagree.
THEOREM MirrorKept == Spec => []MirrorAgrees
<1>1. IInv => MirrorAgrees
  BY DEF IInv
<1> QED BY <1>1, Invariance, PTL

-----------------------------------------------------------------------------
\* A request that arrives writes no table.
LEMMA ArriveWritesNothing ==
  ASSUME NEW w \in Workers, Arrive(w)
  PROVE  UNCHANGED <<invoice, payment>>
<1>1. UNCHANGED dbVars
  BY DEF Arrive, AdminRecordPayment, SubmitManualPayment, SettleRazorpayPayment, TransitionRead,
         VoidRead, DunningStart, CancelRead
<1> QED BY <1>1 DEF dbVars

\* Four actions write the Invoice and the Payment table, and no other.
LEMMA Writers ==
  ASSUME [Next]_vars
  PROVE  \/ UNCHANGED <<invoice, payment>>
         \/ \E w \in Workers : \/ RecordCommit(w) \/ TransitionCommit(w)
                               \/ TransitionReject(w) /\ UNCHANGED invoice
                               \/ VoidWrite(w) /\ UNCHANGED payment
<1>1. CASE UNCHANGED vars
  BY <1>1 DEF vars
<1>2. ASSUME NEW i \in Invoices, Age(i) PROVE UNCHANGED <<invoice, payment>>
  BY <1>2 DEF Age
<1>3. ASSUME NEW w \in Workers, ReactivateFails(w) PROVE UNCHANGED <<invoice, payment>>
  BY <1>3 DEF ReactivateFails, dbVars
<1>4. ASSUME NEW w \in Workers,
             \/ RecordRead(w) \/ RecordDuplicate(w) \/ ManualDuplicateCheck(w) \/ SettleResolve(w)
             \/ TransitionLost(w) \/ TransitionApprove(w)
      PROVE  UNCHANGED <<invoice, payment>>
  BY <1>4 DEF RecordRead, RecordDuplicate, ManualDuplicateCheck, SettleResolve, TransitionLost,
              TransitionApprove, dbVars
<1>5. ASSUME NEW w \in Workers,
             \/ ReactivateBalance(w) \/ ReactivateRead(w) \/ ReactivateWrite(w)
             \/ \E i \in Invoices : MarkPastDue(w, i) \/ SuspendUnpaid(w, i)
             \/ ListOverdue(w) \/ CancelWrite(w)
      PROVE  UNCHANGED <<invoice, payment>>
  BY <1>5 DEF ReactivateBalance, ReactivateRead, ReactivateWrite, MarkPastDue, SuspendUnpaid,
              ListOverdue, CancelWrite, dbVars
<1>6. ASSUME NEW w \in Workers, TransitionReject(w) PROVE UNCHANGED invoice
  BY <1>6 DEF TransitionReject
<1>7. ASSUME NEW w \in Workers, VoidWrite(w) PROVE UNCHANGED payment
  BY <1>7 DEF VoidWrite
<1>8. ASSUME NEW w \in Workers, Continue(w)
      PROVE  \/ UNCHANGED <<invoice, payment>>
             \/ RecordCommit(w) \/ TransitionCommit(w)
             \/ TransitionReject(w) /\ UNCHANGED invoice
             \/ VoidWrite(w) /\ UNCHANGED payment
  BY <1>4, <1>5, <1>6, <1>7, <1>8, Zenon DEF Continue
<1> QED BY <1>1, <1>2, <1>3, <1>8, ArriveWritesNothing, Zenon DEF Next

\* A step that writes the Payment table appends a row or moves a PENDING one.
LEMMA PaymentWrites ==
  ASSUME IInv, Next
  PROVE  \/ UNCHANGED payment
         \/ \E row \in PaymentRow : payment' = Append(payment, row)
         \/ \E n \in DOMAIN payment, s \in {"SUCCEEDED", "FAILED"} :
                /\ payment[n].status = "PENDING"
                /\ payment' = [payment EXCEPT ![n].status = s]
<1>1. ASSUME NEW w \in Workers, RecordCommit(w)
      PROVE  \E row \in PaymentRow : payment' = Append(payment, row)
  <2>1. /\ proc[w].inv \in Invoices /\ proc[w].amt \in Nat \ {0}
        /\ proc[w].kind \in PaymentStatus /\ proc[w].pid \in GatewayIds \cup {NoId}
    BY <1>1 DEF IInv, TypeOK, HandlersOK, HandlerOK, HasInvoice, HasAmount, RecordCommit, At,
                Proc, PaymentStatus
  <2> QED BY <1>1, <2>1 DEF RecordCommit, PaymentRow
<1>2. ASSUME NEW w \in Workers, TransitionReject(w) \/ TransitionCommit(w)
      PROVE  \E n \in DOMAIN payment, s \in {"SUCCEEDED", "FAILED"} :
                /\ payment[n].status = "PENDING"
                /\ payment' = [payment EXCEPT ![n].status = s]
  <2>1. proc[w].row \in DOMAIN payment /\ payment[proc[w].row].status = "PENDING"
    BY <1>2 DEF IInv, HandlersOK, HandlerOK, TransitionReject, TransitionCommit, Claims, At
  <2> QED BY <1>2, <2>1 DEF TransitionReject, TransitionCommit
<1> QED BY <1>1, <1>2, Writers, Zenon

\* A row keeps its place, its invoice and its amount, and its outcome once it
\* has one.
LEMMA RowsKept ==
  ASSUME IInv, [Next]_vars
  PROVE  /\ payment \in Seq(PaymentRow) /\ payment' \in Seq(PaymentRow)
         /\ Len(payment) <= Len(payment')
         /\ \A n \in DOMAIN payment :
              /\ n \in DOMAIN payment'
              /\ payment'[n].inv = payment[n].inv /\ payment'[n].amt = payment[n].amt
              /\ payment[n].status # "PENDING" => payment'[n] = payment[n]
<1>1. payment \in Seq(PaymentRow) /\ payment' \in Seq(PaymentRow)
  BY NextIInv DEF IInv, TypeOK
<1>2. CASE UNCHANGED payment
  BY <1>1, <1>2
<1>3. CASE \E row \in PaymentRow : payment' = Append(payment, row)
  BY <1>1, <1>3
<1>4. CASE \E n \in DOMAIN payment, s \in {"SUCCEEDED", "FAILED"} :
              /\ payment[n].status = "PENDING"
              /\ payment' = [payment EXCEPT ![n].status = s]
  <2>1. PICK n \in DOMAIN payment, s \in {"SUCCEEDED", "FAILED"} :
              /\ payment[n].status = "PENDING"
              /\ payment' = [payment EXCEPT ![n].status = s]
    BY <1>4
  <2>2. payment[n] \in PaymentRow /\ Len(payment') = Len(payment)
    BY <1>1, <2>1
  <2>3. payment'[n] = [payment[n] EXCEPT !.status = s]
    BY <1>1, <2>1
  <2>4. \A m \in DOMAIN payment : m # n => payment'[m] = payment[m]
    BY <1>1, <2>1
  <2> QED BY <1>1, <2>1, <2>2, <2>3, <2>4 DEF PaymentRow
<1> QED BY <1>2, <1>3, <1>4, PaymentWrites DEF vars

\* A reviewed payment keeps its outcome although reviews race each other.
THEOREM OutcomesKept == Spec => OutcomesFinal
<1>1. ASSUME IInv, [Next]_vars
      PROVE  [/\ Len(payment) <= Len(payment')
              /\ \A n \in DOMAIN payment :
                   /\ payment'[n].inv = payment[n].inv /\ payment'[n].amt = payment[n].amt
                   /\ payment[n].status # "PENDING" => payment'[n] = payment[n]]_vars
  BY <1>1, RowsKept
<1> QED BY <1>1, Invariance, PTL DEF Spec, OutcomesFinal

-----------------------------------------------------------------------------
(* One handler at a time: the tables implement the abstract ledger.        *)

LedgerPaid == INSTANCE Ledger WITH
    credited <- [i \in Invoices |-> invoice[i].paid],
    standing <- [i \in Invoices |-> invoice[i].status]

\* What a handler read of its invoice is still so when it writes.
FreshRead(w) ==
    /\ At(w, "recCommit") => /\ invoice[proc[w].inv].status # "VOID"
                             /\ proc[w].seen = invoice[proc[w].inv].paid
    /\ At(w, "trCommit") => /\ invoice[proc[w].inv].status = "OPEN"
                            /\ proc[w].seen = invoice[proc[w].inv].paid
    /\ At(w, "voidWrite") => /\ invoice[proc[w].inv].status = "OPEN"
                             /\ invoice[proc[w].inv].paid = 0

\* An invoice is PAID exactly when it is covered, and VOID only without money.
StatusExact ==
    \A i \in Invoices :
        /\ invoice[i].status = "PAID" <=> invoice[i].paid = Total[i]
        /\ invoice[i].status = "VOID" => invoice[i].paid = 0

SerialInv(w) == IInv /\ FreshRead(w) /\ StatusExact

\* The initial states hold no credit.
LEMMA SerialInit ==
  ASSUME NEW w \in Workers, Init
  PROVE  SerialInv(w) /\ LedgerPaid!LedgerInit
<1>1. IInv
  BY InitIInv
<1>2. FreshRead(w) /\ StatusExact
  BY TotalAssumption, IdleOK DEF Init, FreshRead, StatusExact, At
<1>3. LedgerPaid!LedgerInit
  BY DEF Init, LedgerPaid!LedgerInit
<1> QED BY <1>1, <1>2, <1>3 DEF SerialInv

\* Crediting the amount a fresh read allowed is a Credit of the ledger.
LEMMA SerialCredit ==
  ASSUME NEW w \in Workers, SerialInv(w), NEW i \in Invoices, NEW amt \in Nat, amt > 0,
         NEW seen \in Nat, seen = invoice[i].paid, invoice[i].status # "VOID",
         seen + amt <= Total[i],
         invoice' = [invoice EXCEPT ![i] = Applied(@, i, seen, amt)]
  PROVE  LedgerPaid!LedgerNext /\ StatusExact'
<1>1. /\ invoice \in [Invoices -> [status : InvoiceStatus, paid : Nat]]
      /\ Total[i] \in Nat /\ StatusExact
  BY TotalAssumption DEF SerialInv, IInv, TypeOK
<1>2. invoice[i].status = "OPEN"
  BY <1>1 DEF StatusExact, InvoiceStatus
<1>3. /\ invoice'[i].paid = seen + amt
      /\ invoice'[i].status = IF seen + amt = Total[i] THEN "PAID" ELSE "OPEN"
      /\ \A j \in Invoices : j # i => invoice'[j] = invoice[j]
  BY <1>1, <1>2 DEF Applied
<1>4. invoice' \in [Invoices -> [status : InvoiceStatus, paid : Nat]]
  BY AppliedOK DEF SerialInv
<1>5. StatusExact'
  BY <1>1, <1>3 DEF StatusExact
<1>6. amt \in 1 .. Total[i]
  BY <1>1
<1>7. LedgerPaid!Credit(i, amt)
  <2> DEFINE credited == [j \in Invoices |-> invoice[j].paid]
             standing == [j \in Invoices |-> invoice[j].status]
             creditedN == [j \in Invoices |-> invoice'[j].paid]
             standingN == [j \in Invoices |-> invoice'[j].status]
  <2>0. \A j \in Invoices :
           /\ invoice'[j].paid = IF j = i THEN invoice[i].paid + amt ELSE invoice[j].paid
           /\ invoice'[j].status = IF j = i
                                   THEN IF seen + amt = Total[i] THEN "PAID" ELSE "OPEN"
                                   ELSE invoice[j].status
    BY <1>3
  <2>1. creditedN = [credited EXCEPT ![i] = @ + amt]
    BY <2>0, Zenon
  <2>2. standingN = [standing EXCEPT ![i] = IF creditedN[i] = Total[i] THEN "PAID" ELSE @]
    BY <1>2, <1>3, <2>0
  <2>3. standing[i] = "OPEN" /\ amt <= Total[i] - credited[i]
    BY <1>1, <1>2
  <2> QED BY <2>1, <2>2, <2>3 DEF LedgerPaid!Credit
<1> QED BY <1>5, <1>6, <1>7 DEF LedgerPaid!LedgerNext

\* The record of a handler whose reads are fresh.
FreshRecord(p) ==
    /\ p.pc = "recCommit" => /\ invoice[p.inv].status # "VOID"
                             /\ p.seen = invoice[p.inv].paid
    /\ p.pc = "trCommit" => /\ invoice[p.inv].status = "OPEN"
                            /\ p.seen = invoice[p.inv].paid
    /\ p.pc = "voidWrite" => /\ invoice[p.inv].status = "OPEN"
                             /\ invoice[p.inv].paid = 0

\* A step that writes no invoice stutters in the ledger.
LEMMA SerialQuiet ==
  ASSUME NEW w \in Workers, SerialInv(w), UNCHANGED invoice, FreshRecord(proc'[w])
  PROVE  /\ UNCHANGED LedgerPaid!ledgerVars
         /\ FreshRead(w)' /\ StatusExact'
<1>1. UNCHANGED LedgerPaid!ledgerVars
  BY DEF LedgerPaid!ledgerVars
<1>2. StatusExact'
  BY DEF SerialInv, StatusExact
<1>3. FreshRead(w)'
  BY DEF FreshRecord, FreshRead, At
<1> QED BY <1>1, <1>2, <1>3

\* A handler that writes no invoice keeps what it knows fresh.
LEMMA SerialBecome ==
  ASSUME NEW w \in Workers, SerialInv(w), UNCHANGED invoice,
         NEW p, Become(w, p), FreshRecord(p)
  PROVE  /\ UNCHANGED LedgerPaid!ledgerVars
         /\ FreshRead(w)' /\ StatusExact'
<1>1. proc'[w] = p
  BY DEF Become, SerialInv, IInv, TypeOK
<1> QED BY <1>1, SerialQuiet

\* Records that stand before no write of an invoice.
LEMMA Unready ==
  ASSUME NEW p, p.pc \notin {"recCommit", "trCommit", "voidWrite"}
  PROVE  FreshRecord(p)
  BY DEF FreshRecord

LEMMA SerialArrive ==
  ASSUME NEW w \in Workers, SerialInv(w), Arrive(w)
  PROVE  /\ UNCHANGED LedgerPaid!ledgerVars
         /\ FreshRead(w)' /\ StatusExact'
<1>1. ASSUME NEW i \in Invoices, NEW amt \in 1 .. Total[i],
             NEW kind \in {"SUCCEEDED", "PENDING"}, AdminRecordPayment(w, i, amt, kind)
      PROVE  \E p : Become(w, p) /\ FreshRecord(p) /\ UNCHANGED invoice
  <2>1. FreshRecord(Recording(i, amt, kind, NoId))
    BY <1>1 DEF AdminRecordPayment, CanRecord, Recording, Idle, FreshRecord
  <2> QED BY <1>1, <2>1 DEF AdminRecordPayment, dbVars
<1>2. ASSUME NEW i \in Invoices, VoidRead(w, i)
      PROVE  \E p : Become(w, p) /\ FreshRecord(p) /\ UNCHANGED invoice
  <2>1. FreshRecord([Idle EXCEPT !.pc = "voidWrite", !.inv = i])
    BY <1>2 DEF VoidRead, Idle, FreshRecord
  <2> QED BY <1>2, <2>1 DEF VoidRead, dbVars
<1>3. ASSUME NEW i \in Invoices, NEW amt \in 1 .. Total[i], SubmitManualPayment(w, i, amt)
      PROVE  \E p : Become(w, p) /\ FreshRecord(p) /\ UNCHANGED invoice
  <2>1. FreshRecord([Idle EXCEPT !.pc = "manualDup", !.inv = i, !.amt = amt])
    BY Unready DEF Idle
  <2> QED BY <1>3, <2>1 DEF SubmitManualPayment, dbVars
<1>4. ASSUME NEW i \in Invoices, NEW amt \in 1 .. Total[i], NEW g \in GatewayIds,
             SettleRazorpayPayment(w, g, i, amt)
      PROVE  \E p : Become(w, p) /\ FreshRecord(p) /\ UNCHANGED invoice
  <2>1. FreshRecord([Idle EXCEPT !.pc = "gwResolve", !.inv = i, !.amt = amt, !.pid = g])
    BY Unready DEF Idle
  <2> QED BY <1>4, <2>1 DEF SettleRazorpayPayment, dbVars
<1>5. ASSUME NEW n \in DOMAIN payment, NEW t \in {"SUCCEEDED", "FAILED"}, TransitionRead(w, n, t)
      PROVE  \E p : Become(w, p) /\ FreshRecord(p) /\ UNCHANGED invoice
  <2>1. FreshRecord([Idle EXCEPT !.pc = "trClaim", !.row = n, !.kind = t])
    BY Unready DEF Idle
  <2> QED BY <1>5, <2>1 DEF TransitionRead, dbVars
<1>6. ASSUME DunningStart(w)
      PROVE  \E p : Become(w, p) /\ FreshRecord(p) /\ UNCHANGED invoice
  <2>1. FreshRecord([Idle EXCEPT !.pc = "pastDue", !.todo = Overdue({"due", "late"})])
    BY Unready DEF Idle
  <2> QED BY <1>6, <2>1 DEF DunningStart, dbVars
<1>7. ASSUME CancelRead(w)
      PROVE  \E p : Become(w, p) /\ FreshRecord(p) /\ UNCHANGED invoice
  <2>1. FreshRecord([Idle EXCEPT !.pc = "cancelWrite"])
    BY Unready DEF Idle
  <2> QED BY <1>7, <2>1 DEF CancelRead, dbVars
<1> QED BY <1>1, <1>2, <1>3, <1>4, <1>5, <1>6, <1>7, SerialBecome DEF Arrive

\* The round trips of a lone handler that write no invoice.
LEMMA SerialContinue ==
  ASSUME NEW w \in Workers, SerialInv(w),
         \/ RecordRead(w) \/ RecordDuplicate(w) \/ ManualDuplicateCheck(w)
         \/ SettleResolve(w) \/ TransitionLost(w) \/ TransitionReject(w) \/ TransitionApprove(w)
         \/ ReactivateBalance(w) \/ ReactivateRead(w) \/ ReactivateWrite(w) \/ ReactivateFails(w)
         \/ ListOverdue(w) \/ CancelWrite(w)
         \/ \E i \in Invoices : MarkPastDue(w, i) \/ SuspendUnpaid(w, i)
  PROVE  /\ UNCHANGED LedgerPaid!ledgerVars
         /\ FreshRead(w)' /\ StatusExact'
<1>1. proc[w] \in Proc
  BY DEF SerialInv, IInv, TypeOK
<1>2. FreshRecord(Idle) /\ \A pc \in {"reactRead", "reactWrite"} : FreshRecord([Idle EXCEPT !.pc = pc])
  BY Unready DEF Idle
<1>3. CASE RecordRead(w)
  <2> DEFINE p == Recording(proc[w].inv, proc[w].amt, proc[w].kind, proc[w].pid)
  <2>1. CanRecord(proc[w].inv, proc[w].amt) => FreshRecord(p)
    BY DEF CanRecord, Recording, Idle, FreshRecord
  <2> QED BY <1>2, <1>3, <2>1, SerialBecome DEF RecordRead, Finish, dbVars
<1>4. CASE ManualDuplicateCheck(w)
  <2>1. FreshRecord([proc[w] EXCEPT !.pc = "recRead", !.kind = "PENDING"])
    BY <1>1, Unready DEF Proc
  <2> QED BY <1>2, <1>4, <2>1, SerialBecome DEF ManualDuplicateCheck, Finish, dbVars
<1>5. CASE SettleResolve(w)
  <2>1. FreshRecord([proc[w] EXCEPT !.pc = "recRead", !.kind = "SUCCEEDED"])
    BY <1>1, Unready DEF Proc
  <2> QED BY <1>2, <1>5, <2>1, SerialBecome DEF SettleResolve, Finish, dbVars
<1>6. CASE TransitionApprove(w)
  <2> DEFINE row == payment[proc[w].row]
             p == [proc[w] EXCEPT !.pc = "trCommit", !.inv = row.inv,
                                  !.amt = row.amt, !.seen = invoice[row.inv].paid]
  <2>1. invoice[row.inv].status = "OPEN" => FreshRecord(p)
    BY <1>1 DEF Proc, FreshRecord
  <2> QED BY <1>2, <1>6, <2>1, SerialBecome DEF TransitionApprove, Finish, dbVars
<1>7. CASE \/ RecordDuplicate(w) \/ TransitionLost(w) \/ TransitionReject(w)
           \/ ReactivateBalance(w) \/ ReactivateRead(w) \/ ReactivateWrite(w)
           \/ ReactivateFails(w) \/ CancelWrite(w)
  BY <1>2, <1>7, SerialBecome
  DEF RecordDuplicate, TransitionLost, TransitionReject, ReactivateBalance, ReactivateRead,
      ReactivateWrite, ReactivateFails, CancelWrite, Finish, dbVars
<1>8. CASE ListOverdue(w)
  <2>1. FreshRecord([Idle EXCEPT !.pc = "suspend", !.todo = Overdue({"late"})])
    BY Unready DEF Idle
  <2> QED BY <1>2, <1>8, <2>1, SerialBecome DEF ListOverdue, Finish, dbVars
<1>9. ASSUME NEW i \in Invoices, MarkPastDue(w, i) \/ SuspendUnpaid(w, i)
      PROVE  /\ UNCHANGED LedgerPaid!ledgerVars
             /\ FreshRead(w)' /\ StatusExact'
  <2>1. ASSUME NEW next \in {"overdue", "idle"}
        PROVE  FreshRecord([proc[w] EXCEPT !.todo = @ \ {i},
                                           !.pc = IF proc[w].todo = {i} THEN next ELSE @])
    BY <1>9, WalkOK, Unready DEF MarkPastDue, SuspendUnpaid, SerialInv
  <2> QED BY <1>9, <2>1, SerialBecome DEF MarkPastDue, SuspendUnpaid, Walk
<1> QED BY <1>3, <1>4, <1>5, <1>6, <1>7, <1>8, <1>9

\* Each step of a lone handler is a step of the ledger or a stutter.
LEMMA SerialStep ==
  ASSUME NEW w \in Workers, Workers = {w}, SerialInv(w), [Next]_vars
  PROVE  [LedgerPaid!LedgerNext]_LedgerPaid!ledgerVars /\ SerialInv(w)'
<1>1. IInv'
  BY NextIInv DEF SerialInv
<1>2. proc[w] \in Proc /\ HandlerOK(proc[w]) /\ invoice \in [Invoices -> [status : InvoiceStatus, paid : Nat]]
  BY DEF SerialInv, IInv, HandlersOK, TypeOK
<1>3. ASSUME NEW q \in {Idle, [Idle EXCEPT !.pc = "reactBalance"]}, Become(w, q)
      PROVE  FreshRead(w)'
  <2>1. proc'[w] = q /\ q.pc \in {"idle", "reactBalance"}
    BY <1>3 DEF Become, SerialInv, IInv, TypeOK, Idle
  <2> QED BY <2>1 DEF FreshRead, At
<1>4. CASE UNCHANGED vars \/ \E i \in Invoices : Age(i)
  <2>1. FreshRecord(proc'[w]) /\ UNCHANGED invoice
    BY <1>4 DEF vars, Age, SerialInv, FreshRead, FreshRecord, At
  <2> QED BY <1>1, <2>1, SerialQuiet DEF SerialInv
<1>5. CASE RecordCommit(w)
  <2> DEFINE p == proc[w]
  <2>1. /\ p.pc = "recCommit" /\ p.inv \in Invoices /\ p.amt \in Nat /\ p.amt > 0 /\ p.seen \in Nat
        /\ p.seen + p.amt <= Total[p.inv]
    BY <1>2, <1>5 DEF RecordCommit, At, Proc, HandlerOK, HasInvoice, HasAmount
  <2>2. p.seen = invoice[p.inv].paid /\ invoice[p.inv].status # "VOID"
    BY <2>1 DEF SerialInv, FreshRead, At
  <2>3. FreshRead(w)'
    BY <1>3, <1>5 DEF RecordCommit, Finish
  <2>4. CASE UNCHANGED invoice
    BY <1>1, <2>3, <2>4 DEF SerialInv, StatusExact, LedgerPaid!ledgerVars
  <2>5. CASE invoice' = [invoice EXCEPT ![p.inv] = Applied(@, p.inv, p.seen, p.amt)]
    <3> HIDE DEF p
    <3> QED BY <1>1, <2>1, <2>2, <2>3, <2>5, SerialCredit DEF SerialInv
  <2> QED BY <1>5, <2>4, <2>5 DEF RecordCommit
<1>6. CASE TransitionCommit(w)
  <2> DEFINE p == proc[w]
  <2>1. /\ p.pc = "trCommit" /\ p.inv \in Invoices /\ p.amt \in Nat /\ p.amt > 0 /\ p.seen \in Nat
        /\ p.seen + p.amt <= Total[p.inv]
    BY <1>2, <1>6 DEF TransitionCommit, At, Proc, HandlerOK, HasInvoice, HasAmount
  <2>2. p.seen = invoice[p.inv].paid /\ invoice[p.inv].status # "VOID"
    BY <2>1 DEF SerialInv, FreshRead, At
  <2>3. FreshRead(w)'
    BY <1>3, <1>6 DEF TransitionCommit, Finish
  <2>4. invoice' = [invoice EXCEPT ![p.inv] = Applied(@, p.inv, p.seen, p.amt)]
    BY <1>6 DEF TransitionCommit
  <2> HIDE DEF p
  <2> QED BY <1>1, <2>1, <2>2, <2>3, <2>4, SerialCredit DEF SerialInv
<1>7. CASE VoidWrite(w)
  <2>0. PICK i \in Invoices : i = proc[w].inv
    BY <1>2, <1>7 DEF VoidWrite, At, HandlerOK, HasInvoice
  <2>1. invoice[i].status = "OPEN" /\ invoice[i].paid = 0
    BY <1>7, <2>0 DEF VoidWrite, At, SerialInv, FreshRead
  <2>2. invoice' = [invoice EXCEPT ![i].status = "VOID"]
    BY <1>7, <2>0 DEF VoidWrite
  <2>3. \A j \in Invoices :
           /\ invoice'[j].paid = invoice[j].paid
           /\ invoice'[j].status = IF j = i THEN "VOID" ELSE invoice[j].status
    BY <1>2, <2>1, <2>2
  <2>4. LedgerPaid!WriteOff(i)
    <3>1. [j \in Invoices |-> invoice'[j].status] =
             [[j \in Invoices |-> invoice[j].status] EXCEPT ![i] = "VOID"]
      BY <2>3, Zenon
    <3>2. [j \in Invoices |-> invoice'[j].paid] = [j \in Invoices |-> invoice[j].paid]
      BY <2>3
    <3> QED BY <2>1, <3>1, <3>2 DEF LedgerPaid!WriteOff
  <2>5. StatusExact'
    BY <2>1, <2>3, TotalAssumption DEF SerialInv, StatusExact
  <2>6. FreshRead(w)'
    BY <1>3, <1>7 DEF VoidWrite, Finish
  <2>7. LedgerPaid!LedgerNext
    BY <2>4 DEF LedgerPaid!LedgerNext
  <2> QED BY <1>1, <2>5, <2>6, <2>7 DEF SerialInv
<1>8. CASE Arrive(w)
  BY <1>1, <1>8, SerialArrive DEF SerialInv
<1>9. ASSUME Continue(w) \/ ReactivateFails(w), ~RecordCommit(w), ~TransitionCommit(w), ~VoidWrite(w)
      PROVE  [LedgerPaid!LedgerNext]_LedgerPaid!ledgerVars /\ SerialInv(w)'
  BY <1>1, <1>9, SerialContinue DEF SerialInv, Continue
<1> QED BY <1>4, <1>5, <1>6, <1>7, <1>8, <1>9 DEF Next

\* When handlers do not overlap, the tables implement the abstract ledger:
\* each handler, however many round trips it takes, is one credit, one
\* write-off or nothing.
THEOREM SerialRefinement ==
  ASSUME NEW w \in Workers, Workers = {w}
  PROVE  Spec => LedgerPaid!LedgerSpec
<1>1. Init => SerialInv(w) /\ LedgerPaid!LedgerInit
  BY SerialInit
<1>2. SerialInv(w) /\ [Next]_vars =>
         [LedgerPaid!LedgerNext]_LedgerPaid!ledgerVars /\ SerialInv(w)'
  BY SerialStep
<1> QED BY <1>1, <1>2, PTL DEF Spec, LedgerPaid!LedgerSpec

-----------------------------------------------------------------------------
(***************************************************************************)
(* Sums.  The fold of the community module takes the members of a set in   *)
(* an order of its own; these lemmas say what does not depend on it.  They *)
(* are proved from the smallest counterexample.                            *)
(***************************************************************************)

\* The natural numbers are well founded: a property of numbers that fails
\* fails first somewhere.
Less == {p \in Nat \X Nat : p[1] < p[2]}

LEMMA Least ==
  ASSUME NEW T \in SUBSET Nat, T # {}
  PROVE  \E x \in T : \A y \in T : x <= y
<1>1. IsWellFoundedOn(Less, Nat)
  BY NatLessThanWellFounded, Zenon DEF OpToRel, Less
<1>2. PICK x \in T : \A y \in T : <<y, x>> \notin Less
  BY <1>1, WFMin, Zenon
<1>3. \A y \in T : ~ (y < x)
  BY <1>2 DEF Less
<1> QED BY <1>3

\* Among the sets that fail there is one without a smaller one.
LEMMA LeastSet ==
  ASSUME NEW S, NEW B \in SUBSET (SUBSET S), IsFiniteSet(S), B # {}
  PROVE  \E T \in B : \A x \in T : T \ {x} \notin B
<1> DEFINE sizes == {Cardinality(T) : T \in B}
<1>1. \A T \in B : IsFiniteSet(T) /\ Cardinality(T) \in Nat
  BY FS_Subset, FS_CardinalityType
<1>2. PICK n \in sizes : \A m \in sizes : n <= m
  <2>1. sizes \in SUBSET Nat /\ sizes # {}
    BY <1>1
  <2> HIDE DEF sizes
  <2> QED BY <2>1, Least
<1>3. PICK T \in B : Cardinality(T) = n
  BY <1>2
<1>4. ASSUME NEW x \in T, T \ {x} \in B PROVE FALSE
  <2>1. Cardinality(T \ {x}) = n - 1 /\ n \in Nat
    BY <1>1, <1>3, FS_RemoveElement
  <2> QED BY <1>2, <1>4, <2>1
<1> QED BY <1>4

Picked(s) == CHOOSE x \in s : TRUE
SumEq(f, d, g) == g = [s \in d |-> IF s = {} THEN 0 ELSE f[Picked(s)] + g[s \ {Picked(s)}]]

LEMMA SumIs ==
  ASSUME NEW f, NEW S
  PROVE  SumFunctionOnSet(f, S) = (CHOOSE g : SumEq(f, SUBSET S, g))[S]
  BY Zenon DEF SumFunctionOnSet, FoldFunctionOnSet, MapThenFoldSet, SumEq, Picked

\* The fold is defined on every finite set.
LEMMA SumExists ==
  ASSUME NEW f, NEW S, IsFiniteSet(S)
  PROVE  \E g : SumEq(f, SUBSET S, g)
<1> DEFINE upTo(n) == {s \in SUBSET S : Cardinality(s) <= n}
           bad == {n \in Nat : ~ \E g : SumEq(f, upTo(n), g)}
<1>0. \A s \in SUBSET S : IsFiniteSet(s) /\ Cardinality(s) \in Nat
  BY FS_Subset, FS_CardinalityType
<1>1. \E g : SumEq(f, upTo(0), g)
  <2>1. \A s \in upTo(0) : s = {}
    BY <1>0, FS_EmptySet
  <2>2. SumEq(f, upTo(0), [s \in upTo(0) |-> 0])
    BY <2>1 DEF SumEq
  <2> QED BY <2>2
<1>2. ASSUME NEW n \in Nat, NEW g, SumEq(f, upTo(n), g)
      PROVE  \E h : SumEq(f, upTo(n + 1), h)
  <2> DEFINE h == [s \in upTo(n + 1) |-> IF s = {} THEN 0 ELSE f[Picked(s)] + g[s \ {Picked(s)}]]
  <2>1. \A s \in upTo(n) : s \in upTo(n + 1) /\ h[s] = g[s]
    <3>1. \A s \in upTo(n) : s \in upTo(n + 1)
      BY <1>0
    <3> HIDE DEF upTo
    <3> QED BY <1>2, <3>1 DEF SumEq
  <2>2. \A s \in upTo(n + 1) : s # {} => s \ {Picked(s)} \in upTo(n)
    <3> SUFFICES ASSUME NEW s \in upTo(n + 1), s # {} PROVE s \ {Picked(s)} \in upTo(n)
      OBVIOUS
    <3>1. Picked(s) \in s
      BY DEF Picked
    <3>2. Cardinality(s \ {Picked(s)}) = Cardinality(s) - 1
      BY <1>0, <3>1, FS_RemoveElement
    <3> QED BY <1>0, <3>2
  <2>3. SumEq(f, upTo(n + 1), h)
    <3> HIDE DEF upTo
    <3> QED BY <2>1, <2>2 DEF SumEq
  <2> QED BY <2>3
<1>3. bad = {}
  <2> SUFFICES ASSUME bad # {} PROVE FALSE
    OBVIOUS
  <2>1. PICK n \in bad : \A m \in bad : n <= m
    <3>1. bad \in SUBSET Nat
      OBVIOUS
    <3> HIDE DEF bad
    <3> QED BY <3>1, Least
  <2> HIDE DEF upTo
  <2>2. n \in Nat /\ n # 0
    BY <1>1, <2>1
  <2>3. n - 1 \in Nat /\ n - 1 \notin bad
    BY <2>1, <2>2
  <2>4. \E h : SumEq(f, upTo((n - 1) + 1), h)
    BY <1>2, <2>3
  <2>5. (n - 1) + 1 = n
    BY <2>2
  <2> QED BY <2>1, <2>4, <2>5
<1>4. upTo(Cardinality(S)) = SUBSET S
  BY FS_Subset
<1>5. Cardinality(S) \in Nat
  BY FS_CardinalityType
<1> QED BY <1>3, <1>4, <1>5

\* Two folds of the same function agree wherever both are defined.
LEMMA SumUnique ==
  ASSUME NEW f, NEW S, NEW c, NEW d, NEW g, NEW h, IsFiniteSet(S),
         \A s \in SUBSET S : s \in c /\ s \in d, SumEq(f, c, g), SumEq(f, d, h)
  PROVE  g[S] = h[S]
<1> DEFINE bad == {s \in SUBSET S : g[s] # h[s]}
<1>1. bad = {}
  <2> SUFFICES ASSUME bad # {} PROVE FALSE
    OBVIOUS
  <2>1. PICK s \in bad : \A x \in s : s \ {x} \notin bad
    <3>1. bad \in SUBSET (SUBSET S)
      OBVIOUS
    <3> HIDE DEF bad
    <3> QED BY <3>1, LeastSet
  <2>2. CASE s = {}
    BY <2>2 DEF SumEq
  <2>3. CASE s # {}
    <3>1. Picked(s) \in s
      BY <2>3 DEF Picked
    <3>2. g[s \ {Picked(s)}] = h[s \ {Picked(s)}]
      BY <2>1, <3>1
    <3> QED BY <2>3, <3>2 DEF SumEq
  <2> QED BY <2>2, <2>3
<1> QED BY <1>1

\* The sum of a set is what is picked from it and the sum of the rest.
LEMMA SumUnfolds ==
  ASSUME NEW f, NEW S, IsFiniteSet(S)
  PROVE  SumFunctionOnSet(f, S) =
           IF S = {} THEN 0 ELSE f[Picked(S)] + SumFunctionOnSet(f, S \ {Picked(S)})
<1> DEFINE g == CHOOSE g : SumEq(f, SUBSET S, g)
           rest == S \ {Picked(S)}
           h == CHOOSE h : SumEq(f, SUBSET rest, h)
<1>1. IsFiniteSet(rest) /\ rest \subseteq S
  BY FS_Subset
<1>2. SumEq(f, SUBSET S, g) /\ SumEq(f, SUBSET rest, h)
  BY <1>1, SumExists
<1>3. SumFunctionOnSet(f, S) = g[S] /\ SumFunctionOnSet(f, rest) = h[rest]
  BY SumIs
<1>4. h[rest] = g[rest]
  <2> DEFINE c == SUBSET rest
             d == SUBSET S
  <2>1. \A s \in SUBSET rest : s \in c /\ s \in d
    BY <1>1
  <2>2. SumEq(f, c, h) /\ SumEq(f, d, g)
    BY <1>2
  <2> HIDE DEF rest, g, h, c, d
  <2> QED BY <1>1, <2>1, <2>2, SumUnique
<1>5. g[S] = IF S = {} THEN 0 ELSE f[Picked(S)] + g[rest]
  <2> HIDE DEF g
  <2> QED BY <1>2 DEF SumEq
<1> QED BY <1>3, <1>4, <1>5

LEMMA SumEmpty == \A f : SumFunctionOnSet(f, {}) = 0
  BY SumUnfolds, FS_EmptySet

\* A sum of natural numbers is one.
LEMMA SumNat ==
  ASSUME NEW f, NEW S, IsFiniteSet(S), \A x \in S : f[x] \in Nat
  PROVE  SumFunctionOnSet(f, S) \in Nat
<1> DEFINE bad == {s \in SUBSET S : SumFunctionOnSet(f, s) \notin Nat}
<1>1. bad = {}
  <2> SUFFICES ASSUME bad # {} PROVE FALSE
    OBVIOUS
  <2>1. PICK s \in bad : \A x \in s : s \ {x} \notin bad
    <3>1. bad \in SUBSET (SUBSET S)
      OBVIOUS
    <3> HIDE DEF bad
    <3> QED BY <3>1, LeastSet
  <2>2. IsFiniteSet(s)
    BY FS_Subset
  <2>3. s # {}
    BY SumEmpty
  <2>4. Picked(s) \in s
    BY <2>3 DEF Picked
  <2>5. SumFunctionOnSet(f, s \ {Picked(s)}) \in Nat /\ f[Picked(s)] \in Nat
    BY <2>1, <2>4
  <2> QED BY <2>2, <2>3, <2>5, SumUnfolds
<1> QED BY <1>1

\* The order of the fold does not matter: any member may be taken out.
LEMMA SumWithout ==
  ASSUME NEW f, NEW S, NEW e \in S, IsFiniteSet(S), \A x \in S : f[x] \in Nat
  PROVE  SumFunctionOnSet(f, S) = f[e] + SumFunctionOnSet(f, S \ {e})
<1> DEFINE sum(s) == SumFunctionOnSet(f, s)
           bad == {s \in SUBSET S : \E x \in s : sum(s) # f[x] + sum(s \ {x})}
<1>0. \A s \in SUBSET S : IsFiniteSet(s) /\ sum(s) \in Nat
  BY FS_Subset, SumNat
<1>1. bad = {}
  <2> SUFFICES ASSUME bad # {} PROVE FALSE
    OBVIOUS
  <2>1. PICK s \in bad : \A x \in s : s \ {x} \notin bad
    <3>1. bad \in SUBSET (SUBSET S)
      OBVIOUS
    <3> HIDE DEF bad
    <3> QED BY <3>1, LeastSet
  <2>2. PICK x \in s : sum(s) # f[x] + sum(s \ {x})
    BY <2>1
  <2> DEFINE y == Picked(s)
  <2>3. y \in s /\ sum(s) = f[y] + sum(s \ {y})
    BY <1>0, SumUnfolds DEF Picked
  <2>4. x # y
    BY <2>2, <2>3
  <2> DEFINE rest == sum((s \ {x}) \ {y})
  <2>5. (s \ {y}) \ {x} = (s \ {x}) \ {y}
    OBVIOUS
  <2>6. sum(s \ {y}) = f[x] + rest
    BY <2>1, <2>3, <2>4, <2>5
  <2>7. sum(s \ {x}) = f[y] + rest
    BY <2>1, <2>3, <2>4
  <2>8. f[x] \in Nat /\ f[y] \in Nat /\ (s \ {x}) \ {y} \in SUBSET S
    BY <2>3
  <2>9. rest \in Nat
    BY <1>0, <2>8
  <2>10. f[y] + (f[x] + rest) = f[x] + (f[y] + rest)
    <3> HIDE DEF rest
    <3> QED BY <2>8, <2>9
  <2> QED BY <2>2, <2>3, <2>6, <2>7, <2>10
<1> QED BY <1>1

\* The same, with its hypotheses and its conclusion as predicates.
Summable(f, S) == IsFiniteSet(S) /\ \A x \in S : f[x] \in Nat
Splits(f, S, e) == SumFunctionOnSet(f, S) = f[e] + SumFunctionOnSet(f, S \ {e})

LEMMA SumSplits ==
  ASSUME NEW f, NEW S, Summable(f, S), NEW e \in S
  PROVE  Splits(f, S, e)
<1>1. IsFiniteSet(S) /\ \A x \in S : f[x] \in Nat
  BY DEF Summable
<1>2. SumFunctionOnSet(f, S) = f[e] + SumFunctionOnSet(f, S \ {e})
  BY <1>1, SumWithout
<1> QED BY <1>2 DEF Splits

\* Only the members count.
LEMMA SumAgrees ==
  ASSUME NEW f, NEW g, NEW S, IsFiniteSet(S), \A x \in S : f[x] = g[x]
  PROVE  SumFunctionOnSet(f, S) = SumFunctionOnSet(g, S)
<1> DEFINE bad == {s \in SUBSET S : SumFunctionOnSet(f, s) # SumFunctionOnSet(g, s)}
<1>1. bad = {}
  <2> SUFFICES ASSUME bad # {} PROVE FALSE
    OBVIOUS
  <2>1. PICK s \in bad : \A x \in s : s \ {x} \notin bad
    <3>1. bad \in SUBSET (SUBSET S)
      OBVIOUS
    <3> HIDE DEF bad
    <3> QED BY <3>1, LeastSet
  <2>2. IsFiniteSet(s)
    BY FS_Subset
  <2>3. s # {}
    BY SumEmpty
  <2>4. Picked(s) \in s
    BY <2>3 DEF Picked
  <2>5. SumFunctionOnSet(f, s \ {Picked(s)}) = SumFunctionOnSet(g, s \ {Picked(s)})
    BY <2>1, <2>4
  <2> QED BY <2>2, <2>3, <2>4, <2>5, SumUnfolds
<1> QED BY <1>1

-----------------------------------------------------------------------------
(* The money received, and what the invoices claim of it.                  *)

LEMMA ReceivedNat ==
  ASSUME payment \in Seq(PaymentRow), NEW i
  PROVE  IsFiniteSet(Succeeded(i)) /\ Received(i) \in Nat
<1>1. IsFiniteSet(DOMAIN payment)
  BY FS_Interval
<1>2. IsFiniteSet(Succeeded(i))
  BY <1>1, FS_Subset DEF Succeeded
<1>3. \A n \in Succeeded(i) : Amounts[n] \in Nat
  <2>1. ASSUME NEW n \in DOMAIN payment PROVE payment[n].amt \in Nat
    <3>1. payment[n] \in PaymentRow
      OBVIOUS
    <3> QED BY <3>1 DEF PaymentRow
  <2> QED BY <2>1 DEF Succeeded, Amounts
<1> QED BY <1>2, <1>3, SumNat DEF Received

\* A row that is appended adds its money when it is SUCCEEDED.
LEMMA ReceivedAppend ==
  ASSUME payment \in Seq(PaymentRow), NEW row \in PaymentRow, payment' = Append(payment, row),
         NEW i
  PROVE  Received(i)' = Received(i) + (IF row.inv = i /\ row.status = "SUCCEEDED" THEN row.amt ELSE 0)
<1> DEFINE m == Len(payment) + 1
<1>1. /\ payment' \in Seq(PaymentRow)
      /\ DOMAIN payment' = DOMAIN payment \cup {m} /\ m \notin DOMAIN payment
      /\ payment'[m] = row
      /\ \A n \in DOMAIN payment : payment'[n] = payment[n]
  OBVIOUS
<1>2. /\ IsFiniteSet(Succeeded(i)) /\ Received(i) \in Nat
      /\ IsFiniteSet(Succeeded(i)')
  <2>1. payment' \in Seq(PaymentRow)
    BY <1>1
  <2>2. DOMAIN payment' = 1 .. Len(payment') /\ Len(payment') \in Nat
    BY <2>1
  <2>3. IsFiniteSet(DOMAIN payment')
    BY <2>2, FS_Interval
  <2>4. IsFiniteSet(Succeeded(i)')
    BY <2>3, FS_Subset DEF Succeeded
  <2> QED BY <2>4, ReceivedNat
<1>3. SumFunctionOnSet(Amounts', Succeeded(i)) = Received(i)
  <2>1. \A n \in Succeeded(i) : Amounts'[n] = Amounts[n]
    BY <1>1 DEF Succeeded, Amounts
  <2> QED BY <1>2, <2>1, SumAgrees DEF Received
<1>4. CASE row.inv = i /\ row.status = "SUCCEEDED"
  <2>1. m \in Succeeded(i)' /\ Succeeded(i)' \ {m} = Succeeded(i)
    BY <1>1, <1>4 DEF Succeeded
  <2>0. PICK money, rows : money = Amounts' /\ rows = Succeeded(i)'
    OBVIOUS
  <2>2. \A n \in rows : money[n] \in Nat
    <3>1. ASSUME NEW n \in DOMAIN payment' PROVE payment'[n].amt \in Nat
      <4>1. payment'[n] \in PaymentRow
        BY <1>1
      <4> QED BY <4>1 DEF PaymentRow
    <3> QED BY <2>0, <3>1 DEF Succeeded, Amounts
  <2>3. money[m] = row.amt /\ row.amt \in Nat
    BY <1>1, <2>0 DEF Amounts, PaymentRow
  <2>4. SumFunctionOnSet(money, rows) = money[m] + SumFunctionOnSet(money, rows \ {m})
    <3>1. m \in rows /\ IsFiniteSet(rows)
      BY <1>2, <2>0, <2>1
    <3>2. Summable(money, rows)
      BY <2>2, <3>1 DEF Summable
    <3>3. Splits(money, rows, m)
      BY <3>1, <3>2, SumSplits, Zenon
    <3> QED BY <3>3 DEF Splits
  <2>5. Received(i)' = SumFunctionOnSet(money, rows)
    BY <2>0 DEF Received
  <2>6. SumFunctionOnSet(money, rows \ {m}) = Received(i)
    BY <1>3, <2>0, <2>1
  <2>7. Received(i)' = row.amt + Received(i)
    BY <2>3, <2>4, <2>5, <2>6
  <2> HIDE DEF m
  <2> QED BY <1>2, <1>4, <2>3, <2>7
<1>5. CASE ~ (row.inv = i /\ row.status = "SUCCEEDED")
  <2>1. Succeeded(i)' = Succeeded(i)
    BY <1>1, <1>5 DEF Succeeded
  <2> QED BY <1>2, <1>3, <1>5, <2>1 DEF Received
<1> QED BY <1>4, <1>5

\* A PENDING row that is decided adds its money when it is accepted.
LEMMA ReceivedMoved ==
  ASSUME payment \in Seq(PaymentRow), NEW m \in DOMAIN payment, payment[m].status = "PENDING",
         NEW s \in {"SUCCEEDED", "FAILED"}, payment' = [payment EXCEPT ![m].status = s],
         NEW i
  PROVE  Received(i)' = Received(i) +
           (IF payment[m].inv = i /\ s = "SUCCEEDED" THEN payment[m].amt ELSE 0)
<1>1. /\ DOMAIN payment' = DOMAIN payment
      /\ payment'[m] = [payment[m] EXCEPT !.status = s]
      /\ \A n \in DOMAIN payment : n # m => payment'[n] = payment[n]
      /\ payment[m] \in PaymentRow
      /\ payment' \in Seq(PaymentRow)
  <2>1. payment[m] \in PaymentRow
    OBVIOUS
  <2>2. [payment[m] EXCEPT !.status = s] \in PaymentRow
    BY <2>1 DEF PaymentRow, PaymentStatus
  <2> QED BY <2>1, <2>2
<1>2. /\ payment'[m].status = s /\ payment'[m].inv = payment[m].inv
      /\ payment'[m].amt = payment[m].amt
  BY <1>1 DEF PaymentRow
<1>3. Amounts' = Amounts
  BY <1>1, <1>2 DEF Amounts
<1>4. IsFiniteSet(Succeeded(i)) /\ Received(i) \in Nat /\ IsFiniteSet(Succeeded(i)')
  <2>1. payment' \in Seq(PaymentRow)
    BY <1>1
  <2>2. DOMAIN payment' = 1 .. Len(payment') /\ Len(payment') \in Nat
    BY <2>1
  <2>3. IsFiniteSet(DOMAIN payment')
    BY <2>2, FS_Interval
  <2>4. IsFiniteSet(Succeeded(i)')
    BY <2>3, FS_Subset DEF Succeeded
  <2> QED BY <2>4, ReceivedNat
<1>5. CASE payment[m].inv = i /\ s = "SUCCEEDED"
  <2>1. m \in Succeeded(i)' /\ Succeeded(i)' \ {m} = Succeeded(i)
    BY <1>1, <1>2, <1>5 DEF Succeeded
  <2>0. PICK money, rows : money = Amounts /\ rows = Succeeded(i)'
    OBVIOUS
  <2>2. \A n \in rows : money[n] \in Nat
    <3>1. ASSUME NEW n \in DOMAIN payment PROVE payment[n].amt \in Nat
      <4>1. payment[n] \in PaymentRow
        OBVIOUS
      <4> QED BY <4>1 DEF PaymentRow
    <3> QED BY <1>1, <2>0, <3>1 DEF Succeeded, Amounts
  <2>3. money[m] = payment[m].amt /\ payment[m].amt \in Nat
    BY <1>1, <2>0 DEF Amounts, PaymentRow
  <2>4. SumFunctionOnSet(money, rows) = money[m] + SumFunctionOnSet(money, rows \ {m})
    <3>1. m \in rows /\ IsFiniteSet(rows)
      BY <1>4, <2>0, <2>1
    <3>2. Summable(money, rows)
      BY <2>2, <3>1 DEF Summable
    <3>3. Splits(money, rows, m)
      BY <3>1, <3>2, SumSplits, Zenon
    <3> QED BY <3>3 DEF Splits
  <2>5. Received(i)' = SumFunctionOnSet(money, rows)
    BY <1>3, <2>0 DEF Received
  <2>6. SumFunctionOnSet(money, rows \ {m}) = Received(i)
    BY <2>0, <2>1 DEF Received
  <2>7. Received(i)' = payment[m].amt + Received(i)
    BY <2>3, <2>4, <2>5, <2>6
  <2> QED BY <1>4, <1>5, <2>3, <2>7
<1>6. CASE ~ (payment[m].inv = i /\ s = "SUCCEEDED")
  <2>1. Succeeded(i)' = Succeeded(i)
    BY <1>1, <1>2, <1>6 DEF Succeeded
  <2> QED BY <1>3, <1>4, <1>6, <2>1 DEF Received
<1> QED BY <1>5, <1>6

(***************************************************************************)
(* What a handler that is about to credit an invoice holds: a balance the  *)
(* invoice's payments had brought when it was read, and, for a review, the *)
(* invoice and the amount of the claim it holds the lock of.  The balance  *)
(* may be stale; the money behind it can only have grown.                  *)
(***************************************************************************)
ClaimOK(p) ==
    /\ p.pc \in {"recCommit", "trCommit"} => p.seen <= Received(p.inv)
    /\ p.pc = "trCommit" => p.inv = payment[p.row].inv /\ p.amt = payment[p.row].amt

MoneyInv ==
    /\ IInv
    /\ BackedByMoney
    /\ \A w \in Workers : ClaimOK(proc[w])

\* The recording of a payment brings its amount exactly when it is SUCCEEDED.
LEMMA RecordBrings ==
  ASSUME IInv, NEW w \in Workers, RecordCommit(w), proc[w].kind = "SUCCEEDED",
         NEW i, i = proc[w].inv
  PROVE  Received(i)' = Received(i) + proc[w].amt
<1> DEFINE new == [inv |-> proc[w].inv, amt |-> proc[w].amt, status |-> proc[w].kind,
                   pid |-> proc[w].pid]
<1>1. /\ proc[w].inv \in Invoices /\ proc[w].amt \in Nat \ {0}
      /\ proc[w].kind \in PaymentStatus /\ proc[w].pid \in GatewayIds \cup {NoId}
  BY DEF IInv, TypeOK, HandlersOK, HandlerOK, HasInvoice, HasAmount, RecordCommit, At,
         Proc, PaymentStatus
<1>2. new \in PaymentRow /\ payment' = Append(payment, new) /\ payment \in Seq(PaymentRow)
  BY <1>1 DEF RecordCommit, PaymentRow, IInv, TypeOK
<1>3. new.inv = i /\ new.status = "SUCCEEDED" /\ new.amt = proc[w].amt
  OBVIOUS
<1> HIDE DEF new
<1> QED BY <1>2, <1>3, ReceivedAppend

\* So does the approval of a claim.
LEMMA ApprovalBrings ==
  ASSUME MoneyInv, NEW w \in Workers, TransitionCommit(w), NEW i, i = proc[w].inv
  PROVE  Received(i)' = Received(i) + proc[w].amt
<1>1. /\ proc[w].row \in DOMAIN payment /\ payment[proc[w].row].status = "PENDING"
      /\ payment \in Seq(PaymentRow)
      /\ payment' = [payment EXCEPT ![proc[w].row].status = "SUCCEEDED"]
  BY DEF MoneyInv, IInv, TypeOK, HandlersOK, HandlerOK, TransitionCommit, At
<1>2. i = payment[proc[w].row].inv /\ proc[w].amt = payment[proc[w].row].amt
  BY DEF MoneyInv, ClaimOK, TransitionCommit, At
<1> QED BY <1>1, <1>2, ReceivedMoved

\* No step takes received money back.
LEMMA ReceivedGrows ==
  ASSUME IInv, [Next]_vars, NEW i \in Invoices
  PROVE  Received(i) \in Nat /\ Received(i)' \in Nat /\ Received(i) <= Received(i)'
<1>1. payment \in Seq(PaymentRow) /\ payment' \in Seq(PaymentRow)
  BY NextIInv DEF IInv, TypeOK
<1>2. Received(i) \in Nat /\ Received(i)' \in Nat
  <2>1. Received(i) \in Nat
    BY <1>1, ReceivedNat
  <2>2. \A n \in DOMAIN payment' : payment'[n].amt \in Nat
    <3>1. ASSUME NEW n \in DOMAIN payment' PROVE payment'[n].amt \in Nat
      <4>1. payment'[n] \in PaymentRow
        BY <1>1
      <4> QED BY <4>1 DEF PaymentRow
    <3> QED BY <3>1
  <2>3. IsFiniteSet(Succeeded(i)')
    <3>1. DOMAIN payment' = 1 .. Len(payment') /\ Len(payment') \in Nat
      BY <1>1
    <3>2. IsFiniteSet(DOMAIN payment')
      BY <3>1, FS_Interval
    <3> QED BY <3>2, FS_Subset DEF Succeeded
  <2>4. \A n \in Succeeded(i)' : Amounts'[n] \in Nat
    BY <2>2 DEF Succeeded, Amounts
  <2> QED BY <2>1, <2>3, <2>4, SumNat DEF Received
<1>3. CASE UNCHANGED payment
  BY <1>2, <1>3 DEF Received, Succeeded, Amounts
<1>4. ASSUME NEW row \in PaymentRow, payment' = Append(payment, row)
      PROVE  Received(i) <= Received(i)'
  <2>1. row.amt \in Nat
    BY DEF PaymentRow
  <2> QED BY <1>1, <1>2, <1>4, <2>1, ReceivedAppend
<1>5. ASSUME NEW n \in DOMAIN payment, NEW s \in {"SUCCEEDED", "FAILED"},
             payment[n].status = "PENDING", payment' = [payment EXCEPT ![n].status = s]
      PROVE  Received(i) <= Received(i)'
  <2>1. payment[n].amt \in Nat
    <3>1. payment[n] \in PaymentRow
      BY <1>1
    <3> QED BY <3>1 DEF PaymentRow
  <2>2. Received(i)' = Received(i) +
           (IF payment[n].inv = i /\ s = "SUCCEEDED" THEN payment[n].amt ELSE 0)
    BY <1>1, <1>5, ReceivedMoved
  <2> QED BY <1>2, <2>1, <2>2
<1> QED BY <1>2, <1>3, <1>4, <1>5, PaymentWrites DEF vars

\* The three writes of an Invoice row.
LEMMA InvoiceWrites ==
  ASSUME IInv, [Next]_vars, ~ UNCHANGED invoice
  PROVE  \E w \in Workers :
            /\ proc[w].inv \in Invoices
            /\ \/ /\ \/ RecordCommit(w) /\ proc[w].kind = "SUCCEEDED"
                     \/ TransitionCommit(w)
                  /\ invoice' = [invoice EXCEPT ![proc[w].inv] =
                                    Applied(@, proc[w].inv, proc[w].seen, proc[w].amt)]
               \/ VoidWrite(w) /\ invoice' = [invoice EXCEPT ![proc[w].inv].status = "VOID"]
<1>1. PICK w \in Workers : RecordCommit(w) \/ TransitionCommit(w) \/ VoidWrite(w)
  BY Writers
<1>2. proc[w].inv \in Invoices
  BY <1>1 DEF IInv, HandlersOK, HandlerOK, HasInvoice, RecordCommit, TransitionCommit, VoidWrite, At
<1> QED BY <1>1, <1>2 DEF RecordCommit, TransitionCommit, VoidWrite

\* A record about to credit an invoice, as the tables stand when it is made.
Claiming == {"recCommit", "trCommit"}

FreshClaim(p) ==
    p.pc \in Claiming =>
        /\ p.inv \in Invoices /\ p.seen = invoice[p.inv].paid
        /\ p.pc = "trCommit" => /\ p.row \in DOMAIN payment
                                /\ p.inv = payment[p.row].inv /\ p.amt = payment[p.row].amt
        /\ UNCHANGED <<invoice, payment>>

LEMMA Unclaiming ==
  ASSUME NEW p, p.pc \notin Claiming
  PROVE  FreshClaim(p)
  BY DEF FreshClaim

\* What a handler comes to hold, it has just read.
LEMMA ArrivalsRead ==
  ASSUME IInv, NEW w \in Workers, Arrive(w)
  PROVE  \E p : Become(w, p) /\ FreshClaim(p)
<1>1. ASSUME NEW i \in Invoices, NEW amt \in 1 .. Total[i],
             NEW kind \in {"SUCCEEDED", "PENDING"}, AdminRecordPayment(w, i, amt, kind)
      PROVE  \E p : Become(w, p) /\ FreshClaim(p)
  <2>1. FreshClaim(Recording(i, amt, kind, NoId))
    BY <1>1 DEF AdminRecordPayment, Recording, Idle, FreshClaim, dbVars
  <2> QED BY <1>1, <2>1 DEF AdminRecordPayment
<1>2. ASSUME NEW i \in Invoices, VoidRead(w, i)
      PROVE  \E p : Become(w, p) /\ FreshClaim(p)
  <2>1. FreshClaim([Idle EXCEPT !.pc = "voidWrite", !.inv = i])
    BY Unclaiming DEF Idle, Claiming
  <2> QED BY <1>2, <2>1 DEF VoidRead
<1>3. ASSUME NEW i \in Invoices, NEW amt \in 1 .. Total[i], SubmitManualPayment(w, i, amt)
      PROVE  \E p : Become(w, p) /\ FreshClaim(p)
  <2>1. FreshClaim([Idle EXCEPT !.pc = "manualDup", !.inv = i, !.amt = amt])
    BY Unclaiming DEF Idle, Claiming
  <2> QED BY <1>3, <2>1 DEF SubmitManualPayment
<1>4. ASSUME NEW i \in Invoices, NEW amt \in 1 .. Total[i], NEW g \in GatewayIds,
             SettleRazorpayPayment(w, g, i, amt)
      PROVE  \E p : Become(w, p) /\ FreshClaim(p)
  <2>1. FreshClaim([Idle EXCEPT !.pc = "gwResolve", !.inv = i, !.amt = amt, !.pid = g])
    BY Unclaiming DEF Idle, Claiming
  <2> QED BY <1>4, <2>1 DEF SettleRazorpayPayment
<1>5. ASSUME NEW n \in DOMAIN payment, NEW t \in {"SUCCEEDED", "FAILED"}, TransitionRead(w, n, t)
      PROVE  \E p : Become(w, p) /\ FreshClaim(p)
  <2>1. FreshClaim([Idle EXCEPT !.pc = "trClaim", !.row = n, !.kind = t])
    BY Unclaiming DEF Idle, Claiming
  <2> QED BY <1>5, <2>1 DEF TransitionRead
<1>6. ASSUME DunningStart(w)
      PROVE  \E p : Become(w, p) /\ FreshClaim(p)
  <2>1. FreshClaim([Idle EXCEPT !.pc = "pastDue", !.todo = Overdue({"due", "late"})])
    BY Unclaiming DEF Idle, Claiming
  <2> QED BY <1>6, <2>1 DEF DunningStart
<1>7. ASSUME CancelRead(w)
      PROVE  \E p : Become(w, p) /\ FreshClaim(p)
  <2>1. FreshClaim([Idle EXCEPT !.pc = "cancelWrite"])
    BY Unclaiming DEF Idle, Claiming
  <2> QED BY <1>7, <2>1 DEF CancelRead
<1> QED BY <1>1, <1>2, <1>3, <1>4, <1>5, <1>6, <1>7 DEF Arrive

LEMMA RoundTripsRead ==
  ASSUME IInv, NEW w \in Workers, Continue(w) \/ ReactivateFails(w)
  PROVE  \E p : Become(w, p) /\ FreshClaim(p)
<1>1. proc[w] \in Proc /\ HandlerOK(proc[w]) /\ payment \in Seq(PaymentRow)
  BY DEF IInv, TypeOK, HandlersOK
<1>2. /\ FreshClaim(Idle)
      /\ \A pc \in {"reactBalance", "reactRead", "reactWrite"} : FreshClaim([Idle EXCEPT !.pc = pc])
  BY Unclaiming DEF Idle, Claiming
<1>3. CASE RecordRead(w)
  <2> DEFINE p == Recording(proc[w].inv, proc[w].amt, proc[w].kind, proc[w].pid)
  <2>1. FreshClaim(p)
    BY <1>1, <1>3 DEF RecordRead, At, HandlerOK, HasInvoice, Recording, Idle, FreshClaim, dbVars
  <2> QED BY <1>2, <1>3, <2>1 DEF RecordRead, Finish
<1>4. CASE ManualDuplicateCheck(w)
  <2>1. FreshClaim([proc[w] EXCEPT !.pc = "recRead", !.kind = "PENDING"])
    BY <1>1, Unclaiming DEF Proc, Claiming
  <2> QED BY <1>2, <1>4, <2>1 DEF ManualDuplicateCheck, Finish
<1>5. CASE SettleResolve(w)
  <2>1. FreshClaim([proc[w] EXCEPT !.pc = "recRead", !.kind = "SUCCEEDED"])
    BY <1>1, Unclaiming DEF Proc, Claiming
  <2> QED BY <1>2, <1>5, <2>1 DEF SettleResolve, Finish
<1>6. CASE TransitionApprove(w)
  <2> DEFINE row == payment[proc[w].row]
             p == [proc[w] EXCEPT !.pc = "trCommit", !.inv = row.inv,
                                  !.amt = row.amt, !.seen = invoice[row.inv].paid]
  <2>1. proc[w].row \in DOMAIN payment
    BY <1>1, <1>6 DEF TransitionApprove, Claims, At, HandlerOK
  <2>2. row.inv \in Invoices
    <3>1. row \in PaymentRow
      BY <1>1, <2>1
    <3> QED BY <3>1 DEF PaymentRow
  <2>3. FreshClaim(p)
    BY <1>1, <1>6, <2>1, <2>2 DEF TransitionApprove, Proc, FreshClaim, dbVars
  <2> QED BY <1>2, <1>6, <2>3 DEF TransitionApprove, Finish
<1>7. CASE \/ RecordDuplicate(w) \/ TransitionLost(w) \/ TransitionReject(w)
           \/ ReactivateBalance(w) \/ ReactivateRead(w) \/ ReactivateWrite(w)
           \/ ReactivateFails(w) \/ CancelWrite(w)
           \/ RecordCommit(w) \/ TransitionCommit(w) \/ VoidWrite(w)
  BY <1>2, <1>7
  DEF RecordDuplicate, TransitionLost, TransitionReject, ReactivateBalance, ReactivateRead,
      ReactivateWrite, ReactivateFails, CancelWrite, RecordCommit, TransitionCommit, VoidWrite,
      Finish
<1>8. CASE ListOverdue(w)
  <2>1. FreshClaim([Idle EXCEPT !.pc = "suspend", !.todo = Overdue({"late"})])
    BY Unclaiming DEF Idle, Claiming
  <2> QED BY <1>2, <1>8, <2>1 DEF ListOverdue, Finish
<1>9. ASSUME NEW i \in Invoices, MarkPastDue(w, i) \/ SuspendUnpaid(w, i)
      PROVE  \E p : Become(w, p) /\ FreshClaim(p)
  <2>1. ASSUME NEW next \in {"overdue", "idle"}
        PROVE  FreshClaim([proc[w] EXCEPT !.todo = @ \ {i},
                                          !.pc = IF proc[w].todo = {i} THEN next ELSE @])
    BY <1>9, WalkOK, Unclaiming DEF MarkPastDue, SuspendUnpaid, Claiming
  <2> QED BY <1>9, <2>1 DEF MarkPastDue, SuspendUnpaid, Walk
<1> QED BY <1>3, <1>4, <1>5, <1>6, <1>7, <1>8, <1>9 DEF Continue

\* The credit of a handler whose read was backed is backed.
LEMMA CreditsBacked ==
  ASSUME MoneyInv, [Next]_vars, NEW i \in Invoices
  PROVE  /\ invoice'[i].paid <= Received(i)'
         /\ invoice'[i].status = "PAID" => Received(i)' >= Total[i]
<1>1. /\ invoice \in [Invoices -> [status : InvoiceStatus, paid : Nat]] /\ Total[i] \in Nat
      /\ Received(i) \in Nat /\ Received(i)' \in Nat /\ Received(i) <= Received(i)'
      /\ invoice[i].paid \in Nat
  BY TotalAssumption, ReceivedGrows DEF MoneyInv, IInv, TypeOK
<1>2. invoice[i].paid <= Received(i) /\ (invoice[i].status = "PAID" => Received(i) >= Total[i])
  BY DEF MoneyInv, BackedByMoney
<1>3. CASE invoice'[i] = invoice[i]
  BY <1>1, <1>2, <1>3
<1>4. CASE invoice'[i] # invoice[i]
  <2>1. PICK w \in Workers :
            /\ proc[w].inv \in Invoices
            /\ \/ /\ \/ RecordCommit(w) /\ proc[w].kind = "SUCCEEDED"
                     \/ TransitionCommit(w)
                  /\ invoice' = [invoice EXCEPT ![proc[w].inv] =
                                    Applied(@, proc[w].inv, proc[w].seen, proc[w].amt)]
               \/ VoidWrite(w) /\ invoice' = [invoice EXCEPT ![proc[w].inv].status = "VOID"]
    BY <1>4, InvoiceWrites DEF MoneyInv
  <2>2. proc[w].inv = i
    BY <1>1, <1>4, <2>1
  <2>3. CASE VoidWrite(w) /\ invoice' = [invoice EXCEPT ![proc[w].inv].status = "VOID"]
    <3>1. invoice'[i].paid = invoice[i].paid /\ invoice'[i].status = "VOID"
      BY <1>1, <2>2, <2>3
    <3> QED BY <1>1, <1>2, <3>1
  <2>4. CASE /\ \/ RecordCommit(w) /\ proc[w].kind = "SUCCEEDED"
                \/ TransitionCommit(w)
             /\ invoice' = [invoice EXCEPT ![proc[w].inv] =
                               Applied(@, proc[w].inv, proc[w].seen, proc[w].amt)]
    <3>1. Received(i)' = Received(i) + proc[w].amt
      BY <2>2, <2>4, RecordBrings, ApprovalBrings DEF MoneyInv
    <3>2. proc[w].seen \in Nat /\ proc[w].amt \in Nat /\ proc[w].seen <= Received(i)
      BY <2>2, <2>4 DEF MoneyInv, IInv, TypeOK, Proc, ClaimOK, RecordCommit, TransitionCommit, At
    <3>3. /\ invoice'[i].paid = proc[w].seen + proc[w].amt
          /\ invoice'[i].status = IF proc[w].seen + proc[w].amt >= Total[i]
                                  THEN "PAID" ELSE invoice[i].status
      BY <1>1, <2>2, <2>4 DEF Applied
    <3> QED BY <1>1, <1>2, <3>1, <3>2, <3>3
  <2> QED BY <2>1, <2>3, <2>4
<1> QED BY <1>3, <1>4

\* Every step keeps the money behind the credits.
LEMMA MoneyStep == MoneyInv /\ [Next]_vars => MoneyInv'
<1> SUFFICES ASSUME MoneyInv, [Next]_vars PROVE MoneyInv'
  OBVIOUS
<1>1. IInv /\ IInv'
  BY NextIInv DEF MoneyInv
<1>2. BackedByMoney'
  BY CreditsBacked DEF BackedByMoney
<1>3. ASSUME NEW v \in Workers PROVE ClaimOK(proc[v])'
  <2>1. CASE proc'[v] = proc[v] /\ proc[v].pc \in Claiming
    <3>1. PICK i \in Invoices : i = proc[v].inv
      BY <1>1, <2>1 DEF IInv, HandlersOK, HandlerOK, HasInvoice, Claiming
    <3>2. proc[v].seen \in Nat /\ proc[v].seen <= Received(i)
      BY <1>1, <2>1, <3>1 DEF MoneyInv, ClaimOK, Claiming, IInv, TypeOK, Proc
    <3>3. Received(i) \in Nat /\ Received(i)' \in Nat /\ Received(i) <= Received(i)'
      BY <1>1, ReceivedGrows
    <3>4. proc'[v].seen <= Received(i)' /\ proc'[v].inv = i
      BY <2>1, <3>1, <3>2, <3>3
    <3>5. ASSUME proc[v].pc = "trCommit"
          PROVE  /\ proc[v].inv = payment'[proc[v].row].inv
                 /\ proc[v].amt = payment'[proc[v].row].amt
      <4>1. proc[v].row \in DOMAIN payment
        BY <1>1, <3>5 DEF IInv, HandlersOK, HandlerOK
      <4>2. proc[v].inv = payment[proc[v].row].inv /\ proc[v].amt = payment[proc[v].row].amt
        BY <3>5 DEF MoneyInv, ClaimOK
      <4> QED BY <1>1, <4>1, <4>2, RowsKept
    <3> QED BY <2>1, <3>4, <3>5 DEF ClaimOK
  <2>2. CASE proc'[v] = proc[v] /\ proc[v].pc \notin Claiming
    BY <2>2 DEF ClaimOK, Claiming
  <2>3. CASE proc'[v] # proc[v]
    <3>1. PICK w \in Workers : Arrive(w) \/ Continue(w) \/ ReactivateFails(w)
      BY <2>3 DEF Next, vars, Age
    <3>2. PICK p : Become(w, p) /\ FreshClaim(p)
      BY <1>1, <3>1, ArrivalsRead, RoundTripsRead
    <3>3. proc'[v] = p
      BY <1>1, <2>3, <3>2 DEF Become, IInv, TypeOK
    <3>4. CASE p.pc \notin Claiming
      BY <3>3, <3>4 DEF ClaimOK, Claiming
    <3>5. CASE p.pc \in Claiming
      <4>1. PICK i \in Invoices : i = p.inv
        BY <3>2, <3>5 DEF FreshClaim
      <4>2. p.seen = invoice[i].paid /\ UNCHANGED <<invoice, payment>>
        BY <3>2, <3>5, <4>1 DEF FreshClaim
      <4>3. invoice'[i].paid <= Received(i)'
        BY CreditsBacked
      <4>4. proc'[v].seen <= Received(i)' /\ proc'[v].inv = i
        BY <3>3, <4>1, <4>2, <4>3
      <4>5. p.pc = "trCommit" => /\ p.inv = payment'[p.row].inv
                                 /\ p.amt = payment'[p.row].amt
        BY <3>2, <3>5, <4>2 DEF FreshClaim
      <4> QED BY <3>3, <4>4, <4>5 DEF ClaimOK
    <3> QED BY <3>4, <3>5
  <2> QED BY <2>1, <2>2, <2>3
<1> QED BY <1>1, <1>2, <1>3 DEF MoneyInv

LEMMA MoneyInit == Init => MoneyInv
<1> SUFFICES ASSUME Init PROVE MoneyInv
  OBVIOUS
<1>1. IInv
  BY InitIInv
<1>2. \A i \in Invoices : Received(i) \in Nat
  BY <1>1, ReceivedNat DEF IInv, TypeOK
<1>3. BackedByMoney
  BY <1>2 DEF Init, BackedByMoney
<1>4. \A w \in Workers : ClaimOK(proc[w])
  BY IdleOK DEF Init, ClaimOK
<1> QED BY <1>1, <1>3, <1>4 DEF MoneyInv

\* An invoice never claims more money than its accepted payments brought, and
\* is PAID only when they cover it, however many handlers write absolute
\* balances they read earlier.
THEOREM CreditBacked == Spec => []BackedByMoney
<1>1. Init => MoneyInv
  BY MoneyInit
<1>2. MoneyInv /\ [Next]_vars => MoneyInv'
  BY MoneyStep
<1>3. MoneyInv => BackedByMoney
  BY DEF MoneyInv
<1> QED BY <1>1, <1>2, <1>3, PTL DEF Spec

\* Neither touches the money of another invoice, and no other step brings any.
LEMMA RecordSpares ==
  ASSUME IInv, NEW w \in Workers, RecordCommit(w), NEW i, i # proc[w].inv
  PROVE  Received(i)' = Received(i)
<1> DEFINE new == [inv |-> proc[w].inv, amt |-> proc[w].amt, status |-> proc[w].kind,
                   pid |-> proc[w].pid]
<1>1. /\ proc[w].inv \in Invoices /\ proc[w].amt \in Nat \ {0}
      /\ proc[w].kind \in PaymentStatus /\ proc[w].pid \in GatewayIds \cup {NoId}
  BY DEF IInv, TypeOK, HandlersOK, HandlerOK, HasInvoice, HasAmount, RecordCommit, At,
         Proc, PaymentStatus
<1>2. new \in PaymentRow /\ payment' = Append(payment, new) /\ payment \in Seq(PaymentRow)
  BY <1>1 DEF RecordCommit, PaymentRow, IInv, TypeOK
<1>3. new.inv # i
  OBVIOUS
<1> HIDE DEF new
<1>4. Received(i)' = Received(i) + 0
  BY <1>2, <1>3, ReceivedAppend
<1> QED BY <1>2, <1>4, ReceivedNat

LEMMA ApprovalSpares ==
  ASSUME MoneyInv, NEW w \in Workers, TransitionCommit(w), NEW i, i # proc[w].inv
  PROVE  Received(i)' = Received(i)
<1>1. /\ proc[w].row \in DOMAIN payment /\ payment[proc[w].row].status = "PENDING"
      /\ payment \in Seq(PaymentRow)
      /\ payment' = [payment EXCEPT ![proc[w].row].status = "SUCCEEDED"]
  BY DEF MoneyInv, IInv, TypeOK, HandlersOK, HandlerOK, TransitionCommit, At
<1>2. i # payment[proc[w].row].inv
  BY DEF MoneyInv, ClaimOK, TransitionCommit, At
<1>3. Received(i)' = Received(i) + 0
  BY <1>1, <1>2, ReceivedMoved
<1> QED BY <1>1, <1>3, ReceivedNat

LEMMA OthersBringNothing ==
  ASSUME IInv, [Next]_vars, NEW i,
         \A w \in Workers : ~(RecordCommit(w) /\ proc[w].kind = "SUCCEEDED") /\ ~TransitionCommit(w)
  PROVE  Received(i)' = Received(i)
<1>0. payment \in Seq(PaymentRow) /\ Received(i) \in Nat
  BY ReceivedNat DEF IInv, TypeOK
<1>1. CASE UNCHANGED payment
  BY <1>1 DEF Received, Succeeded, Amounts
<1>2. ASSUME NEW w \in Workers, RecordCommit(w) PROVE Received(i)' = Received(i)
  <2> DEFINE new == [inv |-> proc[w].inv, amt |-> proc[w].amt, status |-> proc[w].kind,
                     pid |-> proc[w].pid]
  <2>1. /\ proc[w].inv \in Invoices /\ proc[w].amt \in Nat \ {0}
        /\ proc[w].kind \in PaymentStatus /\ proc[w].pid \in GatewayIds \cup {NoId}
    BY <1>2 DEF IInv, TypeOK, HandlersOK, HandlerOK, HasInvoice, HasAmount, RecordCommit, At,
           Proc, PaymentStatus
  <2>2. new \in PaymentRow /\ payment' = Append(payment, new) /\ new.status # "SUCCEEDED"
    BY <1>2, <2>1 DEF RecordCommit, PaymentRow
  <2> HIDE DEF new
  <2>3. Received(i)' = Received(i) + 0
    BY <1>0, <2>2, ReceivedAppend
  <2> QED BY <1>0, <2>3
<1>3. ASSUME NEW w \in Workers, TransitionReject(w) PROVE Received(i)' = Received(i)
  <2>1. /\ proc[w].row \in DOMAIN payment /\ payment[proc[w].row].status = "PENDING"
        /\ payment' = [payment EXCEPT ![proc[w].row].status = "FAILED"]
    BY <1>3 DEF IInv, HandlersOK, HandlerOK, TransitionReject, Claims, At
  <2>2. Received(i)' = Received(i) + 0
    BY <1>0, <2>1, ReceivedMoved
  <2> QED BY <1>0, <2>2
<1>4. UNCHANGED payment \/ \E w \in Workers : RecordCommit(w) \/ TransitionReject(w)
  BY Writers
<1> QED BY <1>1, <1>2, <1>3, <1>4

-----------------------------------------------------------------------------
(* One handler at a time: the books are exact, and the ledger is the money. *)

\* With nobody between a handler's read and its write, no credit is lost.
ExactInv(w) ==
    /\ SerialInv(w)
    /\ MoneyInv
    /\ \A i \in Invoices : invoice[i].paid = Received(i)

LEMMA ExactInit ==
  ASSUME NEW w \in Workers, Init
  PROVE  ExactInv(w)
<1>1. SerialInv(w) /\ MoneyInv
  BY SerialInit, MoneyInit
<1>2. ASSUME NEW i \in Invoices PROVE Received(i) = 0
  <2>1. Succeeded(i) = {}
    BY DEF Init, Succeeded
  <2> QED BY <2>1, SumEmpty DEF Received
<1> QED BY <1>1, <1>2 DEF ExactInv, Init

\* A step that changes what an invoice received is a credit of that amount.
LEMMA ExactStep ==
  ASSUME NEW w \in Workers, Workers = {w}, ExactInv(w), [Next]_vars
  PROVE  ExactInv(w)'
<1>1. SerialInv(w)' /\ MoneyInv' /\ IInv
  BY SerialStep, MoneyStep DEF ExactInv, SerialInv
<1>2. ASSUME NEW i \in Invoices PROVE invoice'[i].paid = Received(i)'
  <2>1. /\ invoice \in [Invoices -> [status : InvoiceStatus, paid : Nat]]
        /\ Received(i) \in Nat /\ invoice[i].paid = Received(i)
        /\ payment \in Seq(PaymentRow)
    BY <1>1, ReceivedGrows DEF ExactInv, IInv, TypeOK
  <2>2. CASE RecordCommit(w) /\ proc[w].kind = "SUCCEEDED"
    <3>1. /\ proc[w].seen \in Nat /\ proc[w].amt \in Nat /\ proc[w].inv \in Invoices
          /\ proc[w].seen = invoice[proc[w].inv].paid
          /\ invoice' = [invoice EXCEPT ![proc[w].inv] =
                            Applied(@, proc[w].inv, proc[w].seen, proc[w].amt)]
      BY <1>1, <2>2 DEF IInv, TypeOK, Proc, HandlersOK, HandlerOK, HasInvoice, RecordCommit, At,
                        ExactInv, SerialInv, FreshRead
    <3>2. CASE proc[w].inv = i
      <4>1. Received(i)' = Received(i) + proc[w].amt
        BY <1>1, <2>2, <3>2, RecordBrings
      <4>2. invoice'[i].paid = proc[w].seen + proc[w].amt
        BY <2>1, <3>1, <3>2 DEF Applied
      <4> QED BY <2>1, <3>1, <3>2, <4>1, <4>2
    <3>3. CASE proc[w].inv # i
      <4>1. Received(i)' = Received(i)
        BY <1>1, <2>2, <3>3, RecordSpares
      <4> QED BY <2>1, <3>1, <3>3, <4>1
    <3> QED BY <3>2, <3>3
  <2>3. CASE TransitionCommit(w)
    <3>1. /\ proc[w].seen \in Nat /\ proc[w].amt \in Nat /\ proc[w].inv \in Invoices
          /\ proc[w].seen = invoice[proc[w].inv].paid
          /\ invoice' = [invoice EXCEPT ![proc[w].inv] =
                            Applied(@, proc[w].inv, proc[w].seen, proc[w].amt)]
      BY <1>1, <2>3 DEF IInv, TypeOK, Proc, HandlersOK, HandlerOK, HasInvoice, TransitionCommit, At,
                        ExactInv, SerialInv, FreshRead
    <3>2. CASE proc[w].inv = i
      <4>1. Received(i)' = Received(i) + proc[w].amt
        BY <2>3, <3>2, ApprovalBrings DEF ExactInv
      <4>2. invoice'[i].paid = proc[w].seen + proc[w].amt
        BY <2>1, <3>1, <3>2 DEF Applied
      <4> QED BY <2>1, <3>1, <3>2, <4>1, <4>2
    <3>3. CASE proc[w].inv # i
      <4>1. Received(i)' = Received(i)
        BY <2>3, <3>3, ApprovalSpares DEF ExactInv
      <4> QED BY <2>1, <3>1, <3>3, <4>1
    <3> QED BY <3>2, <3>3
  <2>4. CASE ~(RecordCommit(w) /\ proc[w].kind = "SUCCEEDED") /\ ~TransitionCommit(w)
    <3>1. Received(i)' = Received(i)
      BY <1>1, <2>4, OthersBringNothing
    <3>2. invoice'[i].paid = invoice[i].paid
      <4>1. CASE UNCHANGED invoice
        BY <4>1
      <4>2. CASE ~ UNCHANGED invoice
        <5>1. /\ proc[w].inv \in Invoices
              /\ invoice' = [invoice EXCEPT ![proc[w].inv].status = "VOID"]
          BY <1>1, <2>4, <4>2, InvoiceWrites
        <5> QED BY <2>1, <5>1
      <4> QED BY <4>1, <4>2
    <3> QED BY <2>1, <3>1, <3>2
  <2> QED BY <2>2, <2>3, <2>4
<1> QED BY <1>1, <1>2 DEF ExactInv

\* With one handler at a time the books are exact: an invoice's balance is the
\* money of its accepted payments, it is PAID exactly when covered, and a
\* voided one received nothing.
THEOREM BooksExact ==
  ASSUME NEW w \in Workers, Workers = {w}
  PROVE  Spec => []LedgerExact
<1>1. Init => ExactInv(w)
  BY ExactInit
<1>2. ExactInv(w) /\ [Next]_vars => ExactInv(w)'
  BY ExactStep
<1>3. ExactInv(w) => LedgerExact
  BY DEF ExactInv, SerialInv, StatusExact, LedgerExact
<1> QED BY <1>1, <1>2, <1>3, PTL DEF Spec

\* And the tables implement the abstract ledger of the money received: every
\* handler, however many round trips it takes, is one credit, one write-off or
\* nothing.
THEOREM MoneyRefinement ==
  ASSUME NEW w \in Workers, Workers = {w}
  PROVE  Spec => ImplementsLedger
<1>1. ExactInv(w) => /\ [i \in Invoices |-> Received(i)] = [i \in Invoices |-> invoice[i].paid]
  BY DEF ExactInv
<1>2. Init => LedgerView!LedgerInit
  <2> SUFFICES ASSUME Init PROVE LedgerView!LedgerInit
    OBVIOUS
  <2>1. ExactInv(w) /\ LedgerPaid!LedgerInit
    BY ExactInit, SerialInit
  <2> QED BY <1>1, <2>1 DEF LedgerView!LedgerInit, LedgerPaid!LedgerInit
<1>3. ExactInv(w) /\ [Next]_vars => [LedgerView!LedgerNext]_LedgerView!ledgerVars
  <2> SUFFICES ASSUME ExactInv(w), [Next]_vars
               PROVE  [LedgerView!LedgerNext]_LedgerView!ledgerVars
    OBVIOUS
  <2>1. [LedgerPaid!LedgerNext]_LedgerPaid!ledgerVars
    BY SerialStep DEF ExactInv
  <2>2. /\ \A i \in Invoices : invoice[i].paid = Received(i)
        /\ \A i \in Invoices : invoice'[i].paid = Received(i)'
    BY ExactStep DEF ExactInv
  <2>3. /\ [i \in Invoices |-> Received(i)] = [i \in Invoices |-> invoice[i].paid]
        /\ [i \in Invoices |-> Received(i)'] = [i \in Invoices |-> invoice'[i].paid]
    BY <2>2
  <2>4. CASE UNCHANGED LedgerPaid!ledgerVars
    BY <2>3, <2>4 DEF LedgerPaid!ledgerVars, LedgerView!ledgerVars
  <2>5. CASE LedgerPaid!LedgerNext
    BY <2>3, <2>5
    DEF LedgerPaid!LedgerNext, LedgerView!LedgerNext, LedgerPaid!WriteOff, LedgerView!WriteOff,
        LedgerPaid!Credit, LedgerView!Credit
  <2> QED BY <2>1, <2>4, <2>5
<1>4. Init => ExactInv(w)
  BY ExactInit
<1>5. ExactInv(w) /\ [Next]_vars => ExactInv(w)'
  BY ExactStep
<1> QED BY <1>2, <1>3, <1>4, <1>5, PTL DEF Spec, ImplementsLedger, LedgerView!LedgerSpec

-----------------------------------------------------------------------------
(***************************************************************************)
(* Who settles everything is served again.  A suspended hotel that owes    *)
(* nothing and could be revived exists only while the handler that took    *)
(* the last payment is on its way to revive it; and a dunning pass that is *)
(* about to suspend holds only invoices that are still owed.               *)
(***************************************************************************)
Reviving == {"reactBalance", "reactRead", "reactWrite"}

Revivable ==
    /\ sub = "EXPIRED" /\ renewable /\ NothingOwed /\ faults = 0
    /\ \A i \in Invoices : invoice[i].status # "VOID"

ServedInv(w) ==
    /\ SerialInv(w)
    /\ Revivable => proc[w].pc \in Reviving
    /\ At(w, "suspend") => \A i \in proc[w].todo : invoice[i].status = "OPEN"

\* An OPEN invoice is owed: it would be PAID otherwise.
LEMMA OpenIsOwed ==
  ASSUME NEW w \in Workers, SerialInv(w), NEW i \in Invoices, invoice[i].status = "OPEN"
  PROVE  ~NothingOwed
<1>1. invoice[i].paid \in Nat /\ Total[i] \in Nat /\ invoice[i].paid <= Total[i]
  BY TotalAssumption DEF SerialInv, IInv, TypeOK, NeverOvercredited
<1>2. invoice[i].paid # Total[i]
  BY DEF SerialInv, StatusExact
<1> QED BY <1>1, <1>2 DEF NothingOwed, Outstanding

LEMMA ServedInit ==
  ASSUME NEW w \in Workers, Init
  PROVE  ServedInv(w)
<1>1. SerialInv(w)
  BY SerialInit
<1>2. ~Revivable
  <2>1. CASE sub = "EXPIRED"
    <3>1. PICK i \in Invoices : age[i] = "late"
      BY <2>1 DEF Init
    <3>2. ~NothingOwed
      BY <1>1, OpenIsOwed DEF Init
    <3> QED BY <3>2 DEF Revivable
  <2> QED BY <2>1 DEF Revivable
<1>3. ~At(w, "suspend")
  BY IdleOK DEF Init, At
<1> QED BY <1>1, <1>2, <1>3 DEF ServedInv

\* A step that writes neither the tables of Revivable nor loses a
\* reactivation, between two records of which neither is reviving.
LEMMA ServedQuiet ==
  ASSUME NEW w \in Workers, ServedInv(w), SerialInv(w)',
         proc[w].pc \notin Reviving, UNCHANGED <<invoice, sub, renewable, faults>>,
         NEW p, Become(w, p), p.pc # "suspend"
  PROVE  ServedInv(w)'
<1>1. proc'[w] = p
  BY DEF Become, ServedInv, SerialInv, IInv, TypeOK
<1>2. ~Revivable'
  BY DEF ServedInv, Revivable, NothingOwed, Outstanding
<1> QED BY <1>1, <1>2 DEF ServedInv, At

LEMMA ServedArrive ==
  ASSUME NEW w \in Workers, ServedInv(w), SerialInv(w)', Arrive(w)
  PROVE  ServedInv(w)'
<1>1. proc[w].pc \notin Reviving /\ UNCHANGED <<invoice, sub, renewable, faults>>
  BY DEF Arrive, AdminRecordPayment, SubmitManualPayment, SettleRazorpayPayment, TransitionRead,
         VoidRead, DunningStart, CancelRead, Starts, At, Reviving, dbVars
<1>2. \E p : Become(w, p) /\ p.pc # "suspend"
  <2>1. ASSUME NEW i \in Invoices, NEW amt \in 1 .. Total[i],
               NEW kind \in {"SUCCEEDED", "PENDING"}, AdminRecordPayment(w, i, amt, kind)
        PROVE  \E p : Become(w, p) /\ p.pc # "suspend"
    <3>1. Recording(i, amt, kind, NoId).pc # "suspend"
      BY DEF Recording, Idle
    <3> QED BY <2>1, <3>1 DEF AdminRecordPayment
  <2>2. ASSUME NEW i \in Invoices, VoidRead(w, i)
        PROVE  \E p : Become(w, p) /\ p.pc # "suspend"
    <3>1. [Idle EXCEPT !.pc = "voidWrite", !.inv = i].pc # "suspend"
      BY DEF Idle
    <3> QED BY <2>2, <3>1 DEF VoidRead
  <2>3. ASSUME NEW i \in Invoices, NEW amt \in 1 .. Total[i], SubmitManualPayment(w, i, amt)
        PROVE  \E p : Become(w, p) /\ p.pc # "suspend"
    <3>1. [Idle EXCEPT !.pc = "manualDup", !.inv = i, !.amt = amt].pc # "suspend"
      BY DEF Idle
    <3> QED BY <2>3, <3>1 DEF SubmitManualPayment
  <2>4. ASSUME NEW i \in Invoices, NEW amt \in 1 .. Total[i], NEW g \in GatewayIds,
               SettleRazorpayPayment(w, g, i, amt)
        PROVE  \E p : Become(w, p) /\ p.pc # "suspend"
    <3>1. [Idle EXCEPT !.pc = "gwResolve", !.inv = i, !.amt = amt, !.pid = g].pc # "suspend"
      BY DEF Idle
    <3> QED BY <2>4, <3>1 DEF SettleRazorpayPayment
  <2>5. ASSUME NEW n \in DOMAIN payment, NEW t \in {"SUCCEEDED", "FAILED"},
               TransitionRead(w, n, t)
        PROVE  \E p : Become(w, p) /\ p.pc # "suspend"
    <3>1. [Idle EXCEPT !.pc = "trClaim", !.row = n, !.kind = t].pc # "suspend"
      BY DEF Idle
    <3> QED BY <2>5, <3>1 DEF TransitionRead
  <2>6. ASSUME DunningStart(w)
        PROVE  \E p : Become(w, p) /\ p.pc # "suspend"
    <3>1. [Idle EXCEPT !.pc = "pastDue", !.todo = Overdue({"due", "late"})].pc # "suspend"
      BY DEF Idle
    <3> QED BY <2>6, <3>1 DEF DunningStart
  <2>7. ASSUME CancelRead(w)
        PROVE  \E p : Become(w, p) /\ p.pc # "suspend"
    <3>1. [Idle EXCEPT !.pc = "cancelWrite"].pc # "suspend"
      BY DEF Idle
    <3> QED BY <2>7, <3>1 DEF CancelRead
  <2> QED BY <2>1, <2>2, <2>3, <2>4, <2>5, <2>6, <2>7 DEF Arrive
<1> QED BY <1>1, <1>2, ServedQuiet

\* The payment that settles the last invoice goes on to revive the hotel.
LEMMA ServedCommit ==
  ASSUME NEW w \in Workers, ServedInv(w), SerialInv(w)', RecordCommit(w) \/ TransitionCommit(w)
  PROVE  ServedInv(w)'
<1> DEFINE p == proc[w]
<1>1. /\ p.pc \notin Reviving /\ UNCHANGED <<sub, renewable, faults>>
      /\ p.inv \in Invoices /\ p.seen \in Nat /\ p.amt \in Nat /\ Total[p.inv] \in Nat
      /\ invoice \in [Invoices -> [status : InvoiceStatus, paid : Nat]]
  BY TotalAssumption
  DEF ServedInv, SerialInv, IInv, TypeOK, HandlersOK, HandlerOK, HasInvoice, Proc,
      RecordCommit, TransitionCommit, At, Reviving
<1>2. PICK q \in {Idle, [Idle EXCEPT !.pc = "reactBalance"]} : Become(w, q)
  BY DEF RecordCommit, TransitionCommit, Finish
<1>3. proc'[w] = q /\ q.pc \in {"idle", "reactBalance"}
  BY <1>2 DEF Become, ServedInv, SerialInv, IInv, TypeOK, Idle
<1>4. ~At(w, "suspend")'
  BY <1>3 DEF At
<1>5. CASE UNCHANGED invoice
  <2>1. ~Revivable'
    BY <1>1, <1>5 DEF ServedInv, Revivable, NothingOwed, Outstanding
  <2> QED BY <1>4, <2>1 DEF ServedInv
<1>6. CASE /\ invoice' = [invoice EXCEPT ![p.inv] = Applied(@, p.inv, p.seen, p.amt)]
           /\ IF p.seen + p.amt >= Total[p.inv]
              THEN Become(w, [Idle EXCEPT !.pc = "reactBalance"])
              ELSE Finish(w)
  <2>1. CASE p.seen + p.amt >= Total[p.inv]
    <3>1. q.pc = "reactBalance"
      BY <1>3, <1>6, <2>1 DEF Become, Idle, ServedInv, SerialInv, IInv, TypeOK
    <3> QED BY <1>3, <1>4, <3>1 DEF ServedInv, Reviving
  <2>2. CASE ~(p.seen + p.amt >= Total[p.inv])
    <3>1. invoice'[p.inv].status = invoice[p.inv].status
      BY <1>1, <1>6, <2>2 DEF Applied
    <3>2. invoice'[p.inv].paid = p.seen + p.amt
      BY <1>1, <1>6 DEF Applied
    <3>3. PICK i \in Invoices : i = p.inv
      BY <1>1
    <3>4. invoice'[i].status # "PAID"
      BY <1>1, <2>2, <3>2, <3>3 DEF SerialInv, StatusExact
    <3>5. CASE invoice'[i].status = "OPEN"
      <4>1. ~NothingOwed'
        BY <1>1, <2>2, <3>2, <3>3, <3>5 DEF NothingOwed, Outstanding
      <4> QED BY <1>4, <4>1 DEF ServedInv, Revivable
    <3>6. CASE invoice'[i].status = "VOID"
      <4>1. ~Revivable'
        BY <3>6 DEF Revivable
      <4> QED BY <1>4, <4>1 DEF ServedInv
    <3>7. invoice'[i].status \in InvoiceStatus
      BY <1>1, <3>1, <3>3
    <3> QED BY <3>4, <3>5, <3>6, <3>7 DEF InvoiceStatus
  <2> QED BY <2>1, <2>2
<1> QED BY <1>5, <1>6 DEF RecordCommit, TransitionCommit

\* Every other round trip.
LEMMA ServedContinue ==
  ASSUME NEW w \in Workers, ServedInv(w), SerialInv(w)', Continue(w) \/ ReactivateFails(w)
  PROVE  ServedInv(w)'
<1>1. /\ proc[w] \in Proc /\ HandlerOK(proc[w]) /\ SerialInv(w) /\ proc \in [Workers -> Proc]
      /\ invoice \in [Invoices -> [status : InvoiceStatus, paid : Nat]]
      /\ faults \in 0 .. MaxFaults /\ MaxFaults \in Nat
  BY BoundAssumption DEF ServedInv, SerialInv, IInv, TypeOK, HandlersOK
<1>2. \A pc \in Phases : [Idle EXCEPT !.pc = pc].pc = pc
  BY DEF Idle
<1>3. CASE RecordRead(w)
  <2>1. Recording(proc[w].inv, proc[w].amt, proc[w].kind, proc[w].pid).pc # "suspend"
    BY DEF Recording, Idle
  <2> QED BY <1>3, <2>1, IdleOK, ServedQuiet DEF RecordRead, Finish, dbVars, At, Reviving
<1>4. CASE ManualDuplicateCheck(w)
  <2>1. [proc[w] EXCEPT !.pc = "recRead", !.kind = "PENDING"].pc # "suspend"
    BY <1>1 DEF Proc
  <2> QED BY <1>4, <2>1, IdleOK, ServedQuiet DEF ManualDuplicateCheck, Finish, dbVars, At, Reviving
<1>5. CASE SettleResolve(w)
  <2>1. [proc[w] EXCEPT !.pc = "recRead", !.kind = "SUCCEEDED"].pc # "suspend"
    BY <1>1 DEF Proc
  <2> QED BY <1>5, <2>1, IdleOK, ServedQuiet DEF SettleResolve, Finish, dbVars, At, Reviving
<1>6. CASE TransitionApprove(w)
  <2> DEFINE row == payment[proc[w].row]
             p == [proc[w] EXCEPT !.pc = "trCommit", !.inv = row.inv,
                                  !.amt = row.amt, !.seen = invoice[row.inv].paid]
  <2>1. p.pc # "suspend"
    BY <1>1 DEF Proc
  <2>2. Become(w, p) \/ Become(w, Idle)
    BY <1>6 DEF TransitionApprove, Finish
  <2> HIDE DEF p
  <2> QED BY <1>6, <2>1, <2>2, IdleOK, ServedQuiet DEF TransitionApprove, Claims, dbVars, At, Reviving
<1>7. CASE RecordDuplicate(w) \/ TransitionLost(w) \/ TransitionReject(w)
  BY <1>7, IdleOK, ServedQuiet
  DEF RecordDuplicate, TransitionLost, TransitionReject, Claims, Finish, dbVars, At, Reviving
<1>8. CASE VoidWrite(w)
  <2>1. proc'[w] = Idle /\ proc[w].inv \in Invoices
    BY <1>1, <1>8 DEF VoidWrite, Finish, Become, HandlerOK, HasInvoice, At
  <2>2. invoice'[proc[w].inv].status = "VOID"
    BY <1>1, <1>8, <2>1 DEF VoidWrite
  <2>3. ~Revivable'
    BY <2>1, <2>2 DEF Revivable
  <2> QED BY <2>1, <2>3, IdleOK DEF ServedInv, At
<1>9. CASE ReactivateBalance(w)
  <2>1. NothingOwed' = NothingOwed /\ UNCHANGED dbVars
    BY <1>9 DEF ReactivateBalance, dbVars, NothingOwed, Outstanding
  <2>2. proc'[w] = IF NothingOwed THEN [Idle EXCEPT !.pc = "reactRead"] ELSE Idle
    BY <1>1, <1>9 DEF ReactivateBalance, Finish, Become
  <2>3. CASE NothingOwed
    <3>1. proc'[w].pc = "reactRead"
      BY <2>2, <2>3 DEF Idle
    <3> QED BY <3>1 DEF ServedInv, Reviving, At
  <2>4. CASE ~NothingOwed
    BY <2>1, <2>2, <2>4, IdleOK DEF ServedInv, Revivable, At
  <2> QED BY <2>3, <2>4
<1>10. CASE ReactivateRead(w)
  <2>1. proc'[w] = IF sub = "EXPIRED" /\ renewable THEN [Idle EXCEPT !.pc = "reactWrite"] ELSE Idle
    BY <1>1, <1>10 DEF ReactivateRead, Finish, Become
  <2>2. CASE sub = "EXPIRED" /\ renewable
    <3>1. proc'[w].pc = "reactWrite"
      BY <2>1, <2>2 DEF Idle
    <3> QED BY <3>1 DEF ServedInv, Reviving, At
  <2>3. CASE ~(sub = "EXPIRED" /\ renewable)
    BY <1>10, <2>1, <2>3, IdleOK DEF ServedInv, Revivable, At, ReactivateRead, dbVars
  <2> QED BY <2>2, <2>3
<1>11. CASE ReactivateWrite(w) \/ CancelWrite(w)
  <2>1. proc'[w] = Idle /\ sub' # "EXPIRED"
    BY <1>1, <1>11 DEF ReactivateWrite, CancelWrite, Finish, Become
  <2> QED BY <2>1, IdleOK DEF ServedInv, Revivable, At
<1>12. CASE ReactivateFails(w)
  <2>1. proc'[w] = Idle /\ faults' # 0
    BY <1>1, <1>12 DEF ReactivateFails, Finish, Become
  <2> QED BY <2>1, IdleOK DEF ServedInv, Revivable, At
<1>13. CASE ListOverdue(w)
  <2>1. /\ proc[w].pc \notin Reviving /\ UNCHANGED <<invoice, sub, renewable, faults>>
    BY <1>13 DEF ListOverdue, At, Reviving, dbVars
  <2>2. ~Revivable'
    BY <2>1 DEF ServedInv, Revivable, NothingOwed, Outstanding
  <2>3. CASE Finish(w)
    BY <2>1, <2>3, IdleOK, ServedQuiet DEF Finish
  <2>4. CASE Become(w, [Idle EXCEPT !.pc = "suspend", !.todo = Overdue({"late"})])
    <3>1. proc'[w].todo = Overdue({"late"})
      BY <1>1, <2>4 DEF Become, Idle
    <3>2. \A i \in proc'[w].todo : invoice'[i].status = "OPEN"
      BY <2>1, <3>1 DEF Overdue
    <3> QED BY <2>2, <3>2 DEF ServedInv
  <2> QED BY <1>13, <2>3, <2>4 DEF ListOverdue
<1>14. ASSUME NEW i \in Invoices, MarkPastDue(w, i)
       PROVE  ServedInv(w)'
  <2> DEFINE p == [proc[w] EXCEPT !.todo = @ \ {i},
                                  !.pc = IF proc[w].todo = {i} THEN "overdue" ELSE @]
  <2>1. p.pc # "suspend"
    BY <1>1, <1>14 DEF MarkPastDue, At, Proc
  <2>2. proc'[w] = p
    BY <1>1, <1>14 DEF MarkPastDue, Walk, Become
  <2> HIDE DEF p
  <2>3. proc[w].pc \notin Reviving /\ UNCHANGED <<invoice, renewable, faults>>
    BY <1>14 DEF MarkPastDue, At, Reviving
  <2>4. sub' = sub \/ sub' = "PAST_DUE"
    BY <1>14 DEF MarkPastDue
  <2>5. ~Revivable'
    BY <2>3, <2>4 DEF ServedInv, Revivable, NothingOwed, Outstanding
  <2> QED BY <2>1, <2>2, <2>5 DEF ServedInv, At
<1>15. ASSUME NEW i \in Invoices, SuspendUnpaid(w, i)
       PROVE  ServedInv(w)'
  <2>1. i \in proc[w].todo /\ invoice[i].status = "OPEN" /\ UNCHANGED <<invoice, renewable, faults>>
    BY <1>15 DEF SuspendUnpaid, ServedInv
  <2>2. ~NothingOwed'
    BY <1>1, <2>1, OpenIsOwed DEF NothingOwed, Outstanding
  <2>3. proc'[w].todo = proc[w].todo \ {i}
    BY <1>1, <1>15 DEF SuspendUnpaid, Walk, Become, Proc
  <2>4. \A j \in proc'[w].todo : invoice'[j].status = "OPEN"
    BY <1>15, <2>1, <2>3 DEF SuspendUnpaid, ServedInv
  <2> QED BY <2>2, <2>4 DEF ServedInv, Revivable
<1> QED
  BY <1>3, <1>4, <1>5, <1>6, <1>7, <1>8, <1>9, <1>10, <1>11, <1>12, <1>13, <1>14, <1>15,
     ServedCommit DEF Continue

\* With one handler at a time, a suspended hotel that could be revived owes
\* something between requests, unless an invoice was voided or a reactivation
\* was lost.
THEOREM PaidIsServed ==
  ASSUME NEW w \in Workers, Workers = {w}
  PROVE  Spec => []ServedWhenPaid
<1>1. Init => ServedInv(w)
  BY ServedInit
<1>2. ServedInv(w) /\ [Next]_vars => ServedInv(w)'
  <2> SUFFICES ASSUME ServedInv(w), [Next]_vars PROVE ServedInv(w)'
    OBVIOUS
  <2>1. SerialInv(w)'
    BY SerialStep DEF ServedInv
  <2>2. CASE UNCHANGED vars \/ \E i \in Invoices : Age(i)
    <3>1. UNCHANGED <<invoice, sub, renewable, faults, proc>>
      BY <2>2 DEF vars, Age
    <3> QED BY <2>1, <3>1 DEF ServedInv, Revivable, NothingOwed, Outstanding, At
  <2> QED BY <2>1, <2>2, ServedArrive, ServedContinue DEF Next
<1>3. ServedInv(w) => ServedWhenPaid
  <2> SUFFICES ASSUME ServedInv(w) PROVE ServedWhenPaid
    OBVIOUS
  <2>1. faults \in Nat
    BY BoundAssumption DEF ServedInv, SerialInv, IInv, TypeOK
  <2> QED BY <2>1 DEF ServedInv, ServedWhenPaid, Revivable, Reviving, AllIdle, At
<1> QED BY <1>1, <1>2, <1>3, PTL DEF Spec
============================================================================
