----------------------------- MODULE GatewayProofs -----------------------------
(***************************************************************************)
(* Proofs about Gateway, for any total, any number of browser tabs, worker *)
(* slots and attempts, and any bounds: the invoice stays within its total, *)
(* a capture is booked once, and none is forgotten.                        *)
(***************************************************************************)
EXTENDS Gateway, TLAPS

\* The phases of a runner that works on a captured payment.
Paying == {"claim", "lookup", "resolve", "guard", "commit", "mark"}

Decided(p) == Recorded(p) \/ p \in refused

\* What a runner knows between two round trips.
RunnerOK(r) ==
    LET p == proc[r] IN
    /\ p.pc = "createOrder" => p.amt > 0
    /\ p.pc = "storeOrder" => p.pay \in DOMAIN orders
    /\ p.pc \in Paying => p.pay \in captured
    /\ p.pc \in {"guard", "commit"} => p.amt > 0
    /\ p.pc = "commit" => p.seen + p.amt <= Total
    /\ p.pc = "mark" => Decided(p.pay)
    /\ r \in Workers => p.pc \in Paying \cup {"idle"}

RunnersOK == \A r \in Runners : RunnerOK(r)

\* A job that may run again has attempts and a stall left; one that was given up
\* has not.
JobOK(j) ==
    /\ j.state \in {"none", "waiting", "active"} => j.made < Attempts /\ j.stalls <= MaxStalledCount
    /\ j.state = "dead" => j.made = Attempts
    /\ j.state = "logged" => j.made = Attempts \/ j.stalls > MaxStalledCount

JobsFit(jobs) ==
    /\ jobs \in [Payments -> Job]
    /\ \A p \in Payments : JobOK(jobs[p]) /\ (jobs[p].state # "none" => p \in captured)

\* Orders, deliveries and jobs refer to what exists.
RefersOK ==
    /\ bill.order # NoOrder => bill.order \in DOMAIN orders
    /\ \A p \in Payments : /\ intake[p] <= copies[p]
                           /\ intake[p] > 0 => p \in captured
    /\ JobsFit(job)

\* The inductive invariant.
GInv == TypeOK /\ RefersOK /\ RunnersOK /\ CreditedOnce /\ ProcessedIsDecided

-----------------------------------------------------------------------------
LEMMA IdleRunner == Idle \in Held /\ Idle.pc = "idle"
  BY GatewayAssumption DEF Idle, Held, Phases

\* Moving a runner to another phase, and giving it a payment and an amount.
LEMMA HeldMoves ==
  ASSUME NEW h \in Held, NEW pc \in Phases, NEW pay \in Payments, NEW amt \in 0 .. Total
  PROVE  /\ [h EXCEPT !.pc = pc] \in Held
         /\ [h EXCEPT !.pc = pc, !.pay = pay] \in Held
         /\ [h EXCEPT !.pc = pc, !.amt = amt] \in Held
         /\ [h EXCEPT !.pc = pc, !.seen = amt] \in Held
         /\ [h EXCEPT !.pc = pc, !.pay = pay, !.amt = amt] \in Held
BY DEF Held

\* What the queue may make of a job.
LEMMA JobMoves ==
  ASSUME NEW j \in Job, JobOK(j)
  PROVE  /\ j.state = "none" => /\ [j EXCEPT !.state = "waiting"] \in Job
                                /\ JobOK([j EXCEPT !.state = "waiting"])
         /\ j.state = "waiting" => \A w \in Workers :
              /\ [j EXCEPT !.state = "active", !.holder = w] \in Job
              /\ JobOK([j EXCEPT !.state = "active", !.holder = w])
         /\ Released(j, "completed") \in Job /\ JobOK(Released(j, "completed"))
<1>2. \A w \in Workers :
        /\ [j EXCEPT !.state = "active", !.holder = w] \in Job
        /\ [j EXCEPT !.state = "active", !.holder = w].state = "active"
        /\ [j EXCEPT !.state = "active", !.holder = w].made = j.made
        /\ [j EXCEPT !.state = "active", !.holder = w].stalls = j.stalls
  BY DEF Job, JobState
<1>3. PICK q : q = [j EXCEPT !.state = "waiting"]
  OBVIOUS
<1>4. q \in Job /\ q.state = "waiting" /\ q.made = j.made /\ q.stalls = j.stalls
  BY <1>3 DEF Job, JobState
<1>5. PICK c : c = Released(j, "completed")
  OBVIOUS
<1>6. c \in Job /\ c.state = "completed"
  BY <1>5 DEF Job, JobState, Released
<1>7. j.state = "none" => JobOK(q)
  BY <1>4 DEF JobOK
<1>8. JobOK(c)
  BY <1>6 DEF JobOK
<1>9. j.state = "waiting" => \A w \in Workers : JobOK([j EXCEPT !.state = "active", !.holder = w])
  BY <1>2 DEF JobOK
<1> QED BY <1>2, <1>3, <1>4, <1>5, <1>6, <1>7, <1>8, <1>9

\* An attempt that failed, or a lock that was lost.
LEMMA JobEnds ==
  ASSUME NEW j \in Job, JobOK(j), j.state = "active"
  PROVE  /\ \A last \in {"dead", "logged"} :
              /\ Failed(j, last) \in Job /\ JobOK(Failed(j, last))
              /\ Failed(j, last).state \in {"waiting", last}
         /\ Stalled(j) \in Job /\ JobOK(Stalled(j)) /\ Stalled(j).state \in {"waiting", "logged"}
<1>1. /\ j.made \in 0 .. Attempts /\ j.made < Attempts /\ j.stalls \in 0 .. 2 /\ j.stalls <= 1
      /\ Attempts \in Nat
  BY GatewayAssumption DEF Job, JobOK, MaxStalledCount
<1>2. ASSUME NEW last \in {"dead", "logged"}
      PROVE  /\ Failed(j, last) \in Job /\ JobOK(Failed(j, last))
             /\ Failed(j, last).state \in {"waiting", last}
  <2>1. PICK state : state = IF j.made + 1 < Attempts THEN "waiting" ELSE last
    OBVIOUS
  <2>2. PICK q : q = [Released(j, state) EXCEPT !.made = @ + 1]
    OBVIOUS
  <2>3. /\ q \in Job /\ q.state = state /\ q.made = j.made + 1 /\ q.stalls = j.stalls
    <3>1. state \in JobState /\ j.made + 1 \in 0 .. Attempts
      BY <1>1, <2>1 DEF JobState
    <3>2. PICK r : r = Released(j, state)
      OBVIOUS
    <3>3. r \in Job /\ r.state = state /\ r.made = j.made /\ r.stalls = j.stalls
      BY <3>1, <3>2 DEF Released, Job
    <3>4. PICK n \in 0 .. Attempts : n = r.made + 1
      BY <3>1, <3>3
    <3>5. q = [r EXCEPT !.made = n]
      BY <2>2, <3>2, <3>4
    <3> QED BY <3>3, <3>4, <3>5 DEF Job
  <2>4. q = Failed(j, last)
    BY <2>1, <2>2 DEF Failed
  <2> QED BY <1>1, <2>1, <2>3, <2>4 DEF JobOK, MaxStalledCount
<1>3. Stalled(j) \in Job /\ JobOK(Stalled(j)) /\ Stalled(j).state \in {"waiting", "logged"}
  <2>1. PICK state : state = IF j.stalls < 1 THEN "waiting" ELSE "logged"
    OBVIOUS
  <2>2. PICK q : q = [Released(j, state) EXCEPT !.stalls = @ + 1]
    OBVIOUS
  <2>3. /\ q \in Job /\ q.state = state /\ q.made = j.made /\ q.stalls = j.stalls + 1
    <3>1. state \in JobState /\ j.stalls + 1 \in 0 .. MaxStalledCount + 1
      BY <1>1, <2>1 DEF JobState, MaxStalledCount
    <3>2. PICK r : r = Released(j, state)
      OBVIOUS
    <3>3. r \in Job /\ r.state = state /\ r.made = j.made /\ r.stalls = j.stalls
      BY <3>1, <3>2 DEF Released, Job
    <3>4. PICK n \in 0 .. MaxStalledCount + 1 : n = r.stalls + 1
      BY <3>1, <3>3
    <3>5. q = [r EXCEPT !.stalls = n]
      BY <2>2, <3>2, <3>4
    <3> QED BY <3>3, <3>4, <3>5 DEF Job
  <2>4. q = Stalled(j)
    BY <2>1, <2>2 DEF Stalled, MaxStalledCount
  <2> QED BY <1>1, <2>1, <2>3, <2>4 DEF JobOK, MaxStalledCount
<1> QED BY <1>2, <1>3

\* Crediting an amount that fits the balance read keeps the invoice typed, in
\* particular within its total.
LEMMA CreditedOK ==
  ASSUME TypeOK, NEW seen \in Nat, NEW amt \in Nat, seen + amt <= Total
  PROVE  Credited(seen, amt) \in Bill /\ Credited(seen, amt).order = bill.order
<1> DEFINE st == IF seen + amt >= Total THEN "PAID" ELSE bill.status
<1>1. bill \in Bill /\ st \in {"OPEN", "PAID", "VOID"} /\ seen + amt \in 0 .. Total
  BY GatewayAssumption DEF TypeOK, Bill
<1>2. Credited(seen, amt) = [bill EXCEPT !.paid = seen + amt, !.status = st]
  BY <1>1 DEF Credited, Bill
<1> HIDE DEF st
<1> QED BY <1>1, <1>2 DEF Bill

\* Replacing one runner's record changes that record and no other.
LEMMA BecomeChanges ==
  ASSUME TypeOK, NEW r \in Runners, NEW p \in Held, Become(r, p)
  PROVE  /\ proc' \in [Runners -> Held]
         /\ proc'[r] = p
         /\ \A s \in Runners : s # r => proc'[s] = proc[s]
  BY DEF TypeOK, Become, Held

\* What the other runners know stays true while orders, captures, bookings
\* and refusals only grow.
LEMMA OthersKnow ==
  ASSUME RunnersOK, NEW r, RunnerOK(r)',
         \A s \in Runners : s # r => proc'[s] = proc[s],
         DOMAIN orders \subseteq (DOMAIN orders)', captured \subseteq captured',
         \A p : Decided(p) => Decided(p)'
  PROVE  RunnersOK'
<1> SUFFICES ASSUME NEW s \in Runners, s # r PROVE RunnerOK(s)'
  BY DEF RunnersOK
<1>1. proc'[s] = proc[s] /\ RunnerOK(s)
  BY DEF RunnersOK
<1>2. proc[s].pc = "mark" => Decided(proc[s].pay)'
  BY <1>1 DEF RunnerOK
<1> QED BY <1>1, <1>2 DEF RunnerOK, Decided, Recorded

\* The initial states satisfy the inductive invariant.
LEMMA InitGInv == Init => GInv
<1> SUFFICES ASSUME Init PROVE GInv
  OBVIOUS
<1>1. TypeOK
  <2>1. bill \in Bill /\ job \in [Payments -> Job]
    BY GatewayAssumption DEF Init, Bill, Job, JobState, Jobless, MaxStalledCount
  <2>2. /\ orders \in Seq(1 .. Total) /\ Len(orders) <= MaxOrders
        /\ rows \in Seq([pay : Payments, amt : 1 .. Total])
        /\ captured \subseteq shown /\ shown \subseteq DOMAIN orders
        /\ refused \subseteq captured /\ lost \subseteq captured
    BY GatewayAssumption DEF Init
  <2>3. /\ copies \in [Payments -> 0 .. MaxCopies]
        /\ intake \in [Payments -> 0 .. MaxCopies]
        /\ event \in [Payments -> EventStatus] /\ faults \in 0 .. MaxFaults
    BY GatewayAssumption DEF Init, EventStatus
  <2>4. proc \in [Runners -> Held]
    BY IdleRunner DEF Init
  <2> QED BY <2>1, <2>2, <2>3, <2>4 DEF TypeOK
<1>2. RefersOK /\ CreditedOnce /\ ProcessedIsDecided
  <2>1. JobsFit(job)
    BY <1>1, GatewayAssumption DEF TypeOK, Init, JobsFit, JobOK, Jobless, MaxStalledCount
  <2> QED BY <2>1 DEF Init, RefersOK, CreditedOnce, ProcessedIsDecided
<1>3. RunnersOK
  BY IdleRunner DEF Init, RunnersOK, RunnerOK, Paying
<1> QED BY <1>1, <1>2, <1>3 DEF GInv

-----------------------------------------------------------------------------
\* A step that touches neither events nor bookings nor refusals keeps what was
\* decided.
LEMMA BooksKept ==
  ASSUME GInv, UNCHANGED <<event, rows, refused>>
  PROVE  CreditedOnce' /\ ProcessedIsDecided' /\ \A p : Decided(p) => Decided(p)'
BY DEF GInv, CreditedOnce, ProcessedIsDecided, Decided, Recorded

\* The customer, the gateway and the other ways to pay disturb no runner.
LEMMA OutsideGInv ==
  ASSUME GInv,
         \/ \E p \in Payments : Capture(p)
         \/ \E amt \in 1 .. Total : PaidOtherwise(amt)
         \/ Void
  PROVE  GInv'
<1>1. /\ UNCHANGED <<event, rows, refused, proc, orders, job, intake, copies>>
      /\ captured \subseteq captured' /\ bill'.order = bill.order
  BY DEF GInv, TypeOK, Bill, Capture, PaidOtherwise, Void, Credited, external, queue
<1>2. CreditedOnce' /\ ProcessedIsDecided' /\ \A p : Decided(p) => Decided(p)'
  BY <1>1, BooksKept
<1>3. RunnersOK'
  BY <1>1, <1>2 DEF GInv, RunnersOK, RunnerOK
<1>4. RefersOK'
  BY <1>1 DEF GInv, RefersOK, JobsFit
<1>5. TypeOK'
  <2>1. CASE \E p \in Payments : Capture(p)
    BY <2>1 DEF GInv, TypeOK, Capture, queue
  <2>2. CASE \E amt \in 1 .. Total : PaidOtherwise(amt)
    <3>1. PICK amt \in 1 .. Total : PaidOtherwise(amt)
      BY <2>2
    <3>2. bill.paid \in Nat /\ amt \in Nat /\ bill.paid + amt <= Total
      BY <3>1, GatewayAssumption DEF GInv, TypeOK, Bill, PaidOtherwise, Outstanding
    <3>3. bill' \in Bill
      BY <3>1, <3>2, CreditedOK DEF GInv, PaidOtherwise
    <3> QED BY <3>1, <3>3 DEF GInv, TypeOK, PaidOtherwise, external, queue
  <2>3. CASE Void
    BY <2>3 DEF GInv, TypeOK, Bill, Void, external, queue
  <2> QED BY <2>1, <2>2, <2>3
<1> QED BY <1>2, <1>3, <1>4, <1>5 DEF GInv

\* The intake of a webhook, whether it succeeds or fails after its 200.
LEMMA IntakeGInv ==
  ASSUME GInv, NEW p \in Payments,
         Deliver(p) \/ RecordEvent(p) \/ Enqueue(p) \/ IntakeFails(p)
  PROVE  GInv'
<1>1. UNCHANGED <<bill, orders, shown, captured, rows, refused, proc>>
  BY DEF Deliver, RecordEvent, Enqueue, IntakeFails, external
<1>2. CreditedOnce' /\ \A q : Decided(q) => Decided(q)'
  BY <1>1 DEF GInv, CreditedOnce, Decided, Recorded
<1>3. RunnersOK'
  BY <1>1, <1>2 DEF GInv, RunnersOK, RunnerOK
<1>4. ProcessedIsDecided'
  BY <1>1, <1>2 DEF GInv, TypeOK, ProcessedIsDecided, Decided, Recorded,
     Deliver, RecordEvent, Enqueue, IntakeFails
<1>5. CASE Deliver(p)
  <2>1. /\ copies' \in [Payments -> 0 .. MaxCopies] /\ intake' \in [Payments -> 0 .. MaxCopies]
        /\ RefersOK'
    <3>1. p \in captured /\ copies[p] < MaxCopies /\ UNCHANGED job
          /\ copies' = [copies EXCEPT ![p] = @ + 1] /\ intake' = [intake EXCEPT ![p] = @ + 1]
      BY <1>5 DEF Deliver
    <3>2. /\ copies \in [Payments -> 0 .. MaxCopies] /\ intake \in [Payments -> 0 .. MaxCopies]
          /\ MaxCopies \in Nat /\ intake[p] <= copies[p]
      BY GatewayAssumption DEF GInv, TypeOK, RefersOK
    <3>3. copies[p] + 1 \in 0 .. MaxCopies /\ intake[p] + 1 \in 0 .. MaxCopies
      BY <3>1, <3>2
    <3>4. copies' \in [Payments -> 0 .. MaxCopies] /\ intake' \in [Payments -> 0 .. MaxCopies]
      BY <3>1, <3>2, <3>3
    <3>5. \A q \in Payments : /\ intake'[q] <= copies'[q] /\ (intake'[q] > 0 => q \in captured)
      BY <3>1, <3>2 DEF GInv, RefersOK
    <3> QED BY <1>1, <3>1, <3>4, <3>5 DEF GInv, RefersOK, JobsFit
  <2>2. UNCHANGED <<event, job, lost, faults>>
    BY <1>5 DEF Deliver
  <2>3. TypeOK'
    BY <1>1, <2>1, <2>2 DEF GInv, TypeOK
  <2> QED BY <1>2, <1>3, <1>4, <2>1, <2>3 DEF GInv
<1>6. CASE RecordEvent(p)
  BY <1>1, <1>2, <1>3, <1>4, <1>6 DEF GInv, TypeOK, RefersOK, JobsFit, RecordEvent, external, EventStatus
<1>7. CASE Enqueue(p)
  <2>2. intake' \in [Payments -> 0 .. MaxCopies] /\ RefersOK'
    <3>1. /\ intake[p] > 0 /\ intake' = [intake EXCEPT ![p] = @ - 1] /\ UNCHANGED copies
          /\ job' = IF job[p].state = "none" THEN [job EXCEPT ![p].state = "waiting"] ELSE job
      BY <1>7 DEF Enqueue, external
    <3>2. /\ intake \in [Payments -> 0 .. MaxCopies] /\ MaxCopies \in Nat /\ job \in [Payments -> Job]
          /\ copies \in [Payments -> 0 .. MaxCopies] /\ p \in captured
      BY <3>1, GatewayAssumption DEF GInv, TypeOK, RefersOK
    <3>3. intake' \in [Payments -> 0 .. MaxCopies]
      BY <3>1, <3>2
    <3>4. \A q \in Payments : /\ intake'[q] <= copies[q] /\ (intake'[q] > 0 => q \in captured)
      BY <3>1, <3>2 DEF GInv, RefersOK
    <3>5. JobsFit(job')
      <4>1. JobsFit(job) /\ (job[p].state # "none" => UNCHANGED job)
        BY <3>1 DEF GInv, RefersOK
      <4>2. PICK j : j = [job[p] EXCEPT !.state = "waiting"]
        OBVIOUS
      <4>3. job[p].state = "none" => j \in Job /\ JobOK(j) /\ job' = [job EXCEPT ![p] = j]
        BY <3>1, <3>2, <4>1, <4>2, JobMoves DEF JobsFit
      <4> QED BY <3>2, <4>1, <4>3 DEF JobsFit
    <3> QED BY <1>1, <3>1, <3>3, <3>4, <3>5 DEF GInv, RefersOK, JobsFit
  <2>3. UNCHANGED <<copies, event, lost, faults>>
    BY <1>7 DEF Enqueue, external
  <2>4. TypeOK'
    BY <1>1, <2>2, <2>3 DEF GInv, TypeOK, RefersOK, JobsFit
  <2> QED BY <1>2, <1>3, <1>4, <2>2, <2>4 DEF GInv
<1>8. CASE IntakeFails(p)
  <2>1. faults' \in 0 .. MaxFaults /\ intake' \in [Payments -> 0 .. MaxCopies]
    BY <1>8, GatewayAssumption DEF GInv, TypeOK, IntakeFails
  <2>2. lost' \subseteq captured /\ RefersOK'
    BY <1>8, <1>1 DEF GInv, TypeOK, RefersOK, JobsFit, IntakeFails, external
  <2> QED BY <1>1, <1>2, <1>3, <1>4, <1>8, <2>1, <2>2 DEF GInv, TypeOK, IntakeFails, external
<1> QED BY <1>5, <1>6, <1>7, <1>8

-----------------------------------------------------------------------------
\* Opening an order.
LEMMA OrderGInv ==
  ASSUME GInv, NEW t \in Tabs, OpenOrder(t) \/ CreateOrder(t) \/ StoreOrder(t)
  PROVE  GInv'
<1>1. t \in Runners /\ t \notin Workers /\ TypeOK
  BY GatewayAssumption DEF Runners, GInv
<1>2. /\ UNCHANGED <<captured, copies, queue, rows, refused, faults>>
      /\ DOMAIN orders \subseteq (DOMAIN orders)'
  BY DEF GInv, TypeOK, OpenOrder, CreateOrder, StoreOrder
<1>3. CreditedOnce' /\ ProcessedIsDecided' /\ \A p : Decided(p) => Decided(p)'
  BY <1>2, BooksKept DEF queue
<1>4. CASE OpenOrder(t)
  <2>1. CASE bill.order # NoOrder
    BY <1>1, <1>2, <1>3, <1>4, <2>1 DEF GInv, TypeOK, RefersOK, JobsFit, RunnersOK, RunnerOK, OpenOrder, queue
  <2>2. CASE bill.order = NoOrder
    <3> DEFINE r == [Idle EXCEPT !.pc = "createOrder", !.amt = Outstanding]
    <3>1. r \in Held /\ r.pc = "createOrder" /\ r.amt > 0 /\ Become(t, r)
      <4>1. Outstanding \in 1 .. Total /\ Become(t, r)
        BY <1>1, <1>4, <2>2, GatewayAssumption DEF OpenOrder, TypeOK, Bill, Outstanding
      <4>2. "createOrder" \in Phases /\ Outstanding \in 0 .. Total /\ Outstanding > 0
        BY <4>1, GatewayAssumption DEF Phases
      <4> QED BY <4>1, <4>2, IdleRunner DEF Held
    <3> HIDE DEF r
    <3>2. /\ proc' \in [Runners -> Held] /\ proc'[t] = r
          /\ \A s \in Runners : s # t => proc'[s] = proc[s]
      BY <1>1, <3>1, BecomeChanges
    <3>3. RunnersOK'
      <4>1. RunnerOK(t)'
        BY <1>1, <3>1, <3>2 DEF RunnerOK, Paying
      <4> QED BY <1>2, <1>3, <3>2, <4>1, OthersKnow DEF GInv
    <3> QED BY <1>2, <1>3, <1>4, <2>2, <3>2, <3>3 DEF GInv, TypeOK, RefersOK, JobsFit, OpenOrder, queue, Held
  <2> QED BY <2>1, <2>2
<1>5. CASE CreateOrder(t)
  <2> DEFINE r == [proc[t] EXCEPT !.pc = "storeOrder", !.pay = Len(orders')]
  <2>1. /\ orders' \in Seq(1 .. Total) /\ Len(orders') \in 1 .. MaxOrders
        /\ Len(orders') \in (DOMAIN orders)'
    <3>1. /\ proc[t].amt \in 1 .. Total /\ orders' = Append(orders, proc[t].amt)
          /\ Len(orders) < MaxOrders /\ orders \in Seq(1 .. Total)
      BY <1>1, <1>5, GatewayAssumption DEF GInv, RunnersOK, RunnerOK, TypeOK, CreateOrder, At, Held
    <3> QED BY <3>1, GatewayAssumption
  <2>2. r \in Held /\ r.pc = "storeOrder" /\ r.pay = Len(orders') /\ Become(t, r)
    BY <1>1, <1>5, <2>1 DEF TypeOK, CreateOrder, Held, Phases, Payments, Orders
  <2> HIDE DEF r
  <2>3. /\ proc' \in [Runners -> Held] /\ proc'[t] = r
        /\ \A s \in Runners : s # t => proc'[s] = proc[s]
    BY <1>1, <2>2, BecomeChanges
  <2>4. RunnersOK'
    <3>1. RunnerOK(t)'
      BY <1>1, <2>1, <2>2, <2>3 DEF RunnerOK, Paying
    <3> QED BY <1>2, <1>3, <2>3, <3>1, OthersKnow DEF GInv
  <2>5. RefersOK'
    BY <1>2, <1>5 DEF GInv, RefersOK, JobsFit, CreateOrder, queue
  <2>6. TypeOK'
    BY <1>1, <1>2, <1>5, <2>1, <2>3 DEF TypeOK, CreateOrder, queue, Held
  <2> QED BY <1>3, <2>4, <2>5, <2>6 DEF GInv
<1>6. CASE StoreOrder(t)
  <2>1. Become(t, Idle) /\ proc[t].pay \in DOMAIN orders /\ proc[t].pay \in Orders
    <3>1. proc[t].pay \in DOMAIN orders /\ Become(t, Idle)
      BY <1>1, <1>6 DEF GInv, RunnersOK, RunnerOK, StoreOrder, Finish, At
    <3> QED BY <3>1, <1>1, GatewayAssumption DEF TypeOK, Orders
  <2>2. /\ proc' \in [Runners -> Held] /\ proc'[t] = Idle
        /\ \A s \in Runners : s # t => proc'[s] = proc[s]
    BY <1>1, <2>1, IdleRunner, BecomeChanges
  <2>3. RunnersOK'
    <3>1. RunnerOK(t)'
      BY <2>2, IdleRunner DEF RunnerOK, Paying
    <3> QED BY <1>2, <1>3, <2>2, <3>1, OthersKnow DEF GInv
  <2>4. RefersOK'
    BY <1>1, <1>2, <1>6, <2>1 DEF GInv, RefersOK, JobsFit, StoreOrder, queue, TypeOK
  <2>5. TypeOK'
    BY <1>1, <1>2, <1>6, <2>1, <2>2 DEF TypeOK, Bill, StoreOrder, queue
  <2> QED BY <1>3, <2>3, <2>4, <2>5 DEF GInv
<1> QED BY <1>4, <1>5, <1>6

-----------------------------------------------------------------------------
\* A step of one runner keeps the invariant when it leaves what is outside
\* alone and what it changes keeps its type and what was decided.
LEMMA RunnerGInv ==
  ASSUME GInv, NEW r \in Runners, RunnerOK(r)', proc' \in [Runners -> Held],
         \A s \in Runners : s # r => proc'[s] = proc[s],
         UNCHANGED <<external, intake, lost>>,
         bill' \in Bill, bill'.order = bill.order,
         JobsFit(job'),
         event' \in [Payments -> EventStatus],
         rows' \in Seq([pay : Payments, amt : 1 .. Total]),
         refused' \subseteq captured, faults' \in 0 .. MaxFaults,
         CreditedOnce', ProcessedIsDecided', \A p : Decided(p) => Decided(p)'
  PROVE  GInv'
<1>1. UNCHANGED <<orders, shown, captured, copies, intake, lost>>
  BY DEF external
<1>2. TypeOK'
  BY <1>1 DEF GInv, TypeOK, JobsFit
<1>3. RefersOK'
  BY <1>1 DEF GInv, RefersOK, JobsFit
<1>4. RunnersOK'
  BY <1>1, OthersKnow DEF GInv
<1> QED BY <1>2, <1>3, <1>4 DEF GInv

\* The same for a step that touches no bookings, refusals, events or invoice.
LEMMA QuietRunnerGInv ==
  ASSUME GInv, NEW r \in Runners, NEW p \in Held, Become(r, p), RunnerOK(r)',
         UNCHANGED <<bill, external, intake, event, lost, rows, refused>>,
         faults' \in 0 .. MaxFaults,
         JobsFit(job')
  PROVE  GInv'
<1>1. TypeOK
  BY DEF GInv
<1>2. /\ proc' \in [Runners -> Held]
      /\ \A s \in Runners : s # r => proc'[s] = proc[s]
  BY <1>1, BecomeChanges
<1>3. CreditedOnce' /\ ProcessedIsDecided' /\ \A q : Decided(q) => Decided(q)'
  BY BooksKept
<1>4. /\ bill' \in Bill /\ bill'.order = bill.order
      /\ event' \in [Payments -> EventStatus]
      /\ rows' \in Seq([pay : Payments, amt : 1 .. Total])
      /\ refused' \subseteq captured
  BY <1>1 DEF TypeOK
<1> QED BY <1>2, <1>3, <1>4, RunnerGInv

\* A runner at work on a payment: the payment is captured and has its order.
LEMMA PayingRunner ==
  ASSUME GInv, NEW r \in Runners, proc[r].pc \in Paying
  PROVE  /\ proc[r] \in Held /\ proc[r].pay \in captured /\ proc[r].pay \in Payments
         /\ proc[r].pay \in DOMAIN orders
<1>1. proc[r].pay \in captured
  BY DEF GInv, RunnersOK, RunnerOK
<1>2. captured \subseteq DOMAIN orders /\ DOMAIN orders = 1 .. Len(orders)
      /\ Len(orders) \in Nat /\ Len(orders) <= MaxOrders
  BY DEF GInv, TypeOK
<1>3. DOMAIN orders \subseteq Payments
  BY <1>2, GatewayAssumption DEF Payments, Orders
<1> QED BY <1>1, <1>2, <1>3 DEF GInv, TypeOK

\* A worker's answer to the queue, accepted or ignored, concerns a job that is
\* there.
LEMMA SettleChanges ==
  ASSUME GInv, NEW w \in Workers, proc[w].pc \in Paying, NEW j, Settle(w, j),
         Mine(w) => j \in Job /\ JobOK(j)
  PROVE  JobsFit(job')
<1>1. PICK p : p = proc[w].pay
  OBVIOUS
<1>2. p \in captured /\ p \in Payments
  BY <1>1, PayingRunner DEF Runners
<1>3. JobsFit(job)
  BY DEF GInv, RefersOK
<1>4. CASE Mine(w)
  <2>1. job' = [job EXCEPT ![p] = j]
    BY <1>1, <1>4 DEF Settle
  <2> QED BY <1>2, <1>3, <1>4, <2>1 DEF JobsFit
<1>5. CASE ~Mine(w)
  BY <1>3, <1>5 DEF Settle, JobsFit
<1> QED BY <1>4, <1>5

\* A job in hand may be run again and may be completed, fail or stall.
LEMMA JobInHand ==
  ASSUME GInv, NEW w \in Workers, proc[w].pc \in Paying, Mine(w), NEW j, j = job[proc[w].pay]
  PROVE  j \in Job /\ JobOK(j) /\ j.state = "active"
<1>1. proc[w].pay \in Payments
  BY PayingRunner DEF Runners
<1> QED BY <1>1 DEF Mine, GInv, RefersOK, JobsFit

LEMMA CompleteFits ==
  ASSUME GInv, NEW w \in Workers, proc[w].pc \in Paying, Complete(w)
  PROVE  JobsFit(job')
<1>1. PICK j : j = job[proc[w].pay]
  OBVIOUS
<1>2. Mine(w) => Released(j, "completed") \in Job /\ JobOK(Released(j, "completed"))
  BY <1>1, JobInHand, JobMoves
<1> QED BY <1>1, <1>2, SettleChanges DEF Complete

\* A step that leaves the queue alone keeps its part of the invariant.
LEMMA SameJobs ==
  ASSUME GInv, UNCHANGED job
  PROVE  JobsFit(job')
BY DEF GInv, RefersOK, JobsFit

\* A runner that goes idle knows nothing.
LEMMA IdleOK ==
  ASSUME TypeOK, NEW r \in Runners, Finish(r)
  PROVE  Become(r, Idle) /\ Idle \in Held /\ RunnerOK(r)'
  BY IdleRunner, BecomeChanges DEF Finish, RunnerOK, Paying

-----------------------------------------------------------------------------
\* A phase entered on the payment in hand, with what that phase must know.
LEMMA GotoOK ==
  ASSUME GInv, NEW r \in Runners, proc[r].pc \in Paying, NEW p, p = proc[r].pay,
         NEW pc \in {"lookup", "resolve", "guard", "mark"}, Goto(r, pc),
         captured \subseteq captured',
         pc = "guard" => proc[r].amt > 0,
         pc = "mark" => Decided(p)'
  PROVE  /\ proc' \in [Runners -> Held] /\ \A s \in Runners : s # r => proc'[s] = proc[s]
         /\ RunnerOK(r)'
<1> DEFINE h == [proc[r] EXCEPT !.pc = pc]
<1>1. TypeOK /\ proc[r] \in Held /\ proc[r].pay \in captured
  BY PayingRunner DEF GInv
<1>2. pc \in Phases /\ pc \in Paying
  BY DEF Phases, Paying
<1>3. h \in Held /\ h.pc = pc /\ h.pay = proc[r].pay /\ h.amt = proc[r].amt
  BY <1>1, <1>2 DEF Held
<1>4. Become(r, h)
  BY DEF Goto
<1> HIDE DEF h
<1>5. /\ proc' \in [Runners -> Held] /\ proc'[r] = h
      /\ \A s \in Runners : s # r => proc'[s] = proc[s]
  BY <1>1, <1>3, <1>4, BecomeChanges
<1>6. RunnerOK(r)'
  BY <1>1, <1>2, <1>3, <1>5 DEF RunnerOK
<1> QED BY <1>5, <1>6

\* The answer of a settlement: a worker marks its event, a callback is done.
LEMMA AnswerOK ==
  ASSUME GInv, NEW r \in Runners, proc[r].pc \in Paying, NEW p, p = proc[r].pay,
         Answer(r), captured \subseteq captured',
         r \in Workers => Decided(p)'
  PROVE  /\ proc' \in [Runners -> Held] /\ \A s \in Runners : s # r => proc'[s] = proc[s]
         /\ RunnerOK(r)'
<1>1. CASE r \in Workers
  BY <1>1, GotoOK DEF Answer
<1>2. CASE r \notin Workers
  <2>1. Finish(r) /\ TypeOK
    BY <1>2 DEF Answer, GInv
  <2> QED BY <2>1, IdleOK, BecomeChanges
<1> QED BY <1>1, <1>2

\* The steps of a settlement, whoever runs it.
LEMMA StepGInv ==
  ASSUME GInv, NEW r \in Runners,
         SettleLookup(r) \/ SettleResolve(r) \/ SettleGuard(r) \/ SettleCommit(r)
  PROVE  GInv'
<1>1. /\ proc[r].pc \in Paying /\ TypeOK
      /\ UNCHANGED <<external, queue, faults>> /\ captured' = captured
  BY DEF GInv, SettleLookup, SettleResolve, SettleGuard, SettleCommit, At, Paying, external
<1>2. /\ proc[r] \in Held /\ proc[r].pay \in captured /\ proc[r].pay \in Payments
  BY <1>1, PayingRunner
<1>3. /\ JobsFit(job')
      /\ event' \in [Payments -> EventStatus] /\ faults' \in 0 .. MaxFaults
      /\ UNCHANGED <<external, intake, lost, event>>
  BY <1>1, SameJobs DEF queue, TypeOK
<1>0. PICK p : p = proc[r].pay
  OBVIOUS
<1>4. CASE SettleLookup(r)
  <2>1. /\ UNCHANGED <<bill, rows, refused>>
        /\ IF Recorded(proc[r].pay) THEN Answer(r) ELSE Goto(r, "resolve")
    BY <1>4 DEF SettleLookup
  <2>2. CreditedOnce' /\ ProcessedIsDecided' /\ \A q : Decided(q) => Decided(q)'
    BY <1>3, <2>1, BooksKept
  <2>3. /\ proc' \in [Runners -> Held] /\ \A s \in Runners : s # r => proc'[s] = proc[s]
        /\ RunnerOK(r)'
    <3>1. CASE Recorded(proc[r].pay)
      <4>1. Decided(p)'
        BY <1>0, <2>1, <3>1 DEF Decided, Recorded
      <4> QED BY <1>1, <1>0, <2>1, <3>1, <4>1, AnswerOK
    <3>2. CASE ~Recorded(proc[r].pay)
      BY <1>1, <2>1, <3>2, GotoOK
    <3> QED BY <3>1, <3>2
  <2> QED BY <1>1, <1>3, <2>1, <2>2, <2>3, RunnerGInv DEF TypeOK
<1>5. CASE SettleResolve(r)
  <2>1. UNCHANGED <<bill, rows>> /\ refused \subseteq refused' /\ refused' \subseteq captured
    BY <1>1, <1>2, <1>5 DEF SettleResolve, TypeOK
  <2>2. CreditedOnce' /\ ProcessedIsDecided' /\ \A q : Decided(q) => Decided(q)'
    BY <1>3, <2>1 DEF GInv, CreditedOnce, ProcessedIsDecided, Decided, Recorded
  <2>3. /\ proc' \in [Runners -> Held] /\ \A s \in Runners : s # r => proc'[s] = proc[s]
        /\ RunnerOK(r)'
    <3>1. CASE Goto(r, "guard") /\ proc[r].amt > 0
      BY <1>1, <3>1, GotoOK
    <3>2. CASE Answer(r) /\ (r \in Workers => refused' = refused \cup {proc[r].pay})
      <4>1. r \in Workers => Decided(p)'
        BY <1>0, <3>2 DEF Decided
      <4> QED BY <1>1, <1>0, <3>2, <4>1, AnswerOK
    <3> QED BY <1>5, <3>1, <3>2 DEF SettleResolve
  <2> QED BY <1>1, <1>3, <2>1, <2>2, <2>3, RunnerGInv DEF TypeOK
<1>6. CASE SettleGuard(r)
  <2> DEFINE h == [proc[r] EXCEPT !.pc = "commit", !.seen = bill.paid]
  <2>1. /\ UNCHANGED <<bill, external, intake, event, lost, rows, refused>> /\ Become(r, h)
    BY <1>3, <1>6 DEF SettleGuard
  <2>2. /\ bill.paid \in 0 .. Total /\ proc[r].amt \in 0 .. Total /\ proc[r].amt > 0
        /\ bill.paid + proc[r].amt <= Total
    <3>1. proc[r].amt > 0 /\ proc[r].amt \in 0 .. Total /\ bill.paid \in 0 .. Total
      BY <1>1, <1>2, <1>6 DEF GInv, RunnersOK, RunnerOK, SettleGuard, At, TypeOK, Bill, Held
    <3>2. proc[r].amt <= Outstanding
      BY <1>6 DEF SettleGuard
    <3> QED BY <3>1, <3>2, GatewayAssumption DEF Outstanding
  <2>3. /\ h \in Held /\ h.pc = "commit" /\ h.pay = proc[r].pay /\ h.amt = proc[r].amt
        /\ h.seen = bill.paid
    BY <1>2, <2>2 DEF Held, Phases
  <2> HIDE DEF h
  <2>4. RunnerOK(r)'
    <3>1. proc'[r] = h
      BY <1>1, <2>1, <2>3, BecomeChanges
    <3> QED BY <1>1, <1>2, <2>2, <2>3, <3>1 DEF RunnerOK, Paying
  <2> QED BY <1>3, <2>1, <2>3, <2>4, QuietRunnerGInv
<1>7. CASE SettleCommit(r)
  <2> DEFINE row == [pay |-> proc[r].pay, amt |-> proc[r].amt]
  <2>1. Answer(r) /\ UNCHANGED refused /\ proc[r].pc = "commit"
    BY <1>7 DEF SettleCommit, At
  <2>2. /\ proc[r].seen \in Nat /\ proc[r].amt \in 1 .. Total
        /\ proc[r].seen + proc[r].amt <= Total
    BY <1>2, <2>1, GatewayAssumption DEF GInv, RunnersOK, RunnerOK, Held
  <2>3. rows \in Seq([pay : Payments, amt : 1 .. Total])
    BY <1>1 DEF TypeOK
  <2>4. /\ bill' \in Bill /\ bill'.order = bill.order
        /\ rows' \in Seq([pay : Payments, amt : 1 .. Total])
        /\ CreditedOnce' /\ (\A q : Recorded(q) => Recorded(q)') /\ Recorded(p)'
    <3>1. CASE Recorded(proc[r].pay)
      <4>1. UNCHANGED <<bill, rows>>
        BY <1>7, <3>1 DEF SettleCommit
      <4> QED BY <1>1, <1>0, <3>1, <4>1 DEF GInv, TypeOK, CreditedOnce, Recorded
    <3>2. CASE ~Recorded(proc[r].pay)
      <4>1. bill' = Credited(proc[r].seen, proc[r].amt) /\ rows' = Append(rows, row)
        BY <1>7, <3>2 DEF SettleCommit, Record
      <4>2. bill' \in Bill /\ bill'.order = bill.order
        BY <1>1, <2>2, <4>1, CreditedOK
      <4>3. row \in [pay : Payments, amt : 1 .. Total] /\ row.pay = proc[r].pay
        BY <1>2, <2>2
      <4> HIDE DEF row
      <4>4. /\ rows' \in Seq([pay : Payments, amt : 1 .. Total])
            /\ Len(rows) \in Nat /\ DOMAIN rows = 1 .. Len(rows)
            /\ DOMAIN rows' = 1 .. Len(rows) + 1
            /\ \A n \in DOMAIN rows : rows'[n] = rows[n]
            /\ rows'[Len(rows) + 1] = row
        BY <2>3, <4>1, <4>3
      <4>5. \A n \in DOMAIN rows : rows[n].pay # row.pay
        BY <3>2, <4>3 DEF Recorded
      <4>6. CreditedOnce'
        BY <4>4, <4>5, SMTT(30) DEF GInv, CreditedOnce
      <4>7. (\A q : Recorded(q) => Recorded(q)') /\ Recorded(p)'
        BY <1>0, <4>3, <4>4 DEF Recorded
      <4> QED BY <4>2, <4>4, <4>6, <4>7
    <3> QED BY <3>1, <3>2
  <2>5. ProcessedIsDecided' /\ \A q : Decided(q) => Decided(q)'
    BY <1>3, <2>1, <2>4 DEF GInv, ProcessedIsDecided, Decided
  <2>6. /\ proc' \in [Runners -> Held] /\ \A s \in Runners : s # r => proc'[s] = proc[s]
        /\ RunnerOK(r)'
    <3>1. Decided(p)'
      BY <2>4 DEF Decided
    <3> QED BY <1>1, <1>0, <2>1, <3>1, AnswerOK
  <2> QED BY <1>1, <1>3, <2>1, <2>4, <2>5, <2>6, RunnerGInv DEF TypeOK
<1> QED BY <1>4, <1>5, <1>6, <1>7

-----------------------------------------------------------------------------
\* A checkout callback starts a settlement of a captured payment.
LEMMA CallbackGInv ==
  ASSUME GInv, NEW t \in Tabs, NEW p \in Payments, Callback(t, p)
  PROVE  GInv'
<1> DEFINE h == [Idle EXCEPT !.pc = "lookup", !.pay = p, !.amt = Outstanding]
<1>1. /\ t \in Runners /\ t \notin Workers /\ TypeOK /\ p \in captured
      /\ UNCHANGED <<bill, external, queue, rows, refused, faults>>
  BY GatewayAssumption DEF Runners, GInv, Callback
<1>2. Outstanding \in 0 .. Total
  BY <1>1, GatewayAssumption DEF TypeOK, Bill, Outstanding
<1>3. h \in Held /\ h.pc = "lookup" /\ h.pay = p /\ Become(t, h)
  BY <1>2, IdleRunner DEF Held, Phases, Callback
<1> HIDE DEF h
<1>4. proc'[t] = h /\ captured' = captured /\ UNCHANGED <<intake, event, lost, job>>
  BY <1>1, <1>3, BecomeChanges DEF external, queue
<1>5. RunnerOK(t)'
  BY <1>1, <1>3, <1>4 DEF RunnerOK, Paying
<1>6. faults' \in 0 .. MaxFaults
  BY <1>1 DEF TypeOK
<1> QED BY <1>1, <1>3, <1>4, <1>5, <1>6, SameJobs, QuietRunnerGInv

\* The elements of a sequence.
LEMMA ElementsOfSeq ==
  ASSUME NEW S, NEW seq \in Seq(S)
  PROVE  \A n \in DOMAIN seq : seq[n] \in S
OBVIOUS

\* A worker takes a job, with the amount of the payment's order.
LEMMA TakeGInv ==
  ASSUME GInv, NEW w \in Workers, NEW p \in Payments, Take(w, p)
  PROVE  GInv'
<1> DEFINE h == [Idle EXCEPT !.pc = "claim", !.pay = p, !.amt = orders[p]]
<1>1. /\ w \in Runners /\ TypeOK /\ job[p].state = "waiting"
      /\ UNCHANGED <<bill, external, intake, event, lost, rows, refused, faults>>
  BY DEF Runners, GInv, Take
<1>2. p \in captured /\ p \in DOMAIN orders /\ orders[p] \in 0 .. Total
  <2>1. p \in captured
    BY <1>1 DEF GInv, RefersOK, JobsFit
  <2>2. orders \in Seq(1 .. Total) /\ p \in DOMAIN orders
    BY <1>1, <2>1 DEF TypeOK
  <2>3. \A n \in DOMAIN orders : orders[n] \in 1 .. Total
    BY <2>2, ElementsOfSeq
  <2> QED BY <2>1, <2>2, <2>3, GatewayAssumption
<1>3. h \in Held /\ h.pc = "claim" /\ h.pay = p /\ Become(w, h)
  <2>1. "claim" \in Phases
    BY DEF Phases
  <2> QED BY <1>2, <2>1, IdleRunner DEF Held, Take
<1> HIDE DEF h
<1>4. proc'[w] = h /\ captured' = captured
  BY <1>1, <1>3, BecomeChanges DEF external
<1>5. RunnerOK(w)'
  BY <1>2, <1>3, <1>4 DEF RunnerOK, Paying
<1>6. JobsFit(job')
  <2>1. JobsFit(job) /\ job[p] \in Job /\ JobOK(job[p])
    BY DEF GInv, RefersOK, JobsFit
  <2>2. PICK j : j = [job[p] EXCEPT !.state = "active", !.holder = w]
    OBVIOUS
  <2>3. j \in Job /\ JobOK(j)
    BY <1>1, <2>1, <2>2, JobMoves
  <2>4. job' = [job EXCEPT ![p] = j]
    BY <2>1, <2>2 DEF Take, JobsFit, Job
  <2> QED BY <1>2, <2>1, <2>3, <2>4 DEF JobsFit
<1>7. faults' \in 0 .. MaxFaults
  BY <1>1 DEF TypeOK
<1> QED BY <1>1, <1>3, <1>5, <1>6, <1>7, QuietRunnerGInv

\* A worker that claims its event goes on, or finds it processed.
LEMMA ClaimGInv ==
  ASSUME GInv, NEW w \in Workers, Claim(w)
  PROVE  GInv'
<1>1. /\ w \in Runners /\ TypeOK /\ proc[w].pc \in Paying
      /\ UNCHANGED <<bill, external, intake, event, lost, rows, refused, faults>>
      /\ captured' = captured
  BY DEF Runners, GInv, Claim, At, Paying, external
<1>2. faults' \in 0 .. MaxFaults
  BY <1>1 DEF TypeOK
<1>3. CASE event[proc[w].pay] = "processed"
  <2>1. Complete(w) /\ Finish(w)
    BY <1>3 DEF Claim
  <2>2. JobsFit(job')
    BY <1>1, <2>1, CompleteFits
  <2> QED BY <1>1, <1>2, <2>1, <2>2, IdleOK, QuietRunnerGInv
<1>4. CASE event[proc[w].pay] # "processed"
  <2>1. Goto(w, "lookup") /\ UNCHANGED job
    BY <1>4 DEF Claim
  <2>2. PICK p : p = proc[w].pay
    OBVIOUS
  <2>3. RunnerOK(w)'
    BY <1>1, <2>1, <2>2, GotoOK
  <2>4. Become(w, [proc[w] EXCEPT !.pc = "lookup"]) /\ [proc[w] EXCEPT !.pc = "lookup"] \in Held
    <3>1. proc[w] \in Held /\ proc[w].pay \in Payments /\ "lookup" \in Phases
      BY <1>1, PayingRunner DEF Phases
    <3> QED BY <2>1, <3>1 DEF Goto, Held
  <2> QED BY <1>1, <1>2, <2>1, <2>3, <2>4, SameJobs, QuietRunnerGInv
<1> QED BY <1>3, <1>4

\* A worker marks its event only after the decision.
LEMMA MarkGInv ==
  ASSUME GInv, NEW w \in Workers, Mark(w)
  PROVE  GInv'
<1>1. /\ w \in Runners /\ TypeOK /\ proc[w].pc \in Paying /\ proc[w].pc = "mark"
      /\ UNCHANGED <<bill, external, intake, lost, rows, refused, faults>>
      /\ Complete(w) /\ Finish(w)
  BY DEF Runners, GInv, Mark, At, Paying
<1>2. proc[w].pay \in Payments /\ Decided(proc[w].pay)
  BY <1>1, PayingRunner DEF GInv, RunnersOK, RunnerOK
<1>3. JobsFit(job')
  BY <1>1, CompleteFits
<1>4. event' = [event EXCEPT ![proc[w].pay] = "processed"] /\ event \in [Payments -> EventStatus]
  BY <1>1 DEF Mark, TypeOK
<1>5. event' \in [Payments -> EventStatus]
  BY <1>2, <1>4 DEF EventStatus
<1>6. CreditedOnce' /\ \A q : Decided(q) => Decided(q)'
  BY <1>1 DEF GInv, CreditedOnce, Decided, Recorded
<1>7. ProcessedIsDecided'
  BY <1>1, <1>2, <1>4 DEF GInv, ProcessedIsDecided, Decided, Recorded
<1>8. /\ proc' \in [Runners -> Held] /\ \A s \in Runners : s # w => proc'[s] = proc[s]
      /\ RunnerOK(w)'
  BY <1>1, IdleOK, BecomeChanges
<1>9. /\ bill' \in Bill /\ bill'.order = bill.order /\ faults' \in 0 .. MaxFaults
      /\ rows' \in Seq([pay : Payments, amt : 1 .. Total]) /\ refused' \subseteq captured
  BY <1>1 DEF TypeOK
<1> QED BY <1>1, <1>3, <1>5, <1>6, <1>7, <1>8, <1>9, RunnerGInv

\* An attempt that throws leaves the books alone and its job to a retry.
LEMMA FailGInv ==
  ASSUME GInv, NEW r \in Runners, Throws(r) \/ (r \in Workers /\ WorkerFails(r))
  PROVE  GInv'
<1>1. /\ TypeOK /\ Finish(r)
      /\ UNCHANGED <<bill, external, intake, event, lost, rows, refused>>
  BY DEF GInv, Throws, WorkerFails
<1>2. faults' \in 0 .. MaxFaults
  BY <1>1, GatewayAssumption DEF TypeOK, Throws, WorkerFails
<1>3. JobsFit(job')
  <2>1. CASE UNCHANGED job
    BY <2>1, SameJobs
  <2>2. CASE r \in Workers /\ \E last \in {"dead", "logged"} : Retried(r, last)
    <3>1. proc[r].pc \in Paying
      BY <2>2 DEF GInv, RunnersOK, RunnerOK, Throws, WorkerFails, At, Paying
    <3>2. PICK last \in {"dead", "logged"} : Retried(r, last)
      BY <2>2
    <3>3. PICK j : j = job[proc[r].pay]
      OBVIOUS
    <3>4. Mine(r) => Failed(j, last) \in Job /\ JobOK(Failed(j, last))
      BY <2>2, <3>1, <3>3, JobInHand, JobEnds
    <3> QED BY <2>2, <3>1, <3>2, <3>3, <3>4, SettleChanges DEF Retried
  <2> QED BY <2>1, <2>2 DEF Throws, WorkerFails
<1> QED BY <1>1, <1>2, <1>3, IdleOK, QuietRunnerGInv

\* A stalled worker loses its job and keeps what it holds.
LEMMA StallGInv ==
  ASSUME GInv, NEW w \in Workers, Stall(w)
  PROVE  GInv'
<1>1. /\ w \in Runners /\ TypeOK /\ RunnerOK(w)
      /\ Settle(w, Stalled(job[proc[w].pay]))
      /\ UNCHANGED <<bill, external, intake, event, lost, rows, refused, proc>>
  BY DEF Runners, GInv, RunnersOK, Stall
<1>2. proc[w].pc \in Paying
  BY <1>1 DEF RunnerOK, Stall, At
<1>3. JobsFit(job')
  <2>1. PICK j : j = job[proc[w].pay]
    OBVIOUS
  <2>2. Mine(w) => Stalled(j) \in Job /\ JobOK(Stalled(j))
    BY <1>2, <2>1, JobInHand, JobEnds
  <2> QED BY <1>1, <1>2, <2>1, <2>2, SettleChanges
<1>4. CreditedOnce' /\ ProcessedIsDecided' /\ \A q : Decided(q) => Decided(q)'
  BY <1>1, BooksKept
<1>5. RunnerOK(w)'
  BY <1>1, <1>4 DEF RunnerOK, external
<1>6. /\ faults' \in 0 .. MaxFaults /\ bill' \in Bill /\ proc' \in [Runners -> Held]
      /\ event' \in [Payments -> EventStatus] /\ refused' \subseteq captured
      /\ rows' \in Seq([pay : Payments, amt : 1 .. Total])
  BY <1>1, GatewayAssumption DEF TypeOK, Stall
<1> QED BY <1>1, <1>3, <1>4, <1>5, <1>6, RunnerGInv

\* A crash forgets what runners held, not what was booked.
LEMMA CrashGInv ==
  ASSUME GInv, Crash
  PROVE  GInv'
<1>1. /\ TypeOK /\ UNCHANGED <<bill, orders, shown, captured, copies, event, rows, refused>>
      /\ intake' = [p \in Payments |-> 0] /\ proc' = [r \in Runners |-> Idle]
  BY DEF GInv, Crash, external
<1>2. JobsFit(job')
  <2>1. JobsFit(job)
    BY DEF GInv, RefersOK
  <2>2. ASSUME NEW p \in Payments
        PROVE  job'[p] \in Job /\ JobOK(job'[p]) /\ (job'[p].state # "none" => job[p].state # "none")
    <3>1. PICK j : j = job[p]
      OBVIOUS
    <3>2. j \in Job /\ JobOK(j)
      BY <2>1, <3>1 DEF JobsFit
    <3>3. job'[p] = IF j.state = "active" THEN Stalled(j) ELSE j
      BY <3>1 DEF Crash
    <3> QED BY <3>1, <3>2, <3>3, JobEnds
  <2>3. DOMAIN job' = Payments /\ job' = [p \in Payments |-> job'[p]]
    BY DEF Crash
  <2> QED BY <2>1, <2>2, <2>3 DEF JobsFit
<1>3. /\ faults' \in 0 .. MaxFaults /\ lost' \subseteq captured
      /\ intake' \in [Payments -> 0 .. MaxCopies] /\ proc' \in [Runners -> Held]
  <2>1. faults \in 0 .. MaxFaults /\ faults < MaxFaults /\ faults' = faults + 1
    BY <1>1 DEF TypeOK, Crash
  <2>2. lost' = lost \cup {p \in Payments : intake[p] > 0} /\ lost \subseteq captured
    BY <1>1 DEF TypeOK, Crash
  <2>3. \A p \in Payments : intake[p] > 0 => p \in captured
    BY DEF GInv, RefersOK
  <2>4. intake' \in [Payments -> 0 .. MaxCopies] /\ proc' \in [Runners -> Held]
    BY <1>1, IdleRunner, GatewayAssumption
  <2>5. faults' \in 0 .. MaxFaults
    BY <2>1, GatewayAssumption
  <2> QED BY <2>2, <2>3, <2>4, <2>5
<1>4. TypeOK'
  BY <1>1, <1>2, <1>3 DEF TypeOK, JobsFit
<1>5. RefersOK'
  BY <1>1, <1>2, GatewayAssumption DEF GInv, TypeOK, RefersOK, JobsFit
<1>6. RunnersOK'
  BY <1>1, IdleRunner DEF RunnersOK, RunnerOK, Paying
<1>7. CreditedOnce' /\ ProcessedIsDecided'
  BY <1>1, BooksKept
<1> QED BY <1>4, <1>5, <1>6, <1>7 DEF GInv

-----------------------------------------------------------------------------
\* Every step keeps the inductive invariant.
LEMMA NextGInv == GInv /\ [Next]_vars => GInv'
<1> SUFFICES ASSUME GInv, [Next]_vars PROVE GInv'
  OBVIOUS
<1>1. ASSUME NEW r \in Runners, Step(r) PROVE GInv'
  BY <1>1, StepGInv, FailGInv DEF Step
<1>2. CASE \E t \in Tabs : OpenOrder(t) \/ CreateOrder(t) \/ StoreOrder(t) \/ Step(t)
  BY <1>1, <1>2, OrderGInv DEF Runners
<1>3. CASE \E t \in Tabs, p \in Payments : Callback(t, p)
  BY <1>3, CallbackGInv
<1>4. CASE \E p \in Payments : Deliver(p) \/ RecordEvent(p) \/ Enqueue(p) \/ IntakeFails(p)
  BY <1>4, IntakeGInv
<1>5. CASE \/ \E p \in Payments : Capture(p)
           \/ \E amt \in 1 .. Total : PaidOtherwise(amt)
           \/ Void
  BY <1>5, OutsideGInv
<1>6. CASE \E w \in Workers : Work(w) \/ WorkerFails(w) \/ Stall(w)
  BY <1>1, <1>6, ClaimGInv, MarkGInv, TakeGInv, FailGInv, StallGInv DEF Work, Runners
<1>7. CASE Crash
  BY <1>7, CrashGInv
<1>8. CASE UNCHANGED vars
  BY <1>8 DEF vars, external, queue, GInv, TypeOK, RefersOK, JobsFit, RunnersOK, RunnerOK, CreditedOnce,
     ProcessedIsDecided, Decided, Recorded
<1> QED BY <1>2, <1>3, <1>4, <1>5, <1>6, <1>7, <1>8 DEF Next

\* The inductive invariant holds in every reachable state.
THEOREM GatewayInvariance == Spec => []GInv
  BY InitGInv, NextGInv, PTL DEF Spec

\* Every variable keeps its type: no interleaving of checkout callbacks,
\* workers and other payments credits the invoice beyond its total.
THEOREM GatewayTypeCorrect == Spec => []TypeOK
<1>1. GInv => TypeOK
  BY DEF GInv
<1> QED BY <1>1, GatewayInvariance, PTL

\* A captured payment is booked at most once (razorpayPayment.service.ts).
THEOREM CaptureBookedOnce == Spec => []CreditedOnce
<1>1. GInv => CreditedOnce
  BY DEF GInv
<1> QED BY <1>1, GatewayInvariance, PTL

\* A webhook event is marked processed only once its payment was booked or
\* refused for good (workers/razorpay.worker.ts).
THEOREM MarkedAfterDecision == Spec => []ProcessedIsDecided
<1>1. GInv => ProcessedIsDecided
  BY DEF GInv
<1> QED BY <1>1, GatewayInvariance, PTL
-----------------------------------------------------------------------------
(* What a dropped call could lose *)

\* A payment is on its way to a decision: the gateway has yet to deliver its
\* first webhook, or a delivery is being taken in, or its job waits, or the
\* worker that the queue gave the job to is at it.
OnItsWay(p) ==
    \/ copies[p] = 0 \/ intake[p] > 0
    \/ job[p].state = "waiting"
    \/ /\ job[p].state = "active"
       /\ \E w \in Workers : job[p].holder = w /\ proc[w].pc \in Paying /\ proc[w].pay = p

\* Captured money is never forgotten: in every state, whatever stalled, died or
\* was delivered twice, a captured payment is decided, on its way, or lost after
\* its 200, or its job was given up: with a dead letter after all its attempts,
\* or with a line in the log after those or after a second stall
\* (razorpayWebhook.controller.ts, workers/razorpay.worker.ts).
CapturesKept ==
    \A p \in captured : Decided(p) \/ OnItsWay(p) \/ p \in lost \/ GivenUp(p)

\* An active job is in the hands of the worker the queue names, a completed one
\* is decided, and a delivery that left the intake left a job or is lost.
JobKept(p) ==
    /\ job[p].state = "active" =>
         /\ job[p].holder \in Workers
         /\ proc[job[p].holder].pc \in Paying /\ proc[job[p].holder].pay = p
    /\ job[p].state = "completed" => Decided(p)
    /\ job[p].state = "none" => copies[p] = 0 \/ intake[p] > 0 \/ p \in lost

JobsKept == \A p \in Payments : JobKept(p)

\* Nothing that was decided is undone: bookings and refusals only grow.
LEMMA DecisionsStay ==
  ASSUME GInv, [Next]_vars
  PROVE  \A p \in Payments : Decided(p) => Decided(p)'
<1>1. CASE UNCHANGED <<rows, refused>>
  BY <1>1 DEF Decided, Recorded
<1>2. ASSUME NEW r \in Runners, SettleResolve(r)
      PROVE  UNCHANGED rows /\ refused \subseteq refused'
  BY <1>2 DEF SettleResolve
<1>3. CASE UNCHANGED rows /\ refused \subseteq refused'
  BY <1>3 DEF Decided, Recorded
<1>4. ASSUME NEW r \in Runners, SettleCommit(r), ~UNCHANGED rows
      PROVE  \A p \in Payments : Decided(p) => Decided(p)'
  <2> DEFINE new == [pay |-> proc[r].pay, amt |-> proc[r].amt]
  <2>1. UNCHANGED refused /\ rows' = Append(rows, new)
    BY <1>4 DEF SettleCommit, Record
  <2> HIDE DEF new
  <2>2. rows \in Seq([pay : Payments, amt : 1 .. Total])
    BY DEF GInv, TypeOK
  <2>3. \A n \in DOMAIN rows : n \in DOMAIN rows' /\ rows'[n] = rows[n]
    BY <2>1, <2>2
  <2> QED BY <2>1, <2>3 DEF Decided, Recorded
<1>5. ASSUME NEW r \in Runners, SettleCommit(r), UNCHANGED rows
      PROVE  UNCHANGED <<rows, refused>>
  BY <1>5 DEF SettleCommit
<1>6. ASSUME NEW r \in Runners, Step(r)
      PROVE  \A p \in Payments : Decided(p) => Decided(p)'
  <2>1. CASE SettleLookup(r) \/ SettleGuard(r) \/ Throws(r)
    BY <1>1, <2>1 DEF SettleLookup, SettleGuard, Throws
  <2> QED BY <1>1, <1>2, <1>3, <1>4, <1>5, <1>6, <2>1 DEF Step
<1>7. CASE \/ \E t \in Tabs : OpenOrder(t) \/ CreateOrder(t) \/ StoreOrder(t)
           \/ \E t \in Tabs, p \in Payments : Callback(t, p)
  BY <1>1, <1>7 DEF OpenOrder, CreateOrder, StoreOrder, Callback
<1>8. CASE \/ \E p \in Payments : Capture(p) \/ Deliver(p) \/ RecordEvent(p) \/ Enqueue(p)
                                    \/ IntakeFails(p)
           \/ \E amt \in 1 .. Total : PaidOtherwise(amt)
           \/ Void
  BY <1>1, <1>8 DEF Capture, Deliver, RecordEvent, Enqueue, IntakeFails, PaidOtherwise, Void
<1>9. ASSUME NEW w \in Workers, Work(w) \/ WorkerFails(w) \/ Stall(w)
      PROVE  \A p \in Payments : Decided(p) => Decided(p)'
  <2>1. CASE Claim(w) \/ Mark(w) \/ (\E p \in Payments : Take(w, p)) \/ WorkerFails(w) \/ Stall(w)
    BY <1>1, <2>1 DEF Claim, Mark, Take, WorkerFails, Stall
  <2> QED BY <1>6, <1>9, <2>1 DEF Work, Runners
<1>10. CASE Crash \/ UNCHANGED vars
  BY <1>1, <1>10 DEF Crash, vars
<1> QED BY <1>6, <1>7, <1>8, <1>9, <1>10 DEF Next, Runners

\* A step that leaves the queue alone, and its workers on their payments, keeps
\* every job accounted for.
LEMMA JobsStay ==
  ASSUME JobsKept, UNCHANGED <<job, copies, intake, lost>>,
         \A p \in Payments : Decided(p) => Decided(p)',
         \A w \in Workers : proc[w].pc \in Paying =>
                              proc'[w].pc \in Paying /\ proc'[w].pay = proc[w].pay
  PROVE  JobsKept'
<1> SUFFICES ASSUME NEW p \in Payments PROVE JobKept(p)'
  BY DEF JobsKept
<1>1. JobKept(p)
  BY DEF JobsKept
<1>2. job[p].state = "active" =>
        /\ job[p].holder \in Workers
        /\ proc'[job[p].holder].pc \in Paying /\ proc'[job[p].holder].pay = p
  BY <1>1 DEF JobKept
<1> QED BY <1>1, <1>2 DEF JobKept

\* The answer of a worker that is done with its payment: only the job it still
\* has changes, and no other names it.
LEMMA AnswerKeepsJobs ==
  ASSUME GInv, JobsKept, NEW w \in Workers, proc[w].pc \in Paying,
         NEW j, Settle(w, j), Finish(w),
         Mine(w) => j.state \in {"waiting", "completed", "dead", "logged"},
         Mine(w) /\ j.state = "completed" => Decided(proc[w].pay),
         UNCHANGED <<copies, intake, lost>>, \A p \in Payments : Decided(p) => Decided(p)'
  PROVE  JobsKept'
<1>1. PICK q \in Payments : q = proc[w].pay
  BY PayingRunner DEF Runners
<1>2. /\ TypeOK /\ job \in [Payments -> Job] /\ w \in Runners
      /\ \A s \in Runners : s # w => proc'[s] = proc[s]
  BY BecomeChanges, IdleOK DEF GInv, TypeOK, Runners
<1> SUFFICES ASSUME NEW p \in Payments PROVE JobKept(p)'
  BY DEF JobsKept
<1>3. JobKept(p)
  BY DEF JobsKept
<1>4. CASE p = q /\ Mine(w)
  <2>1. job'[p] = j
    BY <1>1, <1>2, <1>4 DEF Settle
  <2> QED BY <1>1, <1>4, <2>1 DEF JobKept
<1>5. CASE p # q \/ ~Mine(w)
  <2>1. job'[p] = job[p]
    BY <1>1, <1>2, <1>5 DEF Settle
  <2>2. job[p].state = "active" => /\ job[p].holder \in Workers /\ job[p].holder # w
                                   /\ proc[job[p].holder].pc \in Paying
                                   /\ proc[job[p].holder].pay = p
    BY <1>1, <1>3, <1>5 DEF JobKept, Mine
  <2>3. job[p].state = "active" => proc'[job[p].holder] = proc[job[p].holder]
    BY <1>2, <2>2 DEF Runners
  <2> QED BY <1>3, <2>1, <2>2, <2>3 DEF JobKept
<1> QED BY <1>4, <1>5

LEMMA CompleteKeepsJobs ==
  ASSUME GInv, JobsKept, NEW w \in Workers, proc[w].pc \in Paying, Complete(w), Finish(w),
         Decided(proc[w].pay),
         UNCHANGED <<copies, intake, lost>>, \A p \in Payments : Decided(p) => Decided(p)'
  PROVE  JobsKept'
<1>1. PICK j : j = job[proc[w].pay]
  OBVIOUS
<1>2. Mine(w) => Released(j, "completed").state = "completed"
  BY <1>1, JobInHand DEF Released, Job
<1>3. Settle(w, Released(j, "completed"))
  BY <1>1 DEF Complete
<1> QED BY <1>2, <1>3, AnswerKeepsJobs

\* Requests, and workers between two phases of one payment.
LEMMA RunnersKeepJobs ==
  ASSUME GInv, JobsKept, [Next]_vars,
         \/ \E t \in Tabs : OpenOrder(t) \/ CreateOrder(t) \/ StoreOrder(t) \/ Step(t)
         \/ \E t \in Tabs, p \in Payments : Callback(t, p)
         \/ \E w \in Workers : \/ SettleLookup(w) \/ SettleResolve(w) \/ SettleGuard(w)
                               \/ SettleCommit(w)
                               \/ Claim(w) /\ event[proc[w].pay] # "processed"
  PROVE  JobsKept'
<1>1. TypeOK /\ proc \in [Runners -> Held]
  BY DEF GInv, TypeOK
<1>2. \A t \in Tabs : t \notin Workers /\ t \in Runners
  BY GatewayAssumption DEF Runners
<1>3. ASSUME NEW t \in Tabs, NEW h, Become(t, h)
      PROVE  \A w \in Workers : proc'[w] = proc[w]
  BY <1>1, <1>2, <1>3 DEF Become, Runners
<1>4. ASSUME NEW t \in Tabs,
             \/ OpenOrder(t) \/ CreateOrder(t) \/ StoreOrder(t) \/ Step(t)
             \/ \E p \in Payments : Callback(t, p)
      PROVE  UNCHANGED <<job, copies, intake, lost>> /\ \A w \in Workers : proc'[w] = proc[w]
  <2>1. CASE OpenOrder(t) \/ CreateOrder(t) \/ StoreOrder(t) \/ \E p \in Payments : Callback(t, p)
    <3>1. UNCHANGED <<job, copies, intake, lost>>
      BY <2>1 DEF OpenOrder, CreateOrder, StoreOrder, Callback, queue, external
    <3>2. UNCHANGED proc \/ \E h : Become(t, h)
      BY <2>1 DEF OpenOrder, CreateOrder, StoreOrder, Callback, Finish
    <3> QED BY <1>3, <3>1, <3>2
  <2>2. CASE Step(t)
    <3>1. UNCHANGED <<job, copies, intake, lost>>
      BY <1>2, <2>2 DEF Step, SettleLookup, SettleResolve, SettleGuard, SettleCommit, Throws,
         queue, external
    <3>2. Answer(t) => \E h : Become(t, h)
      BY <1>2 DEF Answer, Finish
    <3>3. \E h : Become(t, h)
      BY <1>2, <2>2, <3>2 DEF Step, SettleLookup, SettleResolve, SettleGuard, SettleCommit, Throws,
         Goto, Finish
    <3> QED BY <1>3, <3>1, <3>3
  <2> QED BY <1>4, <2>1, <2>2
<1>5. ASSUME NEW w \in Workers, NEW pc \in Paying, proc[w].pc \in Paying, Goto(w, pc)
      PROVE  \A v \in Workers : proc[v].pc \in Paying =>
                                  proc'[v].pc \in Paying /\ proc'[v].pay = proc[v].pay
  <2>1. w \in Runners /\ proc[w] \in Held
    BY <1>1 DEF Runners
  <2> DEFINE h == [proc[w] EXCEPT !.pc = pc]
  <2>2. h.pc = pc /\ h.pay = proc[w].pay /\ proc' = [proc EXCEPT ![w] = h]
    BY <1>5, <2>1 DEF Goto, Become, Held
  <2> HIDE DEF h
  <2>3. \A v \in Workers : v # w => proc'[v] = proc[v]
    BY <1>1, <2>2 DEF Runners
  <2>4. proc'[w] = h
    BY <1>1, <2>1, <2>2
  <2> QED BY <2>2, <2>3, <2>4
<1>6. ASSUME NEW w \in Workers, SettleGuard(w)
      PROVE  \A v \in Workers : proc[v].pc \in Paying =>
                                  proc'[v].pc \in Paying /\ proc'[v].pay = proc[v].pay
  <2>1. w \in Runners /\ proc[w] \in Held
    BY <1>1 DEF Runners
  <2> DEFINE h == [proc[w] EXCEPT !.pc = "commit", !.seen = bill.paid]
  <2>2. h.pc = "commit" /\ h.pay = proc[w].pay /\ proc' = [proc EXCEPT ![w] = h]
    BY <1>6, <2>1 DEF SettleGuard, Become, Held
  <2> HIDE DEF h
  <2>3. \A v \in Workers : v # w => proc'[v] = proc[v]
    BY <1>1, <2>2 DEF Runners
  <2>4. proc'[w] = h
    BY <1>1, <2>1, <2>2
  <2> QED BY <2>2, <2>3, <2>4 DEF Paying
<1>7. ASSUME NEW w \in Workers,
             \/ SettleLookup(w) \/ SettleResolve(w) \/ SettleGuard(w) \/ SettleCommit(w)
             \/ Claim(w) /\ event[proc[w].pay] # "processed"
      PROVE  /\ UNCHANGED <<job, copies, intake, lost>>
             /\ \A v \in Workers : proc[v].pc \in Paying =>
                                     proc'[v].pc \in Paying /\ proc'[v].pay = proc[v].pay
  <2>1. UNCHANGED <<job, copies, intake, lost>>
    BY <1>7 DEF SettleLookup, SettleResolve, SettleGuard, SettleCommit, Claim, queue, external
  <2>2. CASE ~SettleGuard(w)
    <3>1. proc[w].pc \in Paying
      BY <1>7 DEF SettleLookup, SettleResolve, SettleGuard, SettleCommit, Claim, At, Paying
    <3>2. Answer(w) => Goto(w, "mark")
      BY DEF Answer
    <3>3. PICK pc \in {"mark", "resolve", "guard", "lookup"} : Goto(w, pc)
      BY <1>7, <2>2, <3>2 DEF SettleLookup, SettleResolve, SettleCommit, Claim
    <3>4. pc \in Paying
      BY DEF Paying
    <3> QED BY <1>5, <2>1, <3>1, <3>3, <3>4
  <2> QED BY <1>6, <2>1, <2>2
<1>8. \A p \in Payments : Decided(p) => Decided(p)'
  BY DecisionsStay
<1> QED BY <1>4, <1>7, <1>8, JobsStay

\* The webhooks' intake: a delivery leaves a job, or is lost on the record.
LEMMA IntakeKeepsJobs ==
  ASSUME GInv, JobsKept, [Next]_vars, NEW q \in Payments,
         Deliver(q) \/ Enqueue(q) \/ IntakeFails(q)
  PROVE  JobsKept'
<1>1. /\ copies \in [Payments -> 0 .. MaxCopies] /\ intake \in [Payments -> 0 .. MaxCopies]
      /\ job \in [Payments -> Job] /\ MaxCopies \in Nat
  BY GatewayAssumption DEF GInv, TypeOK
<1>2. UNCHANGED proc /\ \A p \in Payments : Decided(p) => Decided(p)'
  BY DecisionsStay DEF Deliver, Enqueue, IntakeFails
<1> SUFFICES ASSUME NEW p \in Payments PROVE JobKept(p)'
  BY DEF JobsKept
<1>3. JobKept(p)
  BY DEF JobsKept
<1>4. CASE Deliver(q)
  <2>1. UNCHANGED <<job, lost>> /\ (p # q => copies'[p] = copies[p] /\ intake'[p] = intake[p])
    BY <1>1, <1>4 DEF Deliver
  <2>2. p = q => intake'[p] > 0
    BY <1>1, <1>4 DEF Deliver
  <2> QED BY <1>2, <1>3, <2>1, <2>2 DEF JobKept
<1>5. CASE Enqueue(q)
  <2>1. UNCHANGED <<copies, lost>> /\ (p # q => job'[p] = job[p] /\ intake'[p] = intake[p])
    BY <1>1, <1>5 DEF Enqueue, external
  <2>2. p = q => \/ job'[p].state = "waiting"
                 \/ job'[p] = job[p] /\ job[p].state # "none"
    BY <1>1, <1>5 DEF Enqueue, Job
  <2> QED BY <1>2, <1>3, <2>1, <2>2 DEF JobKept
<1>6. CASE IntakeFails(q)
  <2>1. /\ UNCHANGED <<job, copies>> /\ lost' = lost \cup {q}
        /\ p # q => intake'[p] = intake[p]
    BY <1>1, <1>6 DEF IntakeFails, external
  <2> QED BY <1>2, <1>3, <2>1 DEF JobKept
<1> QED BY <1>4, <1>5, <1>6

\* The queue hands a job out, or takes one back from a worker that stalled or
\* from a process that died.
LEMMA QueueKeepsJobs ==
  ASSUME GInv, JobsKept, [Next]_vars,
         \/ \E w \in Workers : Stall(w) \/ \E p \in Payments : Take(w, p)
         \/ Crash
  PROVE  JobsKept'
<1>1. /\ proc \in [Runners -> Held] /\ job \in [Payments -> Job] /\ TypeOK
  BY DEF GInv, TypeOK
<1>2. UNCHANGED copies /\ \A p \in Payments : Decided(p) => Decided(p)'
  BY DecisionsStay DEF Stall, Take, Crash, external
<1>3. ASSUME NEW w \in Workers, NEW q \in Payments, Take(w, q), NEW p \in Payments
      PROVE  JobKept(p)'
  <2> DEFINE h == [Idle EXCEPT !.pc = "claim", !.pay = q, !.amt = orders[q]]
             j == [job[q] EXCEPT !.state = "active", !.holder = w]
  <2>1. /\ h.pc = "claim" /\ h.pay = q /\ proc' = [proc EXCEPT ![w] = h]
        /\ j.state = "active" /\ j.holder = w /\ job' = [job EXCEPT ![q] = j]
    BY <1>1, <1>3 DEF Take, Become, Idle, Job
  <2> HIDE DEF h, j
  <2>2. /\ proc'[w] = h /\ \A v \in Workers : v # w => proc'[v] = proc[v]
        /\ job'[q] = j /\ (p # q => job'[p] = job[p])
        /\ UNCHANGED <<intake, lost>>
    BY <1>1, <1>3, <2>1 DEF Runners, Take
  <2>3. proc[w].pc \notin Paying
    BY <1>3 DEF Take, At, Paying
  <2>4. CASE p = q
    BY <2>1, <2>2, <2>4 DEF JobKept, Paying
  <2>5. CASE p # q
    <3>1. JobKept(p)
      BY DEF JobsKept
    <3>2. job[p].state = "active" => job[p].holder # w
      BY <2>3, <3>1 DEF JobKept
    <3> QED BY <1>2, <2>2, <2>5, <3>1, <3>2 DEF JobKept
  <2> QED BY <2>4, <2>5
<1>4. ASSUME NEW w \in Workers, Stall(w), NEW p \in Payments
      PROVE  JobKept(p)'
  <2>1. PICK q : q = proc[w].pay
    OBVIOUS
  <2>2. UNCHANGED <<proc, intake, lost>> /\ JobKept(p)
    BY <1>4 DEF Stall, JobsKept
  <2>3. job'[p] = job[p] \/ job'[p].state \in {"waiting", "logged"}
    <3>1. proc[w].pc \in Paying /\ Mine(w)
      BY <1>4 DEF GInv, RunnersOK, RunnerOK, Runners, Stall, At
    <3>2. PICK j : j = job[q]
      OBVIOUS
    <3>3. Stalled(j).state \in {"waiting", "logged"}
      BY <2>1, <3>1, <3>2, JobInHand, JobEnds
    <3>4. job' = [job EXCEPT ![q] = Stalled(j)]
      BY <1>4, <2>1, <3>1, <3>2 DEF Stall, Settle
    <3> QED BY <1>1, <3>3, <3>4
  <2> QED BY <1>2, <2>2, <2>3 DEF JobKept
<1>5. ASSUME Crash, NEW p \in Payments
      PROVE  JobKept(p)'
  <2>1. JobKept(p)
    BY DEF JobsKept
  <2>2. \/ job'[p].state \in {"waiting", "logged"}
        \/ job'[p] = job[p] /\ job[p].state # "active"
    <3>1. PICK j : j = job[p]
      OBVIOUS
    <3>2. j \in Job /\ JobOK(j)
      BY <3>1 DEF GInv, RefersOK, JobsFit
    <3>3. job'[p] = IF j.state = "active" THEN Stalled(j) ELSE j
      BY <1>5, <3>1 DEF Crash
    <3> QED BY <3>1, <3>2, <3>3, JobEnds
  <2>3. intake[p] > 0 \/ p \in lost => p \in lost'
    BY <1>5 DEF Crash
  <2> QED BY <1>2, <2>1, <2>2, <2>3 DEF JobKept
<1> QED BY <1>3, <1>4, <1>5 DEF JobsKept

\* Every step keeps the jobs accounted for.
LEMMA NextJobsKept == GInv /\ JobsKept /\ [Next]_vars => JobsKept'
<1> SUFFICES ASSUME GInv, JobsKept, [Next]_vars PROVE JobsKept'
  OBVIOUS
<1>1. \A p \in Payments : Decided(p) => Decided(p)'
  BY DecisionsStay
<1>2. CASE \/ \E t \in Tabs : OpenOrder(t) \/ CreateOrder(t) \/ StoreOrder(t) \/ Step(t)
           \/ \E t \in Tabs, p \in Payments : Callback(t, p)
  BY <1>2, RunnersKeepJobs
<1>3. CASE \/ \E p \in Payments : Capture(p) \/ RecordEvent(p)
           \/ \E amt \in 1 .. Total : PaidOtherwise(amt)
           \/ Void
           \/ UNCHANGED vars
  <2>1. UNCHANGED <<job, intake, lost, proc, copies>>
    BY <1>3 DEF Capture, RecordEvent, PaidOtherwise, Void, vars, queue, external
  <2> QED BY <1>1, <2>1, JobsStay
<1>4. CASE \E p \in Payments : Deliver(p) \/ Enqueue(p) \/ IntakeFails(p)
  BY <1>4, IntakeKeepsJobs
<1>5. ASSUME NEW w \in Workers, Work(w) \/ WorkerFails(w) \/ Stall(w)
      PROVE  JobsKept'
  <2>1. CASE \/ SettleLookup(w) \/ SettleResolve(w) \/ SettleGuard(w) \/ SettleCommit(w)
             \/ Claim(w) /\ event[proc[w].pay] # "processed"
    BY <2>1, RunnersKeepJobs
  <2>2. CASE Claim(w) /\ event[proc[w].pay] = "processed"
    <3>1. /\ proc[w].pc \in Paying /\ Complete(w) /\ Finish(w)
          /\ UNCHANGED <<copies, intake, lost>>
      BY <2>2 DEF Claim, At, Paying, external
    <3>2. Decided(proc[w].pay)
      <4>1. proc[w].pay \in Payments
        BY <3>1, PayingRunner DEF Runners
      <4> QED BY <2>2, <4>1 DEF GInv, ProcessedIsDecided, Decided
    <3> QED BY <1>1, <3>1, <3>2, CompleteKeepsJobs
  <2>3. CASE Mark(w)
    <3>1. /\ proc[w].pc = "mark" /\ proc[w].pc \in Paying /\ Complete(w) /\ Finish(w)
          /\ UNCHANGED <<copies, intake, lost>>
      BY <2>3 DEF Mark, At, Paying, external
    <3>2. Decided(proc[w].pay)
      BY <3>1 DEF GInv, RunnersOK, RunnerOK, Runners
    <3> QED BY <1>1, <3>1, <3>2, CompleteKeepsJobs
  <2>4. CASE Throws(w) \/ WorkerFails(w)
    <3>1. /\ \E last \in {"dead", "logged"} : Retried(w, last)
          /\ Finish(w) /\ UNCHANGED <<copies, intake, lost>>
      BY <2>4 DEF Throws, WorkerFails, external
    <3>2. proc[w].pc \in Paying
      BY <2>4 DEF GInv, RunnersOK, RunnerOK, Runners, Throws, WorkerFails, At
    <3>3. PICK last \in {"dead", "logged"} : Retried(w, last)
      BY <3>1
    <3>4. PICK j : j = job[proc[w].pay]
      OBVIOUS
    <3>5. Mine(w) => Failed(j, last).state \in {"waiting", last}
      BY <3>2, <3>4, JobInHand, JobEnds
    <3>6. Settle(w, Failed(j, last))
      BY <3>3, <3>4 DEF Retried
    <3> QED BY <1>1, <3>1, <3>2, <3>5, <3>6, AnswerKeepsJobs
  <2>5. CASE Stall(w) \/ \E p \in Payments : Take(w, p)
    BY <2>5, QueueKeepsJobs
  <2> QED BY <1>5, <2>1, <2>2, <2>3, <2>4, <2>5 DEF Work, Step
<1>6. CASE Crash
  BY <1>6, QueueKeepsJobs
<1> QED BY <1>2, <1>3, <1>4, <1>5, <1>6 DEF Next

\* Captured money is never forgotten, however many workers, retries and
\* redeliveries there are; a job is given up in no other way than those of
\* GivenUp (razorpayWebhook.controller.ts, workers/razorpay.worker.ts).
THEOREM CapturedMoneyKept == Spec => []CapturesKept
<1>1. Init => JobsKept
  BY DEF Init, JobsKept, JobKept, Jobless
<1>2. GInv /\ JobsKept => CapturesKept
  <2> SUFFICES ASSUME GInv, JobsKept, NEW p \in captured
               PROVE  Decided(p) \/ OnItsWay(p) \/ p \in lost \/ GivenUp(p)
    BY DEF CapturesKept
  <2>1. p \in Payments
    <3>1. captured \subseteq DOMAIN orders /\ DOMAIN orders = 1 .. Len(orders)
          /\ Len(orders) \in Nat /\ Len(orders) <= MaxOrders
      BY DEF GInv, TypeOK
    <3> QED BY <3>1, GatewayAssumption DEF Payments, Orders
  <2>2. JobKept(p) /\ job[p].state \in JobState /\ JobOK(job[p])
    BY <2>1 DEF JobsKept, GInv, TypeOK, Job, RefersOK, JobsFit
  <2> QED BY <2>2 DEF JobKept, JobOK, GivenUp, OnItsWay, JobState
<1> QED BY <1>1, <1>2, GatewayInvariance, NextJobsKept, PTL DEF Spec

\* A decision on a captured payment stands: no crash, retry or late worker takes
\* a booking or a refusal back (razorpayPayment.service.ts).
DecisionsStand == [][\A p \in Payments : Decided(p) => Decided(p)']_vars

THEOREM DecisionsAreFinal == Spec => DecisionsStand
<1>1. GInv /\ [Next]_vars => [\A p \in Payments : Decided(p) => Decided(p)']_vars
  BY DecisionsStay
<1> QED BY <1>1, GatewayInvariance, PTL DEF Spec, DecisionsStand
=============================================================================
