------------------------------ MODULE Booking ------------------------------
(***************************************************************************)
(* Bookings, the room calendar and the confirmation sequence: desk and     *)
(* guest requests against the Booking, BookingRoom and RoomInventory       *)
(* tables, and the one queue job that tells the guest                      *)
(* (services/booking.service.ts, services/availability.service.ts,         *)
(* utils/booking.utils.ts, controllers/booking.controller.ts, the          *)
(* create_booking node of automation/flowRuntime.ts,                       *)
(* controllers/confirmationSequence.controller.ts,                         *)
(* workers/confirmationSequence.run.ts).                                   *)
(*                                                                         *)
(* A request is a small program of awaits; which requests there are is     *)
(* part of a world, in what order their steps run is not.                  *)
(***************************************************************************)
EXTENDS Integers, Sequences, FiniteSets, SequencesExt, Confirmation

CONSTANTS
    Bookings,    \* booking ids, those of requests to come included
    Requests,    \* request slots
    Types,       \* room types
    HotelOf,     \* HotelOf[t]: the hotel that lets t
    TotalRooms,  \* RoomType.totalRooms
    LastNight,   \* bound: nights are numbered from 1
    Steps,       \* bound: steps of a confirmation
    Worlds       \* bound: initial rows, sequences and job, the requests, and how
                 \* many faults
Status == {"ENQUIRY", "PENDING", "HOLD", "CONFIRMED", "CANCELLED"}
IsSequence(s) == s \in Seq(ToSet(s))
HasSteps(p) == "steps" \in DOMAIN p /\ IsSequence(p.steps) /\ Len(p.steps) <= Steps

\* The rows, sequences and requests a world may have: bookings of a night or
\* more, each with a reference; a creation makes a booking of its own.
HasRows(w) ==
    /\ DOMAIN w.rows \subseteq Bookings
    /\ \A b \in DOMAIN w.rows :
         /\ DOMAIN w.rows[b] = {"ref", "hotel", "status", "type", "in", "out", "price", "total", "rooms"}
         /\ w.rows[b].ref \in Nat \ {0} /\ w.rows[b].status \in Status
         /\ w.rows[b].in \in Nat /\ w.rows[b].out \in Nat /\ w.rows[b].in < w.rows[b].out
    /\ \A b, c \in DOMAIN w.rows : w.rows[b].ref = w.rows[c].ref => b = c
HasPlans(w) == IsSequence(w.plans) /\ \A p \in ToSet(w.plans) : HasSteps(p)
MayAsk(w, r) ==
    LET asked == w.want[r]
    IN  /\ asked.op \in {"create", "edit", "cancel", "confirm", "send"} => asked.booking \in Bookings
        /\ asked.op = "create" =>
             /\ asked.booking \notin DOMAIN w.rows /\ asked.in \in Nat /\ asked.out \in Nat
             /\ \A q \in DOMAIN w.want : w.want[q].op = "create" /\ w.want[q].booking = asked.booking => q = r
        /\ asked.op = "edit" => \A f \in {"in", "out"} \cap DOMAIN asked.sets : asked.sets[f] \in Nat
        /\ asked.op = "status" => asked.status \in Status
        /\ asked.op = "plan" => HasSteps(asked)

ASSUME BookingAssumption ==
    /\ HotelOf \in [Types -> STRING] /\ TotalRooms \in [Types -> Nat]
    /\ LastNight \in Nat /\ Steps \in Nat \ {0} /\ IsFiniteSet(Bookings) /\ "nobody" \notin Requests
    /\ \A w \in Worlds :
         /\ DOMAIN w.want \subseteq Requests /\ w.faults \in Nat
         /\ HasRows(w) /\ HasPlans(w) /\ \A r \in DOMAIN w.want : MayAsk(w, r)

VARIABLES
    world,      \* what is there at first and what is asked
    row,        \* row[b]: the Booking row and its BookingRoom rows
    cell,       \* cell[t][n]: the RoomInventory override of a night
    at,         \* at[r]: where request r is
    draft,      \* draft[r]: what r read or computed before its last await
    expired,    \* edits that outlived the transaction that held their lock
    plans,      \* the confirmation sequences, in the order of creation
    job,        \* job[j]: the confirmation queue
    tried,      \* tried[r][s]: times step s of submission r was tried
    displaced,  \* submissions whose waiting job was removed by another
    faults

vars == <<world, row, cell, at, draft, expired, plans, job, tried, displaced, faults>>
confirmation == <<plans, job, tried, displaced>>

NoRow == [status |-> "none", ref |-> 0]
NoCell == -1
Nobody == "nobody"
NoJob == [state |-> "none", of |-> Nobody, step |-> 0, stalled |-> FALSE, run |-> <<>>, progress |-> <<>>]
NoDraft == [ref |-> 0, set |-> {}, steps |-> <<>>, cleared |-> {}, in |-> 0, out |-> 0, type |-> "none", price |-> 0, todo |-> {}]
Exists(b) == row[b] # NoRow

Asked == DOMAIN world.want
Want(r) == world.want[r]
Is(r, op, pc) == r \in Asked /\ Want(r).op = op /\ at[r] = pc
Goto(r, pc) == at' = [at EXCEPT ![r] = pc]
Fault == faults < world.faults /\ faults' = faults + 1

-----------------------------------------------------------------------------
(* The calendar and the availability check: two readings of the same rows *)

Stay(in, out) == in .. (out - 1)

AtLeastZero(n) == IF n < 0 THEN 0 ELSE n
Takes(b, t, n) ==
    /\ row[b].status \in {"CONFIRMED", "HOLD"}
    /\ row[b].type = t /\ n \in Stay(row[b].in, row[b].out)
Booked(t, n) == Cardinality({b \in Bookings : Takes(b, t, n)})

CalendarCell(t, n) ==
    IF cell[t][n] # NoCell THEN cell[t][n] ELSE AtLeastZero(TotalRooms[t] - Booked(t, n))

Capacity(t, n) == IF cell[t][n] # NoCell THEN cell[t][n] ELSE TotalRooms[t]

Available(t, in, out) ==
    IF Stay(in, out) = {} THEN 0
    ELSE Min({AtLeastZero(Capacity(t, n) - Booked(t, n)) : n \in Stay(in, out)})

Quantity(rooms, t) == Cardinality({i \in DOMAIN rooms : rooms[i] = t})
RoomFor(rooms, in, out) ==
    world.enforced => \A t \in ToSet(rooms) : Available(t, in, out) >= Quantity(rooms, t)

\* Staff set one night, or a range night by night: a failure leaves the range
\* half set.
Upsert(r, n) ==
    /\ Is(r, "cells", "new") /\ n \in Want(r).nights \ draft[r].set
    /\ Want(r).rooms \in 0 .. TotalRooms[Want(r).type]
    /\ cell' = [cell EXCEPT ![Want(r).type][n] = Want(r).rooms]
    /\ draft' = [draft EXCEPT ![r].set = @ \cup {n}]
    /\ Goto(r, IF draft'[r].set = Want(r).nights THEN "done" ELSE "new")
    /\ UNCHANGED <<world, row, expired, confirmation, faults>>

-----------------------------------------------------------------------------
(* Creating, from the desk or from the guest's flow *)

Hotel(r) == HotelOf[Head(Want(r).rooms)]

CheckRooms(r) ==
    /\ Is(r, "create", "new")
    /\ LET w == Want(r)
       IN  Goto(r, IF Stay(w.in, w.out) # {} /\ RoomFor(w.rooms, w.in, w.out) THEN "checked" ELSE "refused")
    /\ UNCHANGED <<world, row, cell, draft, expired, confirmation, faults>>

References == {row[b].ref : b \in Bookings}

Numbering_Unlocked(r) == FALSE
\* Somebody holds the advisory lock on r's hotel and year.
Numbering(r) == \E q \in Asked : Is(q, "create", "numbered") /\ Hotel(q) = Hotel(r)

\* The lock is per hotel and year; the last number is looked up in all hotels.
\* The lookup orders text padded to five digits (booking.utils.ts:9-17): it finds
\* the greatest number up to 99,999 a year, which is as far as this goes.
TakeNumber(r) ==
    /\ Is(r, "create", "checked") /\ ~Numbering(r)
    /\ draft' = [draft EXCEPT ![r].ref = 1 + Max(References)]
    /\ Goto(r, "numbered")
    /\ UNCHANGED <<world, row, cell, expired, confirmation, faults>>

NewRow(r) ==
    LET w == Want(r)
        total == w.price * (w.out - w.in)
    IN  [ref |-> draft[r].ref, hotel |-> Hotel(r), status |-> "PENDING", type |-> Head(w.rooms),
         in |-> w.in, out |-> w.out, price |-> w.price, total |-> total * Len(w.rooms),
         rooms |-> IF Len(w.rooms) = 1 THEN <<>>
                   ELSE [i \in DOMAIN w.rooms |-> [type |-> w.rooms[i], price |-> w.price, total |-> total]]]

Insert_NoKey(r) ==
    /\ Is(r, "create", "numbered")
    /\ Goto(r, "done") /\ row' = [row EXCEPT ![Want(r).booking] = NewRow(r)]
    /\ UNCHANGED <<world, cell, draft, expired, confirmation, faults>>

\* referenceNumber is unique over all hotels.
Insert(r) ==
    /\ Is(r, "create", "numbered")
    /\ IF draft[r].ref \in References
       THEN Goto(r, "clashed") /\ UNCHANGED row
       ELSE Goto(r, "done") /\ row' = [row EXCEPT ![Want(r).booking] = NewRow(r)]
    /\ UNCHANGED <<world, cell, draft, expired, confirmation, faults>>

-----------------------------------------------------------------------------
(* Editing: one advisory lock per booking *)

Target(r) == Want(r).booking
Given(r, field, default) == IF field \in DOMAIN Want(r).sets THEN Want(r).sets[field] ELSE default
Editing == {"locked", "pricing", "writing"}

Locked_Never(b) == FALSE
Locked(b) == \E q \in Asked \ expired : Want(q).op = "edit" /\ Target(q) = b /\ at[q] \in Editing

EditLock(r) ==
    /\ Is(r, "edit", "new") /\ ~Locked(Target(r))
    /\ Goto(r, "locked")
    /\ UNCHANGED <<world, row, cell, draft, expired, confirmation, faults>>

\* The row is read once; the availability check counts the booking itself.
EditRead(r) ==
    /\ Is(r, "edit", "locked")
    /\ LET b == row[Target(r)]
           in == Given(r, "in", b.in)
           out == Given(r, "out", b.out)
           type == Given(r, "type", b.type)
           moved == {"in", "out", "type"} \cap DOMAIN Want(r).sets # {}
           perRoom == Exists(Target(r)) /\ b.rooms # <<>> /\ "rooms" \in DOMAIN Want(r).sets
       IN  IF ~Exists(Target(r)) \/ Stay(in, out) = {} \/ (moved /\ ~RoomFor(<<type>>, in, out))
           THEN Goto(r, "refused") /\ UNCHANGED draft
           ELSE /\ draft' = [draft EXCEPT ![r] = [@ EXCEPT
                     !.in = in, !.out = out, !.type = type, !.price = Given(r, "price", b.price),
                     !.todo = IF perRoom THEN DOMAIN Want(r).sets.rooms ELSE {}]]
                /\ Goto(r, IF perRoom THEN "pricing" ELSE "writing")
    /\ UNCHANGED <<world, row, cell, expired, confirmation, faults>>

Nights(r) == draft[r].out - draft[r].in

\* The rooms of a group are updated one after another, in no transaction.
EditRoom(r) ==
    /\ Is(r, "edit", "pricing") /\ draft[r].todo # {}
    /\ LET i == Min(draft[r].todo)
           price == Want(r).sets.rooms[i]
       IN  /\ row' = [row EXCEPT ![Target(r)].rooms[i].price = price,
                                 ![Target(r)].rooms[i].total = price * Nights(r)]
           /\ draft' = [draft EXCEPT ![r].todo = @ \ {i}]
    /\ UNCHANGED <<world, cell, at, expired, confirmation, faults>>

SumOfRooms(rooms) == FoldSeq(LAMBDA room, sum : room.total + sum, 0, rooms)

EditGroup(r) ==
    /\ Is(r, "edit", "pricing") /\ draft[r].todo = {}
    /\ LET b == row[Target(r)]
       IN  row' = [row EXCEPT ![Target(r)] = [b EXCEPT
              !.in = draft[r].in, !.out = draft[r].out, !.type = Head(b.rooms).type,
              !.price = Head(b.rooms).price, !.total = SumOfRooms(b.rooms)]]
    /\ Goto(r, "done")
    /\ UNCHANGED <<world, cell, draft, expired, confirmation, faults>>

\* Also the path of a group whose rooms are not named.
EditSingle(r) ==
    /\ Is(r, "edit", "writing")
    /\ row' = [row EXCEPT ![Target(r)] = [@ EXCEPT
         !.in = draft[r].in, !.out = draft[r].out, !.price = draft[r].price,
         !.total = Nights(r) * draft[r].price,
         !.type = Given(r, "type", @)]]
    /\ Goto(r, "done")
    /\ UNCHANGED <<world, cell, draft, expired, confirmation, faults>>

\* The transaction that holds the lock times out; the service, which writes
\* through another connection, goes on.
Expire(r) ==
    /\ r \in Asked \ expired /\ Want(r).op = "edit" /\ at[r] \in Editing /\ Fault
    /\ expired' = expired \cup {r}
    /\ UNCHANGED <<world, row, cell, at, draft, confirmation>>

\* A statement of an edit fails: what is written stays written.
EditFails(r) ==
    /\ Is(r, "edit", "pricing") \/ Is(r, "edit", "writing")
    /\ Fault /\ Goto(r, "failed")
    /\ UNCHANGED <<world, row, cell, draft, expired, confirmation>>

-----------------------------------------------------------------------------
(* Status: staff set any, the flow's cancel_booking looks first *)

\* updateMany: rows that are not there are left out.
Put(bookings, status) ==
    row' = [b \in Bookings |-> IF b \in bookings /\ Exists(b) THEN [row[b] EXCEPT !.status = status] ELSE row[b]]

SetStatus(r) ==
    /\ Is(r, "status", "new")
    /\ Put(Want(r).bookings, Want(r).status) /\ Goto(r, "done")
    /\ UNCHANGED <<world, cell, draft, expired, confirmation, faults>>

CancelRead(r) ==
    /\ Is(r, "cancel", "new")
    /\ Goto(r, IF Exists(Target(r)) /\ row[Target(r)].status # "CANCELLED" THEN "cancelling" ELSE "refused")
    /\ UNCHANGED <<world, row, cell, draft, expired, confirmation, faults>>

CancelWrite(r) ==
    /\ Is(r, "cancel", "cancelling")
    /\ Put({Target(r)}, "CANCELLED") /\ Goto(r, "done")
    /\ UNCHANGED <<world, cell, draft, expired, confirmation, faults>>

\* The single confirmation, whatever the status is.  The message it may send is
\* not waited for, and not recorded as sent.
ConfirmRead(r) ==
    /\ Is(r, "confirm", "new") /\ Goto(r, IF Exists(Target(r)) THEN "confirming" ELSE "refused")
    /\ UNCHANGED <<world, row, cell, draft, expired, confirmation, faults>>

ConfirmWrite(r) ==
    /\ Is(r, "confirm", "confirming")
    /\ Put({Target(r)}, "CONFIRMED") /\ Goto(r, "done")
    /\ UNCHANGED <<world, cell, draft, expired, confirmation, faults>>

-----------------------------------------------------------------------------
(* The confirmation sequences a hotel keeps *)

Plan(id) == {i \in DOMAIN plans : plans[i].id = id}
Planned(r) == [id |-> Want(r).id, channel |-> Want(r).channel, default |-> Want(r).default,
               scope |-> Want(r).scope, steps |-> Want(r).steps]

\* Creating one, or replacing one that is there.
PlanCheck(r) ==
    /\ Is(r, "plan", "new")
    /\ Goto(r, IF /\ Want(r).replaces => Plan(Want(r).id) # {}
                  /\ ValidateSequenceSteps(Want(r).steps, Want(r).channel)
               THEN "valid" ELSE "refused")
    /\ UNCHANGED <<world, row, cell, draft, expired, confirmation, faults>>

\* The other defaults, as the transaction finds them ...
PlanClear(r) ==
    /\ Is(r, "plan", "valid") /\ Goto(r, "clearing")
    /\ draft' = [draft EXCEPT ![r].cleared =
         IF Want(r).default
         THEN {p.id : p \in {q \in ToSet(plans) : q.default /\ q.channel = Want(r).channel}} \ {Want(r).id}
         ELSE {}]
    /\ UNCHANGED <<world, row, cell, expired, confirmation, faults>>

\* ... are defaults no more when it commits.  One that is gone cannot be
\* replaced.
PlanWrite(r) ==
    /\ Is(r, "plan", "clearing")
    /\ IF Want(r).replaces /\ Plan(Want(r).id) = {}
       THEN Goto(r, "failed") /\ UNCHANGED plans
       ELSE LET kept == [i \in DOMAIN plans |->
                           IF i \in Plan(Want(r).id) THEN Planned(r)
                           ELSE [plans[i] EXCEPT !.default = @ /\ plans[i].id \notin draft[r].cleared]]
            IN  Goto(r, "done") /\ plans' = IF Want(r).replaces THEN kept ELSE Append(kept, Planned(r))
    /\ UNCHANGED <<world, row, cell, draft, expired, job, tried, displaced, faults>>

DropPlan(r) ==
    /\ Is(r, "unplan", "new") /\ Goto(r, "done")
    /\ IF Plan(Want(r).id) = {} THEN UNCHANGED plans
       ELSE \E i \in Plan(Want(r).id) : plans' = RemoveAt(plans, i)
    /\ UNCHANGED <<world, row, cell, draft, expired, job, tried, displaced, faults>>

-----------------------------------------------------------------------------
(* Sending a confirmation: one job per booking *)

\* The staff look at the plan, and leave out what they will.
Preview(r) ==
    /\ Is(r, "send", "new") /\ Exists(Target(r)) /\ Goto(r, "previewed")
    /\ LET kinds == ConfirmationPreview(plans, world.channel, row[Target(r)].type, world.available)
       IN  draft' = [draft EXCEPT ![r].steps =
             [i \in DOMAIN kinds |-> [kind |-> kinds[i], skip |-> i \in Want(r).skip]]]
    /\ UNCHANGED <<world, row, cell, expired, confirmation, faults>>

InFlight == {"waiting", "active"}

JobId(r) == Target(r)

\* The double-submit guard.
SendCheck(r) ==
    /\ Is(r, "send", "previewed")
    /\ Goto(r, CASE ~Sendable(draft[r].steps, Want(r).filled) -> "refused"
                 [] job[JobId(r)].state \in InFlight -> "conflict"
                 [] job[JobId(r)].state \in {"completed", "failed"} -> "removing"
                 [] OTHER -> "confirming")
    /\ UNCHANGED <<world, row, cell, draft, expired, confirmation, faults>>

\* The finished job is removed by its id; whatever job has the id now is, unless
\* a worker holds it.
SendRemove(r) ==
    /\ Is(r, "send", "removing")
    /\ job' = [job EXCEPT ![JobId(r)] = IF @.state = "active" THEN @ ELSE NoJob]
    /\ displaced' = IF job[JobId(r)].state = "waiting" THEN displaced \cup {job[JobId(r)].of} ELSE displaced
    /\ Goto(r, "confirming")
    /\ UNCHANGED <<world, row, cell, draft, expired, plans, tried, faults>>

SendConfirm(r) ==
    /\ Is(r, "send", "confirming")
    /\ Put({Target(r)}, "CONFIRMED") /\ Goto(r, "adding")
    /\ UNCHANGED <<world, cell, draft, expired, confirmation, faults>>

\* The add of an id that is taken is ignored, and answered like any other.
SendAdd(r) ==
    /\ Is(r, "send", "adding")
    /\ IF job[JobId(r)].state = "none"
       THEN Goto(r, "accepted") /\ job' = [job EXCEPT ![JobId(r)] = [NoJob EXCEPT !.state = "waiting", !.of = r]]
       ELSE Goto(r, "ignored") /\ UNCHANGED job
    /\ UNCHANGED <<world, row, cell, draft, expired, plans, tried, displaced, faults>>

\* The process dies, or a call throws, between two steps of a send.
SendFails(r) ==
    /\ \E pc \in {"removing", "confirming", "adding"} : Is(r, "send", pc)
    /\ Fault /\ Goto(r, "failed")
    /\ UNCHANGED <<world, row, cell, draft, expired, confirmation>>

-----------------------------------------------------------------------------
(* The worker *)

\* The steps are part of the job's data.
StepsOf(j) == IF job[j].of = Nobody THEN <<>> ELSE draft[job[j].of].steps
Current(j) == job[j].step + 1

\* The job is at `step`, with the statuses `run` in memory; that they cannot be
\* saved stops nothing.
Proceed(j, step, run) ==
    \/ job' = [job EXCEPT ![j].step = step, ![j].run = run, ![j].progress = run] /\ UNCHANGED faults
    \/ job' = [job EXCEPT ![j].step = step, ![j].run = run] /\ Fault

Take(j) ==
    /\ job[j].state = "waiting"
    /\ LET pending == [i \in DOMAIN StepsOf(j) |-> "pending"]
           taken == [job[j] EXCEPT !.state = "active", !.step = 0, !.run = pending]
       IN  \/ job' = [job EXCEPT ![j] = [taken EXCEPT !.progress = pending]] /\ UNCHANGED faults
           \/ job' = [job EXCEPT ![j] = taken] /\ Fault
    /\ UNCHANGED <<world, row, cell, at, draft, expired, plans, tried, displaced>>

Persevere_StopsEarly(j) == job[j].step < Len(StepsOf(j)) - 1
Persevere(j) == job[j].step < Len(StepsOf(j))

SkipStep(j) ==
    /\ job[j].state = "active" /\ Persevere(j) /\ StepsOf(j)[Current(j)].skip
    /\ Proceed(j, job[j].step + 1, [job[j].run EXCEPT ![Current(j)] = "skipped"])
    /\ UNCHANGED <<world, row, cell, at, draft, expired, plans, tried, displaced>>

BeginStep(j) ==
    /\ job[j].state = "active" /\ Persevere(j)
    /\ ~StepsOf(j)[Current(j)].skip /\ job[j].run[Current(j)] = "pending"
    /\ Proceed(j, job[j].step, [job[j].run EXCEPT ![Current(j)] = "sending"])
    /\ UNCHANGED <<world, row, cell, at, draft, expired, plans, tried, displaced>>

\* A step that fails or times out, whether or not the guest has it, does not
\* stop the next.
SendStep(j) ==
    /\ job[j].state = "active" /\ Persevere(j) /\ job[j].run[Current(j)] = "sending"
    /\ \E result \in {"sent", "failed"} :
          Proceed(j, job[j].step + 1, [job[j].run EXCEPT ![Current(j)] = result])
    /\ tried' = [tried EXCEPT ![job[j].of][Current(j)] = @ + 1]
    /\ UNCHANGED <<world, row, cell, at, draft, expired, plans, displaced>>

Finish(j) ==
    /\ job[j].state = "active" /\ ~Persevere(j)
    /\ job' = [job EXCEPT ![j].state = "completed"]
    /\ UNCHANGED <<world, row, cell, at, draft, expired, plans, tried, displaced, faults>>

\* The worker loses its lock: the job starts over once, then fails for good.
Stall(j) ==
    /\ job[j].state = "active" /\ Fault
    /\ job' = [job EXCEPT ![j] = IF @.stalled THEN [@ EXCEPT !.state = "failed"]
                                 ELSE [@ EXCEPT !.state = "waiting", !.stalled = TRUE]]
    /\ UNCHANGED <<world, row, cell, at, draft, expired, plans, tried, displaced>>

\* Only the last hundred finished jobs are kept.
Trim(j) ==
    /\ job[j].state \in {"completed", "failed"}
    /\ job' = [job EXCEPT ![j] = NoJob]
    /\ UNCHANGED <<world, row, cell, at, draft, expired, plans, tried, displaced, faults>>

-----------------------------------------------------------------------------
Jobs == Bookings

Init ==
    /\ world \in Worlds
    /\ row = [b \in Bookings |-> IF b \in DOMAIN world.rows THEN world.rows[b] ELSE NoRow]
    /\ cell = [t \in Types |-> [n \in 1 .. LastNight |-> NoCell]]
    /\ at = [r \in Requests |-> "new"]
    /\ draft = [r \in Requests |-> NoDraft]
    /\ expired = {} /\ faults = 0 /\ plans = world.plans
    /\ job = [j \in Jobs |-> IF j \in world.confirmed THEN [NoJob EXCEPT !.state = "completed"] ELSE NoJob]
    /\ tried = [r \in Requests |-> [s \in 1 .. Steps |-> 0]] /\ displaced = {}

Create(r) == CheckRooms(r) \/ TakeNumber(r) \/ Insert(r)
Edit(r) == EditLock(r) \/ EditRead(r) \/ EditRoom(r) \/ EditGroup(r) \/ EditSingle(r)
Cancel(r) == CancelRead(r) \/ CancelWrite(r)
Confirm(r) == ConfirmRead(r) \/ ConfirmWrite(r)
Keep(r) == PlanCheck(r) \/ PlanClear(r) \/ PlanWrite(r) \/ DropPlan(r)
Submit(r) == Preview(r) \/ SendCheck(r) \/ SendRemove(r) \/ SendConfirm(r) \/ SendAdd(r)
Work(j) == Take(j) \/ SkipStep(j) \/ BeginStep(j) \/ SendStep(j) \/ Finish(j)

Next ==
    \/ \E r \in Requests :
          \/ \E n \in 1 .. LastNight : Upsert(r, n)
          \/ Create(r) \/ Edit(r) \/ EditFails(r) \/ Expire(r) \/ SetStatus(r) \/ Cancel(r)
          \/ Confirm(r) \/ Keep(r) \/ Submit(r) \/ SendFails(r)
    \/ \E j \in Jobs : Work(j) \/ Stall(j) \/ Trim(j)

Spec == Init /\ [][Next]_vars

\* A submission that has begun goes on, and the worker works.
FairSpec == Spec /\ (\A r \in Requests : WF_vars(Submit(r))) /\ (\A j \in Jobs : WF_vars(Work(j)))

-----------------------------------------------------------------------------
(* Properties *)

\* Every row is a booking of at least one night, every override is within the
\* type's rooms, no two bookings share a reference, and no step of a
\* confirmation is shown as sent that was not tried.
TypeOK ==
    /\ \A b \in Bookings : Exists(b) => row[b].status \in Status /\ row[b].in < row[b].out
    /\ \A t \in Types, n \in 1 .. LastNight : cell[t][n] \in {NoCell} \cup 0 .. TotalRooms[t]
    /\ \A b, c \in Bookings : Exists(b) /\ Exists(c) /\ b # c => row[b].ref # row[c].ref
    /\ \A j \in Jobs :
          LET shown == ReconstructStatus(job[j].state, StepsOf(j), job[j].progress)
          IN  \A i \in DOMAIN shown : shown[i] = "sent" => tried[job[j].of][i] > 0

\* The advisory lock (booking.service.ts:204) does its work within a hotel: a
\* creation whose number is taken lost it to another hotel, as long as the
\* year's references keep their five digits (see TakeNumber).
ClashOnlyAcrossHotels ==
    [][\A r \in Asked : at[r] # "clashed" /\ at'[r] = "clashed" =>
          \A b \in Bookings : row[b].ref = draft[r].ref => row[b].hotel # Hotel(r)]_vars

\* An edit gives back nothing it was not asked to change, whatever edit of the
\* same booking runs beside it, unless one of them outlived its lock
\* (booking.controller.ts:129: no lost updates).
EditKeepsTheRest ==
    [][\A r \in Asked : Want(r).op = "edit" /\ at[r] = "writing" /\ at'[r] = "done" =>
          \/ \E q \in expired : Target(q) = Target(r)
          \/ \A f \in {"in", "out", "price"} \ DOMAIN Want(r).sets : row'[Target(r)][f] = row[Target(r)][f]]_vars

\* A submission whose job is queued has every step tried that the staff did not
\* leave out, unless another submission for the booking removed its waiting
\* job, or the job stalled (booking.controller.ts:659-709).
AcceptedIsSent ==
    \A r \in Requests :
        (\E j \in Jobs : job[j].of = r /\ job[j].state \in InFlight)
            ~> \/ \A i \in DOMAIN draft[r].steps : draft[r].steps[i].skip \/ tried[r][i] > 0
               \/ r \in displaced
               \/ \E j \in Jobs : job[j].of = r /\ job[j].stalled

\* schema.prisma: a PENDING booking is "availability checked & blocked", so with
\* the check on no night has more bookings than rooms.
PendingBlocks ==
    world.enforced => \A t \in Types, n \in 1 .. LastNight :
        Cardinality({b \in Bookings : /\ row[b].status \in {"PENDING", "HOLD", "CONFIRMED"}
                                      /\ row[b].type = t /\ n \in Stay(row[b].in, row[b].out)}) <= TotalRooms[t]

=============================================================================
