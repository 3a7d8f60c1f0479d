-------------------------------- MODULE Flow --------------------------------
(***************************************************************************)
(* The conversation of one guest: the session in Redis and Postgres, the   *)
(* bot engine that routes a message, the runtime that walks the nodes of a *)
(* published flow, and the worker that resumes a paused one                *)
(* (services/session.service.ts, automation/botEngine.ts,                  *)
(* automation/flowRuntime.ts, automation/stepRetry.ts,                     *)
(* workers/flowResumeWorker.ts).                                           *)
(*                                                                         *)
(* A turn is one message or one resumption.  Each hop is a step: between   *)
(* two hops, other turns of the same guest run.  Texts, channels and the   *)
(* values of variables no decision here depends on are left out; whether   *)
(* an answer parses, a condition holds or a room is free is a choice.      *)
(***************************************************************************)
EXTENDS Integers, Sequences, FiniteSets

CONSTANTS
    Graphs,        \* flows, each with the messages its guest may send (a bound)
    Guests,        \* slots of the inbound workers: turns that carry a message
    Resumers,      \* slots of the flow-resume worker
    Days,          \* calendar days a guest may answer
    MaxHops,       \* MAX_HOPS
    MaxRetries,    \* MAX_STEP_RETRIES
    MaxStay,       \* nights
    MaxPauses,     \* bound: PausedFlow rows
    MaxFaults      \* bound: crashes, stalls, failed writes, thrown turns and edits of the flow
ASSUME FlowAssumption ==
    /\ Guests \cap Resumers = {}
    /\ Days \subseteq Nat \ {0}
    /\ MaxHops \in Nat \ {0} /\ MaxRetries \in Nat /\ MaxStay \in Nat
    /\ MaxPauses \in Nat /\ MaxFaults \in Nat
    /\ IsFiniteSet(Guests)
    /\ \A g \in Graphs :
         /\ g.messages \in Nat /\ g.start \in DOMAIN g.nodes
         /\ g.nodes \in Seq([kind : STRING, next : Nat, alt : Nat, gated : BOOLEAN, field : STRING, value : Nat])
         /\ \A n \in DOMAIN g.nodes :
              g.nodes[n].kind = "set_variable" => g.nodes[n].field \in {"in", "out", "room", "none"}

VARIABLES
    graph,         \* the flow as first published
    removed,       \* a node a later publication dropped
    draft,         \* the node the current DRAFT version drops, if there is one
    versioned,     \* whether a version was ever published
    redis,         \* the session in Redis
    backup,        \* the session row in Postgres
    turn,          \* what each running turn holds
    paused,        \* PausedFlow rows
    job,           \* the flow-resume job of this guest and flow
    asked,         \* nodes that prompted, with the run they prompted in
    answered,      \* nodes an answer was taken for, with that run
    resumed,       \* resumed[p]: times row p was taken up
    runs,          \* runs of the flow so far
    messages,
    pauses,
    faults

vars == <<graph, removed, draft, versioned, redis, backup, turn, paused, job, asked,
          answered, resumed, runs, messages, pauses, faults>>
versions == <<draft, versioned>>
flow == <<graph, removed, versions>>
store == <<redis, backup>>
pausing == <<paused, job, resumed, pauses>>
tallies == <<asked, answered>>

Turns == Guests \cup Resumers
NoNode == 0
NoSession == [state |-> "none"]

\* Variables that clearing, rewinding and booking depend on; 0 is "not set".
\* group stands for bookingGroupId.  tally counts the rewinds to a variable,
\* rewound the same since the last room booked, with no refund for an answer;
\* run is the run they belong to.
Fields == {"in", "out", "room"}
NoVars == [in |-> 0, out |-> 0, room |-> 0, rooms |-> FALSE, group |-> FALSE,
           tally |-> [f \in Fields |-> 0], rewound |-> [f \in Fields |-> 0], run |-> 0]

Plain(state) == [state |-> state, node |-> NoNode, vars |-> NoVars, waiting |-> FALSE]
InFlow(n, v, w) == [state |-> "FLOW", node |-> n, vars |-> v, waiting |-> w]

\* What a walk may stage besides a session.
Untouched == [state |-> "untouched"]
Reset == [state |-> "reset"]
Idle == [pc |-> "idle", input |-> "", session |-> NoSession, old |-> FALSE, removed |-> NoNode, entry |-> NoNode, node |-> NoNode,
         vars |-> NoVars, waiting |-> FALSE, staged |-> Untouched, hops |-> 0, row |-> 0]
At(t, pc) == turn[t].pc = pc
Become(t, r) == turn' = [turn EXCEPT ![t] = r]

-----------------------------------------------------------------------------
(* The graph *)

\* getPublishedNodes: what is published or, for FLOW_TTL, what was; a turn
\* keeps what it loaded.
Published == {NoNode, removed}
Node(n) == graph.nodes[n]
Exists(t, n) == n \in DOMAIN graph.nodes \ {turn[t].removed}
Edge(t, n) == IF Exists(t, n) THEN n ELSE NoNode

\* nextNodeId: the edge of a handle, and the first edge when it has none.
NextBy(t, alt) ==
    LET n == Node(turn[t].node)
        by == Edge(t, n.alt)
    IN  IF alt /\ by # NoNode THEN by ELSE Edge(t, n.next)

Collecting == {"question", "show_rooms", "options"}
Waiting == Collecting \cup {"allocate"}

\* indexVarProducers: the last node that collects a variable.
Producers(t, f) ==
    {n \in DOMAIN graph.nodes : Exists(t, n) /\ Node(n).kind \in Collecting /\ Node(n).field = f}
Producer(t, f) == IF Producers(t, f) = {} THEN NoNode
                  ELSE CHOOSE n \in Producers(t, f) : \A m \in Producers(t, f) : m <= n

-----------------------------------------------------------------------------
(* The session *)

\* updateSession and resetSession: Redis at once, Postgres without waiting.
\* The Postgres write lands, or it is logged and lost.
Save(s) ==
    \/ backup' = s /\ UNCHANGED faults
    \/ faults < MaxFaults /\ faults' = faults + 1 /\ UNCHANGED backup
Put(s) == redis' = s /\ Save(s)
Drop   == redis' = NoSession /\ Save(Plain("IDLE"))
Unsaved == UNCHANGED <<redis, backup, faults>>

-----------------------------------------------------------------------------
(* processMessage *)

\* getOrCreateSession, the Redis hit.  "keyword" is MENU, HI and the like,
\* "item" the key of a menu item, "text" anything else.  Bounds: messages, and
\* pauses, of which every running turn and waiting job may make one.
Taken == pauses + Cardinality({t \in Turns : ~At(t, "idle")}) + (IF job.state = "waiting" THEN 1 ELSE 0)
Receive(t, input) ==
    /\ At(t, "idle") /\ messages < graph.messages /\ Taken + 2 <= MaxPauses
    /\ messages' = messages + 1
    /\ Become(t, [Idle EXCEPT !.pc = IF redis = NoSession THEN "miss" ELSE "route",
                              !.input = input, !.session = redis])
    /\ UNCHANGED <<flow, store, pausing, tallies, runs, faults>>

\* The Postgres read of a miss; old is a row untouched for two hours ...
ReadBackup(t, old) ==
    /\ At(t, "miss")
    /\ Become(t, [turn[t] EXCEPT !.pc = "backfill", !.session = backup, !.old = old])
    /\ UNCHANGED <<flow, store, pausing, tallies, runs, messages, faults>>

\* ... and the write of what was read into Redis, over what is there by now.
Backfill(t) ==
    /\ At(t, "backfill")
    /\ redis' = turn[t].session
    /\ Become(t, [turn[t] EXCEPT !.pc = "route"])
    /\ UNCHANGED <<flow, backup, pausing, tallies, runs, messages, faults>>

Menu == {"IDLE", "AWAITING_SELECTION"}
In(t, states) == At(t, "route") /\ ~turn[t].old /\ turn[t].session.state \in states
Input(t) == turn[t].input

Begin(t, n, v, w) ==
    \E seen \in Published :
      Become(t, [turn[t] EXCEPT !.pc = "walk", !.removed = seen, !.entry = n, !.node = n, !.vars = v, !.waiting = w])
Reply(t) == Become(t, Idle)

\* An idle session is reset when it is two hours old, any session but the
\* menu's when the guest types a keyword; the message then meets IDLE.
RouteReset(t) ==
    /\ At(t, "route")
    /\ \/ turn[t].old
       \/ Input(t) = "keyword" /\ turn[t].session.state \notin Menu
    /\ IF turn[t].session.state = "IDLE" THEN Unsaved ELSE Drop
    /\ Become(t, [turn[t] EXCEPT !.session = Plain("IDLE"), !.old = FALSE])
    /\ UNCHANGED <<flow, pausing, tallies, runs, messages>>

RouteFlow(t) ==
    /\ In(t, {"FLOW"}) /\ Input(t) # "keyword"
    /\ LET s == turn[t].session IN Begin(t, s.node, s.vars, s.waiting)
    /\ UNCHANGED <<flow, store, pausing, tallies, runs, messages, faults>>

\* A flow that is inactive or gone by now.
RouteGone(t) ==
    /\ In(t, {"FLOW"}) /\ Input(t) # "keyword"
    /\ Drop /\ Reply(t)
    /\ UNCHANGED <<flow, pausing, tallies, runs, messages>>

\* The staff have the conversation; the bot is silent.
RouteSilent(t) ==
    /\ In(t, {"ENQUIRY_OPEN"}) /\ Input(t) # "keyword"
    /\ Reply(t)
    /\ UNCHANGED <<flow, store, pausing, tallies, runs, messages, faults>>

\* A fresh start of the flow: a BOOKING or FLOW item, or the menu flow.
StartFlow(t) ==
    LET v == [NoVars EXCEPT !.run = runs + 1] IN
    /\ runs' = runs + 1
    /\ Put(InFlow(graph.start, v, FALSE))
    /\ Begin(t, graph.start, v, FALSE)

\* showMenu, the menu without a flow.
ShowMenu(t) == Put(Plain("AWAITING_SELECTION")) /\ Reply(t) /\ UNCHANGED runs

\* The AI, or an enquiry item, hands the conversation to the staff.
HandOver(t) == Put(Plain("ENQUIRY_OPEN")) /\ Reply(t) /\ UNCHANGED runs

\* handleSelection: an item starts its flow, opens an enquiry or informs;
\* anything else gets the menu or, unless it is a keyword, the AI.
Select(t) ==
    /\ In(t, Menu)
    /\ \/ StartFlow(t)
       \/ Input(t) = "item" /\ (HandOver(t) \/ (Drop /\ Reply(t) /\ UNCHANGED runs))
       \/ Input(t) # "item" /\ ShowMenu(t)
       \/ Input(t) = "text" /\ HandOver(t)
    /\ UNCHANGED <<flow, pausing, tallies, messages>>

-----------------------------------------------------------------------------
(* executeFlowStep: the walk, and what it stages *)

\* Writes of the session are staged, the last one wins, and one is flushed
\* when the walk is over.
Stage(t, r) == Become(t, [r EXCEPT !.staged = InFlow(r.node, r.vars, r.waiting)])
Over(r, staged) == [r EXCEPT !.pc = "flush", !.staged = staged]
Leave(t, r) == Become(t, Over(r, Reset))

Hop_Uncounted(t) == turn[t]

\* The turn after a hop on its node; r starts every node's work.
Hop(t) == [turn[t] EXCEPT !.hops = @ + 1]
On(t, kinds) ==
    /\ At(t, "walk") /\ turn[t].hops < MaxHops
    /\ Exists(t, turn[t].node) /\ Node(turn[t].node).kind \in kinds
This(t) == Node(turn[t].node)

\* Go on to node n: stage it and walk it, or leave the flow when there is none.
GoTo(t, r, n) ==
    IF n = NoNode THEN Leave(t, r) ELSE Stage(t, [r EXCEPT !.node = n])
Continue(t, r) == GoTo(t, r, Edge(t, This(t).next))

walked == <<flow, store, runs, messages>>

\* MAX_HOPS, and a node that a later publication removed.
Lost(t) ==
    /\ At(t, "walk")
    /\ turn[t].hops >= MaxHops \/ ~Exists(t, turn[t].node)
    /\ Leave(t, Hop(t))
    /\ UNCHANGED <<walked, pausing, tallies, faults>>

\* businessHoursOnly at night: the node the turn entered at is staged, with
\* the variables as they are by now.
Closed(t) ==
    /\ At(t, "walk") /\ turn[t].hops < MaxHops
    /\ Exists(t, turn[t].node) /\ This(t).gated
    /\ Become(t, Over(Hop(t), InFlow(turn[t].entry, turn[t].vars, turn[t].waiting)))
    /\ UNCHANGED <<walked, pausing, tallies, faults>>

\* start and branch stage nothing.
Start(t) ==
    /\ On(t, {"start"})
    /\ LET n == NextBy(t, FALSE) IN
         IF n = NoNode THEN Leave(t, Hop(t)) ELSE Become(t, [Hop(t) EXCEPT !.node = n])
    /\ UNCHANGED <<walked, pausing, tallies, faults>>

\* The first condition that holds names the edge; else the default edge, else
\* any; which conditions hold is a choice.
Branch(t, alt) ==
    /\ On(t, {"branch"})
    /\ LET n == NextBy(t, alt) IN
         IF n = NoNode THEN Leave(t, Hop(t)) ELSE Become(t, [Hop(t) EXCEPT !.node = n])
    /\ UNCHANGED <<walked, pausing, tallies, faults>>

\* time_condition: which edge is the clock's choice.
TimeCondition(t, alt) ==
    /\ On(t, {"time_condition"})
    /\ GoTo(t, Hop(t), NextBy(t, alt))
    /\ UNCHANGED <<walked, pausing, tallies, faults>>

\* check_availability: nothing is available without a room and ordered dates.
CheckAvailability(t, available) ==
    /\ On(t, {"check_availability"})
    /\ available => turn[t].vars.room # 0 /\ turn[t].vars.in # 0 /\ turn[t].vars.out > turn[t].vars.in
    /\ GoTo(t, Hop(t), NextBy(t, available))
    /\ UNCHANGED <<walked, pausing, tallies, faults>>

\* send_template: the failure edge when it is not approved or not sent.
SendTemplate(t, failed) ==
    /\ On(t, {"send_template"})
    /\ GoTo(t, Hop(t), NextBy(t, failed))
    /\ UNCHANGED <<walked, pausing, tallies, faults>>

\* What stages the next node and then says its text: sendNow throws nothing, so
\* the walk goes on whether or not the guest was told.
Through(t, kind) ==
    /\ On(t, {kind})
    /\ Continue(t, Hop(t))
    /\ UNCHANGED <<walked, pausing, tallies, faults>>

Say(t) == Through(t, "message")
SendSavedReply(t) == Through(t, "send_saved_reply")     \* or nothing, when it is gone
SayMenu(t) == Through(t, "show_menu")

\* Actions: the booking is Booking's matter, and what failed only a variable.
UpdateBookingStatus(t) == Through(t, "update_booking_status")
CancelBooking(t) == Through(t, "cancel_booking")
ViewBookings(t) == Through(t, "view_bookings")
RequestReview(t) == Through(t, "send_review_request")
NotifyStaff(t) == Through(t, "notify_staff")

\* set_variable: field names what it sets, "none" what no decision depends on.
SetVariable(t) ==
    /\ On(t, {"set_variable"})
    /\ Continue(t, [Hop(t) EXCEPT !.vars = IF This(t).field = "none" THEN @
                                           ELSE [@ EXCEPT ![This(t).field] = This(t).value]])
    /\ UNCHANGED <<walked, pausing, tallies, faults>>

\* jump: anywhere in the flow, or out of it when the target is gone.
Jump(t) ==
    /\ On(t, {"jump"})
    /\ GoTo(t, Hop(t), Edge(t, This(t).next))
    /\ UNCHANGED <<walked, pausing, tallies, faults>>

\* end, reset_to_menu, a deprecated action, and a node of no known kind.
End(t) ==
    /\ On(t, {"end", "reset_to_menu", "start_booking_flow", "unknown"})
    /\ Leave(t, Hop(t))
    /\ UNCHANGED <<walked, pausing, tallies, faults>>

HandOff(t) ==
    /\ On(t, {"handoff_to_staff"})
    /\ Become(t, Over(Hop(t), Plain("ENQUIRY_OPEN")))
    /\ UNCHANGED <<walked, pausing, tallies, faults>>

-----------------------------------------------------------------------------
(* Nodes that wait for an answer *)

Where(t) == <<turn[t].vars.run, turn[t].node>>
Await(t, r) == Become(t, Over(r, InFlow(r.node, r.vars, TRUE)))

\* The first pass prompts and waits.
Prompted(t) ==
    /\ ~turn[t].waiting
    /\ Await(t, Hop(t))
    /\ asked' = asked \cup {Where(t)}
    /\ UNCHANGED <<walked, pausing, answered, faults>>

AskQuestion(t) == On(t, {"question"}) /\ Prompted(t)

\* show_rooms lists the rooms, as a carousel or as text ...
OfferRooms(t) == On(t, {"show_rooms"}) /\ Prompted(t)

\* ... those free on the dates, when it filters; with none to list, or with the
\* stored list gone when the answer comes, the flow is left.
NoRooms(t) ==
    /\ On(t, {"show_rooms"})
    /\ Leave(t, Hop(t))
    /\ UNCHANGED <<walked, pausing, tallies, faults>>

OfferOptions(t) == On(t, {"options"}) /\ Prompted(t)

\* An options node without options.
NoOptions(t) ==
    /\ On(t, {"options"})
    /\ Leave(t, Hop(t))
    /\ UNCHANGED <<walked, pausing, tallies, faults>>

\* advanced_room_allocation: RoomAllocation's matter.  The first pass offers
\* rooms for the party and dates; without dates it leaves.
AllocateRooms(t) ==
    /\ On(t, {"allocate"})
    /\ IF turn[t].vars.in = 0 \/ turn[t].vars.out = 0
       THEN ~turn[t].waiting /\ Leave(t, Hop(t)) /\ UNCHANGED <<walked, pausing, tallies, faults>>
       ELSE Prompted(t)

\* A reply the current list does not know stages nothing at all.
AllocationUnmoved(t) ==
    /\ On(t, {"allocate"}) /\ turn[t].waiting
    /\ Become(t, Over(Hop(t), Untouched))
    /\ UNCHANGED <<walked, pausing, tallies, faults>>

\* An answer that does not validate is asked for again; so is the next step of
\* an allocation.
Reprompt(t) ==
    /\ On(t, {"question", "options", "allocate"}) /\ turn[t].waiting
    /\ Await(t, Hop(t))
    /\ UNCHANGED <<walked, pausing, tallies, faults>>

\* More photos of a room, or no room of the list: show_rooms waits on.
ShowMore(t) ==
    /\ On(t, {"show_rooms"}) /\ turn[t].waiting
    /\ Await(t, Hop(t))
    /\ UNCHANGED <<walked, pausing, tallies, faults>>

\* A date writes its canonical alias unless it has a first writer, and refunds
\* its retries.
DateKept(v, f, x) == [v EXCEPT ![f] = IF @ = 0 THEN x ELSE @, !.tally[f] = 0]

\* A picked room overwrites the earlier choice and refunds nothing.
RoomKept(v, x) == [v EXCEPT !.room = x]

\* Numbers, ratings, yes or no, text: nothing a booking depends on.
Kept(v, f, x) ==
    CASE f \in {"in", "out"} -> DateKept(v, f, x)
      [] f = "room" -> RoomKept(v, x)
      [] OTHER -> v

Accept(t, v) ==
    /\ turn[t].waiting
    /\ Continue(t, [Hop(t) EXCEPT !.vars = v, !.waiting = FALSE])
    /\ answered' = answered \cup {Where(t)}
    /\ UNCHANGED <<walked, pausing, asked, faults>>

Answer_StillWaiting(t, x) ==
    /\ On(t, {"question"}) /\ turn[t].waiting
    /\ Continue(t, [Hop(t) EXCEPT !.vars = Kept(turn[t].vars, This(t).field, x)])
    /\ answered' = answered \cup {Where(t)}
    /\ UNCHANGED <<walked, pausing, asked, faults>>

\* A valid answer: stored, and the walk goes on.
Answer(t, x) == On(t, {"question"}) /\ Accept(t, Kept(turn[t].vars, This(t).field, x))
PickRoom(t, x) == On(t, {"show_rooms"}) /\ Accept(t, RoomKept(turn[t].vars, x))
TakeOption(t) == On(t, {"options"}) /\ Accept(t, turn[t].vars)
Allocated(t) == On(t, {"allocate"}) /\ Accept(t, [turn[t].vars EXCEPT !.rooms = TRUE])

-----------------------------------------------------------------------------
(* create_booking *)

StayOk(v) == v.in # 0 /\ v.out > v.in /\ v.out - v.in <= MaxStay
DateToRetry(t) == IF Producer(t, "out") # NoNode THEN "out" ELSE "in"

CanRetry(t, f) == turn[t].vars.tally[f] < MaxRetries /\ Producer(t, f) # NoNode

Retry_Uncounted(t, f) ==
    LET v == [turn[t].vars EXCEPT ![f] = 0, !.rewound[f] = @ + 1]
    IN GoTo(t, [Hop(t) EXCEPT !.vars = v, !.waiting = FALSE], Producer(t, f))

\* retryStep: rewind to the node that collected the variable, with the value
\* cleared and the tally raised.
Retry(t, f) ==
    LET v == [turn[t].vars EXCEPT ![f] = 0, !.tally[f] = @ + 1, !.rewound[f] = @ + 1]
    IN GoTo(t, [Hop(t) EXCEPT !.vars = v, !.waiting = FALSE], Producer(t, f))

RetryOrContinue(t, f) ==
    IF CanRetry(t, f) THEN Retry(t, f) ELSE Continue(t, Hop(t))

\* A group has its rooms from the allocation, a single booking its picked room.
Group(t) == On(t, {"create_booking"}) /\ turn[t].vars.rooms
Single(t) == On(t, {"create_booking"}) /\ ~turn[t].vars.rooms
Dated(v) == v.in # 0 /\ v.out # 0

\* No group: the flow says it is made, details are missing, booking is disabled
\* or failed; or the dates make no stay and the guest is asked again.
GroupRefused(t) ==
    /\ Group(t)
    /\ \/ Continue(t, Hop(t))
       \/ /\ ~turn[t].vars.group /\ Dated(turn[t].vars) /\ ~StayOk(turn[t].vars)
          /\ RetryOrContinue(t, DateToRetry(t))
    /\ UNCHANGED <<walked, pausing, tallies, faults>>

GroupSoldOut(t) ==
    /\ Group(t) /\ ~turn[t].vars.group /\ StayOk(turn[t].vars)
    /\ Leave(t, Hop(t))
    /\ UNCHANGED <<walked, pausing, tallies, faults>>

\* The transaction, Booking's matter.  group is read by the idempotency check and written
\* nowhere; one that outlasts ACTION_TIMEOUT_MS commits all the same.
BookGroup(t) ==
    /\ Group(t) /\ ~turn[t].vars.group /\ StayOk(turn[t].vars)
    /\ Continue(t, Hop(t))
    /\ UNCHANGED <<walked, pausing, tallies, faults>>

RoomRefused(t) ==
    /\ Single(t)
    /\ \/ Continue(t, Hop(t))
       \/ /\ Dated(turn[t].vars) /\ turn[t].vars.room # 0 /\ ~StayOk(turn[t].vars)
          /\ RetryOrContinue(t, DateToRetry(t))
    /\ UNCHANGED <<walked, pausing, tallies, faults>>

\* A room that is sold out is chosen again.
RoomSoldOut(t) ==
    /\ Single(t) /\ turn[t].vars.room # 0 /\ StayOk(turn[t].vars)
    /\ IF CanRetry(t, "room") THEN Retry(t, "room") ELSE Leave(t, Hop(t))
    /\ UNCHANGED <<walked, pausing, tallies, faults>>

\* A room booked drops every tally.
BookRoom(t) ==
    /\ Single(t) /\ turn[t].vars.room # 0 /\ StayOk(turn[t].vars)
    /\ Continue(t, [Hop(t) EXCEPT !.vars.tally = NoVars.tally, !.vars.rewound = NoVars.rewound])
    /\ UNCHANGED <<walked, pausing, tallies, faults>>

-----------------------------------------------------------------------------
(* delay: a row, a job keyed by guest and flow, and the session parked *)

NoJob == [state |-> "none", row |-> 0, holder |-> "nobody", stalled |-> FALSE]

PauseRow(t) ==
    /\ On(t, {"delay"})
    /\ IF This(t).next = NoNode
       THEN Leave(t, Hop(t)) /\ UNCHANGED pausing
       ELSE /\ pauses' = pauses + 1
            /\ paused' = paused \cup {[id |-> pauses', node |-> This(t).next, vars |-> turn[t].vars]}
            /\ Become(t, [Hop(t) EXCEPT !.pc = "enqueue", !.row = pauses'])
            /\ UNCHANGED <<job, resumed>>
    /\ UNCHANGED <<walked, tallies, faults>>

\* BullMQ drops an add whose jobId it still knows, in whatever state.
PauseJob(t) ==
    /\ At(t, "enqueue")
    /\ job' = IF job.state = "none" THEN [NoJob EXCEPT !.state = "waiting", !.row = turn[t].row]
              ELSE job
    /\ Leave(t, turn[t])
    /\ UNCHANGED <<walked, paused, resumed, pauses, tallies, faults>>

-----------------------------------------------------------------------------
(* flowResumeWorker *)

\* The end of a turn, and of the job it ran if the job is still its own.
Finished(t, state) ==
    /\ Become(t, Idle)
    /\ job' = IF job.state = "active" /\ job.holder = t THEN [job EXCEPT !.state = state] ELSE job

TakeJob(k) ==
    /\ At(k, "idle") /\ job.state = "waiting"
    /\ job' = [job EXCEPT !.state = "active", !.holder = k]
    /\ Become(k, [Idle EXCEPT !.pc = "load", !.row = job.row])
    /\ UNCHANGED <<walked, paused, resumed, pauses, tallies, faults>>

LoadPause(k) ==
    /\ At(k, "load")
    /\ LET rows == {p \in paused : p.id = turn[k].row} IN
         IF rows = {} THEN Finished(k, "finished")
         ELSE \E p \in rows :
                /\ Become(k, [turn[k] EXCEPT !.pc = "delete", !.node = p.node, !.vars = p.vars])
                /\ UNCHANGED job
    /\ UNCHANGED <<walked, paused, resumed, pauses, tallies, faults>>

DeletePause_Tolerant(k) ==
    /\ At(k, "delete")
    /\ paused' = {p \in paused : p.id # turn[k].row}
    /\ resumed' = [resumed EXCEPT ![turn[k].row] = @ + 1]
    /\ Become(k, [turn[k] EXCEPT !.pc = "restore"])
    /\ UNCHANGED <<walked, job, pauses, tallies, faults>>

\* The delete throws when the row is gone by now, and the job fails.
DeletePause(k) ==
    /\ At(k, "delete")
    /\ IF \E p \in paused : p.id = turn[k].row
       THEN /\ paused' = {p \in paused : p.id # turn[k].row}
            /\ resumed' = [resumed EXCEPT ![turn[k].row] = @ + 1]
            /\ Become(k, [turn[k] EXCEPT !.pc = "restore"])
            /\ UNCHANGED job
       ELSE Finished(k, "dead") /\ UNCHANGED <<paused, resumed>>
    /\ UNCHANGED <<walked, pauses, tallies, faults>>

\* The session is put where the flow stopped, whatever it says by now.
Restore(k) ==
    /\ At(k, "restore")
    /\ Put(InFlow(turn[k].node, turn[k].vars, FALSE))
    /\ Begin(k, turn[k].node, turn[k].vars, FALSE)
    /\ UNCHANGED <<flow, pausing, tallies, runs, messages>>

-----------------------------------------------------------------------------
(* The end of a turn; failures; the rest of the system *)

\* The one write of the session, and the reply.
Flush(t) ==
    /\ At(t, "flush")
    /\ CASE turn[t].staged = Untouched -> Unsaved
         [] turn[t].staged = Reset -> Drop
         [] OTHER -> Put(turn[t].staged)
    /\ Finished(t, "finished")
    /\ UNCHANGED <<flow, paused, resumed, pauses, tallies, runs, messages>>

\* A query inside a node throws: nothing is flushed.  A message is not run
\* again, its retry is a duplicate; a resumption apologises and completes.
Throw(t) ==
    /\ At(t, "walk") /\ faults < MaxFaults /\ faults' = faults + 1
    /\ Finished(t, "finished")
    /\ UNCHANGED <<walked, paused, resumed, pauses, tallies>>

Again_Dropped == IF job.state = "active" THEN [job EXCEPT !.state = "finished"] ELSE job

\* A job whose lock is lost is run again, once (maxStalledCount: 1).
Again == IF job.state # "active" THEN job
         ELSE IF job.stalled THEN [job EXCEPT !.state = "dead"]
         ELSE [job EXCEPT !.state = "waiting", !.stalled = TRUE]

Stall ==
    /\ job.state = "active" /\ faults < MaxFaults /\ faults' = faults + 1
    /\ job' = Again
    /\ UNCHANGED <<walked, turn, paused, resumed, pauses, tallies>>

Crash ==
    /\ faults < MaxFaults /\ faults' = faults + 1
    /\ turn' = [t \in Turns |-> Idle]
    /\ job' = Again
    /\ UNCHANGED <<flow, store, paused, resumed, pauses, tallies, runs, messages>>

\* The session's day in Redis is over.
Expire ==
    /\ redis # NoSession /\ faults < MaxFaults /\ faults' = faults + 1
    /\ redis' = NoSession
    /\ UNCHANGED <<flow, backup, turn, pausing, tallies, runs, messages>>

\* removeOnComplete, removeOnFail: the jobs of other guests push this one out.
Forget ==
    /\ job.state \in {"finished", "dead"}
    /\ job' = NoJob
    /\ UNCHANGED <<walked, turn, paused, resumed, pauses, tallies, faults>>

NoDraft == -1

\* saveDraft: the DRAFT version is made or overwritten, and with it the nodes of
\* the flow row, which run while no version was ever published.  The edit is
\* one node short.
SaveDraft(n) ==
    /\ n # graph.start /\ faults < MaxFaults /\ faults' = faults + 1
    /\ draft' = n
    /\ removed' = IF versioned THEN removed ELSE n
    /\ UNCHANGED <<graph, versioned, store, turn, pausing, tallies, runs, messages>>

\* publishDraft: the draft takes the place of what was published.
PublishDraft ==
    /\ draft # NoDraft
    /\ removed' = draft /\ draft' = NoDraft /\ versioned' = TRUE
    /\ UNCHANGED <<graph, store, turn, pausing, tallies, runs, messages, faults>>

\* rollbackToVersion: an archived version, the first, is the draft again.
RollBack ==
    /\ versioned /\ removed # NoNode /\ draft = NoDraft
    /\ draft' = NoNode
    /\ UNCHANGED <<graph, removed, versioned, store, turn, pausing, tallies, runs, messages, faults>>

-----------------------------------------------------------------------------
Init ==
    /\ graph \in Graphs /\ removed = NoNode
    /\ draft = NoDraft /\ versioned = graph.versioned
    /\ redis = NoSession /\ backup = Plain("IDLE")
    /\ turn = [t \in Turns |-> Idle]
    /\ paused = {} /\ job = NoJob /\ pauses = 0
    /\ resumed = [p \in 1 .. MaxPauses |-> 0]
    /\ asked = {} /\ answered = {}
    /\ runs = 0 /\ messages = 0 /\ faults = 0

Walk(t) ==
    \/ Lost(t) \/ Closed(t) \/ Start(t) \/ Say(t) \/ SendSavedReply(t) \/ SayMenu(t) \/ SetVariable(t)
    \/ UpdateBookingStatus(t) \/ CancelBooking(t) \/ ViewBookings(t) \/ RequestReview(t) \/ NotifyStaff(t)
    \/ Jump(t) \/ End(t) \/ HandOff(t)
    \/ \E alt \in BOOLEAN : Branch(t, alt) \/ TimeCondition(t, alt) \/ CheckAvailability(t, alt) \/ SendTemplate(t, alt)
    \/ AskQuestion(t) \/ OfferRooms(t) \/ NoRooms(t) \/ OfferOptions(t) \/ NoOptions(t)
    \/ AllocateRooms(t) \/ AllocationUnmoved(t) \/ Reprompt(t) \/ ShowMore(t)
    \/ \E x \in Days : Answer(t, x) \/ PickRoom(t, x)
    \/ TakeOption(t) \/ Allocated(t)
    \/ GroupRefused(t) \/ GroupSoldOut(t) \/ BookGroup(t)
    \/ RoomRefused(t) \/ RoomSoldOut(t) \/ BookRoom(t)
    \/ PauseRow(t) \/ PauseJob(t) \/ Flush(t)

Message(t) ==
    \/ \E old \in BOOLEAN : ReadBackup(t, old)
    \/ Backfill(t) \/ RouteReset(t) \/ RouteFlow(t) \/ RouteGone(t) \/ RouteSilent(t) \/ Select(t)

Resume(k) == LoadPause(k) \/ DeletePause(k) \/ Restore(k)

Next ==
    \/ \E t \in Guests, input \in {"keyword", "item", "text"} : Receive(t, input)
    \/ \E t \in Guests : Message(t)
    \/ \E k \in Resumers : TakeJob(k) \/ Resume(k)
    \/ \E t \in Turns : Walk(t) \/ Throw(t)
    \/ Stall \/ Crash \/ Expire \/ Forget
    \/ \E n \in DOMAIN graph.nodes : SaveDraft(n)
    \/ PublishDraft \/ RollBack

Spec == Init /\ [][Next]_vars

\* A turn that runs takes its next step, and an idle worker takes a job that
\* is due; nothing obliges the guest.
FairSpec ==
    /\ Spec
    /\ \A t \in Guests : WF_vars(Message(t) \/ Walk(t))
    /\ \A k \in Resumers : WF_vars(Resume(k) \/ Walk(k))
    /\ WF_vars(\E k \in Resumers : TakeJob(k))

-----------------------------------------------------------------------------
(* Properties *)

\* The variables have their types; in particular a guest is sent back to choose
\* a room at most MAX_STEP_RETRIES times for one booking (stepRetry.ts:177-187),
\* whatever other turns run and whichever store is read.
TypeOK ==
    /\ graph \in Graphs
    /\ \A t \in Turns : turn[t].hops \in 0 .. MaxHops + 1
    /\ \A t \in Turns : turn[t].vars.rewound["room"] <= MaxRetries
    /\ redis # NoSession => redis.vars.rewound["room"] <= MaxRetries
    /\ job.state \in {"none", "waiting", "active", "finished", "dead"}
    /\ \A p \in paused : p.id \in 1 .. pauses
    /\ runs <= messages /\ messages <= graph.messages /\ faults <= MaxFaults

\* No answer is taken for a node that did not prompt in that run of the flow:
\* a hop never consumes the text an earlier node was answered with.
AnsweredWhatWasAsked == answered \subseteq asked

\* A paused flow is taken up at most once, though its job may be run twice.
ResumedOnce == \A p \in DOMAIN resumed : resumed[p] <= 1

\* Every turn ends, on any graph: a flow that goes round without asking is cut
\* off, and a paused flow is no exception.
TurnsEnd == \A t \in Turns : turn[t].pc # "idle" ~> turn[t].pc = "idle"

\* A pause whose job was accepted is taken up, or its job is dead-lettered;
\* a crash or a stall in between does not lose it.
AcceptedPausesResume ==
    \A p \in 1 .. MaxPauses :
        (job.state = "waiting" /\ job.row = p)
            ~> ((\A q \in paused : q.id # p) \/ (job.state = "dead" /\ job.row = p))

=============================================================================
