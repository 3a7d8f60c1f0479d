----------------------------- MODULE FlowProofs ------------------------------
(***************************************************************************)
(* Proofs about Flow, for any flow graphs, any number of turns at once and *)
(* any bounds: a pause is taken up once, for which what a turn or a        *)
(* session holds does not matter; from an invariant of what every turn,    *)
(* session and pause holds, types, bounds and answers; that a pause whose  *)
(* job was accepted is not dropped; and that a turn runs out of steps.     *)
(***************************************************************************)
EXTENDS Flow, TLAPS, FiniteSetTheorems, WellFoundedInduction

\* The inductive invariant: rows are numbered as they are made, and a row that
\* is there, or is still to be made, has not been taken up.
Numbered == pauses \in Nat /\ \A p \in paused : p.id \in 1 .. pauses
TakenUp ==
    /\ resumed \in [1 .. MaxPauses -> 0 .. 1]
    /\ \A n \in 1 .. MaxPauses : n > pauses => resumed[n] = 0
    /\ \A p \in paused : p.id \in 1 .. MaxPauses => resumed[p.id] = 0
FInv == Numbered /\ TakenUp

rows == <<paused, resumed, pauses>>

-----------------------------------------------------------------------------
LEMMA InitFInv == Init => FInv
  BY FlowAssumption DEF Init, FInv, Numbered, TakenUp

LEMMA RowsKept ==
  ASSUME FInv, UNCHANGED rows
  PROVE  FInv'
  BY DEF FInv, Numbered, TakenUp, rows

\* A new row has a number of its own.
LEMMA PauseKept ==
  ASSUME FInv, NEW t \in Turns, PauseRow(t)
  PROVE  FInv'
<1>1. CASE UNCHANGED rows
  BY <1>1, RowsKept
<1>2. CASE ~ UNCHANGED rows
  <2>1. /\ pauses' = pauses + 1 /\ resumed' = resumed
        /\ \A p \in paused' : p \in paused \/ p.id = pauses + 1
    BY <1>2 DEF PauseRow, pausing, rows
  <2>2. Numbered'
    BY <2>1 DEF FInv, Numbered
  <2>3. \A n \in 1 .. MaxPauses : n > pauses' => resumed'[n] = 0
    BY <2>1, FlowAssumption DEF FInv, Numbered, TakenUp
  <2>4. ASSUME NEW p \in paused', p.id \in 1 .. MaxPauses PROVE resumed'[p.id] = 0
    <3>1. CASE p \in paused
      BY <2>1, <2>4, <3>1 DEF FInv, TakenUp
    <3>2. CASE p.id = pauses + 1
      BY <2>1, <2>4, <3>2 DEF FInv, Numbered, TakenUp
    <3> QED BY <2>1, <3>1, <3>2
  <2> QED BY <2>1, <2>2, <2>3, <2>4 DEF FInv, TakenUp
<1> QED BY <1>1, <1>2

\* The row goes as it is taken up: a second runner of the job finds none.
LEMMA DeleteKept ==
  ASSUME FInv, NEW k \in Resumers, DeletePause(k)
  PROVE  FInv'
<1> DEFINE n == turn[k].row
<1>1. CASE \E p \in paused : p.id = n
  <2>1. /\ paused' = {p \in paused : p.id # n}
        /\ resumed' = [resumed EXCEPT ![n] = @ + 1] /\ pauses' = pauses
    BY <1>1 DEF DeletePause
  <2>2. n \in 1 .. pauses /\ (n \in 1 .. MaxPauses => resumed[n] = 0)
    BY <1>1 DEF FInv, Numbered, TakenUp
  <2>3. Numbered'
    BY <2>1 DEF FInv, Numbered
  <2>4. /\ resumed' \in [1 .. MaxPauses -> 0 .. 1]
        /\ \A m \in 1 .. MaxPauses : m # n => resumed'[m] = resumed[m]
    <3>1. resumed \in [1 .. MaxPauses -> 0 .. 1]
      BY DEF FInv, TakenUp
    <3>2. CASE n \in 1 .. MaxPauses
      <4>1. resumed[n] + 1 \in 0 .. 1
        BY <2>2, <3>2
      <4> HIDE DEF n
      <4> QED BY <2>1, <3>1, <3>2, <4>1
    <3>3. CASE n \notin 1 .. MaxPauses
      <4> HIDE DEF n
      <4>1. resumed' = resumed
        BY <2>1, <3>1, <3>3
      <4> QED BY <3>1, <4>1
    <3> QED BY <3>2, <3>3
  <2>5. \A m \in 1 .. MaxPauses : m > pauses' => resumed'[m] = 0
    BY <2>1, <2>2, <2>4, FlowAssumption DEF FInv, Numbered, TakenUp
  <2>6. ASSUME NEW q \in paused', q.id \in 1 .. MaxPauses PROVE resumed'[q.id] = 0
    <3>1. q \in paused /\ q.id # n
      BY <2>1
    <3>2. resumed'[q.id] = resumed[q.id]
      BY <2>4, <2>6, <3>1
    <3> QED BY <2>6, <3>1, <3>2 DEF FInv, TakenUp
  <2> QED BY <2>3, <2>4, <2>5, <2>6 DEF FInv, TakenUp
<1>2. CASE ~ \E p \in paused : p.id = n
  BY <1>2, RowsKept DEF DeletePause, rows
<1> QED BY <1>1, <1>2

-----------------------------------------------------------------------------
(* Everything else leaves the rows alone. *)

LEMMA MessageKeepsRows ==
  ASSUME NEW t \in Guests, Message(t)
  PROVE  UNCHANGED rows
  BY DEF Message, ReadBackup, Backfill, RouteReset, RouteFlow, RouteGone, RouteSilent, Select, pausing, rows

LEMMA StepKeepsRows ==
  ASSUME NEW t \in Turns, Walk(t), ~PauseRow(t)
  PROVE  UNCHANGED rows
<1>1. CASE \/ Lost(t) \/ Closed(t) \/ Start(t) \/ Say(t) \/ SendSavedReply(t) \/ SayMenu(t) \/ SetVariable(t)
           \/ UpdateBookingStatus(t) \/ CancelBooking(t) \/ ViewBookings(t) \/ RequestReview(t) \/ NotifyStaff(t)
           \/ Jump(t) \/ End(t) \/ HandOff(t)
  BY <1>1 DEF Lost, Closed, Start, Say, SendSavedReply, SayMenu, SetVariable, UpdateBookingStatus,
     CancelBooking, ViewBookings, RequestReview, NotifyStaff, Through, Jump, End, HandOff, pausing, rows
<1>2. CASE \E alt \in BOOLEAN : \/ Branch(t, alt) \/ TimeCondition(t, alt)
                                \/ CheckAvailability(t, alt) \/ SendTemplate(t, alt)
  BY <1>2 DEF Branch, TimeCondition, CheckAvailability, SendTemplate, pausing, rows
<1>3. CASE \/ AskQuestion(t) \/ OfferRooms(t) \/ NoRooms(t) \/ OfferOptions(t) \/ NoOptions(t)
           \/ AllocateRooms(t) \/ AllocationUnmoved(t) \/ Reprompt(t) \/ ShowMore(t)
  BY <1>3 DEF AskQuestion, OfferRooms, NoRooms, OfferOptions, NoOptions, Prompted, AllocateRooms,
     AllocationUnmoved, Reprompt, ShowMore, pausing, rows
<1>4. CASE (\E x \in Days : Answer(t, x) \/ PickRoom(t, x)) \/ TakeOption(t) \/ Allocated(t)
  BY <1>4 DEF Answer, PickRoom, TakeOption, Allocated, Accept, pausing, rows
<1>5. CASE \/ GroupRefused(t) \/ GroupSoldOut(t) \/ BookGroup(t)
           \/ RoomRefused(t) \/ RoomSoldOut(t) \/ BookRoom(t)
  BY <1>5 DEF GroupRefused, GroupSoldOut, BookGroup, RoomRefused, RoomSoldOut, BookRoom,
     Retry, RetryOrContinue, pausing, rows
<1>6. CASE PauseJob(t) \/ Flush(t)
  BY <1>6 DEF PauseJob, Flush, rows
<1> QED BY <1>1, <1>2, <1>3, <1>4, <1>5, <1>6 DEF Walk

LEMMA OthersKeepRows ==
  ASSUME \/ \E t \in Guests, input \in {"keyword", "item", "text"} : Receive(t, input)
         \/ \E k \in Resumers : TakeJob(k) \/ LoadPause(k) \/ Restore(k)
         \/ \E t \in Turns : Throw(t)
         \/ Stall \/ Crash \/ Expire \/ Forget
         \/ \E n \in DOMAIN graph.nodes : SaveDraft(n)
         \/ PublishDraft \/ RollBack
  PROVE  UNCHANGED rows
  BY DEF Receive, TakeJob, LoadPause, Restore, Throw, Stall, Crash, Expire, Forget, SaveDraft,
     PublishDraft, RollBack, pausing, rows

-----------------------------------------------------------------------------
\* Every step keeps the inductive invariant.
LEMMA NextFInv == FInv /\ [Next]_vars => FInv'
<1> SUFFICES ASSUME FInv, [Next]_vars PROVE FInv'
  OBVIOUS
<1>1. CASE \E t \in Turns : Walk(t)
  BY <1>1, PauseKept, StepKeepsRows, RowsKept
<1>2. CASE \E k \in Resumers : DeletePause(k)
  BY <1>2, DeleteKept
<1>3. CASE \E t \in Guests : Message(t)
  BY <1>3, MessageKeepsRows, RowsKept
<1>4. CASE \/ \E t \in Guests, input \in {"keyword", "item", "text"} : Receive(t, input)
           \/ \E k \in Resumers : TakeJob(k) \/ LoadPause(k) \/ Restore(k)
           \/ \E t \in Turns : Throw(t)
           \/ Stall \/ Crash \/ Expire \/ Forget
           \/ \E n \in DOMAIN graph.nodes : SaveDraft(n)
           \/ PublishDraft \/ RollBack
  BY <1>4, OthersKeepRows, RowsKept
<1>5. CASE UNCHANGED vars
  BY <1>5, RowsKept DEF vars, rows
<1> QED BY <1>1, <1>2, <1>3, <1>4, <1>5 DEF Next, Resume

\* A paused flow is taken up at most once, whatever stalls, crashes and second
\* runners of its job there are (flowResumeWorker.ts, the delete that comes
\* before the flow).
THEOREM PauseTakenUpOnce == Spec => []ResumedOnce
<1>1. FInv => ResumedOnce
  BY DEF FInv, TakenUp, ResumedOnce
<1>2. Spec => []FInv
  BY InitFInv, NextFInv, PTL DEF Spec
<1> QED BY <1>1, <1>2, PTL

-----------------------------------------------------------------------------
(* What every turn, session and pause holds.  P is the set of prompts that  *)
(* may be answered: a place of a run where a node of a waiting kind asked.  *)

Prompts == {w \in asked : w[2] \in DOMAIN graph.nodes /\ Node(w[2]).kind \in Waiting}

Variables == [in : Nat, out : Nat, room : Nat, rooms : BOOLEAN, group : BOOLEAN,
              tally : [Fields -> Nat], rewound : [Fields -> Nat], run : Nat]
Counted(v) ==
    /\ v \in Variables
    /\ v.tally["room"] <= MaxRetries /\ v.rewound["room"] = v.tally["room"]

States == {"IDLE", "AWAITING_SELECTION", "ENQUIRY_OPEN", "FLOW"}
Sessions == [state : States, node : Nat, vars : Variables, waiting : BOOLEAN]
\* A session that waits was put there by a node that asked.
Parked(s, P) ==
    /\ s \in Sessions /\ Counted(s.vars)
    /\ s.waiting => <<s.vars.run, s.node>> \in P

Fresh == {"miss", "backfill", "route"}
Pcs == Fresh \cup {"idle", "walk", "enqueue", "flush", "load", "delete", "restore"}
Inputs == {"", "keyword", "item", "text"}
Records == [pc : Pcs, input : Inputs, session : Sessions \cup {NoSession}, old : BOOLEAN, removed : Int,
            entry : Nat, node : Nat, vars : Variables, waiting : BOOLEAN,
            staged : Sessions \cup {Untouched, Reset}, hops : Nat, row : Nat]

\* A turn waits for an answer at the node it entered at, and nowhere else.
Expecting(r, P) ==
    r.pc = "walk" /\ r.waiting => r.node = r.entry /\ <<r.vars.run, r.node>> \in P
Bounded(r) == r.hops <= MaxHops + 1 /\ (r.pc # "flush" => r.hops <= MaxHops)
Sound(r, P) ==
    /\ r \in Records /\ Counted(r.vars) /\ Bounded(r) /\ Expecting(r, P)
    /\ r.session = NoSession \/ Parked(r.session, P)
    /\ r.staged \in {Untouched, Reset} \/ Parked(r.staged, P)

JobStates == {"none", "waiting", "active", "finished", "dead"}
Jobs == [state : JobStates, row : Nat, holder : Resumers \cup {"nobody"}, stalled : BOOLEAN]
Typed ==
    /\ graph \in Graphs /\ removed \in Int /\ draft \in Int
    /\ job \in Jobs
    /\ runs \in Nat /\ messages \in Nat /\ faults \in Nat /\ pauses \in Nat
    /\ messages <= graph.messages /\ faults <= MaxFaults
    /\ \A p \in paused : p.node \in Nat /\ Counted(p.vars)
Stored ==
    /\ redis = NoSession \/ Parked(redis, Prompts)
    /\ Parked(backup, Prompts)
Running ==
    /\ DOMAIN turn = Turns
    /\ \A t \in Turns : Sound(turn[t], Prompts)
Working == {t \in Guests : turn[t].pc \in Fresh}
\* A run is begun by a message that is routed, once.
RunsCounted == runs + Cardinality(Working) <= messages
TInv == Typed /\ Stored /\ Running /\ RunsCounted /\ answered \subseteq asked

\* The turn goes on, or ends, with a record as it should be.
GoesOn(t, P) == \E q : Sound(q, P) /\ q.pc \notin Fresh /\ Become(t, q)

-----------------------------------------------------------------------------
(* The variables of a flow *)

LEMMA Given ==
    /\ MaxHops \in Nat /\ MaxRetries \in Nat /\ Days \subseteq Nat /\ MaxFaults \in Nat /\ IsFiniteSet(Guests)
    /\ \A g \in Graphs :
         /\ g.messages \in Nat /\ g.start \in Nat /\ Len(g.nodes) \in Nat /\ DOMAIN g.nodes = 1 .. Len(g.nodes)
         /\ \A n \in DOMAIN g.nodes :
              /\ g.nodes[n].next \in Nat /\ g.nodes[n].alt \in Nat /\ g.nodes[n].value \in Nat
              /\ g.nodes[n].kind = "set_variable" => g.nodes[n].field \in Fields \cup {"none"}
<1>1. ASSUME NEW g \in Graphs
      PROVE  /\ g.messages \in Nat /\ g.start \in Nat /\ Len(g.nodes) \in Nat /\ DOMAIN g.nodes = 1 .. Len(g.nodes)
             /\ \A n \in DOMAIN g.nodes :
                  /\ g.nodes[n].next \in Nat /\ g.nodes[n].alt \in Nat /\ g.nodes[n].value \in Nat
                  /\ g.nodes[n].kind = "set_variable" => g.nodes[n].field \in Fields \cup {"none"}
  <2> DEFINE s == g.nodes
             N == [kind : STRING, next : Nat, alt : Nat, gated : BOOLEAN, field : STRING, value : Nat]
  <2>1. /\ g.messages \in Nat /\ g.start \in DOMAIN s /\ s \in Seq(N)
        /\ \A n \in DOMAIN s : s[n].kind = "set_variable" => s[n].field \in {"in", "out", "room", "none"}
    BY <1>1, FlowAssumption
  <2> HIDE DEF s
  <2>2. /\ Len(s) \in Nat /\ DOMAIN s = 1 .. Len(s)
        /\ \A n \in DOMAIN s : s[n] \in N
    <3> HIDE DEF N
    <3> QED BY <2>1
  <2>3. \A n \in DOMAIN s : s[n].next \in Nat /\ s[n].alt \in Nat /\ s[n].value \in Nat
    BY <2>2
  <2>4. g.start \in Nat
    BY <2>1, <2>2
  <2> QED BY <2>1, <2>2, <2>3, <2>4 DEF Fields, s
<1>2. MaxHops \in Nat /\ MaxRetries \in Nat /\ Days \subseteq Nat /\ MaxFaults \in Nat /\ IsFiniteSet(Guests)
  BY FlowAssumption
<1> QED BY <1>1, <1>2

LEMMA FreshVars ==
  ASSUME NEW n \in Nat
  PROVE  Counted([NoVars EXCEPT !.run = n]) /\ Counted(NoVars)
<1>1. NoVars.tally \in [Fields -> Nat] /\ NoVars.rewound \in [Fields -> Nat]
  BY DEF NoVars
<1>2. NoVars.tally["room"] = 0 /\ NoVars.rewound["room"] = 0
  BY DEF NoVars, Fields
<1>3. /\ NoVars.in = 0 /\ NoVars.out = 0 /\ NoVars.room = 0 /\ NoVars.rooms = FALSE /\ NoVars.group = FALSE
      /\ NoVars.run = 0
  BY DEF NoVars
<1>4. NoVars \in Variables
  <2>1. \A n0 \in Nat, b \in BOOLEAN, a \in [Fields -> Nat] :
          [in |-> n0, out |-> n0, room |-> n0, rooms |-> b, group |-> b, tally |-> a, rewound |-> a, run |-> n0]
            \in Variables
    BY DEF Variables
  <2>2. 0 \in Nat /\ FALSE \in BOOLEAN /\ [f \in Fields |-> 0] \in [Fields -> Nat]
    OBVIOUS
  <2> QED BY <2>1, <2>2 DEF NoVars
<1>5. 0 <= MaxRetries
  BY Given
<1>6. /\ [NoVars EXCEPT !.run = n] \in Variables
      /\ [NoVars EXCEPT !.run = n].tally = NoVars.tally /\ [NoVars EXCEPT !.run = n].rewound = NoVars.rewound
  BY <1>4 DEF Variables
<1> QED BY <1>2, <1>4, <1>5, <1>6 DEF Counted

LEMMA SetCounted ==
  ASSUME NEW v, Counted(v), NEW f \in Fields, NEW x \in Nat
  PROVE  Counted([v EXCEPT ![f] = x])
  BY DEF Counted, Variables, Fields

LEMMA DateCounted ==
  ASSUME NEW v, Counted(v), NEW f \in {"in", "out"}, NEW x \in Nat
  PROVE  Counted(DateKept(v, f, x))
  BY DEF Counted, Variables, Fields, DateKept

LEMMA RoomCounted ==
  ASSUME NEW v, Counted(v), NEW x \in Nat
  PROVE  Counted(RoomKept(v, x))
  BY DEF Counted, Variables, Fields, RoomKept

LEMMA KeptCounted ==
  ASSUME NEW v, Counted(v), NEW f, NEW x \in Nat
  PROVE  Counted(Kept(v, f, x))
  BY DateCounted, RoomCounted DEF Kept

\* A rewind within the bound raises both counts.
LEMMA RewindCounted ==
  ASSUME NEW v, Counted(v), NEW f \in Fields, v.tally[f] < MaxRetries
  PROVE  Counted([v EXCEPT ![f] = 0, !.tally[f] = @ + 1, !.rewound[f] = @ + 1])
<1> DEFINE a == [v.tally EXCEPT ![f] = @ + 1]
           b == [v.rewound EXCEPT ![f] = @ + 1]
           w == [v EXCEPT ![f] = 0, !.tally = a, !.rewound = b]
<1>1. v \in Variables /\ v.tally \in [Fields -> Nat] /\ v.rewound \in [Fields -> Nat]
  BY DEF Counted, Variables
<1>2. a \in [Fields -> Nat] /\ b \in [Fields -> Nat]
  BY <1>1
<1>3. a["room"] <= MaxRetries /\ b["room"] = a["room"]
  <2>1. v.tally["room"] <= MaxRetries /\ v.rewound["room"] = v.tally["room"] /\ "room" \in Fields
    BY DEF Counted, Fields
  <2>2. CASE f = "room"
    BY <1>1, <2>1, <2>2, Given
  <2>3. CASE f # "room"
    BY <1>1, <2>1, <2>3, Given
  <2> QED BY <2>2, <2>3
<1>4. [v EXCEPT ![f] = 0, !.tally[f] = @ + 1, !.rewound[f] = @ + 1] = w
  BY <1>1 DEF Variables, Fields
<1> HIDE DEF a, b
<1>5. w \in Variables /\ w.tally = a /\ w.rewound = b
  BY <1>1, <1>2 DEF Variables, Fields
<1> QED BY <1>3, <1>4, <1>5 DEF Counted

LEMMA BookedCounted ==
  ASSUME NEW v, Counted(v)
  PROVE  Counted([v EXCEPT !.tally = NoVars.tally, !.rewound = NoVars.rewound])
<1>1. NoVars.tally \in [Fields -> Nat] /\ NoVars.rewound \in [Fields -> Nat]
  BY DEF NoVars
<1>2. NoVars.tally["room"] = 0 /\ NoVars.rewound["room"] = 0 /\ 0 <= MaxRetries
  BY Given DEF NoVars, Fields
<1> DEFINE a == NoVars.tally
           b == NoVars.rewound
<1> HIDE DEF a, b
<1>3. ASSUME a \in [Fields -> Nat], b \in [Fields -> Nat]
      PROVE  LET w == [v EXCEPT !.tally = a, !.rewound = b]
             IN  w \in Variables /\ w.tally = a /\ w.rewound = b
  BY <1>3 DEF Counted, Variables
<1> QED BY <1>1, <1>2, <1>3 DEF Counted, a, b

LEMMA AllocatedCounted ==
  ASSUME NEW v, Counted(v)
  PROVE  Counted([v EXCEPT !.rooms = TRUE])
  BY DEF Counted, Variables, Fields

-----------------------------------------------------------------------------
(* The record of a turn *)

LEMMA IdleSound ==
  ASSUME NEW P
  PROVE  Sound(Idle, P) /\ Idle.pc \notin Fresh
<1>1. Counted(NoVars) /\ NoVars \in Variables
  BY FreshVars, Given DEF Counted
<1>2. /\ Idle.pc = "idle" /\ Idle.vars = NoVars /\ Idle.session = NoSession /\ Idle.staged = Untouched
      /\ Idle.hops = 0
  BY DEF Idle
<1>3. Idle \in Records
  <2>1. /\ DOMAIN Idle = {"pc", "input", "session", "old", "removed", "entry", "node", "vars", "waiting",
                           "staged", "hops", "row"}
        /\ Idle.pc \in Pcs /\ Idle.input \in Inputs /\ Idle.session \in Sessions \cup {NoSession}
        /\ Idle.old \in BOOLEAN /\ Idle.removed \in Int /\ Idle.entry \in Nat /\ Idle.node \in Nat
        /\ Idle.vars \in Variables /\ Idle.waiting \in BOOLEAN
        /\ Idle.staged \in Sessions \cup {Untouched, Reset} /\ Idle.hops \in Nat /\ Idle.row \in Nat
    BY <1>1 DEF Idle, NoNode, Pcs, Inputs
  <2>2. Idle = [pc |-> Idle.pc, input |-> Idle.input, session |-> Idle.session, old |-> Idle.old,
                removed |-> Idle.removed, entry |-> Idle.entry, node |-> Idle.node, vars |-> Idle.vars,
                waiting |-> Idle.waiting, staged |-> Idle.staged, hops |-> Idle.hops, row |-> Idle.row]
    BY DEF Idle
  <2> HIDE DEF Idle
  <2> QED BY <2>1, <2>2 DEF Records
<1>4. Bounded(Idle)
  BY <1>2, Given DEF Bounded
<1> HIDE DEF Idle
<1> QED BY <1>1, <1>2, <1>3, <1>4 DEF Sound, Expecting, Fresh

LEMMA SoundGrows ==
  ASSUME NEW P, NEW Q, P \subseteq Q, NEW r, Sound(r, P)
  PROVE  Sound(r, Q)
  BY DEF Sound, Expecting, Parked

LEMMA InFlowParked ==
  ASSUME NEW P, NEW n \in Nat, NEW v, Counted(v), NEW w \in BOOLEAN, w => <<v.run, n>> \in P
  PROVE  Parked(InFlow(n, v, w), P)
<1>1. v \in Variables
  BY DEF Counted
<1>2. InFlow(n, v, w) \in Sessions
  <2>1. \A state \in States : [state |-> state, node |-> n, vars |-> v, waiting |-> w] \in Sessions
    BY <1>1 DEF Sessions
  <2> QED BY <2>1 DEF InFlow, States
<1>3. InFlow(n, v, w).node = n /\ InFlow(n, v, w).vars = v /\ InFlow(n, v, w).waiting = w
  BY DEF InFlow
<1> QED BY <1>2, <1>3 DEF Parked

LEMMA PlainParked ==
  ASSUME NEW P, NEW state \in States
  PROVE  Parked(Plain(state), P)
  BY FreshVars DEF Parked, Plain, Sessions, Counted, NoNode

LEMMA Hopped ==
  ASSUME NEW P, NEW r, Sound(r, P), r.pc = "walk", r.hops < MaxHops
  PROVE  LET h == [r EXCEPT !.hops = @ + 1]
         IN  /\ Sound(h, P) /\ h.pc = "walk" /\ h.node = r.node /\ h.vars = r.vars
             /\ h.waiting = r.waiting /\ h.entry = r.entry
<1> DEFINE h == [r EXCEPT !.hops = @ + 1]
<1>1. r \in Records /\ r.hops \in Nat
  BY DEF Sound, Records
<1>2. h \in Records /\ h.hops = r.hops + 1
  <2>1. PICK n \in Nat : n = r.hops + 1
    BY <1>1
  <2>2. [r EXCEPT !.hops = n] \in Records /\ [r EXCEPT !.hops = n].hops = n
    BY <1>1 DEF Records
  <2> QED BY <2>1, <2>2
<1>3. /\ h.pc = "walk" /\ h.node = r.node /\ h.vars = r.vars /\ h.waiting = r.waiting /\ h.entry = r.entry
      /\ h.session = r.session /\ h.staged = r.staged
  BY <1>1 DEF Records
<1> HIDE DEF h
<1>4. Bounded(h)
  BY <1>1, <1>2, <1>3, Given DEF Bounded
<1>5. Sound(h, P)
  BY <1>2, <1>3, <1>4 DEF Sound, Expecting
<1> QED BY <1>3, <1>5 DEF h

LEMMA OverSound ==
  ASSUME NEW P, NEW r, Sound(r, P), NEW s, s \in {Untouched, Reset} \/ Parked(s, P)
  PROVE  Sound(Over(r, s), P) /\ Over(r, s).pc = "flush"
<1>1. r \in Records /\ s \in Sessions \cup {Untouched, Reset}
  BY DEF Sound, Parked
<1>2. Over(r, s) \in Records
  <2>1. \A pc \in Pcs : [r EXCEPT !.pc = pc, !.staged = s] \in Records
    BY <1>1 DEF Records
  <2> QED BY <2>1 DEF Over, Pcs
<1>3. /\ Over(r, s).pc = "flush" /\ Over(r, s).staged = s /\ Over(r, s).vars = r.vars
      /\ Over(r, s).session = r.session /\ Over(r, s).hops = r.hops
  BY <1>1 DEF Over, Records
<1> QED BY <1>2, <1>3 DEF Sound, Expecting, Bounded

LEMMA StagedSound ==
  ASSUME NEW P, NEW r, Sound(r, P), r.waiting = FALSE
  PROVE  LET q == [r EXCEPT !.staged = InFlow(r.node, r.vars, r.waiting)]
         IN  Sound(q, P) /\ q.pc = r.pc
<1> DEFINE s == InFlow(r.node, r.vars, r.waiting)
           q == [r EXCEPT !.staged = s]
<1>1. r \in Records /\ r.node \in Nat /\ Counted(r.vars)
  BY DEF Sound, Records
<1>2. Parked(s, P) /\ s \in Sessions
  BY <1>1, InFlowParked DEF Parked
<1> HIDE DEF s
<1>3. q \in Records
  BY <1>1, <1>2 DEF Records
<1>4. /\ q.pc = r.pc /\ q.staged = s /\ q.vars = r.vars /\ q.session = r.session /\ q.hops = r.hops
      /\ q.waiting = r.waiting
  BY <1>1 DEF Records
<1> HIDE DEF q
<1>5. Sound(q, P)
  BY <1>2, <1>3, <1>4 DEF Sound, Expecting, Bounded
<1> QED BY <1>4, <1>5 DEF q, s

LEMMA MovedSound ==
  ASSUME NEW P, NEW r, Sound(r, P), r.waiting = FALSE, NEW n \in Nat
  PROVE  LET q == [r EXCEPT !.node = n]
         IN  Sound(q, P) /\ q.pc = r.pc /\ q.waiting = FALSE
<1> DEFINE q == [r EXCEPT !.node = n]
<1>1. r \in Records
  BY DEF Sound
<1>2. q \in Records
  BY <1>1 DEF Records
<1>3. /\ q.pc = r.pc /\ q.staged = r.staged /\ q.vars = r.vars /\ q.session = r.session /\ q.hops = r.hops
      /\ q.waiting = r.waiting
  BY <1>1 DEF Records
<1> HIDE DEF q
<1>4. Sound(q, P)
  BY <1>2, <1>3 DEF Sound, Expecting, Bounded
<1> QED BY <1>3, <1>4 DEF q

LEMMA SettledSound ==
  ASSUME NEW P, NEW r, Sound(r, P), NEW v, Counted(v)
  PROVE  LET q == [r EXCEPT !.vars = v, !.waiting = FALSE]
         IN  Sound(q, P) /\ q.pc = r.pc /\ q.waiting = FALSE
<1> DEFINE q == [r EXCEPT !.vars = v, !.waiting = FALSE]
<1>1. r \in Records /\ v \in Variables
  BY DEF Sound, Counted
<1>2. q \in Records
  BY <1>1 DEF Records
<1>3. /\ q.pc = r.pc /\ q.staged = r.staged /\ q.vars = v /\ q.session = r.session /\ q.hops = r.hops
      /\ q.waiting = FALSE
  BY <1>1 DEF Records
<1> HIDE DEF q
<1>4. Sound(q, P)
  BY <1>2, <1>3 DEF Sound, Expecting, Bounded
<1> QED BY <1>3, <1>4 DEF q

\* A turn that waits for nothing goes on to any node, or leaves.
LEMMA GoToSound ==
  ASSUME NEW P, NEW t, NEW r, Sound(r, P), r.pc = "walk", r.waiting = FALSE, NEW n \in Nat, GoTo(t, r, n)
  PROVE  GoesOn(t, P)
<1>1. CASE n = NoNode
  BY <1>1, OverSound DEF GoTo, Leave, GoesOn, Fresh
<1>2. CASE n # NoNode
  <2> DEFINE q == [r EXCEPT !.node = n]
             s == [q EXCEPT !.staged = InFlow(q.node, q.vars, q.waiting)]
  <2>1. Sound(q, P) /\ q.pc = "walk" /\ q.waiting = FALSE
    BY MovedSound
  <2>2. Become(t, s)
    BY <1>2 DEF GoTo, Stage
  <2> HIDE DEF q
  <2>3. Sound(s, P) /\ s.pc = "walk"
    BY <2>1, StagedSound
  <2> HIDE DEF s
  <2> QED BY <2>2, <2>3 DEF GoesOn, Fresh
<1> QED BY <1>1, <1>2

LEMMA VarsSound ==
  ASSUME NEW P, NEW r, Sound(r, P), r.waiting = FALSE, NEW v, Counted(v)
  PROVE  LET q == [r EXCEPT !.vars = v]
         IN  Sound(q, P) /\ q.pc = r.pc /\ q.waiting = FALSE
<1> DEFINE q == [r EXCEPT !.vars = v]
<1>1. r \in Records /\ v \in Variables
  BY DEF Sound, Counted
<1>2. q \in Records
  BY <1>1 DEF Records
<1>3. /\ q.pc = r.pc /\ q.staged = r.staged /\ q.vars = v /\ q.session = r.session /\ q.hops = r.hops
      /\ q.waiting = r.waiting
  BY <1>1 DEF Records
<1> HIDE DEF q
<1>4. Sound(q, P)
  BY <1>2, <1>3 DEF Sound, Expecting, Bounded
<1> QED BY <1>3, <1>4 DEF q

-----------------------------------------------------------------------------
(* The graph *)

LEMMA EdgesNat ==
  ASSUME Typed, NEW t \in Turns, Exists(t, turn[t].node)
  PROVE  /\ This(t).next \in Nat /\ This(t).alt \in Nat /\ This(t).value \in Nat
         /\ Edge(t, This(t).next) \in Nat
         /\ \A alt \in BOOLEAN : NextBy(t, alt) \in Nat
         /\ This(t).kind = "set_variable" => This(t).field \in Fields \cup {"none"}
<1>1. turn[t].node \in DOMAIN graph.nodes /\ graph \in Graphs
  BY DEF Exists, Typed
<1>2. /\ This(t).next \in Nat /\ This(t).alt \in Nat /\ This(t).value \in Nat
      /\ This(t).kind = "set_variable" => This(t).field \in Fields \cup {"none"}
  BY <1>1, Given DEF This, Node
<1>3. \A n \in Nat : Edge(t, n) \in Nat
  BY DEF Edge, NoNode
<1> QED BY <1>2, <1>3 DEF NextBy, This

\* Less, as a relation, and the least element of a set of naturals.
Less == {p \in Nat \X Nat : p[1] < p[2]}
LEMMA Least ==
  ASSUME NEW T \in SUBSET Nat, T # {}
  PROVE  \E x \in T : \A y \in T : x <= y
<1>1. IsWellFoundedOn(Less, Nat)
  BY NatLessThanWellFounded, Zenon DEF OpToRel, Less
<1>2. PICK x \in T : \A y \in T : <<y, x>> \notin Less
  BY <1>1, WFMin, Zenon
<1>3. \A y \in T : ~ (y < x)
  BY <1>2 DEF Less
<1> QED BY <1>3

\* The producer of a variable, when there is one, is a node: the last of them.
LEMMA ProducerNat ==
  ASSUME Typed, NEW t \in Turns, NEW f
  PROVE  Producer(t, f) \in Nat
<1> DEFINE S == Producers(t, f)
           k == Len(graph.nodes)
           T == {j \in Nat : k - j \in S}
<1>1. CASE S = {}
  BY <1>1 DEF Producer, NoNode
<1>2. CASE S # {}
  <2>1. k \in Nat /\ \A n \in S : n \in 1 .. k
    BY Given DEF Typed, Producers, Exists
  <2>2. T # {} /\ T \in SUBSET Nat
    <3>1. PICK n \in S : TRUE
      BY <1>2
    <3>2. k - n \in Nat /\ k - (k - n) = n
      BY <2>1, <3>1
    <3> QED BY <3>1, <3>2
  <2> HIDE DEF S, k
  <2>3. PICK j \in T : \A i \in T : j <= i
    <3> HIDE DEF T
    <3> QED BY <2>2, Least
  <2>4. k - j \in S
    BY <2>3
  <2>5. \A m \in S : m <= k - j
    <3>1. SUFFICES ASSUME NEW m \in S PROVE m <= k - j
      OBVIOUS
    <3>2. m \in 1 .. k /\ k \in Nat
      BY <2>1
    <3>3. k - m \in T
      BY <3>2
    <3> QED BY <2>3, <3>2, <3>3
  <2>6. Producer(t, f) \in S
    BY <1>2, <2>4, <2>5 DEF Producer, S
  <2> QED BY <2>1, <2>6
<1> QED BY <1>1, <1>2

LEMMA Walking ==
  ASSUME Typed, Running, NEW t \in Turns, At(t, "walk")
  PROVE  /\ Sound(turn[t], Prompts) /\ turn[t] \in Records /\ Counted(turn[t].vars)
         /\ turn[t].node \in Nat /\ turn[t].entry \in Nat /\ turn[t].hops \in Nat /\ turn[t].hops <= MaxHops
         /\ turn[t].waiting \in BOOLEAN
         /\ turn[t].waiting => turn[t].node = turn[t].entry /\ Where(t) \in Prompts
  BY DEF Running, Sound, Records, Bounded, Expecting, At, Where

\* A node of another kind is met by a turn that waits for nothing.
LEMMA Unasked ==
  ASSUME Typed, Running, NEW t \in Turns, NEW kinds, On(t, kinds), kinds \cap Waiting = {}
  PROVE  turn[t].waiting = FALSE
<1>1. At(t, "walk") /\ Node(turn[t].node).kind \in kinds
  BY DEF On
<1>2. Where(t) \in Prompts => Node(turn[t].node).kind \in Waiting
  BY DEF Prompts, Where
<1> QED BY <1>1, <1>2, Walking

\* The turn after a hop on its node.
LEMMA HopSound ==
  ASSUME Typed, Running, NEW t \in Turns, NEW kinds, On(t, kinds)
  PROVE  /\ Sound(Hop(t), Prompts) /\ Hop(t).pc = "walk" /\ Hop(t).node = turn[t].node
         /\ Hop(t).vars = turn[t].vars /\ Hop(t).waiting = turn[t].waiting /\ Hop(t).entry = turn[t].entry
<1>1. At(t, "walk") /\ turn[t].hops < MaxHops
  BY DEF On
<1> QED BY <1>1, Walking, Hopped DEF At, Hop

\* The node of a hop goes on along an edge, or leaves.
LEMMA OnwardSound ==
  ASSUME Typed, Running, NEW t \in Turns, NEW kinds, On(t, kinds), kinds \cap Waiting = {},
         NEW n \in Nat, GoTo(t, Hop(t), n)
  PROVE  GoesOn(t, Prompts)
  BY Unasked, HopSound, GoToSound

LEMMA ContinueSound ==
  ASSUME Typed, NEW t \in Turns, Exists(t, turn[t].node),
         NEW P, NEW r, Sound(r, P), r.pc = "walk", r.waiting = FALSE, Continue(t, r)
  PROVE  GoesOn(t, P)
  BY EdgesNat, GoToSound DEF Continue

LEMMA LeaveSound ==
  ASSUME Typed, Running, NEW t \in Turns, NEW kinds, On(t, kinds), Leave(t, Hop(t))
  PROVE  GoesOn(t, Prompts)
  BY HopSound, OverSound DEF Leave, GoesOn, Fresh

-----------------------------------------------------------------------------
(* Nodes that do not wait *)

Quiet == asked' = asked /\ answered' = answered /\ redis' = redis /\ backup' = backup

LEMMA LostGoesOn ==
  ASSUME Typed, Running, NEW t \in Turns, Lost(t)
  PROVE  GoesOn(t, Prompts)
<1> DEFINE r == turn[t]
           q == [r EXCEPT !.hops = @ + 1]
           o == Over(q, Reset)
<1>1. /\ Sound(r, Prompts) /\ r \in Records /\ r.hops \in Nat /\ r.hops <= MaxHops
  BY Walking DEF Lost
<1>2. Become(t, o)
  BY DEF Lost, Leave, Hop
<1> HIDE DEF r
<1>3. PICK n \in Nat : n = r.hops + 1
  BY <1>1
<1>4. n <= MaxHops + 1
  BY <1>1, <1>3, Given
<1>5. q = [r EXCEPT !.hops = n]
  BY <1>3
<1>6. /\ q \in Records /\ q.hops = n /\ q.vars = r.vars /\ q.session = r.session
  BY <1>1, <1>5 DEF Records
<1> HIDE DEF q
<1>7. /\ o \in Records /\ o.hops = n /\ o.vars = q.vars /\ o.session = q.session /\ o.pc = "flush"
      /\ o.staged = Reset
  <2>1. \A pc \in Pcs, s \in Sessions \cup {Untouched, Reset} :
           LET p == [q EXCEPT !.pc = pc, !.staged = s]
           IN  /\ p \in Records /\ p.hops = n /\ p.vars = q.vars /\ p.session = q.session
               /\ p.pc = pc /\ p.staged = s
    BY <1>6 DEF Records
  <2>2. "flush" \in Pcs /\ Reset \in Sessions \cup {Untouched, Reset}
    BY DEF Pcs
  <2>3. o = [q EXCEPT !.pc = "flush", !.staged = Reset]
    BY DEF Over
  <2> HIDE DEF o
  <2> DEFINE p == [q EXCEPT !.pc = "flush", !.staged = Reset]
  <2>4. /\ p \in Records /\ p.hops = n /\ p.vars = q.vars /\ p.session = q.session
        /\ p.pc = "flush" /\ p.staged = Reset
    BY <2>1, <2>2, Zenon
  <2>5. o = p
    BY <2>3
  <2> HIDE DEF p
  <2> QED BY <2>4, <2>5
<1> HIDE DEF o
<1>8. Sound(o, Prompts)
  BY <1>1, <1>4, <1>6, <1>7 DEF Sound, Bounded, Expecting
<1> QED BY <1>2, <1>7, <1>8 DEF GoesOn, Fresh

LEMMA ClosedGoesOn ==
  ASSUME Typed, Running, NEW t \in Turns, Closed(t)
  PROVE  GoesOn(t, Prompts)
<1> DEFINE s == InFlow(turn[t].entry, turn[t].vars, turn[t].waiting)
<1>1. At(t, "walk") /\ turn[t].hops < MaxHops /\ Become(t, Over(Hop(t), s))
  BY DEF Closed
<1>2. Sound(Hop(t), Prompts)
  BY <1>1, Walking, Hopped DEF At, Hop
<1>3. Parked(s, Prompts)
  BY <1>1, Walking, InFlowParked DEF Where
<1> HIDE DEF s
<1> QED BY <1>1, <1>2, <1>3, OverSound DEF GoesOn, Fresh

\* start and branch.
LEMMA PassGoesOn ==
  ASSUME Typed, Running, NEW t \in Turns, Start(t) \/ \E alt \in BOOLEAN : Branch(t, alt)
  PROVE  GoesOn(t, Prompts)
<1>1. PICK alt \in BOOLEAN, kind \in {"start", "branch"} :
        /\ On(t, {kind})
        /\ IF NextBy(t, alt) = NoNode THEN Leave(t, Hop(t))
           ELSE Become(t, [Hop(t) EXCEPT !.node = NextBy(t, alt)])
  BY DEF Start, Branch
<1>2. Exists(t, turn[t].node) /\ {kind} \cap Waiting = {}
  BY <1>1 DEF On, Waiting, Collecting
<1>3. NextBy(t, alt) \in Nat
  BY <1>2, EdgesNat
<1>4. CASE NextBy(t, alt) = NoNode
  BY <1>1, <1>4, LeaveSound
<1>5. CASE NextBy(t, alt) # NoNode
  <2> DEFINE n == NextBy(t, alt)
             h == Hop(t)
  <2>1. n \in Nat /\ Become(t, [h EXCEPT !.node = n])
    BY <1>1, <1>3, <1>5
  <2>2. Sound(h, Prompts) /\ h.pc = "walk" /\ h.waiting = FALSE
    BY <1>1, <1>2, HopSound, Unasked
  <2> HIDE DEF n, h
  <2>3. Sound([h EXCEPT !.node = n], Prompts) /\ [h EXCEPT !.node = n].pc = "walk"
    BY <2>1, <2>2, MovedSound
  <2> QED BY <2>1, <2>3 DEF GoesOn, Fresh
<1> QED BY <1>4, <1>5

\* What goes on along an edge, and what ends the flow.
LEMMA EdgeGoesOn ==
  ASSUME Typed, Running, NEW t \in Turns,
         \/ \E alt \in BOOLEAN : TimeCondition(t, alt) \/ CheckAvailability(t, alt) \/ SendTemplate(t, alt)
         \/ Say(t) \/ SendSavedReply(t) \/ SayMenu(t)
         \/ UpdateBookingStatus(t) \/ CancelBooking(t) \/ ViewBookings(t) \/ RequestReview(t) \/ NotifyStaff(t)
         \/ Jump(t)
  PROVE  GoesOn(t, Prompts)
<1> DEFINE Talk == {"message", "send_saved_reply", "show_menu", "update_booking_status", "cancel_booking",
                    "view_bookings", "send_review_request", "notify_staff"}
           Passing == Talk \cup {"time_condition", "check_availability", "send_template", "jump"}
<1>1. CASE \E alt \in BOOLEAN : TimeCondition(t, alt) \/ CheckAvailability(t, alt) \/ SendTemplate(t, alt)
  <2>1. PICK alt \in BOOLEAN, kind \in Passing : On(t, {kind}) /\ GoTo(t, Hop(t), NextBy(t, alt))
    BY <1>1 DEF TimeCondition, CheckAvailability, SendTemplate
  <2>2. Exists(t, turn[t].node) /\ {kind} \cap Waiting = {}
    BY <2>1 DEF On, Waiting, Collecting
  <2> QED BY <2>1, <2>2, EdgesNat, OnwardSound
<1>2. CASE \/ Say(t) \/ SendSavedReply(t) \/ SayMenu(t)
           \/ UpdateBookingStatus(t) \/ CancelBooking(t) \/ ViewBookings(t) \/ RequestReview(t) \/ NotifyStaff(t)
           \/ Jump(t)
  <2>1. PICK kind \in Passing : On(t, {kind}) /\ GoTo(t, Hop(t), Edge(t, This(t).next))
    BY <1>2 DEF Say, SendSavedReply, SayMenu, UpdateBookingStatus, CancelBooking, ViewBookings, RequestReview,
       NotifyStaff, Through, Continue, Jump
  <2>2. Exists(t, turn[t].node) /\ {kind} \cap Waiting = {}
    BY <2>1 DEF On, Waiting, Collecting
  <2> QED BY <2>1, <2>2, EdgesNat, OnwardSound
<1> QED BY <1>1, <1>2

LEMMA SetGoesOn ==
  ASSUME Typed, Running, NEW t \in Turns, SetVariable(t)
  PROVE  GoesOn(t, Prompts)
<1> DEFINE h == Hop(t)
           f == This(t).field
           v == IF f = "none" THEN h.vars ELSE [h.vars EXCEPT ![f] = This(t).value]
<1>1. On(t, {"set_variable"}) /\ {"set_variable"} \cap Waiting = {}
  BY DEF SetVariable, Waiting, Collecting
<1>2. /\ Sound(h, Prompts) /\ h.pc = "walk" /\ h.waiting = FALSE /\ Counted(h.vars)
  BY <1>1, HopSound, Unasked DEF Sound
<1>3. Exists(t, turn[t].node) /\ f \in Fields \cup {"none"} /\ This(t).value \in Nat
  BY <1>1, EdgesNat DEF On, This
<1>4. Counted(v)
  BY <1>2, <1>3, SetCounted
<1>5. Continue(t, [h EXCEPT !.vars = v])
  BY DEF SetVariable
<1> HIDE DEF h, v, f
<1>6. LET q == [h EXCEPT !.vars = v] IN Sound(q, Prompts) /\ q.pc = "walk" /\ q.waiting = FALSE
  BY <1>2, <1>4, VarsSound
<1> QED BY <1>3, <1>5, <1>6, ContinueSound

LEMMA EndGoesOn ==
  ASSUME Typed, Running, NEW t \in Turns, End(t) \/ NoRooms(t) \/ NoOptions(t)
  PROVE  GoesOn(t, Prompts)
  BY LeaveSound DEF End, NoRooms, NoOptions

LEMMA OverGoesOn ==
  ASSUME Typed, Running, NEW t \in Turns, HandOff(t) \/ AllocationUnmoved(t)
  PROVE  GoesOn(t, Prompts)
<1>1. PICK s, kinds : On(t, kinds) /\ Become(t, Over(Hop(t), s)) /\ (s = Untouched \/ s = Plain("ENQUIRY_OPEN"))
  BY DEF HandOff, AllocationUnmoved
<1>2. Parked(Plain("ENQUIRY_OPEN"), Prompts)
  BY PlainParked DEF States
<1> QED BY <1>1, <1>2, HopSound, OverSound DEF GoesOn, Fresh

-----------------------------------------------------------------------------
(* Nodes that wait *)

LEMMA PromptsGrow ==
  ASSUME graph' = graph, asked \subseteq asked'
  PROVE  Prompts \subseteq Prompts'
  BY DEF Prompts, Node

LEMMA AwaitSound ==
  ASSUME Typed, Running, NEW t \in Turns, NEW kinds, On(t, kinds), Await(t, Hop(t)),
         NEW P, Prompts \subseteq P, Where(t) \in P
  PROVE  GoesOn(t, P)
<1> DEFINE h == Hop(t)
           s == InFlow(h.node, h.vars, TRUE)
<1>1. /\ Sound(h, P) /\ h.node = turn[t].node /\ h.vars = turn[t].vars
  BY HopSound, SoundGrows
<1>2. h.node \in Nat /\ Counted(h.vars) /\ <<h.vars.run, h.node>> \in P
  BY <1>1 DEF Sound, Records, Where
<1>3. Parked(s, P)
  BY <1>2, InFlowParked
<1>4. Become(t, Over(h, s))
  BY DEF Await
<1> HIDE DEF h, s
<1> QED BY <1>1, <1>3, <1>4, OverSound DEF GoesOn, Fresh

\* The first pass: the place becomes one where an answer may be taken.
LEMMA PromptGoesOn ==
  ASSUME Typed, Running, NEW t \in Turns, NEW kinds, On(t, kinds), kinds \subseteq Waiting, Prompted(t)
  PROVE  /\ GoesOn(t, Prompts') /\ asked' = asked \cup {Where(t)}
         /\ UNCHANGED <<walked, pausing, answered, faults>>
<1>1. /\ asked' = asked \cup {Where(t)} /\ Await(t, Hop(t))
      /\ UNCHANGED <<walked, pausing, answered, faults>>
  BY DEF Prompted
<1>2. graph' = graph
  BY <1>1 DEF walked, flow
<1>3. Where(t) \in Prompts'
  BY <1>1, <1>2 DEF Prompts, Where, On, Exists, Node
<1>4. Prompts \subseteq Prompts'
  BY <1>1, <1>2, PromptsGrow
<1> DEFINE P == Prompts'
<1> HIDE DEF P
<1>5. GoesOn(t, P)
  BY <1>1, <1>3, <1>4, AwaitSound DEF P
<1> QED BY <1>1, <1>5 DEF P

\* A turn that has an answer waits where it was asked.
LEMMA RepromptGoesOn ==
  ASSUME Typed, Running, NEW t \in Turns, Reprompt(t) \/ ShowMore(t)
  PROVE  GoesOn(t, Prompts)
<1>1. PICK kinds : On(t, kinds) /\ turn[t].waiting /\ Await(t, Hop(t))
  BY DEF Reprompt, ShowMore
<1>2. Where(t) \in Prompts
  BY <1>1, Walking DEF On
<1> QED BY <1>1, <1>2, AwaitSound

LEMMA AcceptGoesOn ==
  ASSUME Typed, Running, NEW t \in Turns, NEW kinds, On(t, kinds), NEW v, Counted(v), Accept(t, v)
  PROVE  GoesOn(t, Prompts) /\ Where(t) \in asked
<1> DEFINE h == Hop(t)
           q == [h EXCEPT !.vars = v, !.waiting = FALSE]
<1>1. Sound(h, Prompts) /\ h.pc = "walk"
  BY HopSound
<1>2. Continue(t, q)
  BY DEF Accept
<1> HIDE DEF h
<1>3. Sound(q, Prompts) /\ q.pc = "walk" /\ q.waiting = FALSE
  BY <1>1, SettledSound
<1> HIDE DEF q
<1>4. Exists(t, turn[t].node) /\ Where(t) \in Prompts
  BY Walking DEF On, Accept
<1> QED BY <1>2, <1>3, <1>4, ContinueSound DEF Prompts

\* No answer is taken where the flow did not ask.
LEMMA AnswerGoesOn ==
  ASSUME Typed, Running, NEW t \in Turns,
         \/ \E x \in Days : Answer(t, x) \/ PickRoom(t, x)
         \/ TakeOption(t) \/ Allocated(t)
  PROVE  /\ GoesOn(t, Prompts) /\ Where(t) \in asked /\ answered' = answered \cup {Where(t)}
         /\ UNCHANGED <<walked, pausing, asked, faults>>
<1>1. ASSUME At(t, "walk") PROVE Counted(turn[t].vars)
  BY <1>1, Walking
<1>2. \E kinds, v : On(t, kinds) /\ Accept(t, v) /\ Counted(v)
  <2>1. CASE \E x \in Days : Answer(t, x) \/ PickRoom(t, x)
    BY <1>1, <2>1, KeptCounted, RoomCounted, Given DEF Answer, PickRoom, On
  <2>2. CASE TakeOption(t) \/ Allocated(t)
    BY <1>1, <2>2, AllocatedCounted DEF TakeOption, Allocated, On
  <2> QED BY <2>1, <2>2
<1> QED BY <1>2, AcceptGoesOn DEF Accept

-----------------------------------------------------------------------------
(* create_booking *)

LEMMA BookingNode ==
  ASSUME Typed, Running, NEW t \in Turns, Group(t) \/ Single(t)
  PROVE  /\ Sound(Hop(t), Prompts) /\ Hop(t).pc = "walk" /\ Hop(t).waiting = FALSE
         /\ Hop(t).vars = turn[t].vars /\ Counted(turn[t].vars) /\ Exists(t, turn[t].node)
         /\ On(t, {"create_booking"})
<1>1. On(t, {"create_booking"}) /\ {"create_booking"} \cap Waiting = {}
  BY DEF Group, Single, Waiting, Collecting
<1> QED BY <1>1, HopSound, Unasked, Walking DEF On

LEMMA RetryGoesOn ==
  ASSUME Typed, Running, NEW t \in Turns, Group(t) \/ Single(t), NEW f \in Fields, CanRetry(t, f), Retry(t, f)
  PROVE  GoesOn(t, Prompts)
<1> DEFINE h == Hop(t)
           v == [turn[t].vars EXCEPT ![f] = 0, !.tally[f] = @ + 1, !.rewound[f] = @ + 1]
           q == [h EXCEPT !.vars = v, !.waiting = FALSE]
<1>1. Sound(h, Prompts) /\ h.pc = "walk" /\ Counted(turn[t].vars)
  BY BookingNode
<1>2. Counted(v)
  BY <1>1, RewindCounted DEF CanRetry
<1>3. GoTo(t, q, Producer(t, f)) /\ Producer(t, f) \in Nat
  BY ProducerNat DEF Retry
<1> HIDE DEF h, v
<1>4. Sound(q, Prompts) /\ q.pc = "walk" /\ q.waiting = FALSE
  BY <1>1, <1>2, SettledSound
<1> HIDE DEF q
<1> QED BY <1>3, <1>4, GoToSound

LEMMA BookingGoesOn ==
  ASSUME Typed, Running, NEW t \in Turns,
         \/ GroupRefused(t) \/ GroupSoldOut(t) \/ BookGroup(t)
         \/ RoomRefused(t) \/ RoomSoldOut(t) \/ BookRoom(t)
  PROVE  GoesOn(t, Prompts)
<1>1. Group(t) \/ Single(t)
  BY DEF GroupRefused, GroupSoldOut, BookGroup, RoomRefused, RoomSoldOut, BookRoom
<1>2. CASE Continue(t, Hop(t))
  BY <1>1, <1>2, BookingNode, ContinueSound
<1>3. CASE Leave(t, Hop(t))
  BY <1>1, <1>3, BookingNode, LeaveSound
<1>4. CASE \E f \in Fields : CanRetry(t, f) /\ Retry(t, f)
  BY <1>1, <1>4, RetryGoesOn
<1>5. CASE BookRoom(t)
  <2> DEFINE h == Hop(t)
             v == [h.vars EXCEPT !.tally = NoVars.tally, !.rewound = NoVars.rewound]
             q == [h EXCEPT !.vars = v]
  <2>1. Sound(h, Prompts) /\ h.pc = "walk" /\ h.waiting = FALSE /\ Counted(h.vars) /\ Exists(t, turn[t].node)
    BY <1>1, BookingNode
  <2>2. Counted(v)
    BY <2>1, BookedCounted
  <2>3. Continue(t, [h EXCEPT !.vars.tally = NoVars.tally, !.vars.rewound = NoVars.rewound])
    BY <1>5 DEF BookRoom
  <2>4. h \in Records /\ h.vars \in Variables
    BY <2>1 DEF Sound, Counted
  <2> HIDE DEF h
  <2>5. [h EXCEPT !.vars.tally = NoVars.tally, !.vars.rewound = NoVars.rewound] = q
    BY <2>4 DEF Records, Variables
  <2> HIDE DEF v
  <2>6. Sound(q, Prompts) /\ q.pc = "walk" /\ q.waiting = FALSE
    BY <2>1, <2>2, VarsSound
  <2> QED BY <2>1, <2>3, <2>5, <2>6, ContinueSound
<1>6. \/ Continue(t, Hop(t)) \/ Leave(t, Hop(t)) \/ (\E f \in Fields : CanRetry(t, f) /\ Retry(t, f)) \/ BookRoom(t)
  <2>1. DateToRetry(t) \in Fields /\ "room" \in Fields
    BY DEF DateToRetry, Fields
  <2>2. \A f \in Fields : RetryOrContinue(t, f) => Continue(t, Hop(t)) \/ (CanRetry(t, f) /\ Retry(t, f))
    BY DEF RetryOrContinue
  <2> QED BY <2>1, <2>2 DEF GroupRefused, GroupSoldOut, BookGroup, RoomRefused, RoomSoldOut
<1> QED BY <1>2, <1>3, <1>4, <1>5, <1>6

-----------------------------------------------------------------------------
(* Pauses *)

LEMMA RowGoesOn ==
  ASSUME Typed, Running, NEW t \in Turns, PauseRow(t)
  PROVE  /\ GoesOn(t, Prompts) /\ UNCHANGED <<walked, tallies, faults, job>>
         /\ pauses' \in Nat /\ \A p \in paused' : p.node \in Nat /\ Counted(p.vars)
<1>1. On(t, {"delay"}) /\ {"delay"} \cap Waiting = {} /\ UNCHANGED <<walked, tallies, faults>>
  BY DEF PauseRow, Waiting, Collecting
<1>2. /\ Sound(Hop(t), Prompts) /\ Hop(t).pc = "walk" /\ Counted(turn[t].vars) /\ This(t).next \in Nat
  BY <1>1, HopSound, Walking, EdgesNat DEF On
<1>3. pauses \in Nat /\ \A p \in paused : p.node \in Nat /\ Counted(p.vars)
  BY DEF Typed
<1>4. CASE Leave(t, Hop(t)) /\ UNCHANGED pausing
  BY <1>1, <1>3, <1>4, LeaveSound DEF pausing
<1>5. CASE /\ pauses' = pauses + 1 /\ UNCHANGED job
           /\ paused' = paused \cup {[id |-> pauses', node |-> This(t).next, vars |-> turn[t].vars]}
           /\ Become(t, [Hop(t) EXCEPT !.pc = "enqueue", !.row = pauses'])
  <2> DEFINE h == Hop(t)
  <2>1. PICK n \in Nat : n = pauses'
    BY <1>3, <1>5
  <2> DEFINE q == [h EXCEPT !.pc = "enqueue", !.row = n]
  <2>2. Sound(h, Prompts) /\ h \in Records /\ h.pc = "walk" /\ Become(t, q)
    BY <1>2, <1>5, <2>1 DEF Sound
  <2> HIDE DEF h
  <2>3. /\ q \in Records /\ q.pc = "enqueue" /\ q.vars = h.vars /\ q.hops = h.hops /\ q.session = h.session
        /\ q.staged = h.staged
    <3>1. \A pc \in Pcs : LET p == [h EXCEPT !.pc = pc, !.row = n]
                          IN  /\ p \in Records /\ p.pc = pc /\ p.vars = h.vars /\ p.hops = h.hops
                              /\ p.session = h.session /\ p.staged = h.staged
      BY <2>2 DEF Records
    <3>2. "enqueue" \in Pcs
      BY DEF Pcs
    <3> QED BY <3>1, <3>2
  <2> HIDE DEF q
  <2>4. Sound(q, Prompts)
    BY <2>2, <2>3 DEF Sound, Bounded, Expecting
  <2>5. GoesOn(t, Prompts)
    BY <2>2, <2>3, <2>4 DEF GoesOn, Fresh
  <2>6. \A p \in paused' : p.node \in Nat /\ Counted(p.vars)
    BY <1>2, <1>3, <1>5
  <2> QED BY <1>1, <1>3, <1>5, <2>5, <2>6
<1> QED BY <1>4, <1>5 DEF PauseRow

-----------------------------------------------------------------------------
(* One turn changes, and the rest stand *)

LEMMA TurnKept ==
  ASSUME Running, NEW t \in Turns, NEW q, Sound(q, Prompts'), Become(t, q), Prompts \subseteq Prompts'
  PROVE  /\ Running' /\ turn'[t] = q
         /\ \A u \in Turns : u # t => turn'[u] = turn[u]
<1> DEFINE P == Prompts'
<1>1. turn' = [turn EXCEPT ![t] = q] /\ DOMAIN turn = Turns
  BY DEF Become, Running
<1>2. turn'[t] = q /\ DOMAIN turn' = Turns /\ \A u \in Turns : u # t => turn'[u] = turn[u]
  BY <1>1
<1>3. \A u \in Turns : Sound(turn[u], P)
  <2> HIDE DEF P
  <2> SUFFICES ASSUME NEW u \in Turns PROVE Sound(turn[u], P)
    OBVIOUS
  <2>1. Sound(turn[u], Prompts) /\ Prompts \subseteq P
    BY DEF Running, P
  <2> QED BY <2>1, SoundGrows
<1>4. \A u \in Turns : Sound(turn'[u], P)
  BY <1>2, <1>3
<1> QED BY <1>2, <1>4 DEF Running

LEMMA GoesOnKept ==
  ASSUME Running, NEW t \in Turns, GoesOn(t, Prompts'), Prompts \subseteq Prompts'
  PROVE  Running' /\ Working' \subseteq Working \ {t}
<1> DEFINE P == Prompts'
<1>1. PICK q : Sound(q, P) /\ q.pc \notin Fresh /\ Become(t, q)
  BY DEF GoesOn
<1>2. /\ Running' /\ turn'[t] = q
      /\ \A u \in Turns : u # t => turn'[u] = turn[u]
  BY <1>1, TurnKept
<1> QED BY <1>1, <1>2 DEF Working, Turns

LEMMA StoredKept ==
  ASSUME Stored, UNCHANGED store, Prompts \subseteq Prompts'
  PROVE  Stored'
<1> DEFINE P == Prompts'
<1>1. \A s : Parked(s, Prompts) => Parked(s, P)
  BY DEF Parked
<1>2. redis' = NoSession \/ Parked(redis', P)
  BY <1>1 DEF Stored, store
<1>3. Parked(backup', P)
  BY <1>1 DEF Stored, store
<1> QED BY <1>2, <1>3 DEF Stored

LEMMA PutKept ==
  ASSUME Typed, Stored, Prompts \subseteq Prompts', NEW s, Parked(s, Prompts'), Put(s)
  PROVE  Stored' /\ faults' \in Nat /\ faults' <= MaxFaults
<1> DEFINE P == Prompts'
<1>1. \A r : Parked(r, Prompts) => Parked(r, P)
  BY DEF Parked
<1>2. redis' = s /\ (backup' = s \/ backup' = backup)
  BY DEF Put, Save
<1>3. Parked(redis', P) /\ Parked(backup', P)
  BY <1>1, <1>2 DEF Stored
<1>4. faults' \in Nat /\ faults' <= MaxFaults
  BY Given DEF Put, Save, Typed
<1> QED BY <1>3, <1>4 DEF Stored

LEMMA DropKept ==
  ASSUME Typed, Stored, Prompts \subseteq Prompts', Drop
  PROVE  Stored' /\ faults' \in Nat /\ faults' <= MaxFaults
<1> DEFINE P == Prompts'
<1>1. \A r : Parked(r, Prompts) => Parked(r, P)
  BY DEF Parked
<1>2. redis' = NoSession /\ (backup' = Plain("IDLE") \/ backup' = backup)
  BY DEF Drop, Save
<1>3. Parked(backup', P)
  BY <1>1, <1>2, PlainParked DEF Stored, States
<1>4. faults' \in Nat /\ faults' <= MaxFaults
  BY Given DEF Drop, Save, Typed
<1> QED BY <1>2, <1>3, <1>4 DEF Stored

\* Runs are counted as long as no turn takes up work but a message received.
LEMMA CountKept ==
  ASSUME RunsCounted, Typed, Working' \subseteq Working, UNCHANGED <<runs, messages>>
  PROVE  RunsCounted'
<1>1. IsFiniteSet(Working)
  BY FS_Subset, Given DEF Working
<1> DEFINE W == Working'
<1> HIDE DEF W
<1>2. W \subseteq Working
  BY DEF W
<1>3. Cardinality(W) <= Cardinality(Working) /\ Cardinality(W) \in Nat /\ Cardinality(Working) \in Nat
  BY <1>1, <1>2, FS_Subset, FS_CardinalityType
<1>4. runs + Cardinality(W) <= messages
  BY <1>3 DEF RunsCounted, Typed
<1> QED BY <1>4 DEF RunsCounted, W

LEMMA CountBegun ==
  ASSUME RunsCounted, Typed, NEW t \in Working, Working' \subseteq Working \ {t},
         runs' = runs + 1, UNCHANGED messages
  PROVE  RunsCounted'
<1>1. IsFiniteSet(Working)
  BY FS_Subset, Given DEF Working
<1> DEFINE W == Working'
           V == Working \ {t}
<1> HIDE DEF W, V
<1>2. W \subseteq V
  BY DEF W, V
<1>3. /\ IsFiniteSet(V) /\ Cardinality(V) = Cardinality(Working) - 1
      /\ Cardinality(Working) \in Nat
  BY <1>1, FS_RemoveElement, FS_CardinalityType DEF V
<1>4. Cardinality(W) <= Cardinality(V) /\ Cardinality(W) \in Nat
  BY <1>2, <1>3, FS_Subset, FS_CardinalityType
<1>5. runs + 1 + Cardinality(W) <= messages
  BY <1>3, <1>4 DEF RunsCounted, Typed
<1> QED BY <1>5 DEF RunsCounted, W

LEMMA CountReceived ==
  ASSUME RunsCounted, Typed, NEW t, Working' \subseteq Working \cup {t},
         messages' = messages + 1, UNCHANGED runs
  PROVE  RunsCounted'
<1>1. IsFiniteSet(Working)
  BY FS_Subset, Given DEF Working
<1> DEFINE W == Working'
           V == Working \cup {t}
<1> HIDE DEF W, V
<1>2. W \subseteq V
  BY DEF W, V
<1>3. /\ IsFiniteSet(V) /\ Cardinality(V) <= Cardinality(Working) + 1
      /\ Cardinality(Working) \in Nat /\ Cardinality(V) \in Nat
  BY <1>1, FS_AddElement, FS_CardinalityType DEF V
<1>4. Cardinality(W) <= Cardinality(V) /\ Cardinality(W) \in Nat
  BY <1>2, <1>3, FS_Subset, FS_CardinalityType
<1>5. runs + Cardinality(W) <= messages + 1
  BY <1>3, <1>4 DEF RunsCounted, Typed
<1> QED BY <1>5 DEF RunsCounted, W

-----------------------------------------------------------------------------
(* Every step of a walk keeps the invariant. *)

\* A hop that asks, answers and pauses nothing.
LEMMA QuietKept ==
  ASSUME TInv, NEW t \in Turns, GoesOn(t, Prompts), UNCHANGED <<walked, pausing, tallies, faults>>
  PROVE  TInv'
<1>1. Prompts' = Prompts
  BY DEF walked, flow, tallies, Prompts, Node
<1>2. Running' /\ Working' \subseteq Working
  BY <1>1, GoesOnKept DEF TInv
<1>3. Stored'
  BY <1>1, StoredKept DEF TInv, walked
<1>4. RunsCounted'
  BY <1>2, CountKept DEF TInv, walked
<1>5. Typed' /\ answered' \subseteq asked'
  BY DEF TInv, Typed, walked, flow, versions, pausing, tallies
<1> QED BY <1>2, <1>3, <1>4, <1>5 DEF TInv

LEMMA PromptKept ==
  ASSUME TInv, NEW t \in Turns, NEW kinds, On(t, kinds), kinds \subseteq Waiting, Prompted(t)
  PROVE  TInv'
<1>1. /\ GoesOn(t, Prompts') /\ asked' = asked \cup {Where(t)}
      /\ UNCHANGED <<walked, pausing, answered, faults>>
  BY PromptGoesOn DEF TInv
<1>2. Prompts \subseteq Prompts'
  BY <1>1, PromptsGrow DEF walked, flow
<1>3. Running' /\ Working' \subseteq Working
  BY <1>1, <1>2, GoesOnKept DEF TInv
<1>4. Stored'
  BY <1>1, <1>2, StoredKept DEF TInv, walked
<1>5. RunsCounted'
  BY <1>1, <1>3, CountKept DEF TInv, walked
<1>6. Typed' /\ answered' \subseteq asked'
  BY <1>1 DEF TInv, Typed, walked, flow, versions, pausing
<1> QED BY <1>3, <1>4, <1>5, <1>6 DEF TInv

LEMMA AnswerKept ==
  ASSUME TInv, NEW t \in Turns,
         \/ \E x \in Days : Answer(t, x) \/ PickRoom(t, x)
         \/ TakeOption(t) \/ Allocated(t)
  PROVE  TInv'
<1>1. /\ GoesOn(t, Prompts) /\ Where(t) \in asked /\ answered' = answered \cup {Where(t)}
      /\ UNCHANGED <<walked, pausing, asked, faults>>
  BY AnswerGoesOn DEF TInv
<1>2. Prompts' = Prompts
  BY <1>1 DEF walked, flow, Prompts, Node
<1>3. Running' /\ Working' \subseteq Working
  BY <1>1, <1>2, GoesOnKept DEF TInv
<1>4. Stored'
  BY <1>1, <1>2, StoredKept DEF TInv, walked
<1>5. RunsCounted'
  BY <1>1, <1>3, CountKept DEF TInv, walked
<1>6. Typed' /\ answered' \subseteq asked'
  BY <1>1 DEF TInv, Typed, walked, flow, versions, pausing
<1> QED BY <1>3, <1>4, <1>5, <1>6 DEF TInv

LEMMA PauseRowKept ==
  ASSUME TInv, NEW t \in Turns, PauseRow(t)
  PROVE  TInv'
<1>1. /\ GoesOn(t, Prompts) /\ UNCHANGED <<walked, tallies, faults, job>>
      /\ pauses' \in Nat /\ \A p \in paused' : p.node \in Nat /\ Counted(p.vars)
  BY RowGoesOn DEF TInv
<1>2. Prompts' = Prompts
  BY <1>1 DEF walked, flow, tallies, Prompts, Node
<1>3. Running' /\ Working' \subseteq Working
  BY <1>1, <1>2, GoesOnKept DEF TInv
<1>4. Stored'
  BY <1>1, <1>2, StoredKept DEF TInv, walked
<1>5. RunsCounted'
  BY <1>1, <1>3, CountKept DEF TInv, walked
<1>6. Typed' /\ answered' \subseteq asked'
  BY <1>1 DEF TInv, Typed, walked, flow, versions, tallies
<1> QED BY <1>3, <1>4, <1>5, <1>6 DEF TInv

LEMMA PauseJobKept ==
  ASSUME TInv, NEW t \in Turns, PauseJob(t)
  PROVE  TInv'
<1>1. UNCHANGED <<walked, paused, resumed, pauses, tallies, faults>> /\ At(t, "enqueue") /\ Leave(t, turn[t])
  BY DEF PauseJob
<1>2. Prompts' = Prompts
  BY <1>1 DEF walked, flow, tallies, Prompts, Node
<1>3. Sound(turn[t], Prompts)
  BY DEF TInv, Running
<1>4. GoesOn(t, Prompts)
  BY <1>1, <1>3, OverSound DEF Leave, GoesOn, Fresh
<1>5. Running' /\ Working' \subseteq Working
  BY <1>2, <1>4, GoesOnKept DEF TInv
<1>6. Stored'
  BY <1>1, <1>2, StoredKept DEF TInv, walked
<1>7. RunsCounted'
  BY <1>1, <1>5, CountKept DEF TInv, walked
<1>8. job' \in Jobs
  <2>1. turn[t].row \in Nat /\ job \in Jobs
    BY <1>3 DEF TInv, Typed, Sound, Records
  <2>2. NoJob \in Jobs
    BY DEF NoJob, Jobs, JobStates
  <2>3. [NoJob EXCEPT !.state = "waiting", !.row = turn[t].row] \in Jobs
    BY <2>1, <2>2 DEF Jobs, JobStates
  <2> QED BY <2>1, <2>3 DEF PauseJob
<1>9. Typed' /\ answered' \subseteq asked'
  BY <1>1, <1>8 DEF TInv, Typed, walked, flow, versions, tallies
<1> QED BY <1>5, <1>6, <1>7, <1>9 DEF TInv

\* The end of a turn and of its job.
LEMMA FinishedKept ==
  ASSUME TInv, NEW t \in Turns, NEW state \in JobStates, Finished(t, state), Prompts' = Prompts
  PROVE  Running' /\ Working' \subseteq Working \ {t} /\ job' \in Jobs
<1>1. GoesOn(t, Prompts)
  BY IdleSound DEF Finished, GoesOn
<1>2. Running' /\ Working' \subseteq Working \ {t}
  BY <1>1, GoesOnKept DEF TInv
<1>3. job \in Jobs
  BY DEF TInv, Typed
<1>4. [job EXCEPT !.state = state] \in Jobs
  BY <1>3 DEF Jobs
<1> QED BY <1>2, <1>3, <1>4 DEF Finished

LEMMA FlushKept ==
  ASSUME TInv, NEW t \in Turns, Flush(t)
  PROVE  TInv'
<1>1. /\ UNCHANGED <<flow, paused, resumed, pauses, tallies, runs, messages>>
      /\ Finished(t, "finished")
      /\ \/ Unsaved
         \/ Drop
         \/ turn[t].staged \notin {Untouched, Reset} /\ Put(turn[t].staged)
  BY DEF Flush
<1>2. Prompts' = Prompts
  BY <1>1 DEF flow, tallies, Prompts, Node
<1>3. Running' /\ Working' \subseteq Working /\ job' \in Jobs
  BY <1>1, <1>2, FinishedKept DEF JobStates
<1>4. Stored' /\ faults' \in Nat /\ faults' <= MaxFaults
  <2>1. CASE Unsaved
    BY <1>2, <2>1, StoredKept DEF TInv, Typed, Unsaved, store
  <2>2. CASE Drop
    BY <1>2, <2>2, DropKept DEF TInv
  <2>3. CASE turn[t].staged \notin {Untouched, Reset} /\ Put(turn[t].staged)
    <3>1. Parked(turn[t].staged, Prompts)
      BY <2>3 DEF TInv, Running, Sound
    <3> QED BY <1>2, <2>3, <3>1, PutKept DEF TInv
  <2> QED BY <1>1, <2>1, <2>2, <2>3
<1>5. RunsCounted'
  BY <1>1, <1>3, CountKept DEF TInv
<1>6. Typed' /\ answered' \subseteq asked'
  BY <1>1, <1>3, <1>4 DEF TInv, Typed, flow, versions, tallies
<1> QED BY <1>3, <1>4, <1>5, <1>6 DEF TInv

LEMMA WalkKept ==
  ASSUME TInv, NEW t \in Turns, Walk(t)
  PROVE  TInv'
<1>1. Typed /\ Running
  BY DEF TInv
<1>2. CASE Lost(t) \/ Closed(t)
  BY <1>1, <1>2, LostGoesOn, ClosedGoesOn, QuietKept DEF Lost, Closed
<1>3. CASE Start(t) \/ \E alt \in BOOLEAN : Branch(t, alt)
  BY <1>1, <1>3, PassGoesOn, QuietKept DEF Start, Branch
<1>4. CASE \/ \E alt \in BOOLEAN : TimeCondition(t, alt) \/ CheckAvailability(t, alt) \/ SendTemplate(t, alt)
           \/ Say(t) \/ SendSavedReply(t) \/ SayMenu(t)
           \/ UpdateBookingStatus(t) \/ CancelBooking(t) \/ ViewBookings(t) \/ RequestReview(t) \/ NotifyStaff(t)
           \/ Jump(t)
  <2>1. GoesOn(t, Prompts)
    BY <1>1, <1>4, EdgeGoesOn
  <2>2. UNCHANGED <<walked, pausing, tallies, faults>>
    BY <1>4 DEF TimeCondition, CheckAvailability, SendTemplate, Say, SendSavedReply, SayMenu, UpdateBookingStatus,
       CancelBooking, ViewBookings, RequestReview, NotifyStaff, Through, Jump
  <2> QED BY <2>1, <2>2, QuietKept
<1>5. CASE SetVariable(t)
  BY <1>1, <1>5, SetGoesOn, QuietKept DEF SetVariable
<1>6. CASE End(t) \/ NoRooms(t) \/ NoOptions(t)
  BY <1>1, <1>6, EndGoesOn, QuietKept DEF End, NoRooms, NoOptions
<1>7. CASE HandOff(t) \/ AllocationUnmoved(t)
  BY <1>1, <1>7, OverGoesOn, QuietKept DEF HandOff, AllocationUnmoved
<1>8. CASE AskQuestion(t) \/ OfferRooms(t) \/ OfferOptions(t)
  <2>1. PICK kinds : On(t, kinds) /\ kinds \subseteq Waiting /\ Prompted(t)
    BY <1>8 DEF AskQuestion, OfferRooms, OfferOptions, Waiting, Collecting
  <2> QED BY <2>1, PromptKept
<1>9. CASE AllocateRooms(t)
  <2>1. On(t, {"allocate"}) /\ {"allocate"} \subseteq Waiting
    BY <1>9 DEF AllocateRooms, Waiting
  <2>2. CASE Prompted(t)
    BY <2>1, <2>2, PromptKept
  <2>3. CASE Leave(t, Hop(t)) /\ UNCHANGED <<walked, pausing, tallies, faults>>
    BY <1>1, <2>1, <2>3, LeaveSound, QuietKept
  <2> QED BY <1>9, <2>2, <2>3 DEF AllocateRooms
<1>10. CASE Reprompt(t) \/ ShowMore(t)
  BY <1>1, <1>10, RepromptGoesOn, QuietKept DEF Reprompt, ShowMore
<1>11. CASE (\E x \in Days : Answer(t, x) \/ PickRoom(t, x)) \/ TakeOption(t) \/ Allocated(t)
  BY <1>11, AnswerKept
<1>12. CASE \/ GroupRefused(t) \/ GroupSoldOut(t) \/ BookGroup(t)
            \/ RoomRefused(t) \/ RoomSoldOut(t) \/ BookRoom(t)
  BY <1>1, <1>12, BookingGoesOn, QuietKept DEF GroupRefused, GroupSoldOut, BookGroup, RoomRefused, RoomSoldOut, BookRoom
<1>13. CASE PauseRow(t) \/ PauseJob(t) \/ Flush(t)
  BY <1>13, PauseRowKept, PauseJobKept, FlushKept
<1> QED BY <1>2, <1>3, <1>4, <1>5, <1>6, <1>7, <1>8, <1>9, <1>10, <1>11, <1>12, <1>13 DEF Walk

-----------------------------------------------------------------------------
(* Every step of a message that is routed keeps the invariant. *)

\* Begin: the turn walks from a node of the flow as it is, or was, published.
LEMMA BeginGoesOn ==
  ASSUME Typed, NEW t \in Turns, NEW P, Sound(turn[t], P), turn[t].pc # "flush",
         NEW n \in Nat, NEW v, Counted(v), NEW w \in BOOLEAN, w => <<v.run, n>> \in P,
         Begin(t, n, v, w)
  PROVE  GoesOn(t, P)
<1> DEFINE r == turn[t]
<1>1. PICK seen \in Published : Become(t, [r EXCEPT !.pc = "walk", !.removed = seen, !.entry = n, !.node = n,
                                                   !.vars = v, !.waiting = w])
  BY DEF Begin
<1>2. seen \in Int
  BY DEF Published, Typed, NoNode
<1>3. v \in Variables /\ r \in Records /\ "walk" \in Pcs
  BY DEF Counted, Sound, Pcs
<1> HIDE DEF r
<1>4. \A pc \in Pcs : LET q == [r EXCEPT !.pc = pc, !.removed = seen, !.entry = n, !.node = n, !.vars = v, !.waiting = w]
                      IN  /\ q \in Records /\ q.pc = pc /\ q.node = n /\ q.entry = n /\ q.vars = v /\ q.waiting = w
                          /\ q.hops = r.hops /\ q.session = r.session /\ q.staged = r.staged
  BY <1>2, <1>3 DEF Records
<1> DEFINE q == [r EXCEPT !.pc = "walk", !.removed = seen, !.entry = n, !.node = n, !.vars = v, !.waiting = w]
<1>5. /\ q \in Records /\ q.pc = "walk" /\ q.node = n /\ q.entry = n /\ q.vars = v /\ q.waiting = w
      /\ q.hops = r.hops /\ q.session = r.session /\ q.staged = r.staged
  BY <1>3, <1>4
<1>6. Become(t, q)
  BY <1>1
<1> HIDE DEF q
<1>7. Sound(q, P)
  BY <1>5 DEF Sound, Bounded, Expecting, r
<1> QED BY <1>5, <1>6, <1>7 DEF GoesOn, Fresh

\* A message at work, before it is routed.
LEMMA RoutedSound ==
  ASSUME NEW P, NEW r, Sound(r, P), r.pc \in Fresh \cup {"idle"}, NEW pc \in Fresh, NEW input \in Inputs,
         NEW s, s = NoSession \/ Parked(s, P), NEW old \in BOOLEAN,
         NEW q, q = [r EXCEPT !.pc = pc, !.input = input, !.session = s, !.old = old]
  PROVE  Sound(q, P)
<1>1. r \in Records /\ s \in Sessions \cup {NoSession} /\ pc \in Pcs
  BY DEF Sound, Parked, Pcs
<1>2. /\ q \in Records /\ q.pc = pc /\ q.vars = r.vars /\ q.waiting = r.waiting
      /\ q.hops = r.hops /\ q.session = s /\ q.staged = r.staged
  BY <1>1 DEF Records
<1> QED BY <1>2 DEF Sound, Bounded, Expecting, Fresh

LEMMA ReceiveKept ==
  ASSUME TInv, NEW t \in Guests, NEW input \in {"keyword", "item", "text"}, Receive(t, input)
  PROVE  TInv'
<1>1. /\ messages < graph.messages /\ messages' = messages + 1
      /\ UNCHANGED <<flow, store, pausing, tallies, runs, faults>>
      /\ At(t, "idle")
  BY DEF Receive
<1>2. Prompts' = Prompts
  BY <1>1 DEF flow, tallies, Prompts, Node
<1> DEFINE pc == IF redis = NoSession THEN "miss" ELSE "route"
           q == [Idle EXCEPT !.pc = pc, !.input = input, !.session = redis]
<1>3. Become(t, q)
  BY DEF Receive
<1>4. Sound(q, Prompts)
  <2>1. /\ Sound(Idle, Prompts) /\ pc \in Fresh /\ input \in Inputs /\ Idle.pc = "idle" /\ Idle.old = FALSE
        /\ redis = NoSession \/ Parked(redis, Prompts)
    BY IdleSound DEF Fresh, Inputs, Idle, TInv, Stored
  <2>2. Idle \in Records
    BY <2>1 DEF Sound
  <2> HIDE DEF pc, Idle
  <2>3. q = [Idle EXCEPT !.pc = pc, !.input = input, !.session = redis, !.old = FALSE]
    BY <2>1, <2>2 DEF Records
  <2> HIDE DEF q
  <2> QED BY <2>1, <2>3, RoutedSound
<1> HIDE DEF q
<1>5. /\ Running' /\ \A u \in Turns : u # t => turn'[u] = turn[u]
  BY <1>2, <1>3, <1>4, TurnKept DEF TInv, Turns
<1>6. Working' \subseteq Working \cup {t}
  BY <1>5 DEF Working, Turns
<1>7. Stored'
  BY <1>1, <1>2, StoredKept DEF TInv
<1>8. RunsCounted'
  BY <1>1, <1>6, CountReceived DEF TInv
<1>9. Typed' /\ answered' \subseteq asked'
  BY <1>1, Given DEF TInv, Typed, flow, versions, pausing, tallies
<1> QED BY <1>5, <1>7, <1>8, <1>9 DEF TInv

LEMMA ReadBackupKept ==
  ASSUME TInv, NEW t \in Guests, NEW old \in BOOLEAN, ReadBackup(t, old)
  PROVE  TInv'
<1>1. UNCHANGED <<flow, store, pausing, tallies, runs, messages, faults>> /\ turn[t].pc = "miss"
  BY DEF ReadBackup, At
<1>2. Prompts' = Prompts
  BY <1>1 DEF flow, tallies, Prompts, Node
<1> DEFINE r == turn[t]
           q == [r EXCEPT !.pc = "backfill", !.session = backup, !.old = old]
<1>3. Become(t, q)
  BY DEF ReadBackup
<1>4. Sound(q, Prompts)
  <2>1. Sound(r, Prompts) /\ r.pc \in Fresh /\ Parked(backup, Prompts)
    BY <1>1 DEF TInv, Running, Stored, Turns, Fresh
  <2>2. r \in Records /\ r.input \in Inputs /\ "backfill" \in Fresh
    BY <2>1 DEF Sound, Records, Fresh
  <2> HIDE DEF r
  <2>3. q = [r EXCEPT !.pc = "backfill", !.input = r.input, !.session = backup, !.old = old]
    BY <2>2 DEF Records
  <2> HIDE DEF q
  <2> QED BY <2>1, <2>2, <2>3, RoutedSound
<1> HIDE DEF q
<1>5. /\ Running' /\ \A u \in Turns : u # t => turn'[u] = turn[u]
  BY <1>2, <1>3, <1>4, TurnKept DEF TInv, Turns
<1>6. Working' \subseteq Working
  BY <1>1, <1>5 DEF Working, Turns, Fresh
<1>7. Stored'
  BY <1>1, <1>2, StoredKept DEF TInv
<1>8. RunsCounted'
  BY <1>1, <1>6, CountKept DEF TInv
<1>9. Typed' /\ answered' \subseteq asked'
  BY <1>1 DEF TInv, Typed, flow, versions, pausing, tallies
<1> QED BY <1>5, <1>7, <1>8, <1>9 DEF TInv

LEMMA BackfillKept ==
  ASSUME TInv, NEW t \in Guests, Backfill(t)
  PROVE  TInv'
<1>1. /\ UNCHANGED <<flow, backup, pausing, tallies, runs, messages, faults>> /\ turn[t].pc = "backfill"
      /\ redis' = turn[t].session
  BY DEF Backfill, At
<1>2. Prompts' = Prompts
  BY <1>1 DEF flow, tallies, Prompts, Node
<1> DEFINE r == turn[t]
           q == [r EXCEPT !.pc = "route"]
<1>3. Become(t, q)
  BY DEF Backfill
<1>4. Sound(r, Prompts) /\ (r.session = NoSession \/ Parked(r.session, Prompts))
  BY DEF TInv, Running, Turns, Sound
<1>5. Sound(q, Prompts)
  <2>1. r \in Records /\ r.input \in Inputs /\ r.old \in BOOLEAN /\ "route" \in Fresh /\ r.pc \in Fresh
    BY <1>1, <1>4 DEF Sound, Records, Fresh
  <2>2. r.session = NoSession \/ Parked(r.session, Prompts)
    BY <1>4
  <2> HIDE DEF r
  <2>3. q = [r EXCEPT !.pc = "route", !.input = r.input, !.session = r.session, !.old = r.old]
    BY <2>1 DEF Records
  <2> HIDE DEF q
  <2> QED BY <1>4, <2>1, <2>2, <2>3, RoutedSound
<1> HIDE DEF q
<1>6. /\ Running' /\ \A u \in Turns : u # t => turn'[u] = turn[u]
  BY <1>2, <1>3, <1>5, TurnKept DEF TInv, Turns
<1>7. Working' \subseteq Working
  BY <1>1, <1>6 DEF Working, Turns, Fresh
<1>8. Stored'
  BY <1>1, <1>2, <1>4 DEF TInv, Stored
<1>9. RunsCounted'
  BY <1>1, <1>7, CountKept DEF TInv
<1>10. Typed' /\ answered' \subseteq asked'
  BY <1>1 DEF TInv, Typed, flow, versions, pausing, tallies
<1> QED BY <1>6, <1>8, <1>9, <1>10 DEF TInv

LEMMA RouteResetKept ==
  ASSUME TInv, NEW t \in Guests, RouteReset(t)
  PROVE  TInv'
<1>1. /\ UNCHANGED <<flow, pausing, tallies, runs, messages>> /\ turn[t].pc = "route"
      /\ Unsaved \/ Drop
  BY DEF RouteReset, At
<1>2. Prompts' = Prompts
  BY <1>1 DEF flow, tallies, Prompts, Node
<1> DEFINE r == turn[t]
           q == [r EXCEPT !.session = Plain("IDLE"), !.old = FALSE]
<1>3. Become(t, q)
  BY DEF RouteReset
<1>4. Sound(q, Prompts)
  <2>1. Sound(r, Prompts) /\ r.pc = "route" /\ Parked(Plain("IDLE"), Prompts)
    BY <1>1, PlainParked DEF TInv, Running, Turns, States
  <2>2. r \in Records /\ r.input \in Inputs /\ "route" \in Fresh
    BY <2>1 DEF Sound, Records, Fresh
  <2> HIDE DEF r
  <2>3. q = [r EXCEPT !.pc = "route", !.input = r.input, !.session = Plain("IDLE"), !.old = FALSE]
    BY <2>1, <2>2 DEF Records
  <2> HIDE DEF q
  <2> QED BY <2>1, <2>2, <2>3, RoutedSound
<1> HIDE DEF q
<1>5. /\ Running' /\ \A u \in Turns : u # t => turn'[u] = turn[u]
  BY <1>2, <1>3, <1>4, TurnKept DEF TInv, Turns
<1>6. Working' \subseteq Working
  BY <1>1, <1>5 DEF Working, Turns, Fresh
<1>7. Stored' /\ faults' \in Nat /\ faults' <= MaxFaults
  <2>1. CASE Unsaved
    BY <1>2, <2>1, StoredKept DEF TInv, Typed, Unsaved, store
  <2>2. CASE Drop
    BY <1>2, <2>2, DropKept DEF TInv
  <2> QED BY <1>1, <2>1, <2>2
<1>8. RunsCounted'
  BY <1>1, <1>6, CountKept DEF TInv
<1>9. Typed' /\ answered' \subseteq asked'
  BY <1>1, <1>7 DEF TInv, Typed, flow, versions, pausing, tallies
<1> QED BY <1>5, <1>7, <1>8, <1>9 DEF TInv

\* A message that is routed and needs no more than a reply, or walks the flow.
LEMMA RoutedKept ==
  ASSUME TInv, NEW t \in Guests, At(t, "route"), GoesOn(t, Prompts),
         UNCHANGED <<flow, pausing, tallies, messages>>,
         runs' \in Nat, runs' = runs \/ runs' = runs + 1,
         Stored', faults' \in Nat, faults' <= MaxFaults
  PROVE  TInv'
<1>1. Prompts' = Prompts
  BY DEF flow, tallies, Prompts, Node
<1>2. Running' /\ Working' \subseteq Working \ {t}
  BY <1>1, GoesOnKept DEF TInv, Turns
<1>3. t \in Working
  BY DEF Working, At, Fresh
<1>4. RunsCounted'
  BY <1>2, <1>3, CountKept, CountBegun DEF TInv
<1>5. Typed' /\ answered' \subseteq asked'
  BY DEF TInv, Typed, flow, versions, pausing, tallies
<1> QED BY <1>2, <1>4, <1>5 DEF TInv

LEMMA ReplyGoesOn ==
  ASSUME NEW t \in Turns, Reply(t)
  PROVE  GoesOn(t, Prompts)
  BY IdleSound DEF Reply, GoesOn

LEMMA RouteKept ==
  ASSUME TInv, NEW t \in Guests, RouteFlow(t) \/ RouteGone(t) \/ RouteSilent(t) \/ Select(t)
  PROVE  TInv'
<1>1. /\ At(t, "route") /\ UNCHANGED <<flow, pausing, tallies, messages>> /\ t \in Turns
      /\ runs \in Nat /\ faults \in Nat /\ faults <= MaxFaults
  BY DEF RouteFlow, RouteGone, RouteSilent, Select, In, Turns, TInv, Typed
<1>2. Prompts' = Prompts
  BY <1>1 DEF flow, tallies, Prompts, Node
<1>3. Sound(turn[t], Prompts) /\ turn[t].pc = "route"
  BY <1>1 DEF TInv, Running, At
<1>4. CASE RouteFlow(t)
  <2> DEFINE s == turn[t].session
  <2>1. UNCHANGED <<store, runs, faults>> /\ Begin(t, s.node, s.vars, s.waiting) /\ s.state = "FLOW"
    BY <1>4 DEF RouteFlow, In
  <2>2. Parked(s, Prompts)
    BY <1>3, <2>1 DEF Sound, NoSession
  <2>3. s.node \in Nat /\ Counted(s.vars) /\ s.waiting \in BOOLEAN /\ (s.waiting => <<s.vars.run, s.node>> \in Prompts)
    BY <2>2 DEF Parked, Sessions
  <2> HIDE DEF s
  <2>4. GoesOn(t, Prompts)
    BY <1>1, <1>3, <2>1, <2>3, BeginGoesOn DEF TInv
  <2>5. Stored'
    BY <1>2, <2>1, StoredKept DEF TInv
  <2> QED BY <1>1, <2>1, <2>4, <2>5, RoutedKept
<1>5. CASE (Drop /\ Reply(t) /\ UNCHANGED runs)
  BY <1>1, <1>2, <1>5, DropKept, ReplyGoesOn, RoutedKept DEF TInv
<1>6. CASE RouteSilent(t)
  <2>1. UNCHANGED <<store, runs, faults>> /\ Reply(t)
    BY <1>6 DEF RouteSilent
  <2>2. Stored'
    BY <1>2, <2>1, StoredKept DEF TInv
  <2> QED BY <1>1, <2>1, <2>2, ReplyGoesOn, RoutedKept
<1>7. CASE ShowMenu(t) \/ HandOver(t)
  <2>1. PICK state \in States : Put(Plain(state)) /\ Reply(t) /\ UNCHANGED runs
    BY <1>7 DEF ShowMenu, HandOver, States
  <2>2. Parked(Plain(state), Prompts')
    BY <1>2, PlainParked
  <2>3. Stored' /\ faults' \in Nat /\ faults' <= MaxFaults
    BY <1>2, <2>1, <2>2, PutKept DEF TInv
  <2> QED BY <1>1, <2>1, <2>3, ReplyGoesOn, RoutedKept
<1>8. CASE StartFlow(t)
  <2> DEFINE v == [NoVars EXCEPT !.run = runs + 1]
             n == graph.start
  <2>1. runs' = runs + 1 /\ Put(InFlow(n, v, FALSE)) /\ Begin(t, n, v, FALSE)
    BY <1>8 DEF StartFlow
  <2>2. Counted(v) /\ n \in Nat
    <3>1. PICK m \in Nat : m = runs + 1
      BY <1>1
    <3>2. Counted([NoVars EXCEPT !.run = m])
      BY FreshVars
    <3>3. graph.start \in Nat
      BY Given DEF TInv, Typed
    <3> QED BY <3>1, <3>2, <3>3
  <2> HIDE DEF v, n
  <2>3. Parked(InFlow(n, v, FALSE), Prompts')
    BY <1>2, <2>2, InFlowParked
  <2>4. Stored' /\ faults' \in Nat /\ faults' <= MaxFaults
    BY <1>2, <2>1, <2>3, PutKept DEF TInv
  <2>5. GoesOn(t, Prompts)
    BY <1>1, <1>3, <2>1, <2>2, BeginGoesOn DEF TInv
  <2> QED BY <1>1, <2>1, <2>4, <2>5, RoutedKept
<1>9. RouteGone(t) => Drop /\ Reply(t) /\ UNCHANGED runs
  BY DEF RouteGone
<1>10. Select(t) => StartFlow(t) \/ HandOver(t) \/ (Drop /\ Reply(t) /\ UNCHANGED runs) \/ ShowMenu(t)
  BY DEF Select
<1> QED BY <1>4, <1>5, <1>6, <1>7, <1>8, <1>9, <1>10

-----------------------------------------------------------------------------
(* The resume worker, failures and the editor *)

LEMMA LoadKept ==
  ASSUME TInv, NEW k \in Resumers, TakeJob(k) \/ LoadPause(k) \/ DeletePause(k)
  PROVE  TInv'
<1>1. /\ UNCHANGED <<walked, pauses, tallies, faults>> /\ k \in Turns /\ paused' \subseteq paused
      /\ job \in Jobs /\ Sound(turn[k], Prompts)
  BY DEF TakeJob, LoadPause, DeletePause, Turns, TInv, Running, Typed
<1>2. Prompts' = Prompts
  BY <1>1 DEF walked, flow, tallies, Prompts, Node
<1>3. Running' /\ Working' \subseteq Working /\ job' \in Jobs
  <2>1. CASE TakeJob(k)
    <3>1. job.row \in Nat /\ Sound(Idle, Prompts) /\ Idle \in Records /\ "load" \in Pcs
      BY <1>1, IdleSound DEF Jobs, Sound, Pcs
    <3> DEFINE q == [Idle EXCEPT !.pc = "load", !.row = job.row]
    <3>2. Become(k, q)
      BY <2>1 DEF TakeJob
    <3> HIDE DEF Idle
    <3>3. /\ q \in Records /\ q.pc = "load" /\ q.vars = Idle.vars /\ q.hops = Idle.hops /\ q.session = Idle.session
          /\ q.staged = Idle.staged /\ Idle.pc # "flush"
      <4>1. \A pc \in Pcs : LET p == [Idle EXCEPT !.pc = pc, !.row = job.row]
                            IN  /\ p \in Records /\ p.pc = pc /\ p.vars = Idle.vars /\ p.hops = Idle.hops
                                /\ p.session = Idle.session /\ p.staged = Idle.staged
        BY <3>1 DEF Records
      <4>2. Idle.pc # "flush"
        BY DEF Idle
      <4> QED BY <3>1, <4>1, <4>2
    <3> HIDE DEF q
    <3>4. Sound(q, Prompts)
      BY <3>1, <3>3 DEF Sound, Bounded, Expecting
    <3>5. GoesOn(k, Prompts)
      BY <3>2, <3>3, <3>4 DEF GoesOn, Fresh
    <3>6. job' \in Jobs
      BY <1>1, <2>1 DEF TakeJob, Jobs, JobStates
    <3> QED BY <1>1, <1>2, <3>5, <3>6, GoesOnKept DEF TInv
  <2>2. CASE \E state \in {"finished", "dead"} : Finished(k, state)
    BY <1>1, <1>2, <2>2, FinishedKept DEF JobStates
  <2>3. CASE \E p \in paused : /\ Become(k, [turn[k] EXCEPT !.pc = "delete", !.node = p.node, !.vars = p.vars])
                               /\ UNCHANGED job /\ turn[k].pc # "flush"
    <3> DEFINE r == turn[k]
    <3>1. PICK p \in paused : Become(k, [r EXCEPT !.pc = "delete", !.node = p.node, !.vars = p.vars])
      BY <2>3
    <3>2. p.node \in Nat /\ Counted(p.vars) /\ p.vars \in Variables /\ r \in Records /\ "delete" \in Pcs
      BY <1>1 DEF TInv, Typed, Counted, Sound, Pcs
    <3> DEFINE q == [r EXCEPT !.pc = "delete", !.node = p.node, !.vars = p.vars]
    <3>3. Become(k, q) /\ r.pc # "flush" /\ Sound(r, Prompts)
      BY <1>1, <2>3, <3>1
    <3> HIDE DEF r
    <3>4. /\ q \in Records /\ q.pc = "delete" /\ q.vars = p.vars /\ q.hops = r.hops /\ q.session = r.session
          /\ q.staged = r.staged
      <4>1. \A pc \in Pcs : LET b == [r EXCEPT !.pc = pc, !.node = p.node, !.vars = p.vars]
                            IN  /\ b \in Records /\ b.pc = pc /\ b.vars = p.vars /\ b.hops = r.hops
                                /\ b.session = r.session /\ b.staged = r.staged
        BY <3>2 DEF Records
      <4> QED BY <3>2, <4>1
    <3> HIDE DEF q
    <3>5. Sound(q, Prompts)
      BY <3>2, <3>3, <3>4 DEF Sound, Bounded, Expecting
    <3>6. GoesOn(k, Prompts)
      BY <3>3, <3>4, <3>5 DEF GoesOn, Fresh
    <3> QED BY <1>1, <1>2, <2>3, <3>6, GoesOnKept DEF TInv
  <2>4. CASE Become(k, [turn[k] EXCEPT !.pc = "restore"]) /\ UNCHANGED job /\ turn[k].pc # "flush"
    <3> DEFINE r == turn[k]
               q == [r EXCEPT !.pc = "restore"]
    <3>1. Become(k, q) /\ r.pc # "flush" /\ Sound(r, Prompts) /\ r \in Records /\ "restore" \in Pcs
      BY <1>1, <2>4 DEF Sound, Pcs
    <3> HIDE DEF r
    <3>2. /\ q \in Records /\ q.pc = "restore" /\ q.vars = r.vars /\ q.hops = r.hops /\ q.session = r.session
          /\ q.staged = r.staged
      <4>1. \A pc \in Pcs : LET b == [r EXCEPT !.pc = pc]
                            IN  /\ b \in Records /\ b.pc = pc /\ b.vars = r.vars /\ b.hops = r.hops
                                /\ b.session = r.session /\ b.staged = r.staged
        BY <3>1 DEF Records
      <4> QED BY <3>1, <4>1
    <3> HIDE DEF q
    <3>3. Sound(q, Prompts)
      BY <3>1, <3>2 DEF Sound, Bounded, Expecting
    <3>4. GoesOn(k, Prompts)
      BY <3>1, <3>2, <3>3 DEF GoesOn, Fresh
    <3> QED BY <1>1, <1>2, <2>4, <3>4, GoesOnKept DEF TInv
  <2>5. LoadPause(k) => turn[k].pc = "load"
    BY DEF LoadPause, At
  <2>6. DeletePause(k) => turn[k].pc = "delete"
    BY DEF DeletePause, At
  <2>7. LoadPause(k) => \/ Finished(k, "finished")
                        \/ \E p \in paused : /\ Become(k, [turn[k] EXCEPT !.pc = "delete", !.node = p.node, !.vars = p.vars])
                                             /\ UNCHANGED job
    BY DEF LoadPause
  <2>8. DeletePause(k) => \/ Finished(k, "dead")
                          \/ Become(k, [turn[k] EXCEPT !.pc = "restore"]) /\ UNCHANGED job
    BY DEF DeletePause
  <2>9. LoadPause(k) => Running' /\ Working' \subseteq Working /\ job' \in Jobs
    BY <2>2, <2>3, <2>5, <2>7
  <2>10. DeletePause(k) => Running' /\ Working' \subseteq Working /\ job' \in Jobs
    BY <2>2, <2>4, <2>6, <2>8
  <2> QED BY <2>1, <2>9, <2>10
<1>4. Stored'
  BY <1>1, <1>2, StoredKept DEF TInv, walked
<1>5. RunsCounted'
  BY <1>1, <1>3, CountKept DEF TInv, walked
<1>6. Typed' /\ answered' \subseteq asked'
  BY <1>1, <1>3 DEF TInv, Typed, walked, flow, versions, tallies
<1> QED BY <1>3, <1>4, <1>5, <1>6 DEF TInv

LEMMA RestoreKept ==
  ASSUME TInv, NEW k \in Resumers, Restore(k)
  PROVE  TInv'
<1> DEFINE n == turn[k].node
           v == turn[k].vars
<1>1. /\ UNCHANGED <<flow, pausing, tallies, runs, messages>> /\ k \in Turns /\ turn[k].pc = "restore"
      /\ Put(InFlow(n, v, FALSE)) /\ Begin(k, n, v, FALSE)
  BY DEF Restore, Turns, At
<1>2. Prompts' = Prompts
  BY <1>1 DEF flow, tallies, Prompts, Node
<1>3. Sound(turn[k], Prompts) /\ n \in Nat /\ Counted(v)
  BY <1>1 DEF TInv, Running, Sound, Records
<1> HIDE DEF n, v
<1>4. GoesOn(k, Prompts)
  BY <1>1, <1>3, BeginGoesOn DEF TInv
<1>5. Parked(InFlow(n, v, FALSE), Prompts')
  BY <1>2, <1>3, InFlowParked
<1>6. Stored' /\ faults' \in Nat /\ faults' <= MaxFaults
  BY <1>1, <1>2, <1>5, PutKept DEF TInv
<1>7. Running' /\ Working' \subseteq Working
  BY <1>1, <1>2, <1>4, GoesOnKept DEF TInv
<1>8. RunsCounted'
  BY <1>1, <1>7, CountKept DEF TInv
<1>9. Typed' /\ answered' \subseteq asked'
  BY <1>1, <1>6 DEF TInv, Typed, flow, versions, pausing, tallies
<1> QED BY <1>6, <1>7, <1>8, <1>9 DEF TInv

\* Failures leave every turn that is left as it was.
LEMMA FailKept ==
  ASSUME TInv, (\E t \in Turns : Throw(t)) \/ Stall \/ Crash \/ Expire \/ Forget
  PROVE  TInv'
<1>1. /\ UNCHANGED <<flow, backup, paused, resumed, pauses, tallies, runs, messages>>
      /\ redis' = redis \/ redis' = NoSession
      /\ faults' = faults \/ (faults < MaxFaults /\ faults' = faults + 1)
  BY DEF Throw, Stall, Crash, Expire, Forget, walked, store, pausing
<1>2. Prompts' = Prompts
  BY <1>1 DEF flow, tallies, Prompts, Node
<1>3. job \in Jobs
  BY DEF TInv, Typed
<1>4. Running' /\ Working' \subseteq Working /\ job' \in Jobs
  <2>1. CASE \E t \in Turns : Throw(t)
    BY <1>2, <2>1, FinishedKept DEF Throw, JobStates
  <2>2. ASSUME UNCHANGED turn PROVE Running' /\ Working' \subseteq Working
    BY <1>2, <2>2 DEF TInv, Running, Working
  <2>3. CASE Stall \/ Crash
    <3>1. Again \in Jobs /\ job' = Again
      BY <1>3, <2>3 DEF Again, Jobs, JobStates, Stall, Crash
    <3>2. CASE Stall
      BY <2>2, <3>1, <3>2 DEF Stall
    <3>3. CASE Crash
      <4>1. turn' = [t \in Turns |-> Idle]
        BY <3>3 DEF Crash
      <4>2. Running'
        BY <1>2, <4>1, IdleSound DEF Running
      <4>3. Working' \subseteq Working
        BY <4>1, IdleSound DEF Working, Turns
      <4> QED BY <3>1, <4>2, <4>3
    <3> QED BY <2>3, <3>2, <3>3
  <2>4. CASE Expire
    BY <1>3, <2>2, <2>4 DEF Expire, pausing
  <2>5. CASE Forget
    <3>1. NoJob \in Jobs
      BY DEF NoJob, Jobs, JobStates
    <3> QED BY <2>2, <2>5, <3>1 DEF Forget
  <2> QED BY <2>1, <2>3, <2>4, <2>5
<1>5. Stored'
  BY <1>1, <1>2 DEF TInv, Stored
<1>6. RunsCounted'
  BY <1>1, <1>4, CountKept DEF TInv
<1>7. faults' \in Nat /\ faults' <= MaxFaults
  BY <1>1, Given DEF TInv, Typed
<1>8. Typed' /\ answered' \subseteq asked'
  BY <1>1, <1>4, <1>7 DEF TInv, Typed, flow, versions, tallies
<1> QED BY <1>4, <1>5, <1>6, <1>8 DEF TInv

\* An edit changes what later turns see of the flow, and no prompt.
LEMMA EditKept ==
  ASSUME TInv, (\E n \in DOMAIN graph.nodes : SaveDraft(n)) \/ PublishDraft \/ RollBack
  PROVE  TInv'
<1>1. /\ UNCHANGED <<graph, store, turn, pausing, tallies, runs, messages>>
      /\ faults' = faults \/ (faults < MaxFaults /\ faults' = faults + 1)
  BY DEF SaveDraft, PublishDraft, RollBack
<1>2. removed' \in Int /\ draft' \in Int
  <2>1. \A n \in DOMAIN graph.nodes : n \in Int
    BY Given DEF TInv, Typed
  <2>2. removed \in Int /\ draft \in Int /\ NoDraft \in Int /\ NoNode \in Int
    BY DEF TInv, Typed, NoDraft, NoNode
  <2> QED BY <2>1, <2>2 DEF SaveDraft, PublishDraft, RollBack
<1>3. Prompts' = Prompts
  BY <1>1 DEF tallies, Prompts, Node
<1>4. Running' /\ Working' \subseteq Working
  BY <1>1, <1>3 DEF TInv, Running, Working
<1>5. Stored'
  BY <1>1, <1>3, StoredKept DEF TInv
<1>6. RunsCounted'
  BY <1>1, <1>4, CountKept DEF TInv
<1>7. faults' \in Nat /\ faults' <= MaxFaults
  BY <1>1, Given DEF TInv, Typed
<1>8. Typed' /\ answered' \subseteq asked'
  BY <1>1, <1>2, <1>7 DEF TInv, Typed, pausing, tallies
<1> QED BY <1>4, <1>5, <1>6, <1>8 DEF TInv

-----------------------------------------------------------------------------
LEMMA InitTInv == Init => TInv
<1> SUFFICES ASSUME Init PROVE TInv
  OBVIOUS
<1>1. Running
  BY IdleSound DEF Init, Running
<1>2. Stored
  BY PlainParked DEF Init, Stored, States
<1>3. Typed
  <2>1. graph \in Graphs /\ graph.messages \in Nat /\ MaxFaults \in Nat
    BY Given DEF Init
  <2>2. NoJob \in Jobs /\ NoDraft \in Int /\ NoNode \in Int
    BY DEF NoJob, Jobs, JobStates, NoDraft, NoNode
  <2> QED BY <2>1, <2>2 DEF Init, Typed
<1>4. RunsCounted
  <2>1. Working = {}
    BY DEF Init, Working, Turns, Idle, Fresh
  <2> QED BY <2>1, FS_EmptySet DEF Init, RunsCounted
<1> QED BY <1>1, <1>2, <1>3, <1>4 DEF TInv, Init

LEMMA NextTInv == TInv /\ [Next]_vars => TInv'
<1> SUFFICES ASSUME TInv, [Next]_vars PROVE TInv'
  OBVIOUS
<1>1. CASE \E t \in Guests, input \in {"keyword", "item", "text"} : Receive(t, input)
  BY <1>1, ReceiveKept
<1>2. CASE \E t \in Guests : Message(t)
  BY <1>2, ReadBackupKept, BackfillKept, RouteResetKept, RouteKept DEF Message
<1>3. CASE \E k \in Resumers : TakeJob(k) \/ Resume(k)
  BY <1>3, LoadKept, RestoreKept DEF Resume
<1>4. CASE \E t \in Turns : Walk(t)
  BY <1>4, WalkKept
<1>5. CASE (\E t \in Turns : Throw(t)) \/ Stall \/ Crash \/ Expire \/ Forget
  BY <1>5, FailKept
<1>6. CASE (\E n \in DOMAIN graph.nodes : SaveDraft(n)) \/ PublishDraft \/ RollBack
  BY <1>6, EditKept
<1>7. CASE UNCHANGED vars
  BY <1>7 DEF vars, TInv, Typed, Stored, Running, RunsCounted, Working, Prompts, Node
<1> QED BY <1>1, <1>2, <1>3, <1>4, <1>5, <1>6, <1>7 DEF Next

-----------------------------------------------------------------------------
\* What every turn, session and pause holds, and the runs counted, hold in
\* every reachable state.
THEOREM Held == Spec => []TInv
  BY InitTInv, NextTInv, PTL DEF Spec

\* The state is well typed, whatever turns run at once: a turn makes at most
\* MAX_HOPS + 1 hops, a guest is sent back for a room at most MAX_STEP_RETRIES
\* times for one booking, and a run of the flow is begun by one message only
\* (flowRuntime.ts, the hop count; stepRetry.ts, the retry counters).
THEOREM FlowTyped == Spec => []TypeOK
<1>1. TInv /\ FInv => TypeOK
  <2> SUFFICES ASSUME TInv, FInv PROVE TypeOK
    OBVIOUS
  <2>1. \A t \in Turns : turn[t].hops \in 0 .. MaxHops + 1 /\ turn[t].vars.rewound["room"] <= MaxRetries
    <3> SUFFICES ASSUME NEW t \in Turns
                 PROVE  turn[t].hops \in 0 .. MaxHops + 1 /\ turn[t].vars.rewound["room"] <= MaxRetries
      OBVIOUS
    <3>1. turn[t].hops \in Nat /\ turn[t].hops <= MaxHops + 1 /\ Counted(turn[t].vars)
      BY DEF TInv, Running, Sound, Bounded, Records
    <3>2. turn[t].hops \in 0 .. MaxHops + 1
      BY <3>1, Given
    <3> QED BY <3>1, <3>2 DEF Counted
  <2>2. redis # NoSession => redis.vars.rewound["room"] <= MaxRetries
    BY DEF TInv, Stored, Parked, Counted
  <2>3. job.state \in {"none", "waiting", "active", "finished", "dead"}
    BY DEF TInv, Typed, Jobs, JobStates
  <2>4. \A p \in paused : p.id \in 1 .. pauses
    BY DEF FInv, Numbered
  <2>5. runs <= messages
    <3>1. Cardinality(Working) \in Nat
      BY FS_Subset, FS_CardinalityType, Given DEF Working
    <3> QED BY <3>1 DEF TInv, Typed, RunsCounted
  <2> QED BY <2>1, <2>2, <2>3, <2>4, <2>5 DEF TypeOK, TInv, Typed
<1>2. Spec => []FInv
  BY InitFInv, NextFInv, PTL DEF Spec
<1> QED BY <1>1, <1>2, Held, PTL

\* A hop never takes the text of an earlier answer for its own: an answer is
\* taken only at a node that prompted in that run of the flow, whichever store
\* the session was read from (flowRuntime.ts, waitingFor).
THEOREM AnswersAreAskedFor == Spec => []AnsweredWhatWasAsked
<1>1. TInv => AnsweredWhatWasAsked
  BY DEF TInv, AnsweredWhatWasAsked
<1> QED BY <1>1, Held, PTL

-----------------------------------------------------------------------------
(* A pause whose job was accepted stays due until it is taken up           *)

Gone(p) == \A q \in paused : q.id # p
Due(p) == job.state \in {"waiting", "active"} /\ job.row = p

\* A job that has finished has taken its row up (flowResumeWorker.ts).
FinishedIsTakenUp == job.state = "finished" => Gone(job.row)

\* A pause whose job was accepted is due until its row is taken up or the job
\* is dead-lettered: the safety half of AcceptedPausesResume.
StaysDue ==
    [][\A p \in 1 .. MaxPauses : Due(p) => Due(p)' \/ Gone(p)' \/ (job'.state = "dead" /\ job'.row = p)]_vars

\* The inductive invariant: the job that runs has a worker, which is about to
\* take its row up or found it gone, or took it.
Before == {"load", "delete"}
Carried == IF turn[job.holder].pc \in Before THEN turn[job.holder].row = job.row ELSE Gone(job.row)
JobHeld ==
    /\ job.row \in 0 .. pauses
    /\ \A t \in Turns : At(t, "enqueue") => turn[t].row \in 0 .. pauses
    /\ job.state = "active" => job.holder \in Resumers /\ ~At(job.holder, "idle") /\ Carried
    /\ FinishedIsTakenUp

\* A turn that hops has one hop more then, and walks on or is about to flush.
HoppedOn(t, r) == "pc" \in DOMAIN r /\ "hops" \in DOMAIN r /\ r.pc = "walk" /\ r.hops = turn[t].hops + 1
Ahead(t) == \E q : Become(t, q) /\ q.pc \in {"walk", "flush"} /\ q.hops = turn[t].hops + 1

LEMMA LeaveAhead ==
  ASSUME NEW t \in Turns, NEW r, HoppedOn(t, r), NEW staged, Become(t, Over(r, staged))
  PROVE  Ahead(t)
<1>1. Over(r, staged).pc = "flush" /\ Over(r, staged).hops = r.hops
  BY DEF Over, HoppedOn
<1> QED BY <1>1 DEF Ahead, HoppedOn

LEMMA GoToAhead ==
  ASSUME NEW t \in Turns, NEW r, NEW n, HoppedOn(t, r), GoTo(t, r, n)
  PROVE  Ahead(t)
<1>1. CASE n = NoNode
  BY <1>1, LeaveAhead DEF GoTo, Leave
<1>2. CASE n # NoNode
  <2> DEFINE q == [r EXCEPT !.node = n]
             s == [q EXCEPT !.staged = InFlow(q.node, q.vars, q.waiting)]
  <2>1. "pc" \in DOMAIN q /\ "hops" \in DOMAIN q /\ q.pc = "walk" /\ q.hops = r.hops
    BY DEF HoppedOn
  <2>2. Become(t, s)
    BY <1>2 DEF GoTo, Stage
  <2> HIDE DEF q
  <2>3. s.pc = "walk" /\ s.hops = r.hops
    BY <2>1
  <2> HIDE DEF s
  <2> QED BY <2>2, <2>3 DEF Ahead, HoppedOn
<1> QED BY <1>1, <1>2

\* What a hop makes of a record still walks.
LEMMA HopAhead ==
  ASSUME TInv, NEW t \in Turns, At(t, "walk"), NEW v, NEW n
  PROVE  /\ HoppedOn(t, Hop(t))
         /\ HoppedOn(t, [Hop(t) EXCEPT !.vars = v])
         /\ HoppedOn(t, [Hop(t) EXCEPT !.node = n])
         /\ HoppedOn(t, [Hop(t) EXCEPT !.vars = v, !.waiting = FALSE])
<1>1. turn[t] \in Records /\ turn[t].pc = "walk"
  BY DEF TInv, Running, Sound, At
<1>2. PICK h : h = Hop(t)
  OBVIOUS
<1>3. HoppedOn(t, h)
  BY <1>1, <1>2 DEF Hop, Records, HoppedOn
<1>4. HoppedOn(t, [h EXCEPT !.vars = v]) /\ HoppedOn(t, [h EXCEPT !.node = n])
  BY <1>3 DEF HoppedOn
<1>5. HoppedOn(t, [h EXCEPT !.vars = v, !.waiting = FALSE])
  BY <1>3 DEF HoppedOn
<1> QED BY <1>2, <1>3, <1>4, <1>5

LEMMA PlainAhead ==
  ASSUME TInv, NEW t \in Turns, At(t, "walk"),
         \/ \E staged : Become(t, Over(Hop(t), staged))
         \/ \E n : GoTo(t, Hop(t), n) \/ Become(t, [Hop(t) EXCEPT !.node = n])
         \/ \E v, n : GoTo(t, [Hop(t) EXCEPT !.vars = v], n) \/ GoTo(t, [Hop(t) EXCEPT !.vars = v, !.waiting = FALSE], n)
  PROVE  Ahead(t)
<1>1. CASE \E staged : Become(t, Over(Hop(t), staged))
  BY <1>1, HopAhead, LeaveAhead
<1>2. CASE \E n : GoTo(t, Hop(t), n)
  BY <1>2, HopAhead, GoToAhead
<1>3. CASE \E n : Become(t, [Hop(t) EXCEPT !.node = n])
  <2>1. PICK n : Become(t, [Hop(t) EXCEPT !.node = n])
    BY <1>3
  <2>2. PICK r : r = [Hop(t) EXCEPT !.node = n]
    OBVIOUS
  <2>3. HoppedOn(t, r)
    BY <2>2, HopAhead
  <2> QED BY <2>1, <2>2, <2>3 DEF Ahead, HoppedOn
<1>4. CASE \E v, n : GoTo(t, [Hop(t) EXCEPT !.vars = v], n)
  <2>1. PICK v, n : GoTo(t, [Hop(t) EXCEPT !.vars = v], n)
    BY <1>4
  <2>2. PICK r : r = [Hop(t) EXCEPT !.vars = v]
    OBVIOUS
  <2>3. HoppedOn(t, r)
    BY <2>2, HopAhead
  <2> QED BY <2>1, <2>2, <2>3, GoToAhead
<1>5. CASE \E v, n : GoTo(t, [Hop(t) EXCEPT !.vars = v, !.waiting = FALSE], n)
  <2>1. PICK v, n : GoTo(t, [Hop(t) EXCEPT !.vars = v, !.waiting = FALSE], n)
    BY <1>5
  <2>2. PICK r : r = [Hop(t) EXCEPT !.vars = v, !.waiting = FALSE]
    OBVIOUS
  <2>3. HoppedOn(t, r)
    BY <2>2, HopAhead
  <2> QED BY <2>1, <2>2, <2>3, GoToAhead
<1> QED BY <1>1, <1>2, <1>3, <1>4, <1>5

\* Every hop but a delay goes on, or ends the walk.
LEMMA WalkAhead ==
  ASSUME TInv, NEW t \in Turns, Walk(t), ~PauseRow(t), ~PauseJob(t), ~Flush(t)
  PROVE  Ahead(t) /\ At(t, "walk") /\ UNCHANGED pausing
<1>1. CASE \/ Lost(t) \/ Closed(t) \/ Start(t) \/ Say(t) \/ SendSavedReply(t) \/ SayMenu(t)
           \/ UpdateBookingStatus(t) \/ CancelBooking(t) \/ ViewBookings(t) \/ RequestReview(t) \/ NotifyStaff(t)
           \/ Jump(t) \/ End(t) \/ HandOff(t)
  <2>1. At(t, "walk") /\ UNCHANGED pausing
    BY <1>1 DEF Lost, Closed, Start, Say, SendSavedReply, SayMenu, UpdateBookingStatus,
       CancelBooking, ViewBookings, RequestReview, NotifyStaff, Through, Jump, End, HandOff, On
  <2>2. \/ \E staged : Become(t, Over(Hop(t), staged))
        \/ \E n : GoTo(t, Hop(t), n) \/ Become(t, [Hop(t) EXCEPT !.node = n])
    BY <1>1 DEF Lost, Closed, Start, Say, SendSavedReply, SayMenu, UpdateBookingStatus,
       CancelBooking, ViewBookings, RequestReview, NotifyStaff, Through, Jump, End, HandOff, Leave, Continue
  <2> QED BY <2>1, <2>2, PlainAhead
<1>2. CASE \E alt \in BOOLEAN : \/ Branch(t, alt) \/ TimeCondition(t, alt)
                                \/ CheckAvailability(t, alt) \/ SendTemplate(t, alt)
  <2>1. At(t, "walk") /\ UNCHANGED pausing
    BY <1>2 DEF Branch, TimeCondition, CheckAvailability, SendTemplate, On
  <2>2. \/ \E staged : Become(t, Over(Hop(t), staged))
        \/ \E n : GoTo(t, Hop(t), n) \/ Become(t, [Hop(t) EXCEPT !.node = n])
    BY <1>2 DEF Branch, TimeCondition, CheckAvailability, SendTemplate, Leave
  <2> QED BY <2>1, <2>2, PlainAhead
<1>3. CASE SetVariable(t)
  <2>1. At(t, "walk") /\ UNCHANGED pausing
    BY <1>3 DEF SetVariable, On
  <2>2. PICK v : Continue(t, [Hop(t) EXCEPT !.vars = v])
    BY <1>3 DEF SetVariable
  <2> QED BY <2>1, <2>2, PlainAhead DEF Continue
<1>4. CASE \/ AskQuestion(t) \/ OfferRooms(t) \/ NoRooms(t) \/ OfferOptions(t) \/ NoOptions(t)
           \/ AllocateRooms(t) \/ AllocationUnmoved(t) \/ Reprompt(t) \/ ShowMore(t)
  <2>1. At(t, "walk") /\ UNCHANGED pausing
    BY <1>4 DEF AskQuestion, OfferRooms, NoRooms, OfferOptions, NoOptions, Prompted, AllocateRooms,
       AllocationUnmoved, Reprompt, ShowMore, On
  <2>2. \E staged : Become(t, Over(Hop(t), staged))
    BY <1>4 DEF AskQuestion, OfferRooms, NoRooms, OfferOptions, NoOptions, Prompted, AllocateRooms,
       AllocationUnmoved, Reprompt, ShowMore, Await, Leave
  <2> QED BY <2>1, <2>2, PlainAhead
<1>5. CASE (\E x \in Days : Answer(t, x) \/ PickRoom(t, x)) \/ TakeOption(t) \/ Allocated(t)
  <2>1. At(t, "walk") /\ UNCHANGED pausing
    BY <1>5 DEF Answer, PickRoom, TakeOption, Allocated, Accept, On
  <2>2. PICK v : Continue(t, [Hop(t) EXCEPT !.vars = v, !.waiting = FALSE])
    BY <1>5 DEF Answer, PickRoom, TakeOption, Allocated, Accept
  <2> QED BY <2>1, <2>2, PlainAhead DEF Continue
<1>6. CASE \/ GroupRefused(t) \/ GroupSoldOut(t) \/ BookGroup(t)
           \/ RoomRefused(t) \/ RoomSoldOut(t) \/ BookRoom(t)
  <2>1. At(t, "walk") /\ UNCHANGED pausing
    BY <1>6 DEF GroupRefused, GroupSoldOut, BookGroup, RoomRefused, RoomSoldOut, BookRoom, Group, Single, On
  <2>2. \/ Continue(t, Hop(t)) \/ Leave(t, Hop(t)) \/ (\E f : Retry(t, f)) \/ BookRoom(t)
    BY <1>6 DEF GroupRefused, GroupSoldOut, BookGroup, RoomRefused, RoomSoldOut, RetryOrContinue
  <2>3. CASE Continue(t, Hop(t)) \/ Leave(t, Hop(t))
    BY <2>1, <2>3, PlainAhead DEF Continue, Leave
  <2>4. CASE \E f : Retry(t, f)
    <3>1. \E v, n : GoTo(t, [Hop(t) EXCEPT !.vars = v, !.waiting = FALSE], n)
      BY <2>4 DEF Retry
    <3> QED BY <2>1, <3>1, PlainAhead
  <2>5. CASE BookRoom(t)
    <3> DEFINE v == [Hop(t).vars EXCEPT !.tally = NoVars.tally, !.rewound = NoVars.rewound]
    <3>1. turn[t] \in Records
      BY DEF TInv, Running, Sound
    <3>2. [Hop(t) EXCEPT !.vars.tally = NoVars.tally, !.vars.rewound = NoVars.rewound] = [Hop(t) EXCEPT !.vars = v]
      BY <3>1 DEF Hop, Records
    <3>3. Continue(t, [Hop(t) EXCEPT !.vars = v])
      BY <2>5, <3>2 DEF BookRoom
    <3> HIDE DEF v
    <3> QED BY <2>1, <3>3, PlainAhead DEF Continue
  <2> QED BY <2>2, <2>3, <2>4, <2>5
<1> QED BY <1>1, <1>2, <1>3, <1>4, <1>5, <1>6 DEF Walk

\* A turn moves while jobs and rows stay: a worker that has its row before it
\* keeps it before it, and one that is past stays past.
LEMMA HeldMoves ==
  ASSUME TInv, JobHeld, NEW t \in Turns, NEW q, Become(t, q), UNCHANGED <<job, paused, pauses>>, q.pc # "enqueue",
         \/ t \notin Resumers
         \/ q.pc \in Before /\ turn[t].pc \in Before /\ q.row = turn[t].row
         \/ q.pc \notin Before \cup {"idle"} /\ turn[t].pc \notin Before
  PROVE  JobHeld'
<1>1. DOMAIN turn = Turns
  BY DEF TInv, Running
<1>2. turn'[t] = q /\ \A u \in Turns : u # t => turn'[u] = turn[u]
  BY <1>1 DEF Become
<1>3. \A u \in Turns : turn'[u].pc = "enqueue" => turn'[u].row \in 0 .. pauses
  BY <1>2 DEF JobHeld, At
<1>4. job.state = "active" => job.holder \in Turns /\ turn'[job.holder].pc # "idle" /\ Carried'
  <2> SUFFICES ASSUME job.state = "active"
               PROVE  job.holder \in Turns /\ turn'[job.holder].pc # "idle" /\ Carried'
    OBVIOUS
  <2>1. job.holder \in Resumers /\ job.holder \in Turns /\ turn[job.holder].pc # "idle" /\ Carried
    BY DEF JobHeld, Turns, At
  <2>2. CASE job.holder # t
    BY <1>2, <2>1, <2>2 DEF Carried, Gone
  <2>3. CASE job.holder = t
    BY <1>2, <2>1, <2>3 DEF Carried, Gone, Before
  <2> QED BY <2>1, <2>2, <2>3
<1> QED BY <1>3, <1>4 DEF JobHeld, At, FinishedIsTakenUp, Gone

\* No turn moves.
LEMMA HeldStill ==
  ASSUME JobHeld, UNCHANGED <<turn, job, paused, pauses>>
  PROVE  JobHeld'
BY DEF JobHeld, At, Carried, FinishedIsTakenUp, Gone

LEMMA IdleIsIdle == Idle.pc = "idle"
BY DEF Idle

\* A turn is over, and the job with it if it is still its own: past its row.
LEMMA HeldFinishes ==
  ASSUME TInv, JobHeld, NEW t \in Turns, NEW state \in {"finished", "dead"}, Finished(t, state),
         UNCHANGED <<paused, pauses>>, state = "finished" /\ job.state = "active" /\ job.holder = t => Gone(job.row)
  PROVE  JobHeld'
<1>1. DOMAIN turn = Turns /\ job \in Jobs
  BY DEF TInv, Running, Typed
<1>2. turn'[t] = Idle /\ \A u \in Turns : u # t => turn'[u] = turn[u]
  BY <1>1 DEF Finished, Become
<1>3. \A u \in Turns : turn'[u].pc = "enqueue" => turn'[u].row \in 0 .. pauses
  BY <1>2, IdleIsIdle DEF JobHeld, At
<1>4. CASE job.state = "active" /\ job.holder = t
  <2>1. job' = [job EXCEPT !.state = state]
    BY <1>4 DEF Finished
  <2>2. job'.state = state /\ job'.row = job.row
    BY <1>1, <2>1 DEF Jobs
  <2>3. FinishedIsTakenUp'
    BY <1>4, <2>2 DEF FinishedIsTakenUp, Gone
  <2> QED BY <1>3, <2>2, <2>3 DEF JobHeld, At
<1>5. CASE ~(job.state = "active" /\ job.holder = t)
  <2>1. job' = job
    BY <1>5 DEF Finished
  <2>2. job.state = "active" => job.holder \in Resumers /\ turn'[job.holder] = turn[job.holder] /\ turn[job.holder].pc # "idle" /\ Carried
    BY <1>2, <1>5 DEF JobHeld, Turns, At
  <2>3. job.state = "active" => Carried'
    BY <2>1, <2>2 DEF Carried, Gone
  <2>4. FinishedIsTakenUp'
    BY <2>1 DEF JobHeld, FinishedIsTakenUp, Gone
  <2> QED BY <1>3, <2>1, <2>2, <2>3, <2>4 DEF JobHeld, At
<1> QED BY <1>4, <1>5

LEMMA PauseRowHeld ==
  ASSUME TInv, JobHeld, NEW t \in Turns, PauseRow(t)
  PROVE  JobHeld'
<1>1. DOMAIN turn = Turns /\ turn[t] \in Records /\ pauses \in Nat /\ turn[t].pc = "walk"
  BY DEF TInv, Running, Typed, Sound, PauseRow, On, At
<1>2. At(t, "walk")
  BY <1>1 DEF At
<1>3. CASE This(t).next = NoNode
  <2>1. Leave(t, Hop(t)) /\ UNCHANGED pausing
    BY <1>3 DEF PauseRow
  <2>2. PICK q : Become(t, q) /\ q.pc \in {"walk", "flush"}
    BY <1>2, <2>1, PlainAhead DEF Leave, Ahead
  <2> QED BY <1>1, <2>1, <2>2, HeldMoves DEF pausing, Before
<1>4. CASE This(t).next # NoNode
  <2>1. pauses' = pauses + 1 /\ UNCHANGED job
        /\ paused' = paused \cup {[id |-> pauses', node |-> This(t).next, vars |-> turn[t].vars]}
    BY <1>4 DEF PauseRow
  <2>2. Become(t, [Hop(t) EXCEPT !.pc = "enqueue", !.row = pauses'])
    BY <1>4 DEF PauseRow
  <2>3. PICK q : q = [Hop(t) EXCEPT !.pc = "enqueue", !.row = pauses']
    OBVIOUS
  <2>4. q.pc = "enqueue" /\ q.row = pauses'
    BY <1>1, <2>3 DEF Hop, Records
  <2>5. turn'[t] = q /\ \A u \in Turns : u # t => turn'[u] = turn[u]
    BY <1>1, <2>2, <2>3 DEF Become
  <2>6. \A u \in Turns : turn'[u].pc = "enqueue" => turn'[u].row \in 0 .. pauses'
    BY <1>1, <2>1, <2>4, <2>5 DEF JobHeld, At
  <2>7. job.row \in 0 .. pauses /\ job.row \in 0 .. pauses' /\ job.row # pauses'
    BY <1>1, <2>1 DEF JobHeld
  <2>8. Gone(job.row) => Gone(job.row)'
    BY <2>1, <2>7 DEF Gone
  <2>9. job.state = "active" => turn'[job.holder].pc # "idle" /\ Carried'
    <3> SUFFICES ASSUME job.state = "active" PROVE turn'[job.holder].pc # "idle" /\ Carried'
      OBVIOUS
    <3>1. job.holder \in Turns /\ turn[job.holder].pc # "idle" /\ Carried
      BY DEF JobHeld, Turns, At
    <3>2. CASE job.holder # t
      BY <2>1, <2>5, <2>8, <3>1, <3>2 DEF Carried
    <3>3. CASE job.holder = t
      BY <1>1, <2>1, <2>4, <2>5, <2>8, <3>1, <3>3 DEF Carried, Before
    <3> QED BY <3>2, <3>3
  <2> QED BY <2>1, <2>6, <2>7, <2>8, <2>9 DEF JobHeld, At, FinishedIsTakenUp
<1> QED BY <1>3, <1>4

LEMMA PauseJobHeld ==
  ASSUME TInv, JobHeld, NEW t \in Turns, PauseJob(t)
  PROVE  JobHeld'
<1>1. DOMAIN turn = Turns /\ turn[t] \in Records /\ turn[t].pc = "enqueue" /\ turn[t].row \in 0 .. pauses
  BY DEF TInv, Running, Sound, PauseJob, At, JobHeld
<1>2. UNCHANGED <<paused, pauses>> /\ Become(t, Over(turn[t], Reset))
  BY DEF PauseJob, Leave
<1>3. PICK q : q = Over(turn[t], Reset)
  OBVIOUS
<1>4. Become(t, q) /\ q.pc = "flush"
  BY <1>1, <1>2, <1>3 DEF Over, Records
<1>5. CASE job.state # "none"
  <2>1. job' = job
    BY <1>5 DEF PauseJob
  <2> QED BY <1>1, <1>2, <1>4, <2>1, HeldMoves DEF Before
<1>6. CASE job.state = "none"
  <2>1. job' = [NoJob EXCEPT !.state = "waiting", !.row = turn[t].row]
    BY <1>6 DEF PauseJob
  <2>2. job'.state = "waiting" /\ job'.row = turn[t].row
    BY <2>1 DEF NoJob
  <2>3. \A u \in Turns : turn'[u].pc = "enqueue" => turn'[u].row \in 0 .. pauses
    BY <1>1, <1>4 DEF Become, JobHeld, At
  <2> QED BY <1>1, <1>2, <2>2, <2>3 DEF JobHeld, At, FinishedIsTakenUp
<1> QED BY <1>5, <1>6

\* A worker takes the job, loads the row, deletes it and restores the session.
LEMMA ResumeHeld ==
  ASSUME TInv, JobHeld, NEW k \in Resumers, TakeJob(k) \/ Resume(k)
  PROVE  JobHeld'
<1>0. DOMAIN turn = Turns /\ k \in Turns /\ turn[k] \in Records /\ job \in Jobs
  BY DEF TInv, Running, Typed, Sound, Turns
<1>1. CASE TakeJob(k)
  <2>1. UNCHANGED <<paused, pauses>> /\ job' = [job EXCEPT !.state = "active", !.holder = k]
        /\ Become(k, [Idle EXCEPT !.pc = "load", !.row = job.row])
    BY <1>1 DEF TakeJob
  <2>2. job'.state = "active" /\ job'.holder = k /\ job'.row = job.row
    BY <1>0, <2>1 DEF Jobs
  <2>3. turn'[k].pc = "load" /\ turn'[k].row = job.row /\ \A u \in Turns : u # k => turn'[u] = turn[u]
    <3>1. PICK q : q = [Idle EXCEPT !.pc = "load", !.row = job.row]
      OBVIOUS
    <3>2. q.pc = "load" /\ q.row = job.row
      BY <3>1 DEF Idle
    <3> QED BY <1>0, <2>1, <3>1, <3>2 DEF Become
  <2>4. \A u \in Turns : turn'[u].pc = "enqueue" => turn'[u].row \in 0 .. pauses
    BY <2>3 DEF JobHeld, At
  <2>5. Carried'
    BY <2>2, <2>3 DEF Carried, Before
  <2> QED BY <1>0, <2>1, <2>2, <2>3, <2>4, <2>5 DEF JobHeld, At, FinishedIsTakenUp
<1>2. CASE LoadPause(k)
  <2>1. turn[k].pc = "load" /\ UNCHANGED <<paused, pauses>>
    BY <1>2 DEF LoadPause, At
  <2>2. CASE {p \in paused : p.id = turn[k].row} = {}
    <3>1. Finished(k, "finished") /\ Gone(turn[k].row)
      BY <1>2, <2>2 DEF LoadPause, Gone
    <3>2. job.state = "active" /\ job.holder = k => Gone(job.row)
      BY <2>1, <3>1 DEF JobHeld, Carried, Before
    <3> QED BY <1>0, <2>1, <3>1, <3>2, HeldFinishes
  <2>3. CASE {p \in paused : p.id = turn[k].row} # {}
    <3>1. PICK p \in paused : Become(k, [turn[k] EXCEPT !.pc = "delete", !.node = p.node, !.vars = p.vars]) /\ UNCHANGED job
      BY <1>2, <2>3 DEF LoadPause
    <3>2. PICK q : q = [turn[k] EXCEPT !.pc = "delete", !.node = p.node, !.vars = p.vars]
      OBVIOUS
    <3>3. q.pc = "delete" /\ q.row = turn[k].row
      BY <1>0, <3>2 DEF Records
    <3> QED BY <1>0, <2>1, <3>1, <3>2, <3>3, HeldMoves DEF Before
  <2> QED BY <2>2, <2>3
<1>3. CASE DeletePause(k)
  <2>1. turn[k].pc = "delete" /\ UNCHANGED pauses
    BY <1>3 DEF DeletePause, At
  <2>2. CASE \E p \in paused : p.id = turn[k].row
    <3>1. UNCHANGED job /\ paused' = {p \in paused : p.id # turn[k].row} /\ Become(k, [turn[k] EXCEPT !.pc = "restore"])
      BY <1>3, <2>2 DEF DeletePause
    <3>2. turn'[k].pc = "restore" /\ \A u \in Turns : u # k => turn'[u] = turn[u]
      BY <1>0, <3>1 DEF Become, Records
    <3>3. \A u \in Turns : turn'[u].pc = "enqueue" => turn'[u].row \in 0 .. pauses
      BY <3>2 DEF JobHeld, At
    <3>4. Gone(job.row) => Gone(job.row)'
      BY <3>1 DEF Gone
    <3>5. Gone(turn[k].row)'
      <4>1. PICK n : n = turn[k].row
        OBVIOUS
      <4>2. \A p \in paused' : p.id # n
        BY <3>1, <4>1
      <4>3. turn'[k].row = n
        BY <1>0, <3>1, <4>1 DEF Become, Records
      <4> QED BY <4>2, <4>3 DEF Gone
    <3>6. job.state = "active" => turn'[job.holder].pc # "idle" /\ Carried'
      <4> SUFFICES ASSUME job.state = "active" PROVE turn'[job.holder].pc # "idle" /\ Carried'
        OBVIOUS
      <4>1. job.holder \in Turns /\ turn[job.holder].pc # "idle" /\ Carried
        BY DEF JobHeld, Turns, At
      <4>2. CASE job.holder # k
        BY <3>1, <3>2, <3>4, <4>1, <4>2 DEF Carried
      <4>3. CASE job.holder = k
        <5>1. turn[k].row = job.row /\ turn'[k].row = turn[k].row
          BY <1>0, <2>1, <3>1, <4>1, <4>3 DEF Carried, Before, Become, Records
        <5> QED BY <3>1, <3>2, <3>5, <4>3, <5>1 DEF Carried, Before, Gone
      <4> QED BY <4>2, <4>3
    <3> QED BY <2>1, <3>1, <3>3, <3>4, <3>6 DEF JobHeld, At, FinishedIsTakenUp
  <2>3. CASE ~ \E p \in paused : p.id = turn[k].row
    <3>1. Finished(k, "dead") /\ UNCHANGED paused
      BY <1>3, <2>3 DEF DeletePause
    <3> QED BY <1>0, <2>1, <3>1, HeldFinishes
  <2> QED BY <2>2, <2>3
<1>4. CASE Restore(k)
  <2>1. turn[k].pc = "restore" /\ UNCHANGED <<job, paused, pauses>>
    BY <1>4 DEF Restore, At, pausing
  <2>2. PICK seen : Become(k, [turn[k] EXCEPT !.pc = "walk", !.removed = seen, !.entry = turn[k].node, !.node = turn[k].node,
                                              !.vars = turn[k].vars, !.waiting = FALSE])
    BY <1>4 DEF Restore, Begin
  <2>3. PICK q : q = [turn[k] EXCEPT !.pc = "walk", !.removed = seen, !.entry = turn[k].node, !.node = turn[k].node,
                                     !.vars = turn[k].vars, !.waiting = FALSE]
    OBVIOUS
  <2>4. q.pc = "walk"
    BY <1>0, <2>3 DEF Records
  <2> QED BY <1>0, <2>1, <2>2, <2>3, <2>4, HeldMoves DEF Before
<1> QED BY <1>1, <1>2, <1>3, <1>4 DEF Resume

\* A turn that carries a message is no worker of the job.
LEMMA MessageHeld ==
  ASSUME TInv, JobHeld, NEW t \in Guests, (\E input : Receive(t, input)) \/ Message(t)
  PROVE  JobHeld'
<1>1. t \in Turns /\ t \notin Resumers /\ turn[t] \in Records
  BY FlowAssumption DEF TInv, Running, Sound, Turns
<1>2. UNCHANGED <<job, paused, pauses>>
  BY DEF Receive, Message, ReadBackup, Backfill, RouteReset, RouteFlow, RouteGone, RouteSilent, Select, pausing
<1>3. \E q : Become(t, q) /\ q.pc # "enqueue"
  <2>1. CASE \E input : Receive(t, input)
    <3>1. PICK input : Receive(t, input)
      BY <2>1
    <3>2. PICK q : q = [Idle EXCEPT !.pc = IF redis = NoSession THEN "miss" ELSE "route", !.input = input, !.session = redis]
      OBVIOUS
    <3>3. q.pc # "enqueue"
      BY <3>2 DEF Idle
    <3> QED BY <3>1, <3>2, <3>3 DEF Receive
  <2>2. CASE (\E old \in BOOLEAN : ReadBackup(t, old)) \/ Backfill(t) \/ RouteReset(t)
    <3>1. /\ \A old : [turn[t] EXCEPT !.pc = "backfill", !.session = backup, !.old = old].pc = "backfill"
          /\ [turn[t] EXCEPT !.pc = "route"].pc = "route"
          /\ [turn[t] EXCEPT !.session = Plain("IDLE"), !.old = FALSE].pc = turn[t].pc
      BY <1>1 DEF Records
    <3>2. RouteReset(t) => turn[t].pc = "route"
      BY DEF RouteReset, At
    <3> QED BY <2>2, <3>1, <3>2 DEF ReadBackup, Backfill, RouteReset
  <2>3. \A n, v, w : Begin(t, n, v, w) => \E q : Become(t, q) /\ q.pc # "enqueue"
    <3> SUFFICES ASSUME NEW n, NEW v, NEW w, Begin(t, n, v, w) PROVE \E q : Become(t, q) /\ q.pc # "enqueue"
      OBVIOUS
    <3>1. PICK seen : Become(t, [turn[t] EXCEPT !.pc = "walk", !.removed = seen, !.entry = n, !.node = n, !.vars = v, !.waiting = w])
      BY DEF Begin
    <3>2. PICK q : q = [turn[t] EXCEPT !.pc = "walk", !.removed = seen, !.entry = n, !.node = n, !.vars = v, !.waiting = w]
      OBVIOUS
    <3>3. q.pc = "walk"
      BY <1>1, <3>2 DEF Records
    <3> QED BY <3>1, <3>2, <3>3
  <2>4. Reply(t) => \E q : Become(t, q) /\ q.pc # "enqueue"
    BY IdleIsIdle DEF Reply
  <2>5. RouteFlow(t) \/ RouteGone(t) \/ RouteSilent(t) \/ Select(t) => Reply(t) \/ \E n, v, w : Begin(t, n, v, w)
    BY DEF RouteFlow, RouteGone, RouteSilent, Select, StartFlow, ShowMenu, HandOver
  <2> QED BY <2>1, <2>2, <2>3, <2>4, <2>5 DEF Message
<1> QED BY <1>1, <1>2, <1>3, HeldMoves

\* What fails.
LEMMA FailHeld ==
  ASSUME TInv, JobHeld, (\E t \in Turns : Throw(t)) \/ Stall \/ Crash \/ Expire \/ Forget
  PROVE  JobHeld'
<1>0. job \in Jobs /\ pauses \in Nat
  BY DEF TInv, Typed
<1>1. CASE \E t \in Turns : Throw(t)
  <2>1. PICK t \in Turns : Throw(t)
    BY <1>1
  <2>2. turn[t].pc = "walk" /\ Finished(t, "finished") /\ UNCHANGED <<paused, pauses>>
    BY <2>1 DEF Throw, At
  <2>3. job.state = "active" /\ job.holder = t => Gone(job.row)
    BY <2>2 DEF JobHeld, Carried, Before
  <2> QED BY <2>2, <2>3, HeldFinishes
<1>2. Again.row = job.row /\ (Again.state = job.state \/ Again.state \in {"waiting", "dead"}) /\ Again.state # "active"
  BY <1>0 DEF Again, Jobs
<1>3. CASE Stall
  <2>1. job' = Again /\ UNCHANGED <<turn, paused, pauses>>
    BY <1>3 DEF Stall
  <2> QED BY <1>2, <2>1 DEF JobHeld, At, FinishedIsTakenUp, Gone
<1>4. CASE Crash
  <2>1. job' = Again /\ turn' = [t \in Turns |-> Idle] /\ UNCHANGED <<paused, pauses>>
    BY <1>4 DEF Crash
  <2>2. \A t \in Turns : turn'[t].pc # "enqueue"
    BY <2>1 DEF Idle
  <2> QED BY <1>2, <2>1, <2>2 DEF JobHeld, At, FinishedIsTakenUp, Gone
<1>5. CASE Expire
  BY <1>5, HeldStill DEF Expire, pausing
<1>6. CASE Forget
  <2>1. job' = NoJob /\ UNCHANGED <<turn, paused, pauses>>
    BY <1>6 DEF Forget
  <2>2. job'.state = "none" /\ job'.row = 0
    BY <2>1 DEF NoJob
  <2> QED BY <1>0, <2>1, <2>2 DEF JobHeld, At, FinishedIsTakenUp
<1> QED BY <1>1, <1>3, <1>4, <1>5, <1>6

LEMMA WalkHeld ==
  ASSUME TInv, JobHeld, NEW t \in Turns, Walk(t)
  PROVE  JobHeld'
<1>1. CASE PauseRow(t) \/ PauseJob(t)
  BY <1>1, PauseRowHeld, PauseJobHeld
<1>2. CASE Flush(t)
  <2>1. turn[t].pc = "flush" /\ Finished(t, "finished") /\ UNCHANGED <<paused, pauses>>
    BY <1>2 DEF Flush, At
  <2>2. job.state = "active" /\ job.holder = t => Gone(job.row)
    BY <2>1 DEF JobHeld, Carried, Before
  <2> QED BY <2>1, <2>2, HeldFinishes
<1>3. CASE ~PauseRow(t) /\ ~PauseJob(t) /\ ~Flush(t)
  <2>1. PICK q : Become(t, q) /\ q.pc \in {"walk", "flush"}
    BY <1>3, WalkAhead DEF Ahead
  <2>2. turn[t].pc = "walk" /\ UNCHANGED <<job, paused, pauses>>
    BY <1>3, WalkAhead DEF At, pausing
  <2> QED BY <2>1, <2>2, HeldMoves DEF Before
<1> QED BY <1>1, <1>2, <1>3

LEMMA InitHeld == Init => JobHeld
<1> SUFFICES ASSUME Init PROVE JobHeld
  OBVIOUS
<1>1. pauses = 0 /\ job.row = 0 /\ job.state = "none"
  BY DEF Init, NoJob
<1>2. \A t \in Turns : turn[t].pc = "idle"
  BY IdleIsIdle DEF Init
<1> QED BY <1>1, <1>2 DEF JobHeld, At, FinishedIsTakenUp

LEMMA NextHeld == TInv /\ JobHeld /\ [Next]_vars => JobHeld'
<1> SUFFICES ASSUME TInv, JobHeld, [Next]_vars PROVE JobHeld'
  OBVIOUS
<1>1. CASE (\E t \in Guests, input \in {"keyword", "item", "text"} : Receive(t, input)) \/ \E t \in Guests : Message(t)
  BY <1>1, MessageHeld
<1>2. CASE \E k \in Resumers : TakeJob(k) \/ Resume(k)
  BY <1>2, ResumeHeld
<1>3. CASE \E t \in Turns : Walk(t)
  BY <1>3, WalkHeld
<1>4. CASE (\E t \in Turns : Throw(t)) \/ Stall \/ Crash \/ Expire \/ Forget
  BY <1>4, FailHeld
<1>5. CASE (\E n \in DOMAIN graph.nodes : SaveDraft(n)) \/ PublishDraft \/ RollBack
  BY <1>5, HeldStill DEF SaveDraft, PublishDraft, RollBack, pausing
<1>6. CASE UNCHANGED vars
  BY <1>6, HeldStill DEF vars
<1> QED BY <1>1, <1>2, <1>3, <1>4, <1>5, <1>6 DEF Next

LEMMA AllHeld == Spec => []JobHeld
<1>1. Init => JobHeld
  BY InitHeld
<1>2. TInv /\ JobHeld /\ [Next]_vars => JobHeld'
  BY NextHeld
<1> QED BY <1>1, <1>2, Held, PTL DEF Spec

\* A resume job that has finished has taken its row up, for every flow and
\* however often its worker stalled or died: a pause is not marked done and
\* left behind (flowResumeWorker.ts).
THEOREM FinishedJobsTookTheirRow == Spec => []FinishedIsTakenUp
<1>1. JobHeld => FinishedIsTakenUp
  BY DEF JobHeld
<1> QED BY <1>1, AllHeld, PTL

\* A job that is due keeps its row: it is taken, ends or is run again.
DueKept == job'.row = job.row /\ job'.state \in {"waiting", "active", "finished", "dead"}

LEMMA DueMoves ==
  ASSUME TInv, job.state \in {"waiting", "active"}, [Next]_vars
  PROVE  DueKept
<1>0. job \in Jobs
  BY DEF TInv, Typed
<1>1. UNCHANGED job => DueKept
  BY DEF DueKept
<1>2. \A state \in {"finished", "dead"}, h \in Resumers :
        /\ job' = [job EXCEPT !.state = state] => DueKept
        /\ job' = [job EXCEPT !.state = "active", !.holder = h] => DueKept
  BY <1>0 DEF DueKept, Jobs
<1>3. job' = Again => DueKept
  BY <1>0 DEF DueKept, Jobs, Again
<1>4. \A t \in Turns, state \in {"finished", "dead"} : Finished(t, state) => DueKept
  <2> SUFFICES ASSUME NEW t \in Turns, NEW state \in {"finished", "dead"}, Finished(t, state) PROVE DueKept
    OBVIOUS
  <2>1. job' = job \/ job' = [job EXCEPT !.state = state]
    BY DEF Finished
  <2>2. job' = [job EXCEPT !.state = state] => DueKept
    BY <1>0 DEF DueKept, Jobs
  <2> QED BY <1>1, <2>1, <2>2
<1>5. CASE (\E t \in Guests, input \in {"keyword", "item", "text"} : Receive(t, input)) \/ \E t \in Guests : Message(t)
  BY <1>1, <1>5 DEF Receive, Message, ReadBackup, Backfill, RouteReset, RouteFlow, RouteGone, RouteSilent, Select, pausing
<1>6. CASE \E k \in Resumers : TakeJob(k) \/ Resume(k)
  <2>1. PICK k \in Resumers : TakeJob(k) \/ Resume(k)
    BY <1>6
  <2>2. k \in Turns
    BY DEF Turns
  <2>3. CASE TakeJob(k)
    <3>1. job' = [job EXCEPT !.state = "active", !.holder = k]
      BY <2>3 DEF TakeJob
    <3> QED BY <1>0, <3>1 DEF DueKept, Jobs
  <2>4. Resume(k) => UNCHANGED job \/ \E state \in {"finished", "dead"} : Finished(k, state)
    BY DEF Resume, LoadPause, DeletePause, Restore, pausing
  <2> QED BY <1>1, <1>4, <2>1, <2>2, <2>3, <2>4
<1>7. CASE \E t \in Turns : Walk(t) \/ Throw(t)
  <2>1. PICK t \in Turns : Walk(t) \/ Throw(t)
    BY <1>7
  <2>2. PauseRow(t) \/ PauseJob(t) => UNCHANGED job
    BY DEF PauseRow, PauseJob, pausing
  <2>3. Flush(t) \/ Throw(t) => Finished(t, "finished")
    BY DEF Flush, Throw
  <2>4. Walk(t) /\ ~PauseRow(t) /\ ~PauseJob(t) /\ ~Flush(t) => UNCHANGED job
    BY WalkAhead DEF pausing
  <2> QED BY <1>1, <1>4, <2>1, <2>2, <2>3, <2>4
<1>8. CASE Stall \/ Crash
  BY <1>3, <1>8 DEF Stall, Crash
<1>9. CASE Expire \/ Forget \/ (\E n \in DOMAIN graph.nodes : SaveDraft(n)) \/ PublishDraft \/ RollBack \/ UNCHANGED vars
  BY <1>1, <1>9 DEF Expire, Forget, SaveDraft, PublishDraft, RollBack, pausing, vars
<1> QED BY <1>5, <1>6, <1>7, <1>8, <1>9 DEF Next

\* A pause whose job the queue accepted stays due through stalls, crashes,
\* edits of the flow and whatever else the guest says, until its row is taken
\* up or the job is dead-lettered: it is not dropped on the way
\* (flowRuntime.ts, flowResumeWorker.ts).
THEOREM AcceptedPausesStayDue == Spec => StaysDue
<1>1. TInv /\ JobHeld' /\ [Next]_vars =>
        \A p \in 1 .. MaxPauses : Due(p) => Due(p)' \/ Gone(p)' \/ (job'.state = "dead" /\ job'.row = p)
  <2> SUFFICES ASSUME TInv, JobHeld', [Next]_vars, NEW p \in 1 .. MaxPauses, Due(p)
               PROVE  Due(p)' \/ Gone(p)' \/ (job'.state = "dead" /\ job'.row = p)
    OBVIOUS
  <2>1. job'.row = p /\ job'.state \in {"waiting", "active", "finished", "dead"}
    BY DueMoves DEF Due, DueKept
  <2>2. CASE job'.state \in {"waiting", "active"}
    BY <2>1, <2>2 DEF Due
  <2>3. CASE job'.state = "finished"
    BY <2>1, <2>3 DEF JobHeld, FinishedIsTakenUp, Gone
  <2>4. CASE job'.state = "dead"
    BY <2>1, <2>4
  <2> QED BY <2>1, <2>2, <2>3, <2>4
<1> QED BY <1>1, Held, AllHeld, PTL DEF Spec, StaysDue

-----------------------------------------------------------------------------
(* A turn runs out of steps                                                *)

\* The steps a turn may still take, MaxHops + 7 at most.
Resets(r) == r.old \/ (r.input = "keyword" /\ r.session.state \notin Menu)
StepsLeft(r) ==
    CASE r.pc = "idle" -> 0
      [] r.pc = "flush" -> 1
      [] r.pc = "enqueue" -> 2
      [] r.pc = "walk" -> MaxHops - r.hops + 3
      [] r.pc = "restore" -> MaxHops + 4
      [] r.pc = "delete" -> MaxHops + 5
      [] r.pc = "load" -> MaxHops + 6
      [] r.pc = "route" -> IF Resets(r) THEN MaxHops + 5 ELSE MaxHops + 4
      [] r.pc = "backfill" -> MaxHops + 6
      [] r.pc = "miss" -> MaxHops + 7

\* Whatever happens to a turn that runs leaves it fewer steps, on any graph: no
\* jump, branch, retry or pause gives it hops back (MAX_HOPS, flowRuntime.ts).
Shrinks == \A t \in Turns : turn[t].pc # "idle" /\ turn'[t] # turn[t] => StepsLeft(turn'[t]) < StepsLeft(turn[t])
StepsRunOut == [][Shrinks]_vars

\* The measure, phase by phase.
LEMMA LeftOf ==
  ASSUME NEW r
  PROVE  /\ r.pc = "idle" => StepsLeft(r) = 0
         /\ r.pc = "flush" => StepsLeft(r) = 1
         /\ r.pc = "enqueue" => StepsLeft(r) = 2
         /\ r.pc = "walk" => StepsLeft(r) = MaxHops - r.hops + 3
         /\ r.pc = "restore" => StepsLeft(r) = MaxHops + 4
         /\ r.pc = "delete" => StepsLeft(r) = MaxHops + 5
         /\ r.pc = "load" => StepsLeft(r) = MaxHops + 6
         /\ r.pc = "route" /\ Resets(r) => StepsLeft(r) = MaxHops + 5
         /\ r.pc = "route" /\ ~Resets(r) => StepsLeft(r) = MaxHops + 4
         /\ r.pc = "backfill" => StepsLeft(r) = MaxHops + 6
         /\ r.pc = "miss" => StepsLeft(r) = MaxHops + 7
BY DEF StepsLeft

LEMMA LeftIsPositive ==
  ASSUME NEW r \in Records, Bounded(r), r.pc # "idle"
  PROVE  StepsLeft(r) \in Nat \ {0}
<1>1. r.hops \in Nat /\ MaxHops \in Nat /\ r.pc \in Pcs \ {"idle"}
  BY Given DEF Records
<1>2. CASE r.pc = "walk"
  BY <1>1, <1>2, LeftOf DEF Bounded
<1>3. CASE r.pc \in Pcs \ {"idle", "walk"}
  BY <1>1, <1>3, LeftOf DEF Pcs, Fresh
<1> QED BY <1>1, <1>2, <1>3

LEMMA OneShrinks ==
  ASSUME TInv, NEW t \in Turns, NEW q, Become(t, q), turn[t].pc # "idle" => StepsLeft(q) < StepsLeft(turn[t])
  PROVE  Shrinks
<1>1. turn'[t] = q /\ \A u \in Turns : u # t => turn'[u] = turn[u]
  BY DEF TInv, Running, Become
<1> QED BY <1>1 DEF Shrinks

LEMMA EndShrinks ==
  ASSUME TInv, NEW t \in Turns, Become(t, Idle)
  PROVE  Shrinks
<1>1. turn[t].pc # "idle" => StepsLeft(turn[t]) \in Nat \ {0}
  BY LeftIsPositive DEF TInv, Running, Sound
<1>2. StepsLeft(Idle) = 0
  BY IdleIsIdle, LeftOf
<1>3. turn[t].pc # "idle" => StepsLeft(Idle) < StepsLeft(turn[t])
  BY <1>1, <1>2
<1> QED BY <1>3, OneShrinks

\* A walk is entered with fewer steps than any phase before it leaves.
LEMMA BeginShrinks ==
  ASSUME TInv, NEW t \in Turns, turn[t].pc \in {"route", "restore"}, NEW n, NEW v, NEW w, Begin(t, n, v, w)
  PROVE  Shrinks
<1>1. turn[t] \in Records /\ turn[t].hops \in Nat /\ MaxHops \in Nat
  BY Given DEF TInv, Running, Sound, Records
<1>2. PICK seen : Become(t, [turn[t] EXCEPT !.pc = "walk", !.removed = seen, !.entry = n, !.node = n, !.vars = v, !.waiting = w])
  BY DEF Begin
<1>3. PICK q : q = [turn[t] EXCEPT !.pc = "walk", !.removed = seen, !.entry = n, !.node = n, !.vars = v, !.waiting = w]
  OBVIOUS
<1>4. q.pc = "walk" /\ q.hops = turn[t].hops
  BY <1>1, <1>3 DEF Records
<1>5. StepsLeft(q) = MaxHops - turn[t].hops + 3
  BY <1>4, LeftOf
<1>6. StepsLeft(turn[t]) \in {MaxHops + 4, MaxHops + 5}
  BY LeftOf
<1>7. StepsLeft(q) < StepsLeft(turn[t])
  BY <1>1, <1>5, <1>6
<1> QED BY <1>2, <1>3, <1>7, OneShrinks

LEMMA AheadShrinks ==
  ASSUME TInv, NEW t \in Turns, At(t, "walk"), Ahead(t)
  PROVE  Shrinks
<1>1. turn[t].hops \in Nat /\ MaxHops \in Nat /\ turn[t].hops <= MaxHops /\ turn[t].pc = "walk"
  BY Given DEF TInv, Running, Sound, Records, Bounded, At
<1>2. PICK q : Become(t, q) /\ q.pc \in {"walk", "flush"} /\ q.hops = turn[t].hops + 1
  BY DEF Ahead
<1>3. StepsLeft(turn[t]) = MaxHops - turn[t].hops + 3
  BY <1>1, LeftOf
<1>4. StepsLeft(q) = 1 \/ StepsLeft(q) = MaxHops - (turn[t].hops + 1) + 3
  BY <1>2, LeftOf
<1>5. StepsLeft(q) < StepsLeft(turn[t])
  BY <1>1, <1>3, <1>4
<1> QED BY <1>2, <1>5, OneShrinks

LEMMA MessageShrinks ==
  ASSUME TInv, NEW t \in Guests, (\E input : Receive(t, input)) \/ Message(t)
  PROVE  Shrinks
<1>1. t \in Turns /\ turn[t] \in Records /\ MaxHops \in Nat
  BY Given DEF TInv, Running, Sound, Turns
<1>2. CASE \E input : Receive(t, input)
  <2>1. turn[t].pc = "idle" /\ \E q : Become(t, q)
    BY <1>2 DEF Receive, At
  <2> QED BY <1>1, <2>1, OneShrinks
<1>3. CASE \E old \in BOOLEAN : ReadBackup(t, old)
  <2>1. PICK old \in BOOLEAN : ReadBackup(t, old)
    BY <1>3
  <2>2. PICK q : q = [turn[t] EXCEPT !.pc = "backfill", !.session = backup, !.old = old]
    OBVIOUS
  <2>3. Become(t, q) /\ q.pc = "backfill" /\ turn[t].pc = "miss"
    BY <1>1, <2>1, <2>2 DEF ReadBackup, Records, At
  <2>4. StepsLeft(q) = MaxHops + 6 /\ StepsLeft(turn[t]) = MaxHops + 7
    BY <2>3, LeftOf
  <2>5. StepsLeft(q) < StepsLeft(turn[t])
    BY <1>1, <2>4
  <2> QED BY <1>1, <2>3, <2>5, OneShrinks
<1>4. CASE Backfill(t)
  <2>1. PICK q : q = [turn[t] EXCEPT !.pc = "route"]
    OBVIOUS
  <2>2. Become(t, q) /\ q.pc = "route" /\ turn[t].pc = "backfill"
    BY <1>1, <1>4, <2>1 DEF Backfill, Records, At
  <2>3. StepsLeft(q) \in {MaxHops + 4, MaxHops + 5} /\ StepsLeft(turn[t]) = MaxHops + 6
    BY <2>2, LeftOf
  <2>4. StepsLeft(q) < StepsLeft(turn[t])
    BY <1>1, <2>3
  <2> QED BY <1>1, <2>2, <2>4, OneShrinks
<1>5. CASE RouteReset(t)
  <2>1. PICK q : q = [turn[t] EXCEPT !.session = Plain("IDLE"), !.old = FALSE]
    OBVIOUS
  <2>2. Become(t, q) /\ turn[t].pc = "route" /\ Resets(turn[t])
    BY <1>5, <2>1 DEF RouteReset, At, Resets, Input
  <2>3. q.pc = "route" /\ q.session = Plain("IDLE") /\ q.old = FALSE
    BY <1>1, <2>1, <2>2 DEF Records
  <2>4. ~Resets(q)
    BY <2>3 DEF Resets, Plain, Menu
  <2>5. StepsLeft(q) = MaxHops + 4 /\ StepsLeft(turn[t]) = MaxHops + 5
    BY <2>2, <2>3, <2>4, LeftOf
  <2>6. StepsLeft(q) < StepsLeft(turn[t])
    BY <1>1, <2>5
  <2> QED BY <1>1, <2>2, <2>6, OneShrinks
<1>6. CASE RouteFlow(t) \/ RouteGone(t) \/ RouteSilent(t) \/ Select(t)
  <2>1. turn[t].pc = "route"
    BY <1>6 DEF RouteFlow, RouteGone, RouteSilent, Select, In, At
  <2>2. Reply(t) \/ \E n, v, w : Begin(t, n, v, w)
    BY <1>6 DEF RouteFlow, RouteGone, RouteSilent, Select, StartFlow, ShowMenu, HandOver
  <2> QED BY <1>1, <2>1, <2>2, BeginShrinks, EndShrinks DEF Reply
<1> QED BY <1>2, <1>3, <1>4, <1>5, <1>6 DEF Message

LEMMA ResumeShrinks ==
  ASSUME TInv, NEW k \in Resumers, TakeJob(k) \/ Resume(k)
  PROVE  Shrinks
<1>1. k \in Turns /\ turn[k] \in Records /\ MaxHops \in Nat
  BY Given DEF TInv, Running, Sound, Turns
<1>2. CASE TakeJob(k)
  <2>1. turn[k].pc = "idle" /\ \E q : Become(k, q)
    BY <1>2 DEF TakeJob, At
  <2> QED BY <1>1, <2>1, OneShrinks
<1>3. CASE \E state : Finished(k, state)
  BY <1>1, <1>3, EndShrinks DEF Finished
<1>4. CASE LoadPause(k) /\ ~ \E state : Finished(k, state)
  <2>1. PICK p \in paused : Become(k, [turn[k] EXCEPT !.pc = "delete", !.node = p.node, !.vars = p.vars])
    BY <1>4 DEF LoadPause
  <2>2. PICK q : q = [turn[k] EXCEPT !.pc = "delete", !.node = p.node, !.vars = p.vars]
    OBVIOUS
  <2>3. q.pc = "delete" /\ turn[k].pc = "load"
    BY <1>1, <1>4, <2>2 DEF LoadPause, Records, At
  <2>4. StepsLeft(q) = MaxHops + 5 /\ StepsLeft(turn[k]) = MaxHops + 6
    BY <2>3, LeftOf
  <2>5. StepsLeft(q) < StepsLeft(turn[k])
    BY <1>1, <2>4
  <2> QED BY <1>1, <2>1, <2>2, <2>5, OneShrinks
<1>5. CASE DeletePause(k) /\ ~ \E state : Finished(k, state)
  <2>1. Become(k, [turn[k] EXCEPT !.pc = "restore"])
    BY <1>5 DEF DeletePause
  <2>2. PICK q : q = [turn[k] EXCEPT !.pc = "restore"]
    OBVIOUS
  <2>3. q.pc = "restore" /\ turn[k].pc = "delete"
    BY <1>1, <1>5, <2>2 DEF DeletePause, Records, At
  <2>4. StepsLeft(q) = MaxHops + 4 /\ StepsLeft(turn[k]) = MaxHops + 5
    BY <2>3, LeftOf
  <2>5. StepsLeft(q) < StepsLeft(turn[k])
    BY <1>1, <2>4
  <2> QED BY <1>1, <2>1, <2>2, <2>5, OneShrinks
<1>6. CASE Restore(k)
  <2>1. turn[k].pc = "restore" /\ \E n, v, w : Begin(k, n, v, w)
    BY <1>6 DEF Restore, At
  <2> QED BY <1>1, <2>1, BeginShrinks
<1> QED BY <1>2, <1>3, <1>4, <1>5, <1>6 DEF Resume

LEMMA WalkShrinks ==
  ASSUME TInv, NEW t \in Turns, Walk(t) \/ Throw(t)
  PROVE  Shrinks
<1>1. turn[t] \in Records /\ turn[t].hops \in Nat /\ MaxHops \in Nat
      /\ (turn[t].pc = "walk" => turn[t].hops <= MaxHops)
  BY Given DEF TInv, Running, Sound, Records, Bounded
<1>2. CASE Flush(t) \/ Throw(t)
  BY <1>2, EndShrinks DEF Flush, Throw, Finished
<1>3. CASE PauseJob(t)
  <2>1. PICK q : q = Over(turn[t], Reset)
    OBVIOUS
  <2>2. Become(t, q) /\ q.pc = "flush" /\ turn[t].pc = "enqueue"
    BY <1>1, <1>3, <2>1 DEF PauseJob, Leave, Over, Records, At
  <2>3. StepsLeft(q) = 1 /\ StepsLeft(turn[t]) = 2
    BY <2>2, LeftOf
  <2>4. StepsLeft(q) < StepsLeft(turn[t])
    BY <2>3
  <2> QED BY <2>2, <2>4, OneShrinks
<1>4. CASE PauseRow(t)
  <2>1. turn[t].pc = "walk" /\ At(t, "walk")
    BY <1>4 DEF PauseRow, On, At
  <2>2. CASE This(t).next = NoNode
    <3>1. Leave(t, Hop(t))
      BY <1>4, <2>2 DEF PauseRow
    <3> QED BY <2>1, <3>1, PlainAhead, AheadShrinks DEF Leave
  <2>3. CASE This(t).next # NoNode
    <3>1. Become(t, [Hop(t) EXCEPT !.pc = "enqueue", !.row = pauses'])
      BY <1>4, <2>3 DEF PauseRow
    <3>2. PICK n : n = pauses'
      OBVIOUS
    <3>3. PICK q : q = [Hop(t) EXCEPT !.pc = "enqueue", !.row = n]
      OBVIOUS
    <3>4. q.pc = "enqueue" /\ Become(t, q)
      BY <1>1, <3>1, <3>2, <3>3 DEF Hop, Records
    <3>5. StepsLeft(q) = 2 /\ StepsLeft(turn[t]) = MaxHops - turn[t].hops + 3
      BY <2>1, <3>4, LeftOf
    <3>6. StepsLeft(q) < StepsLeft(turn[t])
      BY <1>1, <2>1, <3>5
    <3> QED BY <3>4, <3>6, OneShrinks
  <2> QED BY <2>2, <2>3
<1>5. CASE Walk(t) /\ ~PauseRow(t) /\ ~PauseJob(t) /\ ~Flush(t)
  BY <1>5, WalkAhead, AheadShrinks
<1> QED BY <1>2, <1>3, <1>4, <1>5

\* A turn that runs has MaxHops + 7 steps at most, whatever the graph, whatever
\* other turns and edits of the flow come between, and each of its own steps
\* uses one up: the safety half of TurnsEnd (MAX_HOPS, flowRuntime.ts).
THEOREM TurnsRunOut == Spec => StepsRunOut
<1>1. TInv /\ [Next]_vars => Shrinks
  <2> SUFFICES ASSUME TInv, [Next]_vars PROVE Shrinks
    OBVIOUS
  <2>1. CASE (\E t \in Guests, input \in {"keyword", "item", "text"} : Receive(t, input)) \/ \E t \in Guests : Message(t)
    BY <2>1, MessageShrinks
  <2>2. CASE \E k \in Resumers : TakeJob(k) \/ Resume(k)
    BY <2>2, ResumeShrinks
  <2>3. CASE \E t \in Turns : Walk(t) \/ Throw(t)
    BY <2>3, WalkShrinks
  <2>4. CASE Crash
    <3>1. \A t \in Turns : turn'[t] = Idle
      BY <2>4 DEF Crash
    <3>2. \A t \in Turns : turn[t].pc # "idle" => StepsLeft(turn[t]) \in Nat \ {0}
      BY LeftIsPositive DEF TInv, Running, Sound
    <3>3. StepsLeft(Idle) = 0
      BY IdleIsIdle, LeftOf
    <3>4. ASSUME NEW t \in Turns, turn[t].pc # "idle"
          PROVE  StepsLeft(turn'[t]) < StepsLeft(turn[t])
      BY <3>1, <3>2, <3>3, <3>4
    <3> QED BY <3>4 DEF Shrinks
  <2>5. CASE UNCHANGED turn
    BY <2>5 DEF Shrinks
  <2>6. Stall \/ Expire \/ Forget \/ (\E n \in DOMAIN graph.nodes : SaveDraft(n)) \/ PublishDraft \/ RollBack \/ UNCHANGED vars => UNCHANGED turn
    BY DEF Stall, Expire, Forget, SaveDraft, PublishDraft, RollBack, vars
  <2> QED BY <2>1, <2>2, <2>3, <2>4, <2>5, <2>6 DEF Next
<1> QED BY <1>1, Held, PTL DEF Spec, StepsRunOut
=============================================================================
