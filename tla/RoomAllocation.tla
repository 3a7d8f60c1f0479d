--------------------------- MODULE RoomAllocation ---------------------------
(***************************************************************************)
(* The advanced room allocation step of a guest's flow                     *)
(* (automation/nodes/ara/): the ages of the children, a preferred type, a  *)
(* plan, and the edits until the rooms are final.  The state survives only *)
(* in the guest's session; the calendar moves under it.                    *)
(*                                                                         *)
(* One action per kind of reply in a phase.  A reply that is understood as *)
(* nothing re-shows the question and changes nothing: it is left out, as   *)
(* are the interactive senders, which only choose how a reply looks.  An   *)
(* age is "young" or "old", old being over the hotel's limit.              *)
(***************************************************************************)
EXTENDS Allocation

CONSTANTS
    Parties,              \* [adults, children] a guest may come with
    Calendars,            \* availabilities of the stay, functions of the type
    maxPlans,             \* of the node
    MAX_AGE_ROUNDS, MAX_AGE_CORRECTIONS,
    AgeLimitSet,          \* whether the hotel has a child age limit
    MaxShifts,            \* bound: changes of the calendar
    MaxEdits,             \* bound: edits of the guest
    MaxRooms              \* bound: rooms held at once

VARIABLES
    phase,
    asked,      \* the party as the flow's variables have it
    guests,     \* the party to house, once ages are known
    ages,       \* ageCollection: [got, rounds, ai]
    confirm,    \* ageConfirm: [ages, corrections]
    snapshot,   \* the availability the plans are made from
    plans, rooms, remaining,
    selected,   \* selectedRoomIndex
    pending,    \* pendingMove
    calendar,   \* the availability right now
    replies,    \* messages with ages that the guest has sent
    shifts, edits

offer == <<plans, snapshot>>
collecting == <<asked, guests, ages, confirm, replies>>
held == <<rooms, remaining>>
menu == <<selected, pending>>
outside == <<calendar, shifts>>
vars == <<phase, collecting, offer, held, menu, outside, edits>>

Nobody == [adults |-> 0, children |-> 0]
NoAges == [got |-> <<>>, rounds |-> 0, ai |-> FALSE]
NoSnapshot == [t \in Type |-> 0]
NoConfirm == [ages |-> <<>>, corrections |-> 0]
Age == {"young", "old"}
Editing == {"confirm", "manual", "room_menu", "move_from_count", "move_to_room", "change_type_select"}

-----------------------------------------------------------------------------
(* The party *)

\* What the engine answers, as tables over whoever may come and whatever may
\* be free.
PartiesToHouse ==
    UNION {{[adults |-> p.adults + k, children |-> p.children - k] : k \in 0 .. p.children + 1} : p \in Parties}
Feasible == [party \in PartiesToHouse, avail \in Calendars |->
               AllocateRooms(party, RoomTypes, avail, "base-first") # <<>>]
Offers == [party \in PartiesToHouse, avail \in Calendars, preferred \in Type \cup {NoPreference} |->
             GenerateSmartPlans(party, avail, preferred, maxPlans)]
Slotted == [avail \in Calendars |-> Len(Slots(RoomTypes, avail))]

ReclassifyGuests(got) ==
    LET promoted == IF AgeLimitSet THEN Len(SelectSeq(got, LAMBDA a : a = "old")) ELSE 0
    IN  [adults |-> asked.adults + promoted, children |-> asked.children - promoted]

\* proceedToAllocation: the calendar is read once and kept for the plans; a
\* party that cannot be housed at all is asked for other dates, or, the budget
\* of retryStep spent, sent away.  Either way the state is dropped.
ProceedToAllocation(party) ==
    /\ guests' = party /\ snapshot' = calendar /\ ages' = NoAges /\ confirm' = NoConfirm
    /\ IF Feasible[party, calendar] THEN phase' = "collecting_room_preference"
       ELSE phase' \in {"sold_out", "left"}
    /\ UNCHANGED <<plans, held, menu>>

\* phase1, and again after the dates were asked again.  Ages that an earlier
\* step collected are taken as they are, were they more than the children.
Enter ==
    /\ phase \in {"start", "sold_out", "bad_dates"} /\ edits < MaxEdits /\ edits' = edits + 1
    /\ \/ /\ asked.children > 0 /\ phase' = "collecting_ages"
          /\ ages' = NoAges /\ confirm' = NoConfirm /\ replies' = 0
          /\ UNCHANGED <<asked, guests, offer, held, menu>>
       \/ /\ \E known \in SeqOf(Age, asked.children + 1) :
                Len(known) >= asked.children /\ ProceedToAllocation(ReclassifyGuests(known))
          /\ UNCHANGED <<asked, replies>>
       \/ phase' \in {"bad_dates", "left"} /\ UNCHANGED <<collecting, offer, held, menu>>
    /\ UNCHANGED outside

-----------------------------------------------------------------------------
(* The ages of the children *)

\* finishAgeCollection: the dates are checked again before the rooms are.
Finish(got) ==
    \/ ProceedToAllocation(ReclassifyGuests(got))
    \/ /\ phase' \in {"bad_dates", "left"} /\ ages' = NoAges /\ confirm' = NoConfirm
       /\ UNCHANGED <<guests, offer, held, menu>>

Filled(got) == got \o [i \in 1 .. asked.children - Len(got) |-> "young"]

Collect(got, ai) ==
    /\ phase' = "collecting_ages"
    /\ ages' = [got |-> got, rounds |-> ages.rounds + 1, ai |-> ages.ai \/ ai]
    /\ UNCHANGED <<guests, confirm, offer, held, menu>>

\* Only a bare list of exactly as many ages as children is taken as it stands.
\* The round that completes the list is not counted.
AgeReply ==
    \E read \in SeqOf(Age, asked.children + 1), ai \in BOOLEAN :
        LET merged == ages.got \o read
            last == ages.rounds + 1 >= MAX_AGE_ROUNDS
            full == Len(merged) >= asked.children
            got == SubSeq(merged, 1, Clamp(Len(merged), 0, asked.children))
        IN  /\ phase = "collecting_ages" /\ asked' = asked /\ replies' = replies + 1
            /\ CASE full /\ ~ai /\ ~ages.ai /\ Len(merged) = asked.children -> Finish(got)
                 [] full /\ ~(~ai /\ ~ages.ai /\ Len(merged) = asked.children) ->
                      /\ phase' = "confirming_ages" /\ ages' = [ages EXCEPT !.got = got]
                      /\ confirm' = [confirm EXCEPT !.ages = got]
                      /\ UNCHANGED <<guests, offer, held, menu>>
                 [] ~full /\ last -> Finish(Filled(got))
                 [] ~full /\ ~last -> Collect(got, ai)
            /\ UNCHANGED <<outside, edits>>

AgesRight ==
    /\ phase = "confirming_ages" /\ Finish(confirm.ages) /\ UNCHANGED <<asked, replies, outside, edits>>

\* The rounds already used stay used.
Recollect == ages' = [ages EXCEPT !.got = <<>>, !.ai = FALSE]

\* Ages are asked for once more, and only once.
AgesWrong ==
    /\ phase = "confirming_ages"
    /\ IF confirm.corrections >= MAX_AGE_CORRECTIONS THEN Finish(confirm.ages)
       ELSE /\ phase' = "collecting_ages" /\ Recollect
            /\ confirm' = [confirm EXCEPT !.corrections = @ + 1]
            /\ UNCHANGED <<guests, offer, held, menu>>
    /\ UNCHANGED <<asked, replies, outside, edits>>

-----------------------------------------------------------------------------
(* A preference and a plan *)

Choose(plan) ==
    /\ phase' = "confirm" /\ rooms' = plan.rooms /\ remaining' = Nobody
    /\ plans' = <<>> /\ snapshot' = NoSnapshot

\* A card of a type that was sold out counts as no preference.
Preference ==
    /\ phase = "collecting_room_preference"
    /\ \E tapped \in Type \cup {NoPreference} :
        LET preferred == IF tapped # NoPreference /\ snapshot[tapped] = 0 THEN NoPreference ELSE tapped
            offered == Offers[guests, snapshot, preferred]
        IN  CASE offered = <<>> -> phase' \in {"sold_out", "left"} /\ UNCHANGED <<offer, held>>
              [] Len(offered) = 1 -> Choose(offered[1])
              [] OTHER -> plans' = offered /\ phase' = "plan_selection" /\ UNCHANGED <<snapshot, held>>
    /\ UNCHANGED <<collecting, menu, outside, edits>>

PlanSelection ==
    /\ phase = "plan_selection" /\ \E i \in 1 .. Len(plans) : Choose(plans[i])
    /\ UNCHANGED <<collecting, menu, outside, edits>>

-----------------------------------------------------------------------------
(* The edits, each a set of results: empty if it is rejected *)

CapOf(t, field, node) == IF field \in DOMAIN Own[t] THEN Clamp(node, 0, Own[t][field]) ELSE node
EffMax(t) ==
    [adults   |-> CapOf(t, "maxAdults", Node.maxAdults + IF Node.allowExtraBed THEN 1 ELSE 0),
     children |-> CapOf(t, "maxChildren", Node.maxChildren)]

Replaced(i, room) == [rooms EXCEPT ![i] = room]
Free(t) == calendar[t] - Count(rooms, t)
WithBed(room) == PricedRoom(room.type, room.adults, room.children, TRUE)
\* Fault: the bed goes, its price stays.
WithoutBed_KeepsPrice(room) == [room EXCEPT !.bed = FALSE]

\* stripExtraBed
WithoutBed(room) == [room EXCEPT !.bed = FALSE, !.price = BasePrice[room.type] + room.extra]

ApplyAddExtraBed(i) ==
    {Replaced(i, WithBed(r)) : r \in {s \in {rooms[i]} : ResolveRoomConfig(s.type).allowExtraBed}}

ApplyMoveExtraBed(i, j) ==
    {[Replaced(i, WithoutBed(rooms[i])) EXCEPT ![j] = WithBed(r)] :
        r \in {s \in {rooms[j]} : i # j /\ ResolveRoomConfig(s.type).allowExtraBed}}

\* A room that is emptied is given up.
ApplyMoveGuest(i, j, a, c) ==
    LET cfg == ResolveRoomConfig(rooms[j].type)
        to == HousedRoom(rooms[j].type, rooms[j].adults + a, rooms[j].children + c)
        from == HousedRoom(rooms[i].type, rooms[i].adults - a, rooms[i].children - c)
        moved == [rooms EXCEPT ![i] = from, ![j] = to]
    IN  {IF from.adults + from.children = 0 THEN RemoveAt(moved, i) ELSE moved :
            ok \in {TRUE} \cap {/\ i # j /\ a + c > 0 /\ a <= rooms[i].adults /\ c <= rooms[i].children
                                /\ to.adults <= cfg.maxAdults /\ to.children <= cfg.maxChildren}}

\* Fault: the calendar is not asked, the picker listed the type.
ApplyChangeRoomType_Unchecked(i, t) ==
    {Replaced(i, HousedRoom(t, r.adults, r.children)) :
        r \in {s \in {rooms[i]} : /\ t # s.type
                                  /\ s.adults <= ResolveRoomConfig(t).maxAdults
                                  /\ s.children <= ResolveRoomConfig(t).maxChildren}}

ApplyChangeRoomType(i, t) ==
    {Replaced(i, HousedRoom(t, r.adults, r.children)) :
        r \in {s \in {rooms[i]} : /\ t # s.type /\ Free(t) > 0
                                  /\ s.adults <= ResolveRoomConfig(t).maxAdults
                                  /\ s.children <= ResolveRoomConfig(t).maxChildren}}

Edit == edits < MaxEdits /\ edits' = edits + 1 /\ UNCHANGED <<collecting, offer, outside>>
Index == 1 .. Len(rooms)
NoMove == Nobody

ToManual(result) ==
    /\ phase' = "manual" /\ rooms' = result /\ remaining' = remaining
    /\ selected' = 0 /\ pending' = NoMove

Goto(where) == phase' = where /\ UNCHANGED <<held, menu, edits, collecting, offer, outside>>

\* tryModify: what the AI read out of free text; the phase stays, and whoever
\* slept in a removed room is to be placed again.
Interpret ==
    /\ phase \in {"confirm", "manual"} /\ Edit /\ UNCHANGED <<phase, menu>>
    /\ \/ /\ \E i \in Index : \/ rooms' \in ApplyAddExtraBed(i)
                              \/ rooms' = Replaced(i, WithoutBed(rooms[i]))
          /\ remaining' = remaining
       \/ /\ \E i, j \in Index : \/ rooms' \in ApplyMoveExtraBed(i, j)
                                 \/ \E a \in 0 .. rooms[i].adults, c \in 0 .. rooms[i].children :
                                        rooms' \in ApplyMoveGuest(i, j, a, c)
          /\ remaining' = remaining
       \/ \E i \in Index :
            /\ rooms' = RemoveAt(rooms, i)
            /\ remaining' = [adults |-> remaining.adults + rooms[i].adults,
                             children |-> remaining.children + rooms[i].children]

-----------------------------------------------------------------------------
(* Confirming and editing by menu *)

\* finalizeAndAdvance: the output is written, the state is dropped.
Finalize == phase' = "final" /\ UNCHANGED <<collecting, offer, held, menu, outside, edits>>
Confirm == phase = "confirm" /\ Finalize
Done == phase = "manual" /\ rooms # <<>> /\ Finalize

Modify ==
    /\ phase = "confirm" /\ phase' = "manual" /\ remaining' = Nobody
    /\ UNCHANGED <<rooms, menu, collecting, offer, outside, edits>>

AllPlaced == remaining = Nobody

\* A room by choice, at base occupancy.
AddRoom ==
    /\ phase = "manual" /\ AllPlaced /\ Len(rooms) < MaxRooms /\ Edit
    /\ \E t \in Type :
        LET cfg == ResolveRoomConfig(t)
        IN  /\ Free(t) > 0
            /\ ToManual(Append(rooms, PricedRoom(t, Clamp(cfg.baseAdults, 0, EffMax(t).adults),
                                                    Clamp(cfg.baseChildren, 0, EffMax(t).children), FALSE)))

\* Guests who still need a room: as many of them as the type takes.
FillRoom ==
    /\ phase = "manual" /\ ~AllPlaced /\ Len(rooms) < MaxRooms /\ Edit
    /\ \E t \in Type :
        LET a == Clamp(remaining.adults, 0, EffMax(t).adults)
            c == Clamp(remaining.children, 0, EffMax(t).children)
        IN  /\ Free(t) > 0 /\ a + c > 0
            /\ rooms' = Append(rooms, PricedRoom(t, a, c, a > ResolveRoomConfig(t).baseAdults))
            /\ remaining' = [adults |-> remaining.adults - a, children |-> remaining.children - c]
    /\ UNCHANGED <<phase, menu>>

EditRoom ==
    /\ phase = "manual" /\ AllPlaced /\ phase' = "room_menu" /\ selected' \in Index
    /\ UNCHANGED <<held, pending, edits, collecting, offer, outside>>

Here == rooms[selected]

\* roomMenuOptions, and the three of them that are applied at once.  The menu
\* forgets whoever slept in the room it removes.
RoomMenu ==
    /\ phase = "room_menu" /\ Edit
    /\ \/ ~Here.bed /\ \E result \in ApplyAddExtraBed(selected) : ToManual(result)
       \/ Here.bed /\ ToManual(Replaced(selected, WithoutBed(Here)))
       \/ ToManual(RemoveAt(rooms, selected))

MoveGuest == phase = "room_menu" /\ Here.adults + Here.children > 0 /\ Goto("move_from_count")
ChangeType == phase = "room_menu" /\ Len(RoomTypes) > 1 /\ Goto("change_type_select")

MoveFromCount ==
    /\ phase = "move_from_count" /\ phase' = "move_to_room"
    /\ \E a \in 0 .. Here.adults, c \in 0 .. Here.children :
        a + c > 0 /\ pending' = [adults |-> a, children |-> c]
    /\ UNCHANGED <<held, selected, edits, collecting, offer, outside>>

MoveToRoom ==
    /\ phase = "move_to_room" /\ Edit
    /\ \E j \in Index : \E result \in ApplyMoveGuest(selected, j, pending.adults, pending.children) :
            ToManual(result)

ChangeTypeSelect ==
    /\ phase = "change_type_select" /\ Edit
    /\ \E t \in Type : \E result \in ApplyChangeRoomType(selected, t) : ToManual(result)

GoBack ==
    \/ phase = "room_menu" /\ ToManual(rooms) /\ UNCHANGED <<edits, collecting, offer, outside>>
    \/ /\ phase \in {"move_from_count", "change_type_select"} /\ phase' = "room_menu" /\ pending' = NoMove
       /\ UNCHANGED <<held, selected, edits, collecting, offer, outside>>
    \/ phase = "move_to_room" /\ Goto("move_from_count")

\* MENU is understood everywhere.
Cancel == phase \notin {"start", "final", "left"} /\ Goto("left")

\* Others book and cancel.
Shift ==
    /\ shifts < MaxShifts /\ shifts' = shifts + 1 /\ calendar' \in Calendars \ {calendar}
    /\ UNCHANGED <<phase, collecting, offer, held, menu, edits>>

-----------------------------------------------------------------------------
Init ==
    /\ phase = "start" /\ asked \in Parties /\ guests = Nobody
    /\ ages = NoAges /\ confirm = NoConfirm /\ replies = 0
    /\ plans = <<>> /\ rooms = <<>> /\ remaining = Nobody /\ selected = 0 /\ pending = NoMove
    /\ calendar \in Calendars /\ snapshot = calendar /\ shifts = 0 /\ edits = 0

Ages == AgeReply \/ AgesRight \/ AgesWrong
Menu == RoomMenu \/ MoveGuest \/ ChangeType \/ MoveFromCount \/ MoveToRoom \/ ChangeTypeSelect \/ GoBack

Next ==
    \/ Enter \/ Ages \/ Preference \/ PlanSelection \/ Confirm \/ Modify \/ Interpret
    \/ Done \/ AddRoom \/ FillRoom \/ EditRoom \/ Menu \/ Cancel \/ Shift

Spec == Init /\ [][Next]_vars

-----------------------------------------------------------------------------
(* Properties *)

\* The state is one the handler can go on from: a menu is about a room that is
\* there, a room costs what its guests and its bed cost in its type, however it
\* came to be as it is, and a guest is asked for ages no more often than the
\* rounds and corrections together allow (ara/constants.ts).
TypeOK ==
    /\ replies <= MAX_AGE_ROUNDS + MAX_AGE_CORRECTIONS
    /\ phase \in Editing \cup {"start", "collecting_ages", "confirming_ages", "plan_selection",
                               "collecting_room_preference", "sold_out", "bad_dates", "final", "left"}
    /\ phase \in Editing \ {"confirm", "manual"} => selected \in Index
    /\ \A i \in Index : rooms[i] = PricedRoom(rooms[i].type, rooms[i].adults, rooms[i].children, rooms[i].bed)

\* Every plan houses the whole party and no one else, within the limits of the
\* node, in rooms that were free when the plans were made (allocator.ts:84-100).
PlansHouseTheParty ==
    \A i \in 1 .. Len(plans) :
        LET of == plans[i].rooms
        IN  /\ Adults(of) = guests.adults /\ Children(of) = Clamp(guests.children, 0, guests.children + 1)
            /\ \A k \in 1 .. Len(of) : of[k].adults <= NodeLimits.maxA /\ of[k].children <= NodeLimits.maxC
            /\ \A t \in Type : Count(of, t) <= snapshot[t]

\* A guest is told that the hotel is full only if no number of the free rooms
\* could hold the party (allocator.ts:95-97).
Holds(n, party) == n * NodeLimits.maxA >= party.adults /\ n * NodeLimits.maxC >= party.children
SoldOutIsTrue ==
    phase = "sold_out" => \A n \in 1 .. Clamp(Slotted[snapshot], 0, MAX_ROOMS) : ~Holds(n, guests)

\* No step takes a room of a type beyond what is free at that moment, or was
\* free when the chosen plan was made, whatever has been edited since.
AddedWhileAvailable ==
    [][\A t \in Type : Count(rooms', t) > Count(rooms, t) =>
            \/ Count(rooms', t) <= calendar[t]
            \/ phase \in {"collecting_room_preference", "plan_selection"} /\ Count(rooms', t) <= snapshot[t]]_vars

=============================================================================
