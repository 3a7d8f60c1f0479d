------------------------------- MODULE MCFlow -------------------------------
(* Small instances of Flow for TLC: five flows that between them have every
   kind of node, a cycle that never asks, and two pauses in a row. *)
EXTENDS Flow

CONSTANTS g1, k1, k2

N(kind, next, alt) ==
    [kind |-> kind, next |-> next, alt |-> alt, gated |-> FALSE, field |-> "none", value |-> 0]
Ask(kind, field, next) == [N(kind, next, 0) EXCEPT !.field = field]
Set(field, value, next) == [N("set_variable", next, 0) EXCEPT !.field = field, !.value = value]
AfterHours(n) == [n EXCEPT !.gated = TRUE]

\* A room for a given night.
Stay == [start |-> 1, messages |-> 3, versioned |-> TRUE, nodes |->
    <<N("start", 2, 0), Set("in", 1, 3), Set("out", 2, 4), Ask("show_rooms", "room", 5),
      N("check_availability", 7, 6), N("create_booking", 8, 0), N("end", 0, 0), N("message", 7, 0)>>]

\* Dates that may be reversed, no room: the date is asked for again.
Dates == [start |-> 1, messages |-> 3, versioned |-> FALSE, nodes |->
    <<N("start", 2, 0), Set("in", 1, 3), Set("room", 1, 4), Ask("question", "out", 5),
      N("create_booking", 6, 0), N("send_template", 0, 7), N("show_menu", 8, 0), N("send_review_request", 0, 0)>>]

\* A party, allocated and booked as a group.
Party == [start |-> 1, messages |-> 2, versioned |-> FALSE, nodes |->
    <<N("start", 2, 0), Set("in", 1, 3), Set("out", 2, 4), N("allocate", 5, 0),
      N("create_booking", 6, 0), AfterHours(N("view_bookings", 7, 0)), N("cancel_booking", 8, 0),
      N("send_saved_reply", 9, 0), N("update_booking_status", 0, 0)>>]

\* Reminders: two delays in a row.
Reminders == [start |-> 1, messages |-> 2, versioned |-> FALSE, nodes |->
    <<N("start", 2, 0), N("delay", 3, 0), N("delay", 4, 0), N("notify_staff", 0, 0)>>]

\* A menu that loops: a branch, a jump back, and two questions in one arm.
Loop == [start |-> 1, messages |-> 2, versioned |-> FALSE, nodes |->
    <<N("start", 2, 0), N("branch", 3, 4), N("time_condition", 7, 5),
      Ask("question", "other", 5), Ask("options", "other", 6), N("handoff_to_staff", 0, 0), N("jump", 2, 0)>>]

All == {Stay, Dates, Party, Reminders, Loop}
=============================================================================
