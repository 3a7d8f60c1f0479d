----------------------------- MODULE MCBooking ------------------------------
(* Small instances of Booking for TLC. *)
EXTENDS Booking

CONSTANTS r1, r2, r3, b1, g1, suite, twin, other

HotelOfTypes == [t \in Types |-> IF t = other THEN "Beach" ELSE "Hill"]
RoomsOfTypes == [t \in Types |-> IF t = suite THEN 1 ELSE 2]

Row(ref, rooms, type, in, out, price, status) ==
    [ref |-> ref, hotel |-> HotelOf[type], status |-> status, type |-> type, in |-> in, out |-> out, price |-> price,
     rooms |-> [i \in 1 .. rooms |-> [type |-> type, price |-> price, total |-> price * (out - in)]],
     total |-> price * (out - in) * (IF rooms = 0 THEN 1 ELSE rooms)]
Single(status) == (b1 :> Row(1, 0, suite, 1, 2, 5, status))
Both == Single("CONFIRMED") @@ (g1 :> Row(2, 2, twin, 1, 3, 3, "PENDING"))

Make(b, rooms, in, out) == [op |-> "create", booking |-> b, rooms |-> rooms, in |-> in, out |-> out, price |-> 4]
Change(b, sets) == [op |-> "edit", booking |-> b, sets |-> sets]
Restatus(bs, status) == [op |-> "status", bookings |-> bs, status |-> status]
Call(op, b) == [op |-> op, booking |-> b]
Submission(b, skip) == [op |-> "send", booking |-> b, skip |-> skip, filled |-> TRUE]
Step(n, kind) == [order |-> n, kind |-> kind]
ReplyLast == <<Step(2, "SAVED_REPLY"), Step(1, "TEMPLATE")>>
Named(id, default, scope, steps) ==
    [id |-> id, channel |-> "WHATSAPP", default |-> default, scope |-> scope, steps |-> steps]
Plans(id, replaces, scope, steps) == Named(id, TRUE, scope, steps) @@ [op |-> "plan", replaces |-> replaces]
Fill(t, nights, rooms) == [op |-> "cells", type |-> t, nights |-> nights, rooms |-> rooms]

World(rows, confirmed, want, faultBound) ==
    [rows |-> rows, confirmed |-> confirmed, want |-> want, faults |-> faultBound, enforced |-> TRUE,
     channel |-> "WHATSAPP", available |-> {"TEMPLATE", "SAVED_REPLY"}, plans |-> <<>>]
With(kept, w) == [w EXCEPT !.plans = kept]
Over(channel, available, w) == [w EXCEPT !.channel = channel, !.available = available]

\* Creations of two hotels, one of a group; edits of one booking; edits of a
\* group; submissions beside an old job; confirmations while the sequences
\* change, over both channels; the calendar beside status changes.
Creations == World(Single("HOLD"), {}, (r1 :> Make(r1, <<twin>>, 1, 3)) @@ (r2 :> Make(r2, <<twin, twin>>, 2, 3))
                   @@ (r3 :> Make(r3, <<other>>, 1, 2)), 0)
Edits == World(Both, {}, (r1 :> Change(b1, [out |-> 3])) @@ (r2 :> Change(b1, [price |-> 7]))
               @@ (r3 :> Change(b1, [type |-> twin])), 1)
Groups == World(Both, {}, (r1 :> Change(g1, [out |-> 2, rooms |-> <<6, 2>>])) @@ (r2 :> Change(g1, [in |-> 2]))
                @@ (r3 :> Restatus({b1, g1}, "CONFIRMED")), 1)
Sends == With(<<Named(1, TRUE, {}, ReplyLast)>>,
              World(Single("PENDING"), {b1}, (r1 :> Submission(b1, {})) @@ (r2 :> Submission(b1, {1}))
                    @@ (r3 :> Call("cancel", b1)), 2))
Sequences == With(<<Named(1, TRUE, {}, ReplyLast), Named(2, FALSE, {suite}, <<Step(1, "TEMPLATE")>>)>>,
                  World(Single("PENDING"), {}, (r1 :> Plans(2, TRUE, {suite}, ReplyLast))
                        @@ (r2 :> [op |-> "unplan", id |-> 2]) @@ (r3 :> Submission(b1, {})), 0))
Defaults == With(<<Named(1, TRUE, {}, ReplyLast)>>,
                 World(Single("PENDING"), {}, (r1 :> Plans(1, TRUE, {}, <<Step(1, "TEMPLATE")>>))
                       @@ (r2 :> Plans(2, FALSE, {}, <<Step(2, "TEMPLATE")>>)) @@ (r3 :> Submission(b1, {})), 0))
Replies == Over("INSTAGRAM", {"SAVED_REPLY"},
                World(Single("HOLD"), {}, (r1 :> Submission(b1, {})) @@ (r2 :> Call("confirm", b1)), 1))
Nothing == Over("INSTAGRAM", {}, World(Single("HOLD"), {}, (r1 :> Submission(b1, {}))
                                       @@ (r2 :> Plans(1, FALSE, {}, <<Step(1, "SAVED_REPLY")>>)), 0))
Calendar == World(Both, {}, (r1 :> Fill(twin, {1, 2}, 1)) @@ (r2 :> Restatus({g1}, "HOLD"))
                  @@ (r3 :> Make(r3, <<twin>>, 1, 4)), 0)
All == {Creations, Edits, Groups, Sends, Sequences, Defaults, Replies, Nothing, Calendar}

\* Two guests ask for the only suite.
Suites == {World(<<>>, {}, (r1 :> Make(r1, <<suite>>, 1, 2)) @@ (r2 :> Make(r2, <<suite>>, 1, 2)), 0)}
=============================================================================
