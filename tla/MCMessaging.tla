----------------------------- MODULE MCMessaging -----------------------------
(* Small instances of Messaging for TLC. *)
EXTENDS Messaging

CONSTANTS w1, w2, i1, p1, r1, r2, ir1, u1, ph1, older, newest, k1, k2, s1, s2

Ready == [whatsapp |-> "ready", instagram |-> "ready"]
World(items, bound) == [items |-> items, faults |-> bound, hotel |-> Ready, acts |-> {}]
With(acts, w) == [w EXCEPT !.acts = acts]
In(hotel, w) == [w EXCEPT !.hotel = hotel]

\* Two messages race for the conversation window; an Instagram message; a
\* photo; a staff reply that is undone; one that is reported; a message beside
\* a staff reply; an upload; a staff reply over Instagram; a message beside one
\* typed on the phone; two staff replies in a minute; a history sync of two
\* messages, one of them delivered as well; staff who delete and read; hotels
\* that cannot send.
Some ==
    {World({w1, w2}, 0), World({i1}, 2), World({p1}, 2),
     With({"undo"}, World({r1}, 2)), With({"report"}, World({r1}, 2)),
     World({w1, r1}, 0), With({"undo"}, World({u1}, 2)), With({"undo"}, World({ir1}, 2)),
     World({w1, ph1}, 0), World({r1, r2}, 0), World({p1, older, newest}, 1),
     With({"delete", "read"}, World({p1}, 0)),
     With({"delete", "undo"}, World({r1}, 1)), With({"delete"}, World({u1}, 0)),
     In([whatsapp |-> "mock", instagram |-> "unfinished"], World({w1}, 0)),
     In([whatsapp |-> "none", instagram |-> "mock"], World({i1}, 0)),
     In([whatsapp |-> "ready", instagram |-> "disabled"], World({i1}, 0))}

Sync == (older :> w1) @@ (newest :> p1)

Choice(n) == [kind |-> "choice", size |-> n]
Cards(n, chunks) == [kind |-> "cards", size |-> n, body |-> chunks]
MediaOf(doc) == [kind |-> "media", public |-> TRUE, document |-> doc, caption |-> 1]
Template(of) == [kind |-> "template", approved |-> TRUE, header |-> of]
Rich ==
    {Choice(3), Choice(14), Cards(2, 1), Cards(1, 1), MediaOf(TRUE), MediaOf(FALSE),
     Template("media id"), Template("sample"),
     [kind |-> "buttons", size |-> 2, fits |-> FALSE], [kind |-> "text", chunks |-> 2]}
=============================================================================
