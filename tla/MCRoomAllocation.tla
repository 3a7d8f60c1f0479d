-------------------------- MODULE MCRoomAllocation --------------------------
(* Small instances of RoomAllocation for TLC. *)
EXTENDS RoomAllocation

\* A cheap type that takes a bed and a dear one that is smaller than the node says.
Catalogue == <<"standard", "deluxe">>
Prices == [t \in {"standard", "deluxe"} |-> IF t = "standard" THEN 10 ELSE 25]
Overrides == [t \in {"standard", "deluxe"} |->
                IF t = "standard" THEN [allowExtraBed |-> TRUE, extraBedCharge |-> 3] ELSE [maxAdults |-> 2]]
Settings == [baseAdults |-> 2, baseChildren |-> 0, maxAdults |-> 4, maxChildren |-> 1,
             extraAdultCharge |-> 4, allowExtraBed |-> FALSE, extraBedCharge |-> 0]

\* A couple with two children, and a group of four.
SmallParties == {[adults |-> 2, children |-> 2], [adults |-> 4, children |-> 0]}
SomeCalendars == {[standard |-> s, deluxe |-> d] : s \in 0 .. 2, d \in 0 .. 1}
=============================================================================
