----------------------------- MODULE Allocation -----------------------------
(***************************************************************************)
(* automation/nodes/ara/allocator.ts and plans.ts: which rooms a party is  *)
(* offered.  Pure: the availability is an argument, nothing is stored.     *)
(*                                                                         *)
(* A price is that of one night (the nights multiply every price alike);   *)
(* labels, rationales and plan ids are left out.                           *)
(***************************************************************************)
EXTENDS Integers, SequencesExt

CONSTANTS
    RoomTypes,   \* the catalogue, a sequence
    BasePrice,   \* BasePrice[t]
    Own,         \* Own[t]: the settings that room type t overrides
    Node,        \* the settings of the flow's node
    MAX_ROOMS    \* ceiling of one allocation

Type == {RoomTypes[i] : i \in 1 .. Len(RoomTypes)}
ASSUME AllocationAssumption ==
    /\ BasePrice \in [Type -> Nat] /\ MAX_ROOMS \in Nat
    /\ \A t \in Type : DOMAIN Own[t] \subseteq DOMAIN Node

Clamp(n, low, high) == IF n < low THEN low ELSE IF n > high THEN high ELSE n
CeilDiv(n, d) == (n + d - 1) \div d

ResolveRoomConfig(t) == Own[t] @@ Node

\* An allocated room: the price of an extra adult is in "extra", kept apart
\* because a bed can be taken away without a look at the settings.
PricedRoom(t, adults, children, bed) ==
    LET cfg == ResolveRoomConfig(t)
        extra == Clamp(adults - cfg.baseAdults, 0, adults) * cfg.extraAdultCharge
        bedCost == IF cfg.allowExtraBed /\ bed THEN cfg.extraBedCharge ELSE 0
    IN  [type |-> t, adults |-> adults, children |-> children, bed |-> bed,
         extra |-> extra, price |-> BasePrice[t] + extra + bedCost]

\* The bed follows from who sleeps in the room.
HousedRoom(t, adults, children) ==
    LET cfg == ResolveRoomConfig(t)
    IN  PricedRoom(t, adults, children, adults > cfg.baseAdults /\ cfg.allowExtraBed)

SumOf(values) ==
    LET upTo[i \in 0 .. Len(values)] == IF i = 0 THEN 0 ELSE upTo[i - 1] + values[i] IN upTo[Len(values)]
Adults(rooms) == SumOf([i \in 1 .. Len(rooms) |-> rooms[i].adults])
Children(rooms) == SumOf([i \in 1 .. Len(rooms) |-> rooms[i].children])
Total(rooms) == SumOf([i \in 1 .. Len(rooms) |-> rooms[i].price])
Count(rooms, t) == Cardinality({i \in 1 .. Len(rooms) : rooms[i].type = t})

-----------------------------------------------------------------------------
(* The engine *)

\* A leftover that the base rooms can absorb does not open another.
BaseFirstRoomCount(units, base, max) ==
    LET full == units \div base
        spare == full * Clamp(max - base, 0, max)
    IN  IF units % base = 0 \/ units % base <= spare THEN full ELSE full + 1

\* Fault: the surplus is forgotten.
DistributeIntoRooms_BaseOnly(units, n, base, max) == [i \in 1 .. n |-> Clamp(units - (i - 1) * base, 0, base)]

\* Base occupancy room by room, then the surplus into the fewest rooms.
DistributeIntoRooms(units, n, base, max) ==
    LET spare == Clamp(max - base, 0, max)
    IN  [i \in 1 .. n |-> Clamp(units - (i - 1) * base, 0, base)
                        + Clamp(units - n * base - (i - 1) * spare, 0, spare)]

\* Fault: a party is turned away whenever base occupancy does not fit.
AdultRooms_NoCram(adults, avail, strategy, base, max) ==
    LET wanted == IF strategy = "max-fill" THEN CeilDiv(adults, max)
                  ELSE BaseFirstRoomCount(adults, base, max)
    IN  IF wanted <= avail THEN wanted ELSE avail + 1

\* How many rooms the adults open: the wanted number, or all there are.
AdultRooms(adults, avail, strategy, base, max) ==
    LET wanted == IF strategy = "max-fill" THEN CeilDiv(adults, max)
                  ELSE BaseFirstRoomCount(adults, base, max)
    IN  IF wanted <= avail THEN wanted ELSE avail

NodeLimits ==
    LET baseA == Clamp(Node.baseAdults, 1, Node.baseAdults + 1)
    IN  [baseA |-> baseA, maxA |-> Clamp(Node.maxAdults, baseA, baseA + Node.maxAdults),
         maxC |-> Node.maxChildren,
         childBase |-> IF Node.baseChildren > 0 THEN Node.baseChildren ELSE Node.maxChildren]

\* Adult rooms that children fill, then rooms of children alone; heaviest first.
Shapes(party, n) ==
    LET lim == NodeLimits
        adultsIn == DistributeIntoRooms(party.adults, n, lim.baseA, lim.maxA)
        childrenIn == [i \in 1 .. n |-> Clamp(party.children - (i - 1) * lim.maxC, 0, lim.maxC)]
        left == Clamp(party.children - n * lim.maxC, 0, party.children)
        over == IF left = 0 \/ lim.maxC = 0 THEN <<>>
                ELSE DistributeIntoRooms(left, BaseFirstRoomCount(left, lim.childBase, lim.maxC),
                                         lim.childBase, lim.maxC)
        shapes == [i \in 1 .. n |-> [adults |-> adultsIn[i], children |-> childrenIn[i]]]
                  \o [i \in 1 .. Len(over) |-> [adults |-> 0, children |-> over[i]]]
    IN  SortSeq(shapes, LAMBDA a, b : \/ a.adults > b.adults
                                      \/ a.adults = b.adults /\ a.children > b.children)

\* One slot per available room, the cheapest type first.
Slots(types, avail) ==
    LET byPrice == SortSeq(types, LAMBDA s, t : BasePrice[s] < BasePrice[t])
    IN  FlattenSeq([i \in 1 .. Len(byPrice) |-> [j \in 1 .. avail[byPrice[i]] |-> byPrice[i]]])

\* The empty sequence stands for null too: no caller tells them apart.
AllocateRooms(party, types, avail, strategy) ==
    LET lim == NodeLimits
        slots == Slots(types, avail)
        n == AdultRooms(party.adults, Len(slots), strategy, lim.baseA, lim.maxA)
        shapes == Shapes(party, n)
    IN  IF \/ slots = <<>> \/ n * lim.maxA < party.adults
           \/ party.children > n * lim.maxC /\ lim.maxC = 0
           \/ Len(shapes) > Len(slots) \/ Len(shapes) > MAX_ROOMS
        THEN <<>>
        ELSE [i \in 1 .. Len(shapes) |-> HousedRoom(slots[i], shapes[i].adults, shapes[i].children)]

-----------------------------------------------------------------------------
(* The plans *)

NoPreference == "none"

SameOffer(p, q) == \A t \in Type : Count(p.rooms, t) = Count(q.rooms, t)

\* Plans of the same rooms and price, or within a tenth of the price in as many
\* rooms, are one offer.
IsDistinctPlan(p, offered) ==
    \A i \in 1 .. Len(offered) :
        LET q == offered[i]
            diff == Total(p.rooms) - Total(q.rooms)
        IN  /\ ~(SameOffer(p, q) /\ diff = 0)
            /\ ~(/\ Len(p.rooms) = Len(q.rooms)
                 /\ \/ Total(q.rooms) = 0
                    \/ 10 * diff <= Total(q.rooms) /\ 10 * diff >= -Total(q.rooms))

\* What the engine is asked for, in the order of PLAN_PRIORITY.  The preferred
\* type alone, or with the rest if it cannot house the party alone.
Requests(avail, preferred) ==
    LET open == SelectSeq(RoomTypes, LAMBDA t : avail[t] > 0)
        byPrice == SortSeq(open, LAMBDA s, t : BasePrice[s] < BasePrice[t])
        first == [i \in 1 .. Clamp(Len(open), 0, 1) |-> byPrice[i]]
        dearer == SelectSeq(RoomTypes, LAMBDA t : <<t>> # first)
        Ask(kind, types, strategy) == [kind |-> kind, types |-> types, strategy |-> strategy]
    IN  (IF preferred = NoPreference \/ avail[preferred] = 0 THEN <<>>
         ELSE <<Ask("YOUR_CHOICE", <<preferred>>, "base-first"),
                Ask("YOUR_CHOICE", RoomTypes, "base-first")>>)
        \o <<Ask("BEST_VALUE", RoomTypes, "max-fill"),
             Ask("BEST_EXPERIENCE", IF dearer # <<>> THEN dearer ELSE RoomTypes, "base-first"),
             Ask("BUDGET_FRIENDLY", first, "max-fill"),
             Ask("DYNAMIC_EXTRAS", RoomTypes, "base-first"),
             Ask("DYNAMIC_EXTRAS", dearer, "max-fill")>>

Answers(party, avail, requests) ==
    [i \in 1 .. Len(requests) |->
        [kind |-> requests[i].kind,
         rooms |-> AllocateRooms(party, requests[i].types, avail, requests[i].strategy)]]

\* A plan is offered if it houses the party, is not a second choice and differs.
Offered(out, p) ==
    IF /\ p.rooms # <<>> /\ IsDistinctPlan(p, out)
       /\ ~(p.kind = "YOUR_CHOICE" /\ out # <<>>)
    THEN Append(out, p) ELSE out

GenerateSmartPlans(party, avail, preferred, maxPlans) ==
    LET offered == FoldLeft(Offered, <<>>, Answers(party, avail, Requests(avail, preferred)))
        Before(p, q) == p.kind = "DYNAMIC_EXTRAS" /\ q.kind = p.kind /\ Total(p.rooms) < Total(q.rooms)
        ranked == SortSeq(offered, Before)
    IN  [i \in 1 .. Clamp(Len(offered), 0, maxPlans) |-> ranked[i]]
=============================================================================
