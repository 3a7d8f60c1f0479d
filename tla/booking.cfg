SPECIFICATION FairSpec
CONSTANTS
    r1 = r1
    r2 = r2
    r3 = r3
    b1 = b1
    g1 = g1
    suite = suite
    twin = twin
    other = other
    Bookings = {b1, g1, r1, r2, r3}
    Requests = {r1, r2, r3}
    Types = {suite, twin, other}
    HotelOf <- HotelOfTypes
    TotalRooms <- RoomsOfTypes
    LastNight = 4
    Steps = 2
    MAX_SEQUENCE_STEPS = 10
    Worlds <- All
CHECK_DEADLOCK FALSE
INVARIANTS
    TypeOK
PROPERTIES
    ClashOnlyAcrossHotels
    EditKeepsTheRest
    AcceptedIsSent
