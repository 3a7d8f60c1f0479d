SPECIFICATION Spec
CONSTANTS
    RoomTypes <- Catalogue
    BasePrice <- Prices
    Own <- Overrides
    Node <- Settings
    MAX_ROOMS = 50
    Parties <- SmallParties
    Calendars <- SomeCalendars
    maxPlans = 4
    MAX_AGE_ROUNDS = 3
    MAX_AGE_CORRECTIONS = 1
    AgeLimitSet = TRUE
    MaxShifts = 1
    MaxEdits = 3
    MaxRooms = 4
CHECK_DEADLOCK FALSE
INVARIANTS
    TypeOK
    PlansHouseTheParty
    SoldOutIsTrue
PROPERTIES
    AddedWhileAvailable
