SPECIFICATION FairSpec
CONSTANTS
    h1 = h1
    h2 = h2
    LastMonth = 9
    MonthStart <- UnevenMonths
    LoopGuard = 2
    Handlers = {h1}
    TrialDays = {1, 3}
    ExtendDays = {2}
    MaxCatchup = 2
    Overlap = FALSE
    MaxDay = 8
    MaxRequests = 2
    MaxFaults = 1
CHECK_DEADLOCK FALSE
INVARIANTS
    HotelMirrors
    InvoicesDisjoint
PROPERTIES
    TickNeutral
    PeriodsTile
    LagClears
