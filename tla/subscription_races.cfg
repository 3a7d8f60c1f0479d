SPECIFICATION Spec
CONSTANTS
    h1 = h1
    h2 = h2
    LastMonth = 9
    MonthStart <- ShortMonths
    LoopGuard = 2
    Handlers = {h1, h2}
    TrialDays = {1}
    ExtendDays = {1}
    MaxCatchup = 2
    Overlap = TRUE
    MaxDay = 3
    MaxRequests = 3
    MaxFaults = 1
CHECK_DEADLOCK FALSE
SYMMETRY HandlerSymmetry
INVARIANTS
    TypeOK
PROPERTIES
    BilledBeforeRolled
