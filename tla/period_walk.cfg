SPECIFICATION Spec
CONSTANTS
    LastMonth = 17
    MonthStart <- Gregorian
    LoopGuard = 24
    Starts <- WinterDays
    Anchors = {1, 15, 28, 29, 30, 31}
    Horizon = 425
CHECK_DEADLOCK FALSE
INVARIANTS
    JumpAgreesWithRenewals
