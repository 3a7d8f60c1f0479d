SPECIFICATION Spec
CONSTANTS
    u1 = u1
    t1 = t1
    t2 = t2
    LastMonth = 7
    MonthStart <- ShortMonths
    LoopGuard = 4
    Uses = {u1}
    Ticks = {t1, t2}
    FirstRow <- Trial
    MaxDay = 3
    MaxUses = 1
    MaxWrites = 1
    MaxFaults = 1
CHECK_DEADLOCK FALSE
INVARIANTS
    TypeOK
    MeteredInItsPeriod
    StaleIsExplained
    OneLockedTick
