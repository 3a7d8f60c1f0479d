SPECIFICATION FairSpec
CONSTANTS
    t1 = t1
    t2 = t2
    k1 = k1
    k2 = k2
    Total = 2
    Tabs = {t1}
    Workers = {k1, k2}
    Attempts = 2
    MaxOrders = 2
    MaxCopies = 2
    MaxFaults = 3
CHECK_DEADLOCK FALSE
INVARIANTS
    TypeOK
    CreditedOnce
PROPERTIES
    Accounted
