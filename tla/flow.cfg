SPECIFICATION FairSpec
CONSTANTS
    g1 = g1
    k1 = k1
    k2 = k2
    Guests = {g1}
    Resumers = {k1, k2}
    Days = {1, 2}
    MaxHops = 6
    MaxRetries = 1
    MaxStay = 1
    MaxPauses = 4
    MaxFaults = 1
    Graphs <- All
CHECK_DEADLOCK FALSE
INVARIANTS
    TypeOK
    AnsweredWhatWasAsked
    ResumedOnce
PROPERTIES
    TurnsEnd
    AcceptedPausesResume
