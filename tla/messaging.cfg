SPECIFICATION FairSpec
CONSTANTS
    w1 = w1
    w2 = w2
    i1 = i1
    p1 = p1
    r1 = r1
    r2 = r2
    ir1 = ir1
    u1 = u1
    ph1 = ph1
    older = older
    newest = newest
    k1 = k1
    k2 = k2
    s1 = s1
    s2 = s2
    Messages = {w1, w2, i1, p1}
    Replies = {r1, r2, ir1, u1, ph1}
    Uploads = {u1}
    Phone = {ph1}
    Chunks = {older, newest}
    Final = newest
    Synced <- Sync
    Worlds <- Some
    Instagram = {i1, ir1}
    Media = {p1}
    Payloads <- Rich
    RateLimit = 1
    Workers = {k1, k2}
    Senders = {s1, s2}
    MaxDeliveries = 2
    MaxAttempts = 2
CHECK_DEADLOCK FALSE
INVARIANTS
    TypeOK
    AnsweredOnce
    UndoneMeansUnsent
PROPERTIES
    AckedIsStored
    ScheduledIsSettled
