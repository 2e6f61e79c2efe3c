\* Requested and registration sends over the clock and the semaphore.
CONSTANTS
    u1 = u1
    c1 = c1
    c2 = c2
    c3 = c3
    r1 = r1
    r2 = r2
    s1 = s1
    s2 = s2
    User = {u1}
    Purpose = {"verify_email"}
    CodeId = {c1, c2, c3}
    Requests = {}
    Sends = {s1, s2}
    MaxAttempts = 2
    Cooldown = 3
    Expiry = 4
    SendTimeout = 1
    SlotCap = 2
    MaxTime = 5
SPECIFICATION FairSpec
INVARIANTS SpacingHolds LiveCodesBounded SlotsExact
PROPERTY SlotsRecover
CHECK_DEADLOCK TRUE
