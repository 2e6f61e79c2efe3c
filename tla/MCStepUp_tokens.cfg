\* Two tokens, three requests, the janitor and restarts, the map drains.
CONSTANTS
    u1 = u1
    u2 = u2
    t1 = t1
    t2 = t2
    r1 = r1
    r2 = r2
    r3 = r3
    User = {u1, u2}
    Token = {t1, t2}
    Requests = {r1, r2, r3}
    TTL = 1
    MaxSeconds = 3
SPECIFICATION StepUpFairSpec
INVARIANTS TypeOK LiveSingleUse
PROPERTY Drained
CHECK_DEADLOCK TRUE
