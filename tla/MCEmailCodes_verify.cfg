\* Two purposes, both verify endpoints, the clock, lost replies and crashes.
CONSTANTS
    u1 = u1
    c1 = c1
    c2 = c2
    c3 = c3
    r1 = r1
    r2 = r2
    s1 = s1
    s2 = s2
    User = {u1}
    Purpose = {"login", "credential_change"}
    CodeId = {c1, c2}
    Requests = {r1, r2}
    Sends = {s1}
    MaxAttempts = 2
    Cooldown = 1
    Expiry = 2
    SendTimeout = 0
    SlotCap = 1
    MaxTime = 2
SYMMETRY Symmetry
SPECIFICATION Spec
INVARIANTS TypeOK SingleUse GuessBound PurposeIsolation
PROPERTY NoReset
PROPERTY Implements
CHECK_DEADLOCK TRUE
