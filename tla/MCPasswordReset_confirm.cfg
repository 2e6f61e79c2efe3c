\* Two links, two confirmations at a time, failures and crashes.
CONSTANTS
    a1 = a1
    a2 = a2
    t1 = t1
    t2 = t2
    s1 = s1
    s2 = s2
    r1 = r1
    r2 = r2
    None = None
    Account = {a1, a2}
    Token = {t1, t2}
    Senders = {s1, s2}
    Requests = {r1, r2}
    Lifetime = 2
    MaxTime = 3
    MaxUses = 2
    Faults = TRUE
SYMMETRY Symmetry
SPECIFICATION Spec
INVARIANTS TypeOK UsedIsClosed
PROPERTY ClosedForGood
CHECK_DEADLOCK TRUE
