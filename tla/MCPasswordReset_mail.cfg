\* One reset request, nothing fails.
CONSTANTS
    a1 = a1
    a2 = a2
    t1 = t1
    t2 = t2
    s1 = s1
    s2 = s2
    r1 = r1
    r2 = r2
    None = None
    Account = {a1}
    Token = {t1}
    Senders = {s1}
    Requests = {r1}
    Lifetime = 1
    MaxTime = 1
    MaxUses = 2
    Faults = FALSE
SPECIFICATION FairSpec
PROPERTY MailSent
CHECK_DEADLOCK FALSE
