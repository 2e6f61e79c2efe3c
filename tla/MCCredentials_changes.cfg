\* Every gated change needs the step-up token, which each process accepts once
\* and again after a restart. A run ends when the hashes are used up and the
\* token has expired.
CONSTANTS
    a1 = a1
    a2 = a2
    i1 = i1
    i2 = i2
    h1 = h1
    h2 = h2
    r1 = r1
    r2 = r2
    Nil = Nil
    p1 = p1
    j1 = j1
    p2 = p2
    Process = {p1, p2}
    JTI = {j1}
    Account = {a1, a2}
    Identity = {i1, i2}
    Hash = {h1, h2}
    Requests = {r1, r2}
    StepUpRequired = TRUE
SYMMETRY Symmetry
SPECIFICATION Spec
PROPERTY KeepsSignIn
PROPERTY NoTakeover
INVARIANTS EachChangePaid BlindOnlyIfRaced
CHECK_DEADLOCK FALSE
