\* A profile update races another change of the row.
CONSTANTS
    a1 = a1
    a2 = a2
    e1 = e1
    e2 = e2
    i1 = i1
    r1 = r1
    r2 = r2
    None = None
    Account = {a1, a2}
    Email = {e1, e2}
    Identity = {i1}
    Requests = {r1, r2}
SYMMETRY Symmetry
SPECIFICATION Spec
PROPERTY NilLeftUnchanged
CHECK_DEADLOCK TRUE
