CONSTANTS
    Entity <- MCEntity
    Group = {"grp", "top"}
    Type <- MCType
    TypeEntity <- MCTypeEntity
    ExactType <- MCExactType
    Sentinel = "type"
    Operation = {"create", "read", "list", "update", "assume", "manage"}
    SatisfiedBy <- MCSatisfiedBy
    Manage = "manage"
    None = None
    Account = {"root", "ann", "new", "corp"}
    Existing = {"root", "ann", "corp"}
    Admin = "root"
    Person = "person"
    App = {"app"}
    Role = {"viewer"}
    Enrolled = {"ann"}
    Requests = {r1, r2}
    Given <- MCGiven
    Nested <- MCNested
    OutsideGrants <- MCGrants
    OutsideMembers <- MCMembers
    MaxEdits = 1
    MaxRequests = 3
SPECIFICATION Spec
SYMMETRY Symm
INVARIANTS SentinelPowerless PersonGrantsExact AdministrationTraced
CHECK_DEADLOCK FALSE
