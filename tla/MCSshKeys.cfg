CONSTANTS
    Entity <- MCEntity
    Group = {}
    Type <- MCType
    TypeEntity <- MCTypeEntity
    ExactType <- MCExactType
    Sentinel = "type"
    Operation = {"assume", "delete", "manage"}
    SatisfiedBy <- MCSatisfiedBy
    Manage = "manage"
    None = None
    Account = {"ann", "op"}
    Fingerprint = {f1}
    KeyId = {k1, k2}
    Operators = {"op"}
    Requests = {r1, r2}
    StepUpRequired = TRUE
    Nil = Nil
    Process = {p1}
    JTI = {j1}
SPECIFICATION Spec
SYMMETRY Symm
INVARIANTS ResolvedWasCurrent RevocationsAudited SelfChangesPaid
