CONSTANTS
    Instance = {i1, i2}
    Browser = {b1, b2}
    Provider = {p1}
    Person = {ann}
    Flow = {f1, f2}
    JwtTTL = 1
    StateTTL = 0
    StepUpTTL = 1
    MaxTime = 1
    MaxBoots = 2
    MaxTokens = 1
    MaxWaiting = 1
    None = None
SPECIFICATION Spec
INVARIANTS TokensHonoured LoginBound
CHECK_DEADLOCK FALSE
PROPERTY BootCompletes
