CONSTANTS
    p = p
    q = q
    v = v
    e = e
    None = None
    Keep = Keep
    Provider = {p, q}
    Field = {"client_id", "issuer_url"}
    Value = {v, e}
    WellKnown <- MCWellKnown
    EnvRegistries <- MCEnvRegistries
    EnvOptOut = {TRUE, FALSE}
    MergeAtBoot = {TRUE, FALSE}
    Displays = {"stderr", "none"}
    HasAdminChecker = TRUE
    Bodies <- MCBodies
    Requests = {r1, r2}
    MaxRequests = 2
    MaxBoots = 2
SPECIFICATION Spec
INVARIANTS Coherent ServedOnlyIfWorking TokenOffered OldTokensDead
CHECK_DEADLOCK FALSE
SYMMETRY Symmetry
