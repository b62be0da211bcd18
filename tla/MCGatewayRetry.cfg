\* Retries: two threads continue the same effect, while rows and events age and
\* are pruned.
SPECIFICATION GatewaySpec
CONSTANTS
    r1 = r1
    r2 = r2
    r3 = r3
    p1 = p1
    p2 = p2
    w1 = w1
    w2 = w2
    e1 = e1
    e2 = e2
    t1 = t1
    Threads = {w1, w2}
    Doors = {"transport"}
    RegistryCap = 2
    MaxAttempts = 2
    Retries = TRUE
    Classes = {"command"}
    IdentityScopes = {}
    Global = "global"
    Windows = {}
    WindowSeconds <- NoWindowSeconds
    Keys = {}
    NoKey = NoKey
    Identities <- OnlyGlobal
    ReservationIds = {r1, r2, r3}
    Processes = {p1}
    Owners = {"turn"}
    Effects = {e1}
    NoEffect = NoEffect
    NoRow = NoRow
    Tokens = {}
    InitialRules <- TwoUnits
    Adjustments = {}
    MaxUnits = 1
    MaxTime = 1
    StaleTTL = 1
    Retention = 0
    EventRetention = 0
    ReconcileMayFail = FALSE
INVARIANTS
    RanIsCharged
    OutcomeIsLatest
SYMMETRY Symmetry
CHECK_DEADLOCK FALSE
