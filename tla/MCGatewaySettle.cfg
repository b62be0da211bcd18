\* Liveness: what the scope close found is settled, whatever the callers do; a
\* registry of one, so that effects are evicted before their cancellation.
SPECIFICATION FairGatewaySpec
CONSTANTS
    r1 = r1
    r2 = r2
    r3 = r3
    p1 = p1
    p2 = p2
    w1 = w1
    w2 = w2
    e1 = e1
    e2 = e2
    t1 = t1
    Threads = {w1, w2}
    Doors = {"transport", "coverage"}
    RegistryCap = 1
    MaxAttempts = 2
    Retries = FALSE
    Classes = {"command"}
    IdentityScopes = {}
    Global = "global"
    Windows = {}
    WindowSeconds <- NoWindowSeconds
    Keys = {}
    NoKey = NoKey
    Identities <- OnlyGlobal
    ReservationIds = {r1, r2}
    Processes = {p1}
    Owners = {"turn"}
    Effects = {e1, e2}
    NoEffect = NoEffect
    NoRow = NoRow
    Tokens = {}
    InitialRules <- TwoUnits
    Adjustments = {}
    MaxUnits = 1
    MaxTime = 0
    StaleTTL = 1
    Retention = 1
    EventRetention = 1
    ReconcileMayFail = FALSE
PROPERTIES
    ReservationsSettle
CHECK_DEADLOCK FALSE
