\* Both kinds of door: two threads, two effects and one unit, scope close,
\* cancellation, crash and restart; a rule imposed on a class that had none, a
\* measured cost, an instance shut down.
SPECIFICATION GatewaySpec
CONSTANTS
    r1 = r1
    r2 = r2
    r3 = r3
    p1 = p1
    p2 = p2
    w1 = w1
    w2 = w2
    e1 = e1
    e2 = e2
    t1 = t1
    Threads = {w1, w2}
    Doors = {"transport", "coverage"}
    RegistryCap = 1
    MaxAttempts = 2
    Retries = FALSE
    Classes = {"command"}
    IdentityScopes = {}
    Global = "global"
    Windows = {}
    WindowSeconds <- NoWindowSeconds
    Keys = {}
    NoKey = NoKey
    Identities <- OnlyGlobal
    ReservationIds = {r1, r2}
    Processes = {p1, p2}
    Owners = {"turn"}
    Effects = {e1, e2}
    NoEffect = NoEffect
    NoRow = NoRow
    Tokens = {t1}
    InitialRules <- OneUnitOrUnbudgeted
    Adjustments <- Impose
    MaxUnits = 2
    MaxTime = 0
    StaleTTL = 1
    Retention = 1
    EventRetention = 1
    ReconcileMayFail = FALSE
INVARIANTS
    GatewayTypeOK
    AttemptPaid
PROPERTIES
    ImplementsBudget
SYMMETRY Symmetry
CHECK_DEADLOCK FALSE
