\* Counted rules: two processes, a turn and a caller without one, restarts,
\* an operator who tightens and removes rules, measured costs above estimates.
SPECIFICATION Spec
CONSTANTS
    turn = turn
    window = window
    r1 = r1
    r2 = r2
    r3 = r3
    p1 = p1
    p2 = p2
    t1 = t1
    k1 = k1
    Classes = {"command"}
    IdentityScopes = {turn}
    Global = "global"
    Windows = {}
    WindowSeconds <- NoWindowSeconds
    Keys = {k1}
    NoKey = NoKey
    Identities <- TurnIdentities
    ReservationIds = {r1, r2, r3}
    Processes = {p1, p2}
    Owners = {"turn"}
    Effects = {}
    NoEffect = NoEffect
    NoRow = NoRow
    Tokens = {t1}
    InitialRules <- TurnAndGlobal
    Adjustments <- Tighten
    MaxUnits = 2
    MaxTime = 0
    StaleTTL = 2
    Retention = 2
    EventRetention = 3
    ReconcileMayFail = TRUE
INVARIANTS
    TypeOK
    CountersExact
    CeilingHeld
PROPERTY
    SpentStaysSpent
SYMMETRY Symmetry
CHECK_DEADLOCK FALSE
