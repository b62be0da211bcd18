\* A turn rule and a rolling window as long as the retention and the staleness:
\* reservations age, are consumed late and pruned, over_limit events are pruned
\* later, while processes die, restart and reconcile.
SPECIFICATION Spec
CONSTANTS
    turn = turn
    window = window
    r1 = r1
    r2 = r2
    r3 = r3
    p1 = p1
    p2 = p2
    t1 = t1
    k1 = k1
    Classes = {"provider_call"}
    IdentityScopes = {turn}
    Global = "global"
    Windows = {window}
    WindowSeconds <- WindowOf1
    Keys = {k1}
    NoKey = NoKey
    Identities <- TurnIdentities
    ReservationIds = {r1, r2}
    Processes = {p1, p2}
    Owners = {"turn"}
    Effects = {}
    NoEffect = NoEffect
    NoRow = NoRow
    Tokens = {}
    InitialRules <- TurnAndWindow
    Adjustments <- NoAdjustments
    MaxUnits = 2
    MaxTime = 3
    StaleTTL = 1
    Retention = 1
    EventRetention = 2
    ReconcileMayFail = FALSE
INVARIANTS
    CeilingHeld
    WindowHeld
PROPERTIES
    LiveHolderKept
SYMMETRY Symmetry
CHECK_DEADLOCK FALSE
