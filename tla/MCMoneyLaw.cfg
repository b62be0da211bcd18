\* One operation, on either rail, invoked by two processes under every interference.
SPECIFICATION Spec
CONSTANTS
    op1 = op1
    op2 = op2
    e1 = e1
    e2 = e2
    g1 = g1
    g2 = g2
    Operations = {op1}
    Lanes = {"prepaid", "x402"}
    Executors = {e1, e2}
    Grants = {g1, g2}
    Budgets = {g1}
    Maximum <- TwoEach
    Total <- Three
    RuleLimit = 4
    Amounts = {1}
    Funds = 4
    MaxAttempts = 2
    Interference = {"crash", "stall", "ageing"}
SYMMETRY Symmetry
INVARIANTS MoneyTypeOK PaidIsHeld OnePayment EvidenceAgrees
CHECK_DEADLOCK FALSE
PROPERTY KeepsPromise
