\* Two provider calls under a budget that a smaller one replaces while they are held.
SPECIFICATION Spec
CONSTANTS
    op1 = op1
    op2 = op2
    e1 = e1
    e2 = e2
    g1 = g1
    g2 = g2
    Operations = {op1, op2}
    Lanes = {"prepaid"}
    Executors = {e1}
    Grants = {g1, g2}
    Budgets = {g1, g2}
    Maximum <- TwoEach
    Total <- Shrinking
    RuleLimit = 3
    Amounts = {1, 3}
    Funds = 4
    MaxAttempts = 1
    Interference = {"ageing"}
SYMMETRY Symmetry
CHECK_DEADLOCK FALSE
INVARIANTS BudgetCoversCommitments RuleHeld
