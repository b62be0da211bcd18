\* Liveness of a payment alone.
SPECIFICATION Spec
CONSTANTS
    p1 = p1
    c1 = c1
    d1 = d1
    Payments = {p1}
    Lanes = {"svm", "evm", "paykit", "authorization"}
    Collections = {}
    Debts = {}
    Basis = 1
    Rate = 3
    Scale = 2
    MinCollect = 1
PROPERTY TransfersEnd
CHECK_DEADLOCK FALSE
