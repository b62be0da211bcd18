\* A payment and the collection that may ride it; the fee is one unit and a carry.
SPECIFICATION Spec
CONSTANTS
    p1 = p1
    c1 = c1
    d1 = d1
    Payments = {p1}
    Lanes = {"svm", "evm", "paykit", "authorization"}
    Collections = {c1}
    Debts = {d1}
    Basis = 1
    Rate = 3
    Scale = 2
    MinCollect = 1
INVARIANTS WalletTypeOK MovedIsCounted EndingsAreTrue CancelHonoured CompanionFollows LedgerFollows
PROPERTY ClaimsAreOwed
CHECK_DEADLOCK FALSE
