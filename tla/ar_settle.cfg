SPECIFICATION Spec
CONSTANTS
    i1 = i1
    i2 = i2
    p1 = p1
    p2 = p2
    n1 = n1
    n2 = n2
    Invoices = {i1, i2}
    Payments = {p1, p2}
    Notes = {n1, n2}
    MaxAmount = 2
    MaxRows = 3
    Approvals = TRUE
INVARIANTS
    TypeOK
    BalanceTies
    CreditSpentOnce
    ControlExplained
    DriftExplained
SYMMETRY Symmetry
CHECK_DEADLOCK FALSE
