SPECIFICATION PayablesSpec
CONSTANTS
    b1 = b1
    b2 = b2
    p1 = p1
    p2 = p2
    n1 = n1
    Bills = {b1, b2}
    Payments = {p1, p2}
    Notes = {n1}
    MaxAmount = 2
    MaxRows = 3
    Approvals = TRUE
    Templates = {"DRAFT", "SUBMITTED", "POSTED", "VOIDED"}
INVARIANTS
    PayablesTypeOK
    CreditSpentOnce
    DriftExplained
    OrderExplained
SYMMETRY Symmetry
CHECK_DEADLOCK FALSE
