SPECIFICATION Spec
CONSTANTS
    i1 = i1
    k1 = k1
    k2 = k2
    r1 = r1
    r2 = r2
    r3 = r3
    f1 = f1
    f2 = f2
    w1 = w1
    c1 = c1
    p1 = p1
    o1 = o1
    NoKey = NoKey
    NoEvent = NoEvent
    Invoices = {i1}
    Total <- MCTotal
    Keys = {k1, k2}
    Checkout <- MCCheckout
    Events = {r1, r2, r3, f1, f2, w1, c1, p1, o1}
    Info <- MCInfo
    Scenarios <- MCScenarios
    Amounts = {1}
    d1 = d1
    d2 = d2
    Deliveries = {d1, d2}
    MaxManual = 1
    MaxTrouble = 2
INVARIANTS
    BooksTie
    OneReceiptPerIntent
    OneReceiptPerEvent
    RefundsWithinReceipt
    AlwaysAttended
PROPERTIES
    ConfirmationStands
SYMMETRY Symmetry
CHECK_DEADLOCK FALSE
