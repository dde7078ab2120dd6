SPECIFICATION BankSpec
CONSTANTS
    l1 = l1
    l2 = l2
    j1 = j1
    j2 = j2
    m1 = m1
    m2 = m2
    NoLine = NoLine
    NoJournal = NoJournal
    Lines = {l1, l2}
    DayOf <- OnTwoDays
    LineAmount = 2
    LastDay = 2
    Journals = {j1, j2}
    Matches = {m1, m2}
INVARIANTS
    BankTypeOK
    StatementTies
    AllocationsStand
    CompletedResolved
PROPERTIES
    CompletedStands
SYMMETRY Symmetry
CHECK_DEADLOCK FALSE
