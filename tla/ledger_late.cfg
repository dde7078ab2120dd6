SPECIFICATION Spec
CONSTANTS
    cash = cash
    income = income
    feb = feb
    t1 = t1
    t2 = t2
    Free = Free
    Accounts = {cash, income}
    DebitNormal = {cash}
    Banks = {cash}
    LastDay = 2
    Today = 2
    Periods = {feb}
    First <- MCFirst
    Last <- MCFirst
    Moves <- MCMoves
    Postings = {t1, t2}
    MaxJournals = 3
    MaxControls = 2
INVARIANTS
    NoStraggler
SYMMETRY Symmetry
CHECK_DEADLOCK FALSE
