SPECIFICATION Spec
CONSTANTS
    p1 = p1
    runtimeWorker = runtimeWorker
    manual = manual
    NoName = NoName
    NoClaim = NoClaim
    Profiles = {p1}
    LastDay = 2
    Schedule <- OneEveryDay
    EndOf <- OneOpenEnd
    CatchUp <- OneAll
    MaxCatchUp = 1
    Runs = {r1, r2}
    Names = {runtimeWorker, manual}
    WorkerOf <- SharedName
    ManualName = manual
    MaxAttempts = 2
    DelayCap = 3
    ClaimLimit = 2
    MaxClaims = 4
    MaxEarly = 1
    MaxRetries = 1
    MaxCrashes = 1
INVARIANTS QuarantineExplained AttemptsExplained NoDaySkipped
PROPERTIES LedgerSpec
