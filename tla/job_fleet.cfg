SPECIFICATION FairQueueSpec
CONSTANTS
    runtimeWorker = runtimeWorker
    Jobs = {j1, j2}
    Ticks = {t1, t2}
    Names = {runtimeWorker}
    WorkerOf <- SharedName
    MaxRetries = 2
    ClaimLimit = 2
    MaxRequeues = 1
    MaxCrashes = 1
    NoWorker = NoWorker
    NoJob = NoJob
INVARIANTS
    ClaimsExplained
PROPERTIES
    Settles
