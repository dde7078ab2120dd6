SPECIFICATION Spec
CONSTANTS
    i1 = i1
    i2 = i2
    i3 = i3
    b1 = b1
    b2 = b2
    u1 = u1
    u2 = u2
    k1 = k1
    k2 = k2
    k3 = k3
    k4 = k4
    ck = ck
    r1 = r1
    r2 = r2
    NoKey = NoKey
    NoRequest = NoRequest
    NoIntent = NoIntent
    Intents = {i1, i2, i3}
    BodyOf <- SharedBody
    UserOf <- TwoUsers
    Bodies = {b1, b2}
    Users = {u1, u2}
    Registered = {b1}
    BankBodies = {b2}
    Silent = {b2}
    Keys = {k1, ck}
    CallerKeys = {ck}
    Requests = {r1, r2}
    Steps = 2
    OneAtATime = FALSE
    MayDeny = TRUE
    MaxFaults = 1
INVARIANTS TruthfulSuccess RepeatsExplained
PROPERTIES LedgerSpec
CHECK_DEADLOCK FALSE
