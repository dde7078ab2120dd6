SPECIFICATION FairSpec
CONSTANTS
    i1 = i1
    i2 = i2
    i3 = i3
    b1 = b1
    b2 = b2
    u1 = u1
    u2 = u2
    k1 = k1
    k2 = k2
    k3 = k3
    k4 = k4
    ck = ck
    r1 = r1
    r2 = r2
    NoKey = NoKey
    NoRequest = NoRequest
    NoIntent = NoIntent
    Intents = {i1, i2}
    BodyOf <- OwnBody
    UserOf <- OneUser
    Bodies = {b1, b2}
    Users = {u1, u2}
    Registered = {b1, b2}
    BankBodies = {b1}
    Silent = {}
    Keys = {k1, k2, k3, k4}
    CallerKeys = {}
    Requests = {r1, r2}
    Steps = 1
    OneAtATime = TRUE
    MayDeny = FALSE
    MaxFaults = 2
PROPERTIES Resolves
CHECK_DEADLOCK FALSE
