\* The accounts and generations of both cases.
CONSTANTS
    a1 = a1
    a2 = a2
    a3 = a3
    Accounts = {a1, a2, a3}
    MaxTargets = 2
    Success = 2
    InitialFailure = 1
    MaxFailure = 2
    MaxGen = 2
    MaxQueue = 1
    Reconnect = 1
    MaxOps = 1
    Cases = {"crowd", "generations"}
\* With no account and no operation left the loop rests.
SPECIFICATION CaseSpec
INVARIANTS
    TurnsAreAccounted
    ServiceIsFair
PROPERTIES
    CrowdIsServed
CHECK_DEADLOCK FALSE
