CONSTANTS
    k1 = k1
    k2 = k2
    s1 = s1
    s2 = s2
    Ids = {1, 2}
    Locators = {k1, k2}
    NoKey = NoKey
    Secrets = {s1, s2}
    NoSecret = NoSecret
    NoAccount = NoAccount
    MaxGen = 4
    MaxEpoch = 1
    MaxCache = 1
    Capacity = 1
    MaxFaults = 1
    Cases = {"single", "pair"}
SPECIFICATION CaseSpec
INVARIANTS
    SecretsHaveOwners
    UserIsToldTheTruth
PROPERTIES
    RecoveryIsComplete
