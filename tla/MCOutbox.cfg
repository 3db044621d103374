\* One message, every path of it: edits, account changes, crashes, faults.
SPECIFICATION Spec
CONSTANTS
    m1 = m1
    a1 = a1
    k1 = k1
    k2 = k2
    NoMessage = NoMessage
    NoKey = NoKey
    Messages = {m1}
    Accounts = {a1}
    AccountOf <- Owner
    EditableAccounts = {a1}
    Keys = {k1, k2}
    Size <- UnitSize
    MaxGeneration = 2
    MaxRevision = 3
    MaxEpoch = 3
    MaxAttempts = 2
    MaxClaimScan = 2
    MaxActive = 1
    MaxRows = 1
    MaxActiveBytes = 1
    ReservationTTL = 2
    ClaimTTL = 1
    Past = 0
    RecoveryBatch = 2
    MinRetryDelay = 1
    MaxRetryDelay = 2
    MaxStops = 2
    MaxFaults = 2
SYMMETRY KeySymmetry
INVARIANTS
    TypeOK
    AtMostOneCopy
    FenceBeforeBytes
    ReportIsNeverStale
    ArtifactMatchesRevision
    LockMatchesRow
PROPERTIES
    LeasesAreDistinct
    ImplementsDelivery
