\* One message, one flag: every path of one intent.
CONSTANTS
    m1 = m1
    a1 = a1
    s1 = s1
    s2 = s2
    o1 = o1
    o2 = o2
    c1 = c1
    c2 = c2
    Messages = {m1}
    Accounts = {a1}
    AccountOf <- Owner
    ImapAccounts = {a1}
    NoMessage = NoMessage
    Flags = {"unread"}
    Placement = placement
    Raised = raised
    Inbox = inbox
    Archive = archive
    Trash = trash
    Folders = {inbox, archive, trash}
    MaxId = 2
    MaxVersion = 3
    MaxEpoch = 2
    MaxAttempts = 2
    MaxIntents = 1
    MaxChildren = 20
    UndoTTL = 1
    LeaseTTL = 1
    Past = 0
    RetryDelays = {1}
    MaxProgress = 2
    MaxHeld = 2
    MaxOutside = 0
    Cases = {"base", "jmap", "reuse", "faulty", "pooled", "inboxes"}
SPECIFICATION CaseSpec
INVARIANTS
    EditsAreKept
    DeletionSticks
    AcksAreAccepted
    SessionsAnswer
