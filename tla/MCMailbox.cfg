\* The case "base" has a fault anywhere and no refresh that drops a page that
\* waits for the accounts.
CONSTANTS
    Inbox = {1}
    Home = {11}
    Late = {}
    PageSize = 1
    Rough = {"reload"}
    MaxChanges = 1
    MaxFaults = 1
    MaxMoves = 1
    MaxEvents = 1
    Cases = {"base", "reader", "pages", "quiet", "composer", "panel", "managed"}
\* A user who does nothing more leaves the window as it is.
CHECK_DEADLOCK FALSE
SPECIFICATION CaseSpec
INVARIANTS
    ShownIsWanted
    ListIsSound
PROPERTIES
    TextIsKept
    WaitingEnds
