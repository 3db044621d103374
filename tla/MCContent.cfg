\* The case "base": reservations that failed commits leave behind fill the
\* staging area. The properties of all cases are those of its constants, which
\* the other cases restrict.
CONSTANTS
    m1 = m1
    d1 = d1
    k1 = k1
    k2 = k2
    k3 = k3
    k4 = k4
    Mail = {m1}
    Drafts = {d1}
    Keys = {k1, k2, k3, k4}
    Stuck = {}
    NoMessage = none
    Batch = 2
    MaxStaged = 2
    MaxReap = 1
    Doubtful = {"import"}
    MaxDoubts = 2
    MaxCrashes = 0
    MaxStops = 0
    MaxEdits = 0
    Cases = {"base", "restarted", "jammed"}
\* A user who asks for nothing leaves the files as they are.
CHECK_DEADLOCK FALSE
SPECIFICATION CaseSpec
INVARIANTS
    NamedFilesExist
    NothingLeaks
PROPERTIES
    FilesSettle
