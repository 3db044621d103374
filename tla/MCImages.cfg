\* In the case "base" the originals go to the bucket, one request is cut off,
\* and no removal overlaps another request on its image.
CONSTANTS
    p1 = p1
    p2 = p2
    c1 = c1
    Requests = {p1, p2}
    Contents = {c1}
    MaxId = 2
    MaxImages = 1
    Storage = "r2"
    Overlap = FALSE
    Faulty = {"create", "discard", "put"}
    MaxFaults = 1
    MaxAsks = 3
    Migrated = {}
    DeleteBackups = TRUE
    Cases = {"base", "overlapping", "scripted"}
\* A user who asks for nothing leaves the images as they are.
CHECK_DEADLOCK FALSE
SPECIFICATION CaseSpec
INVARIANTS
    
    LinksStayDead

    
