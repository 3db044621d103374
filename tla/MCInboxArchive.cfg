\* A message of a page that was not committed is archived.
CONSTANTS
    MaxUid = 3
    Page = 2
    MaxExpunge = 0
    MaxEdits = 1
    MaxGen = 2
    MaxValidity = 2
    MaxDrops = 1
    DropPoints <- AllPoints
    Cases = {"base"}
SPECIFICATION CaseSpec
INVARIANTS
    ArchivedStaysOut
