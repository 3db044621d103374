\* Pages of two. In the case "base" the mailbox and the account are not
\* replaced, and no task ends between its two transactions.
CONSTANTS
    MaxUid = 5
    Page = 2
    MaxExpunge = 2
    MaxEdits = 0
    MaxGen = 1
    MaxValidity = 1
    MaxDrops = 1
    DropPoints <- HarmlessPoints
    Cases = {"base", "disturbed"}
SPECIFICATION CaseSpec
INVARIANTS
    
    NoResurrection

    
