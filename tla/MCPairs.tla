------------------------------ MODULE MCPairs ------------------------------
(* A few messages that share what there is once: in the outbox the driver  *)
(* and its room, in the remote journal the lease and the child rows, in    *)
(* the mailbox the counters, the undo slot, the backfill and the pages.  A *)
(* behaviour belongs to one case; what the case is not about rests.        *)
EXTENDS Integers, TLC

CONSTANTS m1, m2, a1, a2, k1, k2, NoMessage, NoKey, placement, raised, inbox, archive, trash

VARIABLES
    case,
    account, draft, outbox, fileGc, files, ui, pc, budget, work, verdict, copies, vouched,
    stops, faults,                                               \* of Outbox
    mail, intent, tomb, undo, lastId, token, held, server, outside, known, doubt,
                                                                 \* of RemoteWork
    rows, accounts, folders, stats, docs, backfill, trashed, walk, ops
                                                                 \* of MailboxStore

outVars == <<account, draft, outbox, fileGc, files, ui, pc, budget, work, verdict, copies,
             vouched, stops, faults>>
journalVars == <<mail, intent, tomb, undo, lastId, token, held, server, outside, known, doubt>>
storeVars == <<rows, accounts, folders, stats, docs, backfill, trashed, walk, ops>>
vars == <<case, outVars, journalVars, storeVars>>

(* Room for both messages.                                                 *)
Pair == INSTANCE Outbox WITH
    Messages <- {m1, m2}, Accounts <- {a1}, AccountOf <- (m1 :> a1 @@ m2 :> a1),
    EditableAccounts <- {}, Keys <- {k1, k2}, Size <- (m1 :> 1 @@ m2 :> 1),
    MaxGeneration <- 1, MaxRevision <- 0, MaxEpoch <- 2, MaxAttempts <- 2, MaxClaimScan <- 1,
    MaxActive <- 2, MaxRows <- 2, MaxActiveBytes <- 2, ReservationTTL <- 2, ClaimTTL <- 1,
    Past <- 1, RecoveryBatch <- 2, MinRetryDelay <- 1, MaxRetryDelay <- 2, MaxStops <- 1,
    MaxFaults <- 1

(* Room for the bytes of one.                                              *)
Full == INSTANCE Outbox WITH
    Messages <- {m1, m2}, Accounts <- {a1}, AccountOf <- (m1 :> a1 @@ m2 :> a1),
    EditableAccounts <- {}, Keys <- {k1, k2}, Size <- (m1 :> 1 @@ m2 :> 1),
    MaxGeneration <- 1, MaxRevision <- 0, MaxEpoch <- 2, MaxAttempts <- 2, MaxClaimScan <- 1,
    MaxActive <- 2, MaxRows <- 2, MaxActiveBytes <- 1, ReservationTTL <- 2, ClaimTTL <- 1,
    Past <- 1, RecoveryBatch <- 2, MinRetryDelay <- 1, MaxRetryDelay <- 2, MaxStops <- 1,
    MaxFaults <- 1

(* An IMAP account, and few child rows.                                    *)
Journal == INSTANCE RemoteWork WITH
    Messages <- {m1, m2}, Accounts <- {a1}, AccountOf <- (m1 :> a1 @@ m2 :> a1),
    ImapAccounts <- {a1}, Flags <- {}, Placement <- placement, Raised <- raised,
    Inbox <- inbox, Archive <- archive, Trash <- trash,
    Folders <- {inbox, archive, trash}, MaxId <- 2, MaxVersion <- 2, MaxEpoch <- 2,
    MaxAttempts <- 2, MaxIntents <- 2, MaxChildren <- 4, UndoTTL <- 1, LeaseTTL <- 1,
    Past <- 0, RetryDelays <- {1}, MaxProgress <- 0, MaxHeld <- 2, MaxOutside <- 0

Mutating == {"unread", "starred", "archive", "trash", "undo", "delete"}

(* An old message, an arriving one and a draft of one account: whatever    *)
(* can move a counter.                                                     *)
Counts == INSTANCE MailboxStore WITH
    mail <- rows, undo <- trashed, Messages <- 1..3, Accounts <- {a1},
    AccountOf <- [m \in 1..3 |-> a1], Born <- {1}, Composed <- {3},
    Provided <- {"inbox", "archive", "trash"},
    Kinds <- Mutating \cup {"stage", "draft", "queue", "remove"},
    Times <- {1}, MaxText <- 1, MaxOps <- 5, Batch <- 2, Limit <- 1

(* Two old messages and an arriving one, while the backfill goes by.       *)
Search == INSTANCE MailboxStore WITH
    mail <- rows, undo <- trashed, Messages <- 1..4, Accounts <- {a1},
    AccountOf <- [m \in 1..4 |-> a1], Born <- {1, 3}, Composed <- {4},
    Provided <- {"inbox", "trash"},
    Kinds <- {"stage", "preview", "content", "draft", "edit", "trash", "delete"},
    Times <- {1}, MaxText <- 2, MaxOps <- 5, Batch <- 1, Limit <- 1

(* A listing read a row at a time while its rows change.                   *)
Pages == INSTANCE MailboxStore WITH
    mail <- rows, undo <- trashed, Messages <- 1..3, Accounts <- {a1, a2},
    AccountOf <- (1 :> a1 @@ 2 :> a2 @@ 3 :> a1), Born <- {1, 2, 3}, Composed <- {},
    Provided <- {"inbox", "trash"},
    Kinds <- {"unread", "starred", "trash", "undo", "stage", "remove", "read"},
    Times <- {1, 2}, MaxText <- 1, MaxOps <- 2, Batch <- 3, Limit <- 1

StoreRests ==
    /\ rows = 0 /\ accounts = 0 /\ folders = 0 /\ stats = 0 /\ docs = 0
    /\ backfill = 0 /\ trashed = 0 /\ walk = 0 /\ ops = 0

JournalRests ==
    /\ mail = 0 /\ intent = 0 /\ tomb = 0 /\ undo = 0 /\ lastId = 0 /\ token = 0
    /\ held = 0 /\ server = 0 /\ outside = 0 /\ known = 0 /\ doubt = 0

Init == \/ case = "pair" /\ Pair!Init /\ JournalRests /\ StoreRests
        \/ case = "full" /\ Full!Init /\ JournalRests /\ StoreRests
        \/ case = "journal" /\ Journal!Init /\ Pair!Init /\ StoreRests
        \/ case = "counts" /\ Counts!Init /\ Pair!Init /\ JournalRests
        \/ case = "search" /\ Search!Init /\ Pair!Init /\ JournalRests
        \/ case = "pages" /\ Pages!Init /\ Pair!Init /\ JournalRests

StoreNext ==
    \/ case = "counts" /\ (Counts!Next \/ Counts!Rests)
    \/ case = "search" /\ (Search!Next \/ Search!Rests)
    \/ case = "pages" /\ (Pages!Next \/ Pages!Rests)

Next == \/ case = "pair" /\ Pair!Next /\ UNCHANGED <<case, journalVars, storeVars>>
        \/ case = "full" /\ Full!Next /\ UNCHANGED <<case, journalVars, storeVars>>
        \/ case = "journal" /\ Journal!Next /\ UNCHANGED <<case, outVars, storeVars>>
        \/ StoreNext /\ UNCHANGED <<case, outVars, journalVars>>

Spec == Init /\ [][Next]_vars

(* Neither rows nor artifacts are ordered by their names.                  *)
Symmetry == Permutations({m1, m2}) \cup Permutations({k1, k2})

-----------------------------------------------------------------------------

(* SingleFlight and SingleWriter: in the outbox one attempt at a time,     *)
(* across crashes and faults that abandon a lease; in the journal one      *)
(* claim that can still be reported, whatever the provider remembers.      *)
OneAtATime ==
    /\ case = "pair" => Pair!SingleFlight
    /\ case = "journal" => Journal!SingleWriter

(* CapacityRespected: however messages finish, fail and come back, the     *)
(* outbox stays within its limits.                                         *)
FullWithinCapacity == case = "full" => Full!CapacityRespected

(* Child rows and the room reserved for leases stay within the budget, and *)
(* a report never fails for lack of room in it, whatever was edited since  *)
(* the claim.                                                              *)
JournalRoomSuffices == case = "journal" => Journal!BudgetHolds /\ Journal!ReservedRoomSuffices

(* CountsAreExact, TotalsMatchRows, IndexIsCurrent, WalkIsWhole and        *)
(* UndoIsOfAMessage: the counters that every transaction carries along,    *)
(* the search documents, the pages of a listing and the undo slot agree    *)
(* with the messages, whatever is written in between.                      *)
MailboxAgrees ==
    /\ case = "counts" => Counts!TypeOK /\ Counts!CountsAreExact /\ Counts!TotalsMatchRows
                          /\ Counts!UndoIsOfAMessage
    /\ case = "search" => Search!TypeOK /\ Search!IndexIsCurrent /\ Search!UndoIsOfAMessage
    /\ case = "pages" => Pages!TypeOK /\ Pages!CountsAreExact /\ Pages!TotalsMatchRows
                         /\ Pages!WalkIsWhole
=============================================================================
