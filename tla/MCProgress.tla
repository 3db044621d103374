----------------------------- MODULE MCProgress -----------------------------
(* Progress of one message in the outbox and of one in the remote journal, *)
(* for TLC.  A behaviour belongs to one case; what the other case is about *)
(* rests.                                                                  *)
EXTENDS Integers, TLC

CONSTANTS m1, a1, k1, k2, NoMessage, NoKey, unread, placement, raised, inbox, archive, trash

VARIABLES
    case,
    account, draft, outbox, fileGc, files, ui, pc, budget, work, verdict, copies, vouched,
    stops, faults,                                               \* of Outbox
    mail, intent, tomb, undo, lastId, token, held, server, outside, known, doubt
                                                                 \* of RemoteWork

(* Every path of a message but changes of its account, to the last attempt.*)
Out == INSTANCE Outbox WITH
    Messages <- {m1}, Accounts <- {a1}, AccountOf <- m1 :> a1, EditableAccounts <- {},
    Keys <- {k1, k2}, Size <- m1 :> 1, MaxGeneration <- 2, MaxRevision <- 2, MaxEpoch <- 3,
    MaxAttempts <- 2, MaxClaimScan <- 2, MaxActive <- 1, MaxRows <- 1, MaxActiveBytes <- 1,
    ReservationTTL <- 2, ClaimTTL <- 1, Past <- 0, RecoveryBatch <- 2, MinRetryDelay <- 1,
    MaxRetryDelay <- 2, MaxStops <- 1, MaxFaults <- 1

(* An intent of an IMAP account whose reports may never come.              *)
Journal == INSTANCE RemoteWork WITH
    Messages <- {m1}, Accounts <- {a1}, AccountOf <- m1 :> a1, ImapAccounts <- {a1},
    Flags <- {unread}, Placement <- placement, Raised <- raised, Inbox <- inbox,
    Archive <- archive, Trash <- trash, Folders <- {inbox, archive, trash}, MaxId <- 1,
    MaxVersion <- 2, MaxEpoch <- 9, MaxAttempts <- 3, MaxIntents <- 1, MaxChildren <- 20,
    UndoTTL <- 1, LeaseTTL <- 1, Past <- 0, RetryDelays <- {1}, MaxProgress <- 2,
    MaxHeld <- 2, MaxOutside <- 0

outVars == <<account, draft, outbox, fileGc, files, ui, pc, budget, work, verdict, copies,
             vouched, stops, faults>>
journalVars == <<mail, intent, tomb, undo, lastId, token, held, server, outside, known, doubt>>
vars == <<case, outVars, journalVars>>

JournalRests ==
    /\ mail = 0 /\ intent = 0 /\ tomb = 0 /\ undo = 0 /\ lastId = 0 /\ token = 0
    /\ held = 0 /\ server = 0 /\ outside = 0 /\ known = 0 /\ doubt = 0

Init == \/ case = "outbox" /\ Out!Init /\ JournalRests
        \/ case = "journal" /\ Journal!Init /\ Out!Init

InOutbox(A) == case = "outbox" /\ A /\ UNCHANGED <<case, journalVars>>
InJournal(A) == case = "journal" /\ A /\ UNCHANGED <<case, outVars>>

Next == InOutbox(Out!Next) \/ InJournal(Journal!Next)

(* The fairness of Outbox and of RemoteWork.                               *)
Spec ==
    /\ Init /\ [][Next]_vars
    /\ WF_vars(InOutbox(Out!DriverStep)) /\ WF_vars(InOutbox(Out!ComposeStep))
    /\ WF_vars(InOutbox(Out!Restart))
    /\ WF_vars(InOutbox(Out!Tick) \/ InJournal(Journal!Tick))
    /\ WF_vars(InJournal(Journal!Claims))
    /\ WF_vars(InJournal(\E c \in held : Journal!Forget(c)))

-----------------------------------------------------------------------------

(* ActiveSettles of Outbox and IntentSettles of RemoteWork: the attempts   *)
(* to send end in Sent, in a state the user is asked about, or back in     *)
(* Drafts; if no report ever arrives, expiries lead to a new attempt of an *)
(* intent and the last attempt to a state the user can see.                *)
WorkSettles ==
    /\ []<>(case = "outbox" => outbox[m1].state \notin Out!ActiveStates)
    /\ []<>(case = "journal" => intent[m1].state \in {"absent", "blocked"})

(* DoubtfulMoveIsReconciled: a move that may or may not have happened is   *)
(* not handed out as a write before the server's state is known.           *)
DoubtIsSettledFirst == case = "journal" => Journal!DoubtfulMoveIsReconciled
=============================================================================
