------------------------------- MODULE MCMailbox ------------------------------
(* Instances of MailboxView and of Dialogs for TLC. A behaviour belongs to  *)
(* one case, of one of the two; the constants of a configuration are those  *)
(* of the case "base", the others give theirs here.                         *)
EXTENDS MailboxView

CONSTANT Cases

VARIABLES case, open, k, o, a, drafts, statuses, core, exited, begun, typed, attempts, failed

dialogs == <<open, k, o, a, drafts, statuses, core, exited, begun, typed, attempts, failed>>

caseVars == <<case, vars, dialogs>>

(* Messages of two scopes selected and removed one after another.          *)
Reader == INSTANCE MailboxView WITH
    Inbox <- {1}, Home <- {11, 12}, Late <- {}, PageSize <- 1, Rough <- BadTimes,
    MaxChanges <- 0, MaxFaults <- 0, MaxMoves <- 2, MaxEvents <- 0

(* Four messages in pages of two, of which others add one and remove any.  *)
Pages == INSTANCE MailboxView WITH
    Inbox <- {}, Home <- {1, 2, 3, 4}, Late <- {4}, PageSize <- 2, Rough <- BadTimes,
    MaxChanges <- 2, MaxFaults <- 0, MaxMoves <- 1, MaxEvents <- 1

(* No faults, and nothing happens at a bad time.                           *)
Quiet == INSTANCE MailboxView WITH
    Inbox <- {1, 2, 3}, Home <- {4}, Late <- {3}, PageSize <- 2, Rough <- {},
    MaxChanges <- 1, MaxFaults <- 0, MaxMoves <- 1, MaxEvents <- 1

(* A composer whose drafts cannot always be read, and a core that stops.   *)
Composer == INSTANCE Dialogs WITH
    Parts <- {"composer"}, Accounts <- {}, Boxed <- {"none"}, Unreadable <- TRUE,
    Stops <- TRUE, MaxMoves <- 3, MaxTexts <- 2, MaxAttempts <- 0, MaxFaults <- 1,
    Capacity <- 1, moves <- begun, faults <- failed

(* What is composed and what becomes of it, in the outbox panel.           *)
Panel == INSTANCE Dialogs WITH
    Parts <- {"composer", "outbox"}, Accounts <- {}, Boxed <- {"failed", "uncertain"},
    Unreadable <- FALSE, Stops <- FALSE, MaxMoves <- 3, MaxTexts <- 1, MaxAttempts <- 1,
    MaxFaults <- 1, Capacity <- 4, moves <- begun, faults <- failed

(* Two accounts, with a message that waits for a password.                 *)
Managed == INSTANCE Dialogs WITH
    Parts <- {"composer", "outbox", "account"}, Accounts <- {1, 2}, Boxed <- {"failed"},
    Unreadable <- FALSE, Stops <- TRUE, MaxMoves <- 3, MaxTexts <- 0, MaxAttempts <- 0,
    MaxFaults <- 1, Capacity <- 1, moves <- begun, faults <- failed

ViewCases == {"base", "reader", "pages", "quiet"}

CaseInit ==
    /\ case \in Cases
    /\ \/ case = "base" /\ Init
       \/ case = "reader" /\ Reader!Init
       \/ case = "pages" /\ Pages!Init
       \/ case = "quiet" /\ Quiet!Init
       \/ case = "composer" /\ Composer!Init
       \/ case = "panel" /\ Panel!Init
       \/ case = "managed" /\ Managed!Init
    /\ IF case \in ViewCases THEN /\ open = 0 /\ k = 0 /\ o = 0 /\ a = 0 /\ drafts = 0 /\ statuses = 0 /\ core = 0
            /\ exited = 0 /\ begun = 0 /\ typed = 0 /\ attempts = 0 /\ failed = 0
       ELSE /\ c = 0 /\ cache = 0 /\ fetched = 0 /\ trashed = 0 /\ account = 0 /\ removed = 0
            /\ changes = 0 /\ faults = 0 /\ moves = 0 /\ events = 0

CaseNext ==
    /\ case' = case
    /\ \/ case = "base" /\ Next
       \/ case = "reader" /\ Reader!Next
       \/ case = "pages" /\ Pages!Next
       \/ case = "quiet" /\ Quiet!Next
       \/ case = "composer" /\ Composer!Next
       \/ case = "panel" /\ Panel!Next
       \/ case = "managed" /\ Managed!Next
    /\ IF case \in ViewCases
       THEN UNCHANGED <<open, k, o, a, drafts, statuses, core, exited, begun, typed, attempts, failed>>
       ELSE UNCHANGED <<c, cache, fetched, trashed, account, removed, changes, faults, moves, events>>

(* The fairness of MailboxView and of Dialogs, where liveness is asked.    *)
AtRest == UNCHANGED <<open, k, o, a, drafts, statuses, core, exited, begun, typed, attempts, failed>>

ViewAtRest == UNCHANGED <<c, cache, fetched, trashed, account, removed, changes, faults, moves, events>>

Base(A) == case = "base" /\ A /\ AtRest /\ case' = case

Shown(A) == case = "panel" /\ A /\ ViewAtRest /\ case' = case

CaseSpec ==
    /\ CaseInit /\ [][CaseNext]_caseVars
    /\ WF_caseVars(Base(AnswerMailbox)) /\ WF_caseVars(Base(AnswerAccounts))
    /\ WF_caseVars(Base(AnswerDetail)) /\ WF_caseVars(Base(Mutate))
    /\ WF_caseVars(Base(HandleMailbox)) /\ WF_caseVars(Base(HandleAccounts))
    /\ WF_caseVars(Base(HandleDetail)) /\ WF_caseVars(Base(HandleMutation))
    /\ WF_caseVars(Base(TimerFires)) /\ WF_caseVars(Base(HistoryEnds))
    /\ WF_caseVars(Base(ContentEnds))
    /\ WF_caseVars(Shown(Panel!ComposeAnswers)) /\ WF_caseVars(Shown(Panel!ComposeReplies))
    /\ WF_caseVars(Shown(Panel!OutboxAnswers)) /\ WF_caseVars(Shown(Panel!OutboxReplies))
    /\ WF_caseVars(Shown(Panel!AttemptStarts)) /\ WF_caseVars(Shown(Panel!AttemptEnds))
    /\ WF_caseVars(Shown(Panel!StatusArrives)) /\ WF_caseVars(Shown(Panel!CancelTimer))

-----------------------------------------------------------------------------

(* Pages of the list are joined without a hole or a repetition, and the    *)
(* cursor is that of the last row, however rows move between two requests; *)
(* where nothing happens at a bad time, the list on screen is that of the  *)
(* session.                                                                *)
ListIsSound ==
    /\ case = "base" => TypeOK
    /\ case = "reader" => Reader!TypeOK
    /\ case = "pages" => Pages!TypeOK /\ Pages!NoGaps
    /\ case = "quiet" => Quiet!TypeOK /\ Quiet!NoGaps /\ RowsMatchSession
    /\ case \in ViewCases => CursorIsTail

(* What is on screen, and what waits to be, belongs to the selected scope  *)
(* and message, however late a reply comes; what was removed stays away.   *)
(* The result of a check is shown with the account that was checked.       *)
ShownIsWanted ==
    /\ case = "base" => ScopeIsShown
    /\ case = "reader" => Reader!ScopeIsShown
    /\ case \in ViewCases => ReaderMatches /\ RemovedStaysOut
    /\ case \in {"composer", "panel"} => Panel!CancelSparesComposer
    /\ case = "managed" => Managed!CancelSparesComposer /\ Managed!CheckIsOfShown

(* OneDraft, ExitKeepsText, CloseKeepsText and OverwritesWhatItRead: what  *)
(* is typed into the composer is in SQLite before the composer or the      *)
(* window goes, in one draft of its own and in place of no other.          *)
TextIsKept ==
    [][ /\ case \in {"composer", "panel"} =>
            Panel!OneDraft' /\ Panel!ExitKeepsText' /\ Panel!CloseKeepsText
        /\ case = "panel" => Panel!OverwritesWhatItRead ]_caseVars

(* The first page after a write is committed, or the user sees an error    *)
(* with a button to try again; neither the list nor a further page of it   *)
(* is shown as loading for ever.  The outbox panel comes to show what is   *)
(* in the outbox, and every task of the windows ends.                      *)
WaitingEnds ==
    /\ []<>(case = "base" => c.refresh = None \/ c.error)
    /\ []<>(case = "base" => ~c.loading)
    /\ []<>(case = "base" => ~c.more)
    /\ []<>(case = "panel" => Panel!PanelIsCurrent)
    /\ []<>(case = "panel" => Panel!NothingWaits)
===============================================================================
