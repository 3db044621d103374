------------------------------- MODULE Journal -------------------------------
(***************************************************************************)
(* The desired-state journal of the mail client: the tables messages,      *)
(* message_folders, imap_message_locations, trash_undo and                 *)
(* remote_change_intents, and the transactions with which                  *)
(* mail/src/store/sqlite/mutation.rs and journal.rs record what the user   *)
(* wants.  A message has at most one intent; an edit is folded into it.    *)
(* RemoteWork adds the claims and the reports.                             *)
(*                                                                         *)
(* An aspect of a message is one of its flags or its placement.  The value *)
(* of an aspect is a set: a flag is {} or {Raised}, the placement is the   *)
(* set of the message's folders.  So the four columns of the two flags and *)
(* the two sides of the folder snapshot are all the functions base and     *)
(* want, restricted to the aspects that have changed.                      *)
(*                                                                         *)
(* Time is relative: due is not_before_ms minus now, and never falls below *)
(* -Past; intents due longer ago than that are met in the order of ids.    *)
(***************************************************************************)
EXTENDS Integers, FiniteSets, FiniteSetsExt

CONSTANTS
    Messages,    \* messages of the mailbox
    Accounts,    \* configured accounts
    AccountOf,   \* the account of each message
    ImapAccounts,\* the accounts whose provider is IMAP; the others use JMAP
    NoMessage,   \* the undo slot is free
    Flags,       \* "unread" and "starred", or one of them
    Placement,   \* the aspect that holds a message's folders
    Raised,      \* a flag that is set
    Folders,     \* folders of an account, by remote key
    Inbox,
    Archive,
    Trash,
    MaxId,       \* rowids AUTOINCREMENT can give            (2^63-1 in the code)
    MaxVersion,  \* largest intent_version                   (2^63-1 in the code)
    MaxEpoch,    \* largest claim_epoch                      (2^63-1 in the code)
    MaxAttempts, \* MAX_ATTEMPTS                             (1000 in the code)
    MaxIntents,  \* MAX_INTENTS_PER_ACCOUNT                  (4096 in the code)
    MaxChildren, \* MAX_JOURNAL_CHILDREN                     (65536 in the code)
    UndoTTL,     \* TRASH_UNDO_TTL_MS                        (5 s in the code)
    LeaseTTL,    \* REMOTE_LEASE_TTL_MS                      (30 s in the code)
    Past         \* how far back elapsed deadlines are told apart

ASSUME MailboxAssumption ==
    /\ AccountOf \in [Messages -> Accounts]
    /\ ImapAccounts \subseteq Accounts
    /\ NoMessage \notin Messages
    /\ Placement \notin Flags
    /\ {Inbox, Archive, Trash} \subseteq Folders
    /\ Raised \notin Folders
    /\ IsFiniteSet(Folders)

ASSUME JournalLimitsAssumption ==
    /\ {MaxId, MaxVersion, MaxEpoch, MaxIntents, MaxChildren} \subseteq Nat
    /\ Past \in Nat
    /\ {MaxAttempts, UndoTTL, LeaseTTL} \subseteq Nat \ {0}

VARIABLES
    mail,    \* messages, message_folders and imap_message_locations
    intent,  \* remote_change_intents and its child tables
    tomb,    \* message_tombstone_imap_locations of each message
    undo,    \* trash_undo and trash_undo_folders, the single undo slot
    lastId   \* the rowid AUTOINCREMENT gave last

journalVars == <<mail, intent, tomb, undo, lastId>>

-----------------------------------------------------------------------------

Aspects == Flags \cup {Placement}
Deletion == "delete"                \* DELETE_MASK beside the aspects' masks
Value == SUBSET (Folders \cup {Raised})
Blank == [a \in Aspects |-> {}]

IsImap(m) == AccountOf[m] \in ImapAccounts

Mail == [alive : BOOLEAN,
         value : [Aspects -> Value],
         locs  : SUBSET Folders]    \* folders where a locator is known

WaitingStates == {"ready", "retry_wait", "reconcile"}
IntentStates == WaitingStates \cup {"absent", "in_flight", "blocked"}

Intent == [id         : 0..MaxId,
           version    : 0..MaxVersion,
           changed    : SUBSET Aspects,         \* aspects with a base
           base       : [Aspects -> Value],
           want       : [Aspects -> Value],
           reconcile  : BOOLEAN,                \* reconcile_requested
           deleting   : BOOLEAN,                \* delete_requested
           dispatched : SUBSET (Aspects \cup {Deletion}),
           state      : IntentStates,
           leased     : 0..MaxVersion,          \* leased_version, 0 for NULL
           epoch      : 0..MaxEpoch,
           expires    : 0..LeaseTTL,            \* time left of the lease
           attempts   : 0..MaxAttempts,
           due        : Int,
           reserve    : Nat,                    \* leased_folder_reserve
           sources    : SUBSET Folders,         \* frozen locators
           error      : {"none", "missing_locator", "other"}]

NoIntent == [id |-> 0, version |-> 0, changed |-> {}, base |-> Blank,
             want |-> Blank, reconcile |-> FALSE, deleting |-> FALSE,
             dispatched |-> {}, state |-> "absent", leased |-> 0,
             epoch |-> 0, expires |-> 0, attempts |-> 0, due |-> 0,
             reserve |-> 0, sources |-> {}, error |-> "none"]

Undo == [msg : Messages \cup {NoMessage}, folders : SUBSET Folders, left : Int]
NoUndo == [msg |-> NoMessage, folders |-> {}, left |-> 0]

JournalTypeOK ==
    /\ mail \in [Messages -> Mail]
    /\ intent \in [Messages -> Intent]
    /\ tomb \in [Messages -> SUBSET Folders]
    /\ undo \in Undo
    /\ lastId \in 0..MaxId

(* Messages lie in the inbox and perhaps in further folders, unflagged.  A *)
(* message of an IMAP account has a locator once the account was synced.   *)
JournalInit ==
    /\ mail \in [Messages -> {[alive |-> TRUE,
                               value |-> [Blank EXCEPT ![Placement] = p],
                               locs  |-> l] :
                                p \in {q \in SUBSET (Folders \ {Archive, Trash}) :
                                         Inbox \in q},
                                l \in {{}, {Inbox}}}]
    /\ \A m \in Messages : ~IsImap(m) => mail[m].locs = {}
    /\ intent = [m \in Messages |-> NoIntent]
    /\ tomb = [m \in Messages |-> {}]
    /\ undo = NoUndo
    /\ lastId = 0

-----------------------------------------------------------------------------
(* Capacity: rows per account, and one global budget of child rows that    *)
(* includes what leases have reserved.                                     *)

Present(m) == intent[m].state # "absent"

FolderRows(r) == Cardinality(r.base[Placement]) + Cardinality(r.want[Placement])

Children ==
    MapThenSumSet(LAMBDA m : FolderRows(intent[m])
                             + Cardinality(intent[m].sources)
                             + Cardinality(tomb[m]), Messages)

Reserved == MapThenSumSet(LAMBDA m : intent[m].reserve, Messages)

(* Mutant: room reserved for leases is given away.                         *)
Room_Unreserved(additions) == Children + additions <= MaxChildren

(* ensure_global_child_capacity *)
Room(additions) == Children + Reserved + additions <= MaxChildren

(* The row an edit of m works on: the one it has, or a fresh one.          *)
Opened(m) ==
    IF Present(m) THEN intent[m]
    ELSE [NoIntent EXCEPT !.id = lastId + 1, !.state = "ready"]

(* Mutant: ensure_version_capacity is missing.                             *)
CanOpen_AnyVersion(m) ==
    ~Present(m) =>
      /\ lastId < MaxId
      /\ Cardinality({n \in Messages : Present(n) /\ AccountOf[n] = AccountOf[m]})
           < MaxIntents

(* ensure_parent_capacity, ensure_version_capacity *)
CanOpen(m) ==
    /\ ~Present(m) =>
         /\ lastId < MaxId
         /\ Cardinality({n \in Messages : Present(n) /\ AccountOf[n] = AccountOf[m]})
              < MaxIntents
    /\ Opened(m).version < MaxVersion

(* The CHECK of the table: a row holds some wish.                          *)
IsEmpty(r) == r.changed = {} /\ ~r.reconcile /\ ~r.deleting

(* A row that lost its last wish is deleted, which is refused to a row     *)
(* under a lease.                                                          *)
CanStore(r) == IsEmpty(r) => r.state # "in_flight"

Store(m, r) ==
    /\ CanStore(r)
    /\ intent' = [intent EXCEPT ![m] = IF IsEmpty(r) THEN NoIntent ELSE r]
    /\ lastId' = IF Present(m) THEN lastId ELSE lastId + 1

-----------------------------------------------------------------------------
(* Flags                                                                   *)

Toggled(v) == IF v = {} THEN {Raised} ELSE {}

(* Mutant: a flag that returns to its base is dropped, dispatched or not.  *)
FlagIntent_DropsDispatched(m, f) ==
    LET r         == Opened(m)
        before    == mail[m].value[f]
        base      == IF f \in r.changed THEN r.base[f] ELSE before
        want      == Toggled(before)
        cancel    == base = want
        changed   == IF cancel THEN r.changed \ {f} ELSE r.changed \cup {f}
    IN [r EXCEPT !.version = @ + 1,
                 !.changed = changed,
                 !.base[f] = IF cancel THEN {} ELSE base,
                 !.want[f] = IF cancel THEN {} ELSE want]

(* Mutant: the base is what the message showed before this edit.           *)
FlagIntent_NewBase(m, f) ==
    LET r == Opened(m) IN
    [r EXCEPT !.version = @ + 1,
              !.changed = @ \cup {f},
              !.base[f] = mail[m].value[f],
              !.want[f] = Toggled(mail[m].value[f])]

(* Mutant: the wish of a flag that already has one is not updated.         *)
FlagIntent_FirstWish(m, f) ==
    LET r == Opened(m) IN
    [r EXCEPT !.version = @ + 1,
              !.changed = @ \cup {f},
              !.base[f] = IF f \in r.changed THEN @ ELSE mail[m].value[f],
              !.want[f] = IF f \in r.changed THEN @
                          ELSE Toggled(mail[m].value[f])]

(* merge_flag.  A flag that returns to its base before it was dispatched   *)
(* is dropped from the intent; a dispatched one stays, as compensation.    *)
FlagIntent(m, f) ==
    LET r         == Opened(m)
        before    == mail[m].value[f]
        base      == IF f \in r.changed THEN r.base[f] ELSE before
        want      == Toggled(before)
        cancel    == base = want /\ f \notin r.dispatched
        changed   == IF cancel THEN r.changed \ {f} ELSE r.changed \cup {f}
        sources   == r.sources \cup mail[m].locs
        missing   == IsImap(m) /\ sources = {}
        automatic == r.error = "missing_locator"
        request   == \/ r.reconcile /\ ~automatic
                     \/ changed # {} /\ (automatic \/ missing)
        mark      == request /\ ~r.reconcile /\ r.error = "none" /\ missing
    IN [r EXCEPT !.version   = @ + 1,
                 !.changed   = changed,
                 !.base[f]   = IF cancel THEN {} ELSE base,
                 !.want[f]   = IF cancel THEN {} ELSE want,
                 !.reconcile = request,
                 !.state     = IF request /\ @ # "in_flight"
                               THEN "reconcile" ELSE @,
                 !.sources   = sources,
                 !.error     = IF mark THEN "missing_locator" ELSE @,
                 !.due       = IF @ < 0 THEN 0 ELSE @]

(* set_unread, set_starred *)
SetFlag(m, f) ==
    /\ mail[m].alive
    /\ CanOpen(m)
    /\ LET r == FlagIntent(m, f) IN
         /\ ~IsEmpty(r) => Room(Cardinality(r.sources \ Opened(m).sources))
         /\ Store(m, r)
    /\ mail' = [mail EXCEPT ![m].value[f] = Toggled(@)]
    /\ UNCHANGED <<tomb, undo>>

-----------------------------------------------------------------------------
(* Placement                                                               *)

(* prepare_placement before the move, finish_placement after it.           *)
PlacementIntent(m, to, eligible) ==
    LET r         == Opened(m)
        base      == IF Placement \in r.changed THEN r.base[Placement]
                     ELSE mail[m].value[Placement]
        sources   == r.sources \cup mail[m].locs
        missing   == IsImap(m) /\ sources = {}
        request   == r.reconcile \/ missing
        mark      == missing /\ ~r.reconcile /\ r.error = "none"
        error     == IF mark THEN "missing_locator" ELSE r.error
        cancel    == to = base /\ Placement \notin r.dispatched
        others    == r.changed \ {Placement}
        lapse     == cancel /\ others = {} /\ error = "missing_locator"
    IN [r EXCEPT !.version         = @ + 1,
                 !.changed         = IF cancel THEN others
                                     ELSE others \cup {Placement},
                 !.base[Placement] = IF cancel THEN {} ELSE base,
                 !.want[Placement] = IF cancel THEN {} ELSE to,
                 !.reconcile       = request /\ ~lapse,
                 !.state           = IF request /\ @ # "in_flight"
                                     THEN "reconcile" ELSE @,
                 !.sources         = sources,
                 !.error           = error,
                 !.due             = IF @ < eligible THEN eligible ELSE @]

(* The child rows the two halves insert: first the base and the sources,   *)
(* then, once the old desired side is deleted, the new one.                *)
PlacementFits(m, r) ==
    LET old     == Opened(m)
        frozen  == (IF Placement \in old.changed THEN 0
                    ELSE Cardinality(mail[m].value[Placement]))
                   + Cardinality(r.sources \ old.sources)
    IN /\ Room(frozen)
       /\ Placement \in r.changed =>
            Room(frozen - Cardinality(old.want[Placement])
                        + Cardinality(r.want[Placement]))

(* The message moves: its rows in the folders of left go, with the         *)
(* locators that hang on them, and it is put into the folders of entered.  *)
Move(m, left, entered, eligible) ==
    LET to == (mail[m].value[Placement] \ left) \cup entered
        r  == PlacementIntent(m, to, eligible)
    IN /\ CanOpen(m)
       /\ PlacementFits(m, r)
       /\ Store(m, r)
       /\ mail' = [mail EXCEPT ![m].value[Placement] = to,
                               ![m].locs = @ \ left]
       /\ UNCHANGED tomb

(* archive: refused in Trash, without effect where it changes nothing.     *)
MoveToArchive(m) ==
    /\ mail[m].alive
    /\ Trash \notin mail[m].value[Placement]
    /\ Inbox \in mail[m].value[Placement] \/ Archive \notin mail[m].value[Placement]
    /\ Move(m, {Inbox, Archive}, {Archive}, 0)
    /\ UNCHANGED undo

(* move_to_trash: the slot now offers to undo this move, and the intent    *)
(* waits until it no longer does.                                          *)
MoveToTrash(m) ==
    /\ mail[m].alive
    /\ mail[m].value[Placement] # {}
    /\ Trash \notin mail[m].value[Placement]
    /\ Move(m, Folders, {Trash}, UndoTTL)
    /\ undo' = [msg |-> m, folders |-> mail[m].value[Placement], left |-> UndoTTL]

(* undo_trash, in time.                                                    *)
UndoTrash(m) ==
    /\ undo.msg = m
    /\ undo.left >= 0
    /\ mail[m].value[Placement] = {Trash}
    /\ Move(m, Folders, undo.folders, 0)
    /\ undo' = NoUndo

(* undo_trash, too late: the slot is freed.                                *)
UndoExpired ==
    /\ undo.msg # NoMessage
    /\ undo.left < 0
    /\ undo' = NoUndo
    /\ UNCHANGED <<mail, intent, tomb, lastId>>

-----------------------------------------------------------------------------
(* Permanent deletion                                                      *)

(* merge_terminal_delete: every other wish goes, the frozen locators stay. *)
TerminalIntent(m) ==
    LET r       == Opened(m)
        sources == r.sources \cup mail[m].locs
    IN [r EXCEPT !.version   = @ + 1,
                 !.changed   = {},
                 !.base      = Blank,
                 !.want      = Blank,
                 !.reconcile = FALSE,
                 !.deleting  = TRUE,
                 !.state     = IF @ # "in_flight" /\ IsImap(m) /\ sources = {}
                               THEN "reconcile" ELSE @,
                 !.sources   = sources,
                 !.due       = IF r.state = "in_flight" THEN @ ELSE 0]

(* delete_permanently: only from Trash.  The message's row goes, and with  *)
(* it its folders, its locators and its undo.                              *)
DeletePermanently(m) ==
    LET r   == TerminalIntent(m)
        old == Opened(m)
    IN /\ mail[m].alive
       /\ Trash \in mail[m].value[Placement]
       /\ CanOpen(m)
       /\ Room(Cardinality(r.sources \ old.sources)
               + Cardinality(r.sources \ tomb[m]) - FolderRows(old))
       /\ Store(m, r)
       /\ tomb' = [tomb EXCEPT ![m] = @ \cup r.sources]
       /\ mail' = [mail EXCEPT ![m] = [alive |-> FALSE, value |-> Blank,
                                       locs |-> {}]]
       /\ undo' = IF undo.msg = m THEN NoUndo ELSE undo

(* mutate_message *)
Edit(m) ==
    \/ \E f \in Flags : SetFlag(m, f)
    \/ MoveToArchive(m)
    \/ MoveToTrash(m)
    \/ UndoTrash(m)
    \/ DeletePermanently(m)
=============================================================================
