------------------------------ MODULE InboxSync ------------------------------
(***************************************************************************)
(* One account's INBOX against its server: the fetch of a page             *)
(* (mail/src/network/imap.rs), the workflow around it                      *)
(* (mail/src/core/sync.rs) and the two transactions that stage the page    *)
(* and move the cursors (mail/src/store/sqlite/sync.rs), while messages    *)
(* arrive, other clients expunge, the user archives and deletes, and the   *)
(* work is preempted, crashes or outlives its account generation.  A       *)
(* message is its UID; 0 stands for an absent cursor or UIDVALIDITY.       *)
(***************************************************************************)
EXTENDS Integers, FiniteSetsExt

CONSTANTS
    MaxUid,      \* bound on the UIDs the server assigns
    Page,        \* MAX_RECEIVE_PAGE, FIRST_SCREEN_MESSAGES, MAX_PREVIEW_FETCH_BATCH
    MaxExpunge,  \* bound on messages that other clients remove
    MaxEdits,    \* bound on local archives and deletions
    MaxGen,      \* bound on account generations
    MaxValidity, \* bound on UIDVALIDITY
    MaxDrops,    \* bound on preemptions and crashes
    DropPoints   \* where they may happen

ASSUME InboxAssumption ==
    /\ {MaxUid, Page, MaxGen, MaxValidity} \subseteq Nat \ {0}
    /\ {MaxExpunge, MaxEdits, MaxDrops} \subseteq Nat

VARIABLES
    server,   \* INBOX as the server has it: uidvalidity, uidnext and messages
    db,       \* the account's generation, sync_state, locators and membership
    task,     \* the background task
    request,  \* its request in the queue of the writer, which survives it
    expunged, edits, drops,
    refused   \* history: a page was refused for the size of its window

vars == <<server, db, task, request, expunged, edits, drops, refused>>

Uids == 1..MaxUid

Idle == [pc |-> "idle"]

NoRequest == [op |-> "none"]

NoBoot == [cursor |-> -1, complete |-> FALSE]

Boot(cursor, complete) == [cursor |-> cursor, complete |-> complete]

Forward(cursor, scanned, boot) ==
    [kind |-> "forward", cursor |-> cursor, scanned |-> scanned, boot |-> boot]

History(cursor, hist, next, complete) ==
    [kind |-> "history", cursor |-> cursor, hist |-> hist, next |-> next,
     complete |-> complete]

Init ==
    /\ \E n \in 0..MaxUid, gone \in SUBSET Uids :
           /\ gone \subseteq 1..n /\ Cardinality(gone) <= MaxExpunge
           /\ server = [validity |-> 1, next |-> n + 1, msgs |-> (1..n) \ gone]
    /\ db = [gen |-> 1, validity |-> 0, cursor |-> 0, hist |-> 0, complete |-> FALSE,
             locs |-> {}, inbox |-> {}, archived |-> {}, tomb |-> {}, previews |-> {}]
    /\ task = Idle /\ request = NoRequest
    /\ expunged = 0 /\ edits = 0 /\ drops = 0 /\ refused = FALSE

-----------------------------------------------------------------------------
(* The server, other clients and the user                                  *)

Arrive ==
    /\ server.next <= MaxUid
    /\ server' = [server EXCEPT !.msgs = @ \cup {server.next}, !.next = @ + 1]
    /\ UNCHANGED <<db, task, request, expunged, edits, drops, refused>>

Expunge(u) ==
    /\ u \in server.msgs /\ expunged < MaxExpunge
    /\ server' = [server EXCEPT !.msgs = @ \ {u}] /\ expunged' = expunged + 1
    /\ UNCHANGED <<db, task, request, edits, drops, refused>>

(* A new mailbox under the old name; sessions end with it.                 *)
Renumber ==
    /\ server.validity < MaxValidity
    /\ server' = [server EXCEPT !.validity = @ + 1] /\ task' = Idle
    /\ UNCHANGED <<db, request, expunged, edits, drops, refused>>

Archive(u) ==
    /\ u \in db.inbox /\ edits < MaxEdits /\ edits' = edits + 1
    /\ db' = [db EXCEPT !.inbox = @ \ {u}, !.archived = @ \cup {u}]
    /\ UNCHANGED <<server, task, request, expunged, drops, refused>>

Delete(u) ==
    /\ u \in db.locs /\ edits < MaxEdits /\ edits' = edits + 1
    /\ db' = [db EXCEPT !.locs = @ \ {u}, !.inbox = @ \ {u}, !.archived = @ \ {u},
                        !.previews = @ \ {u}, !.tomb = @ \cup {u}]
    /\ UNCHANGED <<server, task, request, expunged, drops, refused>>

Reconfigure ==
    /\ db.gen < MaxGen /\ db' = [db EXCEPT !.gen = @ + 1]
    /\ UNCHANGED <<server, task, request, expunged, edits, drops, refused>>

(* A preempted task leaves its request in the queue, a crash does not.     *)
Drop(crash) ==
    /\ task.pc \in DropPoints /\ drops < MaxDrops
    /\ task' = Idle /\ drops' = drops + 1
    /\ request' = IF crash THEN NoRequest ELSE request
    /\ UNCHANGED <<server, db, expunged, edits, refused>>

-----------------------------------------------------------------------------
(* A sync up to its page                                                   *)

Rest == <<server, db, expunged, edits, drops, refused>>

Fail == task' = Idle /\ UNCHANGED <<request, Rest>>

Top(S, n) == {u \in S : Cardinality({v \in S : v > u}) < n}

Bottom(S, n) == {u \in S : Cardinality({v \in S : v < u}) < n}

Rank(u, view) == Cardinality({v \in view : v <= u})

Smallest(S) == CHOOSE u \in S : \A v \in S : u <= v

Before(u) == u - 1

(* Configuration and checkpoint are requests of the same queue.            *)
Begin(allowHistory) ==
    /\ task = Idle /\ request = NoRequest
    /\ task' = [pc |-> "open", gen |-> db.gen, cursor |-> db.cursor,
                validity |-> db.validity,
                hist |-> IF allowHistory /\ ~db.complete THEN db.hist ELSE 0]
    /\ UNCHANGED <<request, Rest>>

(* EXAMINE, or STATUS in a session that was kept.                          *)
OpenInbox ==
    /\ task.pc = "open"
    /\ IF task.validity \notin {0, server.validity}
       THEN Fail
       ELSE /\ task' = [pc |-> "selected", gen |-> task.gen, cursor |-> task.cursor,
                        hist |-> task.hist, validity |-> server.validity,
                        next |-> server.next, view |-> server.msgs,
                        lanes |-> <<{}, {}>>, ready |-> {}]
            /\ UNCHANGED <<request, Rest>>

Initial == task.cursor = 0

(* What InboxReceivePage accepts                                           *)
Accepted_Unchecked(p, msgs) == TRUE

Accepted(p, msgs) ==
    \A u \in msgs :
        IF p.kind = "forward" THEN p.cursor < u /\ u <= p.scanned
        ELSE p.next < u /\ u <= p.hist

SubmitPage(progress, msgs) ==
    IF ~Accepted(progress, msgs) THEN Fail
    ELSE /\ request' = [op |-> "stage", gen |-> task.gen, validity |-> task.validity,
                        count |-> Cardinality(task.view), progress |-> progress,
                        msgs |-> msgs]
         /\ task' = [pc |-> "staging", gen |-> task.gen]
         /\ UNCHANGED Rest

(* The first snapshot is fetched by sequence numbers in two lanes, each in *)
(* a session with its own view of them.  A lane that comes back short is   *)
(* fetched again in the primary session.                                   *)
Ranks(lane) ==
    LET count == Cardinality(task.view)
        first == Max({count - Page + 1, 1})
        half == first + (count - first) \div 2
    IN  IF lane = 1 THEN first..half ELSE (half + 1)..count

InLane(lane, view) == {u \in view : Rank(u, view) \in Ranks(lane)}

Complete(lane, got) == Cardinality(got) = Cardinality(Ranks(lane))

ByLanes == task.pc = "selected" /\ Initial /\ task.view # {}

OpensSecond ==
    /\ ByLanes /\ "view" \notin task.ready
    /\ task' = [task EXCEPT !.lanes[2] = server.msgs, !.ready = @ \cup {"view"}]
    /\ UNCHANGED <<request, Rest>>

FetchesFirst ==
    /\ ByLanes /\ "first" \notin task.ready
    /\ LET got == InLane(1, task.view) \cap server.msgs IN
       IF Complete(1, got)
       THEN /\ task' = [task EXCEPT !.lanes[1] = got, !.ready = @ \cup {"first"}]
            /\ UNCHANGED <<request, Rest>>
       ELSE Fail

FetchesSecond ==
    /\ ByLanes /\ task.ready = {"view", "first"}
    /\ LET other == InLane(2, task.lanes[2]) \cap server.msgs
           got == IF Complete(2, other) THEN other
                  ELSE InLane(2, task.view) \cap server.msgs
           msgs == task.lanes[1] \cup got
           older == Cardinality(task.view) > Cardinality(task.lanes[1]) + Cardinality(got)
           next == IF older THEN Before(Smallest(msgs)) ELSE 0
       IN  IF ~Complete(2, got) \/ task.lanes[1] \cap got # {}
           THEN Fail
           ELSE SubmitPage(Forward(0, task.next - 1, Boot(next, ~older)), msgs)

(* Later pages: a numeric window when it is narrow, a search when it is    *)
(* wide, and history when there is nothing new.                            *)
First == task.cursor + 1

NothingNew == task.view = {} \/ task.next <= First

Narrow == task.next - First <= Page

Found == {u \in server.msgs : First <= u /\ u < task.next}

Older == {u \in server.msgs : u <= task.hist}

Selected(uids, missing, progress) ==
    IF uids = {} THEN SubmitPage(progress, {})
    ELSE /\ task' = [pc |-> "uids", gen |-> task.gen, validity |-> task.validity,
                     view |-> task.view, uids |-> uids, missing |-> missing,
                     progress |-> progress]
         /\ UNCHANGED <<request, Rest>>

HistoryOr(scanned) ==
    IF ~Initial /\ task.hist # 0
    THEN LET uids == Top(Older, Page)
             more == uids # Older
         IN  Selected(uids, FALSE,
                      History(task.cursor, task.hist,
                              IF more THEN Before(Smallest(uids)) ELSE 0, ~more))
    ELSE Selected({}, FALSE, Forward(task.cursor, scanned,
                                     IF Initial THEN Boot(0, TRUE) ELSE NoBoot))

SelectsUids ==
    /\ task.pc = "selected" /\ ~ByLanes
    /\ IF NothingNew THEN HistoryOr(Max({task.cursor, task.next - 1}))
       ELSE IF Narrow
       THEN LET end == Min({First + Page - 1, task.next - 1})
            IN  Selected(First..end, TRUE, Forward(task.cursor, end, NoBoot))
       ELSE LET uids == Bottom(Found, Page)
                end == IF uids = Found THEN task.next - 1 ELSE Max(uids)
            IN  IF uids = {} THEN HistoryOr(end)
                ELSE Selected(uids, FALSE, Forward(task.cursor, end, NoBoot))

FetchesUids ==
    /\ task.pc = "uids"
    /\ LET got == task.uids \cap server.msgs IN
       IF got # task.uids /\ ~task.missing THEN Fail ELSE SubmitPage(task.progress, got)

-----------------------------------------------------------------------------
(* The two transactions                                                    *)

Fence ==
    /\ request.gen = db.gen /\ request.progress.cursor = db.cursor
    /\ db.validity = request.validity \/ (db.validity = 0 /\ db.cursor = 0)
    /\ request.progress.kind = "history" =>
           request.progress.hist = db.hist /\ ~db.complete

(* Every locator in the window counts, those of an earlier attempt too.    *)
WindowFull_OffByOne(locs, p) ==
    Page <= Cardinality({u \in locs :
        IF p.kind = "forward" THEN u > p.cursor ELSE p.next < u /\ u <= p.hist})

WindowFull(locs, p) ==
    Page < Cardinality({u \in locs :
        IF p.kind = "forward" THEN u > p.cursor ELSE p.next < u /\ u <= p.hist})

Staged_Tombstones(d) ==
    [d EXCEPT !.validity = request.validity, !.locs = @ \cup request.msgs,
              !.inbox = @ \cup request.msgs]

Staged(d) ==
    LET new == request.msgs \ d.tomb
    IN  [d EXCEPT !.validity = request.validity, !.locs = @ \cup new,
                  !.inbox = @ \cup new]

(* The server has more than we: reopen a history that was called complete. *)
Repaired_FromCursor(d) ==
    LET p == request.progress
    IN  IF /\ p.kind = "forward" /\ p.boot = NoBoot
           /\ d.complete /\ request.count > Cardinality(d.inbox) /\ p.cursor # 0
        THEN [p EXCEPT !.boot = Boot(p.cursor, FALSE)]
        ELSE p

Repaired(d) ==
    LET p == request.progress
        oldest == Before(Smallest(d.locs))
    IN  IF /\ p.kind = "forward" /\ p.boot = NoBoot
           /\ d.complete /\ request.count > Cardinality(d.inbox)
           /\ d.locs # {} /\ oldest # 0
        THEN [p EXCEPT !.boot = Boot(oldest, FALSE)]
        ELSE p

Answered(next) == task' = IF task.pc \in {"staging", "committing"} THEN next ELSE task

StagePage ==
    /\ request.op = "stage" /\ request' = NoRequest
    /\ LET staged == Staged(db) IN
       IF Fence /\ ~WindowFull(staged.locs, request.progress)
       THEN /\ db' = staged
            /\ Answered([pc |-> "staged", gen |-> request.gen, validity |-> request.validity,
                         progress |-> Repaired(staged)])
            /\ UNCHANGED refused
       ELSE Answered(Idle) /\ refused' = (refused \/ Fence) /\ UNCHANGED db
    /\ UNCHANGED <<server, expunged, edits, drops>>

SubmitsCommit ==
    /\ task.pc = "staged"
    /\ request' = [op |-> "commit", gen |-> task.gen, validity |-> task.validity,
                   progress |-> task.progress]
    /\ task' = [pc |-> "committing", gen |-> task.gen]
    /\ UNCHANGED Rest

Committed_KeepsHistory(p) ==
    IF p.kind = "history" THEN [db EXCEPT !.complete = p.complete]
    ELSE [db EXCEPT !.cursor = p.scanned,
                    !.hist = IF p.boot = NoBoot THEN @ ELSE p.boot.cursor,
                    !.complete = IF p.boot = NoBoot THEN @ ELSE p.boot.complete]

Committed(p) ==
    IF p.kind = "history" THEN [db EXCEPT !.hist = p.next, !.complete = p.complete]
    ELSE [db EXCEPT !.cursor = p.scanned,
                    !.hist = IF p.boot = NoBoot THEN @ ELSE p.boot.cursor,
                    !.complete = IF p.boot = NoBoot THEN @ ELSE p.boot.complete]

CommitCursor ==
    /\ request.op = "commit" /\ request' = NoRequest
    /\ db' = IF Fence THEN [Committed(request.progress) EXCEPT !.validity = request.validity]
             ELSE db
    /\ Answered(Idle)
    /\ UNCHANGED <<server, expunged, edits, drops, refused>>

-----------------------------------------------------------------------------
(* Previews, the newest missing ones first                                 *)

BeginPreviews ==
    /\ task = Idle /\ request = NoRequest
    /\ db.locs \ db.previews # {}
    /\ task' = [pc |-> "previews", gen |-> db.gen, validity |-> db.validity,
                uids |-> Top(db.locs \ db.previews, Page)]
    /\ UNCHANGED <<request, Rest>>

(* A message the server no longer has is left out of the answer.           *)
FetchesPreviews ==
    /\ task.pc = "previews"
    /\ LET got == task.uids \cap server.msgs IN
       IF got = {} \/ server.validity # task.validity THEN Fail
       ELSE /\ request' = [op |-> "previews", gen |-> task.gen,
                           validity |-> task.validity, msgs |-> got]
            /\ task' = [pc |-> "staging", gen |-> task.gen]
            /\ UNCHANGED Rest

ApplyPreviews_Blind ==
    /\ request.op = "previews" /\ request' = NoRequest
    /\ db' = IF request.gen = db.gen /\ request.validity = db.validity
             THEN [db EXCEPT !.previews = @ \cup request.msgs] ELSE db
    /\ Answered(Idle)
    /\ UNCHANGED <<server, expunged, edits, drops, refused>>

ApplyPreviews ==
    /\ request.op = "previews" /\ request' = NoRequest
    /\ db' = IF request.gen = db.gen /\ request.validity = db.validity
             THEN [db EXCEPT !.previews = @ \cup (request.msgs \cap db.locs)] ELSE db
    /\ Answered(Idle)
    /\ UNCHANGED <<server, expunged, edits, drops, refused>>

-----------------------------------------------------------------------------

Writer == StagePage \/ CommitCursor \/ ApplyPreviews

Fetch == OpenInbox \/ OpensSecond \/ FetchesFirst \/ FetchesSecond \/ SelectsUids
         \/ FetchesUids \/ SubmitsCommit \/ FetchesPreviews

World == Arrive \/ Renumber \/ Reconfigure \/ \E u \in Uids : Expunge(u) \/ Archive(u) \/ Delete(u)

Next ==
    \/ World \/ Fetch \/ Writer \/ BeginPreviews
    \/ \E b \in BOOLEAN : Begin(b) \/ Drop(b)

Spec == Init /\ [][Next]_vars

(* Polling never ends and lets history in, previews get their turn, and    *)
(* the task and the writer run.                                            *)
Fairness ==
    /\ WF_vars(Writer) /\ WF_vars(Fetch)
    /\ SF_vars(Begin(TRUE)) /\ SF_vars(BeginPreviews)

FairSpec == Spec /\ Fairness

-----------------------------------------------------------------------------
(* Properties                                                              *)

(* The rows are those of the code and the task is at one of its awaits.    *)
TypeOK ==
    /\ server \in [validity : Nat \ {0}, next : Nat \ {0}, msgs : SUBSET Nat]
    /\ server.msgs \subseteq 1..(server.next - 1)
    /\ db.gen \in Nat \ {0} /\ db.validity \in 0..server.validity
    /\ {db.cursor, db.hist} \subseteq 0..(server.next - 1) /\ db.complete \in BOOLEAN
    /\ db.locs \cup db.tomb \subseteq 1..(server.next - 1)
    /\ db.inbox \subseteq db.locs /\ db.previews \subseteq db.locs
    /\ task.pc \in {"idle", "open", "selected", "uids", "staging", "staged", "committing",
                    "previews"}
    /\ request.op \in {"none", "stage", "commit", "previews"}

(* The committed cursors never step over a message: everything the server  *)
(* still has between the history cursor and the forward cursor is here or  *)
(* was deleted here, whatever arrived or was expunged during the fetch and *)
(* whatever view each session had.                                         *)
Covered(u) == u <= db.cursor /\ (db.complete \/ u > db.hist)

CursorCoversInbox ==
    db.validity = server.validity =>
        \A u \in server.msgs : Covered(u) => u \in db.locs \cup db.tomb

(* load_inbox_checkpoint can read what was committed; a state it calls     *)
(* invalid would end syncing for good.                                     *)
CheckpointIsReadable ==
    /\ db.cursor # 0 => db.validity # 0
    /\ db.hist # 0 => db.cursor # 0
    /\ db.complete => db.hist = 0
    /\ db.cursor # 0 /\ ~db.complete => db.hist # 0

(* The checkpoint loads again after every sequence of pages and repairs,   *)
(* and its cursors never pass a message that is in the server's inbox, not *)
(* here, and not deleted here.                                             *)
InboxIsCovered == TypeOK /\ CheckpointIsReadable /\ CursorCoversInbox

(* A page fetched before a permanent deletion does not bring the message   *)
(* back.                                                                   *)
NoResurrection == db.tomb \cap db.locs = {}

(* "For pending or blocked dimensions, the local desired value is overlaid *)
(* after importing the remote base so offline work is not overwritten": a  *)
(* message archived here stays out of the inbox.                           *)
ArchivedStaysOut == db.archived \cap db.inbox = {}

(* "A retry preserves staged metadata": the attempt after one that ended   *)
(* between its two transactions is not refused.                            *)
RetryIsAccepted == ~refused

(* Syncing does not start over: the forward cursor never goes back, and    *)
(* what is here and covered stays covered when a history is reopened.      *)
WorkIsKept ==
    [][/\ db.cursor <= db'.cursor
       /\ \A u \in db.locs \cap db'.locs : Covered(u) => Covered(u)']_db

(* When the server is quiet, what it has gets here: new mail and the       *)
(* history, through any races of the fetch.                                *)
Converges == <>[](server.msgs \subseteq db.locs \cup db.tomb)

(* Previews "converge the local cache in 50-message batches": every        *)
(* message the server still has gets its preview.                          *)
PreviewsConverge == <>[](server.msgs \cap db.locs \subseteq db.previews)
=============================================================================
