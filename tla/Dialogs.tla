-------------------------------- MODULE Dialogs --------------------------------
(***************************************************************************)
(* The windows over the mailbox and the single tasks behind them: the      *)
(* composer, the outbox panel and the dialogs of an account                *)
(* (mail/src/controller.rs and mail/ui).  The controller is one thread, an *)
(* action is one callback run to its end.  A task submits an operation to  *)
(* the core and waits for its answer; each of the three has one slot.      *)
(*                                                                         *)
(* The core is what its answers tell: drafts with their revision, and the  *)
(* state in the outbox of those that are queued (see Outbox).  A text is a *)
(* number, 0 the empty one.  The account of the composer keeps its         *)
(* generation while the composer is open, for nothing else can be opened.  *)
(***************************************************************************)
EXTENDS Integers, Sequences, FiniteSets, FiniteSetsExt

CONSTANTS
    Parts,       \* subset of {"composer", "outbox", "account"}: what the user opens
    Accounts,    \* accounts the user manages
    Boxed,       \* states in the outbox of a draft that may be there at the start
    Unreadable,  \* whether the body of a draft may fail to be read
    Stops,       \* whether the core may stop
    MaxMoves,    \* bound on what the user begins
    MaxTexts,    \* bound on what the user types
    MaxAttempts, \* bound on attempts of delivery
    MaxFaults,   \* bound on operations refused or failed
    Capacity     \* OUTBOX_STATUS_CAPACITY

None == 0

VARIABLES
    open,     \* the windows on screen
    k,        \* the composer and its slot
    o,        \* the outbox panel and its slot
    a,        \* the account dialogs and their slot
    drafts,   \* drafts in SQLite
    statuses, \* events of delivery on their way to the controller
    core,     \* "up", "down", and "gone" when the controller knows
    exited,   \* whether the window was closed
    moves, typed, attempts, faults

user == <<moves, typed>>
vars == <<open, k, o, a, drafts, statuses, core, exited, user, attempts, faults>>

-----------------------------------------------------------------------------
(* What is on top takes the clicks; ui/app.slint orders the windows by z.  *)

Above == [composer |-> {"setup", "status", "remove", "credential"},
          outbox |-> {"composer", "setup", "status", "remove", "credential"},
          setup |-> {"status", "remove", "credential"},
          status |-> {"remove", "credential"},
          remove |-> {"credential"}, credential |-> {}]

OnTop(w) == w \in open /\ open \cap Above[w] = {} /\ ~exited

MoveOf(part) ==
    /\ part \in Parts /\ ~exited /\ moves < MaxMoves /\ moves' = moves + 1
    /\ UNCHANGED <<typed, exited>>

(* The core takes an operation, or has no room for it, or has stopped.     *)
Refuses(refused) ==
    /\ core # "up" => refused
    /\ IF refused /\ core = "up" THEN faults < MaxFaults /\ faults' = faults + 1
       ELSE faults' = faults

Fails(failed) ==
    IF failed THEN faults < MaxFaults /\ faults' = faults + 1 ELSE faults' = faults

-----------------------------------------------------------------------------
(* The composer.                                                           *)

NoAsk == [op |-> "none", id |-> None, rev |-> None, text |-> 0]
NoReply == [end |-> "none", id |-> None, rev |-> None, text |-> 0]

Blank == [k EXCEPT !.id = None, !.rev = None, !.dirty = FALSE, !.text = 0]

(* finish_compose_task_with_error: a close that waits for the draft is     *)
(* given up.                                                               *)
ComposeError(s) == [s EXCEPT !.task = "idle", !.loading = FALSE, !.closing = FALSE, !.error = TRUE]

Submit(s, op, refused) ==
    IF refused THEN ComposeError(s)
    ELSE [s EXCEPT !.task = op, !.loading = TRUE, !.error = FALSE,
                   !.ask = [op |-> op, id |-> s.id, rev |-> s.rev, text |-> s.text]]

(* open_composer, behind the button and the key that ask for it.           *)
OpenComposer ==
    /\ open = {} /\ MoveOf("composer") /\ open' = {"composer"}
    /\ \E refused \in BOOLEAN :
          /\ Refuses(refused)
          /\ k' = [Submit([Blank EXCEPT !.closing = FALSE], "load", refused)
                      EXCEPT !.session = k.session + 1, !.read = {}]
    /\ UNCHANGED <<o, a, drafts, statuses, core, attempts>>

(* bound_compose_input: the fields are disabled while a task is at work.   *)
Type_WhileLoading ==
    /\ OnTop("composer") /\ typed < MaxTexts /\ typed' = typed + 1
    /\ \E text \in {0, typed + 1} : k' = [k EXCEPT !.text = text, !.dirty = TRUE]
    /\ UNCHANGED <<open, o, a, drafts, statuses, core, exited, moves, attempts, faults>>

Type ==
    /\ OnTop("composer") /\ ~k.loading /\ typed < MaxTexts /\ typed' = typed + 1
    /\ \E text \in {0, typed + 1} : k' = [k EXCEPT !.text = text, !.dirty = TRUE]
    /\ UNCHANGED <<open, o, a, drafts, statuses, core, exited, moves, attempts, faults>>

(* save_compose_draft and queue_composed_message, by button or Escape.     *)
Save ==
    /\ OnTop("composer") /\ ~k.loading /\ MoveOf("composer")
    /\ \E op \in {"save", "queue"}, refused \in BOOLEAN :
          Refuses(refused) /\ k' = Submit(k, op, refused)
    /\ UNCHANGED <<open, o, a, drafts, statuses, core, attempts>>

(* request_window_close: with something unsaved the draft is saved first.  *)
CloseWindow ==
    /\ ~exited /\ moves < MaxMoves /\ moves' = moves + 1
    /\ \/ /\ "composer" \notin open \/ ~k.dirty
          /\ exited' = TRUE /\ UNCHANGED <<k, faults>>
       \/ /\ "composer" \in open /\ k.dirty /\ (k.closing \/ k.task # "idle")
          /\ k' = [k EXCEPT !.error = TRUE] /\ UNCHANGED <<exited, faults>>
       \/ /\ "composer" \in open /\ k.dirty /\ ~k.closing /\ k.task = "idle"
          /\ \E refused \in BOOLEAN :
                Refuses(refused) /\ k' = Submit([k EXCEPT !.closing = TRUE], "save", refused)
          /\ UNCHANGED exited
    /\ UNCHANGED <<open, o, a, drafts, statuses, core, typed, attempts>>

(* Drafts of the account in SQLite.  A draft in the outbox is locked, one  *)
(* that was delivered is none any more.                                    *)
Ids == DOMAIN drafts

Held == {i \in Ids : drafts[i].box # "done"}

Latest == CHOOSE i \in Held : \A j \in Held : drafts[j].at <= drafts[i].at

Now == 1 + Max({0} \cup {drafts[i].at : i \in Ids})

Identity(end, i, ds) == [end |-> end, id |-> i, rev |-> ds[i].rev, text |-> ds[i].text]

Failure(ask) == [NoReply EXCEPT !.end = "failed", !.id = ask.id, !.rev = ask.rev]

(* load_latest: a draft whose body cannot be read is named in the failure. *)
LoadLatest(ask) ==
    \/ Held = {} /\ k' = [k EXCEPT !.ask = NoAsk, !.got = [NoReply EXCEPT !.end = "new"]]
    \/ Held # {} /\ k' = [k EXCEPT !.ask = NoAsk,
            !.got = Identity(IF drafts[Latest].box = "none" THEN "loaded" ELSE "locked", Latest, drafts)]
    \/ /\ Held # {} /\ Unreadable
       /\ k' = [k EXCEPT !.ask = NoAsk, !.got = [Identity("failed", Latest, drafts) EXCEPT !.text = 0]]

(* save_draft: the revision must be the one the composer knows.            *)
CanSave(ask) == ask.id # None =>
    /\ ask.id \in Held
    /\ drafts[ask.id].box = "none" /\ drafts[ask.id].rev = ask.rev

Saved(ask) ==
    IF ask.id = None
    THEN Append(drafts, [text |-> ask.text, rev |-> 1, at |-> Now, box |-> "none",
                         session |-> k.session])
    ELSE [drafts EXCEPT ![ask.id].text = ask.text, ![ask.id].rev = @ + 1, ![ask.id].at = Now]

SavedId(ask) == IF ask.id = None THEN Len(drafts) + 1 ELSE ask.id

SaveAndClose(ask) ==
    \/ /\ ask.id = None /\ ask.text = 0
       /\ k' = [k EXCEPT !.ask = NoAsk, !.got = [NoReply EXCEPT !.end = "done"]]
       /\ UNCHANGED drafts
    \/ /\ ask.id # None \/ ask.text # 0
       /\ CanSave(ask) /\ drafts' = Saved(ask)
       /\ k' = [k EXCEPT !.ask = NoAsk, !.got = [NoReply EXCEPT !.end = "done"]]

(* queue_draft: what fails after the draft was saved says so.              *)
Queue_ForgetsDraft(ask, reserved) ==
    /\ ask.text # 0 /\ CanSave(ask)
    /\ drafts' = (IF reserved THEN [Saved(ask) EXCEPT ![SavedId(ask)].box = "ready"] ELSE Saved(ask))
    /\ k' = [k EXCEPT !.ask = NoAsk,
                      !.got = IF reserved THEN [NoReply EXCEPT !.end = "queued"] ELSE Failure(ask)]

Queue(ask, reserved) ==
    /\ ask.text # 0 /\ CanSave(ask)
    /\ drafts' = (IF reserved THEN [Saved(ask) EXCEPT ![SavedId(ask)].box = "ready"] ELSE Saved(ask))
    /\ k' = [k EXCEPT !.ask = NoAsk,
                      !.got = IF reserved THEN [NoReply EXCEPT !.end = "queued"]
                              ELSE Identity("failed", SavedId(ask), Saved(ask))]

(* execute_compose, for the composer.                                      *)
ComposeAnswers ==
    /\ core = "up" /\ k.ask # NoAsk /\ k.got = NoReply
    /\ \/ k.ask.op = "load" /\ LoadLatest(k.ask) /\ UNCHANGED <<drafts, faults>>
       \/ k.ask.op = "save" /\ SaveAndClose(k.ask) /\ UNCHANGED faults
       \/ k.ask.op = "queue" /\ \E ok \in BOOLEAN : Fails(~ok) /\ Queue(k.ask, ok)
       \/ /\ IF k.ask.op = "load" THEN TRUE ELSE k.ask.text # 0 => CanSave(k.ask)
          /\ Fails(TRUE) /\ UNCHANGED drafts
          /\ k' = [k EXCEPT !.ask = NoAsk, !.got = Failure(k.ask)]
       \/ /\ k.ask.op # "load" /\ (CanSave(k.ask) => k.ask.op = "queue" /\ k.ask.text = 0)
          /\ UNCHANGED <<drafts, faults>>
          /\ k' = [k EXCEPT !.ask = NoAsk, !.got = Failure(k.ask)]
    /\ UNCHANGED <<open, o, a, statuses, core, exited, user, attempts>>

-----------------------------------------------------------------------------
(* The outbox panel: a snapshot of the outbox, one task, and a refresh     *)
(* that waits for it.                                                      *)

Boxes == [i \in {j \in Held : drafts[j].box # "none"} |-> drafts[i].box]

Stale == [end |-> "none", boxes |-> <<>>]

LoadOutbox(p, refused) ==
    IF p.cancel \/ p.task # "idle" THEN [p EXCEPT !.error = TRUE]
    ELSE [p EXCEPT !.error = refused, !.task = IF refused THEN "idle" ELSE "load",
                   !.loading = ~refused, !.acting = FALSE,
                   !.ask = IF refused THEN "none" ELSE "load"]

FinishOutbox(p, refused) ==
    LET q == [p EXCEPT !.task = "idle", !.loading = FALSE, !.acting = FALSE] IN
    IF q.again THEN LoadOutbox([q EXCEPT !.again = FALSE], refused) ELSE q

FailOutbox(p, refused) == [FinishOutbox(p, refused) EXCEPT !.error = TRUE]

(* request_outbox_refresh: a task at work is followed by another load.     *)
RefreshOutbox_Drops(p, refused) ==
    LET q == [p EXCEPT !.cancel = FALSE, !.acting = @ /\ ~p.cancel] IN
    IF q.task # "idle" THEN q ELSE LoadOutbox(q, refused)

RefreshOutbox(p, refused) ==
    LET q == [p EXCEPT !.cancel = FALSE, !.acting = @ /\ ~p.cancel] IN
    IF q.task # "idle" THEN [q EXCEPT !.again = TRUE] ELSE LoadOutbox(q, refused)

(* What an answer does to the composer.  A success closes it, and the      *)
(* window if that waits for it.                                            *)
Loaded(got) ==
    [k EXCEPT !.task = "idle", !.loading = FALSE, !.dirty = FALSE, !.got = NoReply,
              !.id = IF got.end = "loaded" THEN got.id ELSE None,
              !.rev = IF got.end = "loaded" THEN got.rev ELSE None,
              !.text = IF got.end = "loaded" THEN got.text ELSE 0,
              !.read = IF got.end = "loaded" THEN {got.id} ELSE {}]

Failed(got) ==
    ComposeError([k EXCEPT !.got = NoReply, !.id = IF got.end = "cut" THEN @ ELSE got.id,
                           !.rev = IF got.end = "cut" THEN @ ELSE got.rev])

Closed == [Blank EXCEPT !.task = "idle", !.loading = FALSE, !.closing = FALSE,
                        !.got = NoReply, !.error = FALSE, !.read = {}]

ComposeReplies ==
    /\ k.got # NoReply /\ ~exited
    /\ \/ /\ k.got.end \in {"loaded", "locked", "new"} /\ k' = Loaded(k.got)
          /\ UNCHANGED <<open, o, exited, faults>>
       \/ /\ k.got.end \in {"failed", "cut"} /\ k' = Failed(k.got)
          /\ UNCHANGED <<open, o, exited, faults>>
       \/ /\ k.got.end \in {"done", "queued"} /\ k' = Closed
          /\ open' = open \ {"composer"} /\ exited' = k.closing
          /\ IF k.got.end = "queued"
             THEN \E refused \in BOOLEAN : Refuses(refused) /\ o' = LoadOutbox(o, refused)
             ELSE UNCHANGED <<o, faults>>
    /\ UNCHANGED <<a, drafts, statuses, core, user, attempts>>

(* What the user does on the panel, while the list is there and nothing is *)
(* applied to it.                                                          *)
Listing == OnTop("outbox") /\ ~o.loading /\ ~o.acting /\ ~o.error

(* load_outbox, of the button that opens the panel and of the one inside.  *)
OpenOutbox ==
    /\ open = {} \/ (OnTop("outbox") /\ ~o.loading /\ ~o.acting)
    /\ MoveOf("outbox") /\ open' = {"outbox"}
    /\ \E refused \in BOOLEAN : Refuses(refused) /\ o' = LoadOutbox(o, refused)
    /\ UNCHANGED <<k, a, drafts, statuses, core, attempts>>

CloseOutbox ==
    /\ OnTop("outbox") /\ ~o.acting /\ open' = open \ {"outbox"}
    /\ UNCHANGED <<k, o, a, drafts, statuses, core, exited, user, attempts, faults>>

(* change_outbox: what may be done to a message is what the snapshot says. *)
Changes == [retry |-> "failed", release |-> "failed", vouch |-> "uncertain", abandon |-> "uncertain"]

ChangeOutbox ==
    /\ Listing /\ MoveOf("outbox")
    /\ \E op \in DOMAIN Changes, i \in DOMAIN o.shown, refused \in BOOLEAN :
          /\ o.shown[i] = Changes[op] /\ Refuses(refused)
          /\ o' = IF o.cancel \/ o.task # "idle" THEN [o EXCEPT !.error = TRUE]
                  ELSE IF refused THEN FailOutbox(o, FALSE)
                  ELSE [o EXCEPT !.task = "change", !.acting = TRUE, !.error = FALSE,
                                 !.ask = op, !.msg = i]
    /\ UNCHANGED <<open, k, a, drafts, statuses, core, attempts>>

(* cancel_outbox_attempt.  The driver gives the handle of an attempt away  *)
(* once; how the attempt ends is told by a status, or after a while asked. *)
CancelAttempt ==
    /\ Listing /\ MoveOf("outbox")
    /\ \E i \in DOMAIN o.shown, refused \in BOOLEAN :
          /\ o.shown[i] = "inflight" /\ Refuses(refused)
          /\ o' = IF core = "up" /\ drafts[i].box = "inflight" /\ ~o.stopped
                  THEN [o EXCEPT !.cancel = TRUE, !.acting = TRUE, !.error = FALSE,
                                 !.timers = @ + 1, !.stopped = TRUE]
                  ELSE LoadOutbox([o EXCEPT !.error = TRUE], refused)
    /\ UNCHANGED <<open, k, a, drafts, statuses, core, attempts>>

CancelTimer ==
    /\ o.timers > 0 /\ ~exited
    /\ \E refused \in BOOLEAN :
          /\ IF o.cancel THEN Refuses(refused) ELSE refused = FALSE /\ UNCHANGED faults
          /\ LET p == [o EXCEPT !.timers = @ - 1] IN
             o' = IF o.cancel THEN RefreshOutbox(p, refused) ELSE p
    /\ UNCHANGED <<open, k, a, drafts, statuses, core, exited, user, attempts>>

(* execute_compose, for the panel.  A message that is no longer in the     *)
(* state the operation asks for is a conflict.                             *)
Target(op) == IF op = "retry" THEN "ready" ELSE IF op = "vouch" THEN "done" ELSE "none"

OutboxAnswers ==
    /\ core = "up" /\ o.ask # "none"
    /\ \/ /\ o.ask = "load"
          /\ o' = [o EXCEPT !.ask = "none", !.got = [end |-> "page", boxes |-> Boxes]]
          /\ UNCHANGED <<drafts, faults>>
       \/ /\ o.ask # "load" /\ drafts[o.msg].box = Changes[o.ask]
          /\ drafts' = [drafts EXCEPT ![o.msg].box = Target(o.ask)]
          /\ o' = [o EXCEPT !.ask = "none", !.got = [end |-> "applied", boxes |-> <<>>]]
          /\ UNCHANGED faults
       \/ /\ IF o.ask # "load" /\ drafts[o.msg].box # Changes[o.ask] THEN UNCHANGED faults
             ELSE Fails(TRUE)
          /\ o' = [o EXCEPT !.ask = "none", !.got = [end |-> "failed", boxes |-> <<>>]]
          /\ UNCHANGED drafts
    /\ UNCHANGED <<open, k, a, statuses, core, exited, user, attempts>>

(* An operation that was applied is followed by a page of its own.         *)
OutboxReplies ==
    /\ o.got # Stale /\ ~exited
    /\ \E refused \in BOOLEAN :
          LET p == [o EXCEPT !.got = Stale] IN
          \/ /\ o.got.end = "page"
             /\ IF o.again THEN Refuses(refused) ELSE refused = FALSE /\ UNCHANGED faults
             /\ o' = FinishOutbox([p EXCEPT !.shown = o.got.boxes, !.error = FALSE], refused)
          \/ /\ o.got.end = "applied" /\ Refuses(refused)
             /\ o' = IF refused THEN FailOutbox(p, TRUE)
                     ELSE [p EXCEPT !.task = "reread", !.ask = "load"]
          \/ /\ o.got.end \in {"failed", "cut"}
             /\ IF o.again THEN Refuses(refused) ELSE refused = FALSE /\ UNCHANGED faults
             /\ o' = FailOutbox(p, refused)
    /\ UNCHANGED <<open, k, a, drafts, statuses, core, exited, user, attempts>>

(* The driver of the outbox, and handle_outbox_status.  A status is not    *)
(* sent when the channel is full.                                          *)
Emits == statuses' = Min({Capacity, statuses + 1})

AttemptStarts ==
    /\ core = "up"
    /\ \E i \in Ids :
          /\ drafts[i].box = "ready" /\ \A j \in Ids : drafts[j].box # "inflight"
          /\ drafts' = [drafts EXCEPT ![i].box = "inflight"]
    /\ o' = [o EXCEPT !.stopped = FALSE] /\ Emits
    /\ UNCHANGED <<open, k, a, core, exited, user, attempts, faults>>

AttemptEnds ==
    /\ core = "up"
    /\ \E i \in Ids, end \in {"ready", "failed", "uncertain", "done"} :
          /\ drafts[i].box = "inflight"
          /\ IF end = "ready" THEN attempts < MaxAttempts /\ attempts' = attempts + 1
             ELSE attempts' = attempts
          /\ drafts' = [drafts EXCEPT ![i].box = end]
    /\ Emits
    /\ UNCHANGED <<open, k, o, a, core, exited, user, faults>>

StatusArrives ==
    /\ statuses > 0 /\ statuses' = statuses - 1 /\ ~exited
    /\ \E refused \in BOOLEAN :
          /\ IF o.task = "idle" THEN Refuses(refused) ELSE refused = FALSE /\ UNCHANGED faults
          /\ o' = RefreshOutbox(o, refused)
    /\ UNCHANGED <<open, k, a, drafts, core, exited, user, attempts>>

-----------------------------------------------------------------------------
(* The dialogs of an account.                                              *)

FinishAccount(s) ==
    [s EXCEPT !.task = "idle", !.cancelable = FALSE, !.loading = FALSE, !.syncing = FALSE]

FailAccount(s) == [FinishAccount(s) EXCEPT !.error = TRUE]

(* begin_account_task and the submission after it.                         *)
BeginAccount(s, op, x, refused) ==
    LET t == [s EXCEPT !.cancelable = (op = "check"), !.loading = TRUE, !.error = FALSE] IN
    IF s.task # "idle" THEN [s EXCEPT !.error = TRUE]
    ELSE IF refused THEN FailAccount(t)
    ELSE [t EXCEPT !.task = op, !.target = x, !.ask = op, !.got = "none", !.syncing = (op = "sync")]

(* The overlays that a click or Escape opens and closes by itself.         *)
OpenSetup ==
    /\ open = {} /\ MoveOf("account") /\ open' = {"setup"} /\ a' = [a EXCEPT !.error = FALSE]
    /\ UNCHANGED <<k, o, drafts, statuses, core, attempts, faults>>

ManageAccount ==
    /\ open = {} /\ MoveOf("account") /\ open' = {"status"}
    /\ \E x \in a.known : a' = [a EXCEPT !.managed = x, !.error = FALSE]
    /\ UNCHANGED <<k, o, drafts, statuses, core, attempts, faults>>

OpenOver ==
    /\ OnTop("status") /\ ~a.loading /\ a.managed # None /\ MoveOf("account")
    /\ \E w \in {"remove", "credential"} : open' = open \cup {w}
    /\ a' = [a EXCEPT !.error = FALSE]
    /\ UNCHANGED <<k, o, drafts, statuses, core, attempts, faults>>

Dismiss ==
    /\ ~a.loading
    /\ \E w \in {"setup", "status", "remove", "credential"} : OnTop(w) /\ open' = open \ {w}
    /\ UNCHANGED <<k, o, a, drafts, statuses, core, exited, user, attempts, faults>>

(* open_outbox_credential_repair: the dialogs open above the panel.        *)
Repair ==
    /\ Listing /\ MoveOf("account")
    /\ \E i \in DOMAIN o.shown, x \in Accounts :
          /\ o.shown[i] = "failed"
          /\ IF x \in a.known
             THEN /\ a' = [a EXCEPT !.managed = x, !.error = FALSE]
                  /\ open' = open \cup {"status", "credential"} /\ o' = o
             ELSE o' = [o EXCEPT !.error = TRUE] /\ UNCHANGED <<a, open>>
    /\ UNCHANGED <<k, drafts, statuses, core, attempts, faults>>

(* add_account, update_account_credential, remove_account, and             *)
(* diagnose_account, behind the button of their dialog; sync_account,      *)
(* behind a key.                                                           *)
AskAccount(w, op) ==
    /\ OnTop(w) /\ ~a.loading /\ MoveOf("account")
    /\ \E refused \in BOOLEAN :
          /\ Refuses(refused)
          /\ a' = IF op # "setup" /\ a.managed \notin a.known THEN [a EXCEPT !.error = TRUE]
                  ELSE BeginAccount(a, op, IF op = "setup" THEN None ELSE a.managed, refused)
    /\ UNCHANGED <<open, k, o, drafts, statuses, core, attempts>>

AddAccount == AskAccount("setup", "setup")
UpdateCredential == AskAccount("credential", "credential")
RemoveAccount == AskAccount("remove", "remove")
DiagnoseAccount == AskAccount("status", "check")

SyncAccount ==
    /\ open = {} /\ ~a.syncing /\ MoveOf("account")
    /\ \E refused \in BOOLEAN, x \in a.known :
          Refuses(refused) /\ a' = BeginAccount(a, "sync", x, refused)
    /\ UNCHANGED <<open, k, o, drafts, statuses, core, attempts>>

(* cancel_account_operation: a check goes on in the core, unheard; the     *)
(* slot of the composer is taken as well.                                  *)
CancelAccount_KeepsTask ==
    /\ OnTop("status") /\ a.loading /\ a.cancelable
    /\ a' = [a EXCEPT !.cancelable = FALSE, !.loading = FALSE, !.error = TRUE]
    /\ UNCHANGED <<open, k, o, drafts, statuses, core, exited, user, attempts, faults>>

CancelAccount ==
    /\ OnTop("status") /\ a.loading /\ a.cancelable
    /\ a' = [a EXCEPT !.cancelable = FALSE, !.task = "idle", !.ask = "none", !.got = "none",
                      !.loading = FALSE, !.error = TRUE]
    /\ k' = [k EXCEPT !.task = "idle", !.got = NoReply]
    /\ UNCHANGED <<open, o, drafts, statuses, core, exited, user, attempts, faults>>

(* The account workflows of the core (see AccountWorkflows).  A setup may  *)
(* fail with the account recorded.                                         *)
Known(s, x) == [s EXCEPT !.real = @ \cup {x}, !.target = x]

AccountAnswers ==
    /\ core = "up" /\ a.ask # "none"
    /\ \/ /\ a.ask = "setup" /\ UNCHANGED faults
          /\ \E x \in Accounts \ a.real : a' = [Known(a, x) EXCEPT !.ask = "none", !.got = "ok"]
       \/ /\ a.ask = "setup" /\ Fails(TRUE)
          /\ \E x \in Accounts \ a.real : a' = [Known(a, x) EXCEPT !.ask = "none", !.got = "partly"]
       \/ /\ a.ask = "remove" /\ UNCHANGED faults
          /\ a' = [a EXCEPT !.real = @ \ {a.target}, !.ask = "none", !.got = "ok"]
       \/ /\ a.ask \in {"check", "sync", "credential"} /\ a.target \in a.real /\ UNCHANGED faults
          /\ a' = [a EXCEPT !.ask = "none", !.got = "ok"]
       \/ /\ Fails(a.target \in a.real)
          /\ a' = [a EXCEPT !.ask = "none", !.got = "failed"]
    /\ UNCHANGED <<open, k, o, drafts, statuses, core, exited, user, attempts>>

(* add_account: an account that was set up is checked at once, in the      *)
(* same task, which can be cancelled from here on.                         *)
Configured(refused) ==
    /\ open' = (open \ {"setup"}) \cup {"status"}
    /\ LET t == [a EXCEPT !.managed = a.target, !.cancelable = TRUE, !.got = "none"] IN
       a' = IF refused THEN FailAccount(t) ELSE [t EXCEPT !.task = "check", !.ask = "check"]

AccountReplies ==
    /\ a.got # "none" /\ ~exited
    /\ \E refused \in BOOLEAN :
          /\ IF a.got = "ok" /\ (a.task = "setup" \/ (a.task = "credential" /\ o.task = "idle"))
             THEN Refuses(refused) ELSE refused = FALSE /\ UNCHANGED faults
          /\ LET t == [a EXCEPT !.got = "none"] IN
             \/ /\ a.got = "ok" /\ a.task = "setup" /\ Configured(refused) /\ UNCHANGED o
             \/ /\ a.got = "ok" /\ a.task = "check" /\ a' = FinishAccount(t)
                /\ open' = open \ {"status"} /\ UNCHANGED o
             \/ /\ a.got = "ok" /\ a.task = "sync" /\ a' = FinishAccount(t) /\ UNCHANGED <<open, o>>
             \/ /\ a.got = "ok" /\ a.task = "remove" /\ a' = FinishAccount(t)
                /\ open' = open \ {"remove", "status"} /\ UNCHANGED o
             \/ /\ a.got = "ok" /\ a.task = "credential" /\ a' = FinishAccount(t)
                /\ open' = open \ {"credential", "status"} /\ o' = RefreshOutbox(o, refused)
             \/ /\ a.got = "partly" /\ a' = [FailAccount(t) EXCEPT !.managed = a.target]
                /\ open' = (open \ {"setup"}) \cup {"status"} /\ UNCHANGED o
             \/ /\ a.got \in {"failed", "cut"} /\ a' = FailAccount(t) /\ UNCHANGED o
                /\ open' = IF a.task = "check" /\ a.got = "failed" THEN open \cup {"status"} ELSE open
    /\ UNCHANGED <<k, drafts, statuses, core, user, exited, attempts>>

(* refresh_managed_account, when the directory of accounts was loaded.     *)
DirectoryLoaded ==
    /\ a.known # a.real /\ core = "up" /\ ~exited
    /\ LET gone == a.managed # None /\ ~a.loading /\ a.managed \notin a.real IN
       /\ a' = [a EXCEPT !.known = a.real, !.managed = IF gone THEN None ELSE @]
       /\ open' = IF gone THEN open \ {"status", "remove"} ELSE open
    /\ UNCHANGED <<k, o, drafts, statuses, core, exited, user, attempts, faults>>

-----------------------------------------------------------------------------
(* The core stops: what was not answered is not, and the controller hears  *)
(* of it after the answers (core_closed).                                  *)
CoreStops ==
    /\ Stops /\ core = "up" /\ core' = "down" /\ ~exited
    /\ k' = [k EXCEPT !.ask = NoAsk,
                      !.got = IF k.ask # NoAsk THEN [NoReply EXCEPT !.end = "cut"] ELSE @]
    /\ o' = [o EXCEPT !.ask = "none", !.got = IF o.ask # "none" THEN [Stale EXCEPT !.end = "cut"] ELSE @]
    /\ a' = [a EXCEPT !.ask = "none", !.got = IF a.ask # "none" THEN "cut" ELSE @]
    /\ UNCHANGED <<open, drafts, statuses, exited, user, attempts, faults>>

CoreClosed ==
    /\ core = "down" /\ core' = "gone" /\ ~exited
    /\ k.got = NoReply /\ o.got = Stale /\ statuses = 0
    /\ a' = [FinishAccount(a) EXCEPT !.got = "none", !.error = TRUE]
    /\ k' = [k EXCEPT !.loading = FALSE, !.error = @ \/ "composer" \in open]
    /\ UNCHANGED <<open, o, drafts, statuses, exited, user, attempts, faults>>

-----------------------------------------------------------------------------
(* The outbox is loaded at the start (start).                              *)
Init ==
    /\ drafts \in {<<>>} \cup
          {<<[text |-> MaxTexts + 1, rev |-> 1, at |-> 1, box |-> b, session |-> None]>> : b \in Boxed}
    /\ open = {} /\ statuses = 0 /\ core = "up" /\ exited = FALSE
    /\ k = [task |-> "idle", loading |-> FALSE, dirty |-> FALSE, closing |-> FALSE, error |-> FALSE,
            id |-> None, rev |-> None, text |-> 0, ask |-> NoAsk, got |-> NoReply,
            session |-> 0, read |-> {}]
    /\ o = [task |-> "load", loading |-> TRUE, acting |-> FALSE, error |-> FALSE,
            cancel |-> FALSE, again |-> FALSE, timers |-> 0, stopped |-> FALSE,
            ask |-> "load", got |-> Stale, msg |-> None, shown |-> <<>>]
    /\ \E known \in SUBSET Accounts :
          a = [task |-> "idle", loading |-> FALSE, syncing |-> FALSE, cancelable |-> FALSE,
               error |-> FALSE, target |-> None, managed |-> None, ask |-> "none", got |-> "none",
               known |-> known, real |-> known]
    /\ moves = 0 /\ typed = 0 /\ attempts = 0 /\ faults = 0

Next ==
    \/ OpenComposer \/ Type \/ Save \/ CloseWindow \/ ComposeAnswers \/ ComposeReplies
    \/ OpenOutbox \/ CloseOutbox \/ ChangeOutbox \/ CancelAttempt \/ CancelTimer
    \/ OutboxAnswers \/ OutboxReplies
    \/ AttemptStarts \/ AttemptEnds \/ StatusArrives
    \/ OpenSetup \/ ManageAccount \/ OpenOver \/ Dismiss \/ Repair
    \/ AddAccount \/ UpdateCredential \/ RemoveAccount \/ DiagnoseAccount \/ SyncAccount
    \/ CancelAccount \/ AccountAnswers \/ AccountReplies \/ DirectoryLoaded
    \/ CoreStops \/ CoreClosed

(* The core answers and delivers; the event loop handles what arrives.     *)
Spec ==
    /\ Init /\ [][Next]_vars
    /\ WF_vars(ComposeAnswers) /\ WF_vars(ComposeReplies)
    /\ WF_vars(OutboxAnswers) /\ WF_vars(OutboxReplies)
    /\ WF_vars(AttemptStarts) /\ WF_vars(AttemptEnds)
    /\ WF_vars(StatusArrives) /\ WF_vars(CancelTimer)
    /\ WF_vars(AccountAnswers) /\ WF_vars(AccountReplies)

-----------------------------------------------------------------------------
(* The slots and the windows fit: what waits has a request under way.      *)
TypeOK ==
    /\ open \subseteq DOMAIN Above /\ core \in {"up", "down", "gone"} /\ statuses \in 0..Capacity
    /\ k.task \in {"idle", "load", "save", "queue"} /\ k.id \in Ids \cup {None}
    /\ o.task \in {"idle", "load", "change", "reread"}
    /\ a.task \in {"idle", "setup", "check", "sync", "remove", "credential"}
    /\ \A i \in Ids : drafts[i].box \in {"none", "ready", "inflight", "failed", "uncertain", "done"}

(* A text is kept: it is empty, or a draft or a message has it.            *)
Kept(text) == text = 0 \/ \E i \in Ids : drafts[i].text = text

(* The window is closed, and the composer too, only with the text on       *)
(* screen in SQLite (request_window_close, finish_compose_success), or     *)
(* emptied by the user.                                                    *)
ExitKeepsText == exited => Kept(k.text)

CloseKeepsText ==
    "composer" \in open /\ "composer" \notin open' => k.text = 0 \/ \E i \in DOMAIN drafts' : drafts'[i].text = k.text

(* One opening of the composer writes one draft, however often it fails    *)
(* after the draft was saved (ComposeFailure.draft).                       *)
OneDraft == \A i, j \in Ids : i # j => drafts[i].session # drafts[j].session

(* A draft is overwritten only by a composer that showed it or wrote it.   *)
OverwritesWhatItRead ==
    \A i \in Ids : drafts'[i].text # drafts[i].text => i \in k.read \/ drafts[i].session = k.session

(* Cancelling a check takes the slot of the composer as well: there is     *)
(* never a draft operation at work while something can be cancelled, nor   *)
(* a composer that would load for ever.                                    *)
CancelSparesComposer ==
    /\ a.cancelable => a.task = "check" /\ k.task = "idle"
    /\ a.loading <=> a.task # "idle"
    /\ k.loading => k.task # "idle"

(* The result of a check is shown in the dialog of the account checked.    *)
CheckIsOfShown == a.task = "check" /\ a.got # "none" => a.managed = a.target /\ "status" \in open

(* The panel shows the outbox, or an error with a button to reload.        *)
PanelIsCurrent == o.shown = Boxes \/ o.error \/ exited

NothingWaits == exited \/ (k.task = "idle" /\ o.task = "idle" /\ a.task = "idle" /\ ~o.cancel)
=============================================================================
