-------------------------- MODULE AccountWorkflows --------------------------
(***************************************************************************)
(* Setting up, diagnosing and removing accounts: the single task slot of   *)
(* mail/src/core/account.rs, the recovery of unfinished removals at the    *)
(* start, the credential actor of mail/src/credentials.rs with its bounded *)
(* queue, and the keyring behind it.                                       *)
(*                                                                         *)
(* A write is one step: the transaction and the handling of its reply.     *)
(* The actor answers one such write at a time and nothing else changes     *)
(* these rows meanwhile.  A secret takes two: the worker changes the       *)
(* keyring, then the task reads the reply.                                 *)
(***************************************************************************)
EXTENDS AccountStore, SequencesExt

CONSTANTS
    Secrets,   \* what users type; NoSecret is an empty keyring item
    NoSecret,
    NoAccount, \* Setup of a new account
    Capacity,  \* REQUEST_CAPACITY of the credential actor
    MaxFaults  \* bound on failures, panics and crashes

ASSUME WorkflowAssumption ==
    /\ NoSecret \notin Secrets
    /\ NoAccount \notin Ids
    /\ {Capacity, MaxFaults} \subseteq Nat

VARIABLES
    keyring,  \* the secret stored under each locator
    queue,    \* requests the credential worker has not taken
    open,     \* the credential actor takes requests
    task,     \* AccountWorkflows.active
    todo,     \* removals the recovery has found and not started
    recovery, \* where the recovery is
    targets,  \* the accounts the scheduler has loaded
    reload,   \* AutoSyncState::SubmitTargets: they are to be loaded again
    phase,    \* up, or draining after a shutdown
    answer,   \* what the last step told the user
    faults,   \* failures so far
    clean     \* history: none of them since the last start

accountVars == <<rows, keyring, queue, open, task, todo, recovery, targets,
                 reload, phase, answer, faults, clean>>

-----------------------------------------------------------------------------

DatabaseStages == {"persist", "begin_removal", "confirm", "purge",
                   "begin_diagnostic", "record"}

LoadStages == {"load_retry", "load_removal", "load_diagnostic"}

CredentialStages == {"store", "delete", "load_secret", "background"}

Stages == {"idle", "probe"} \cup DatabaseStages \cup LoadStages
              \cup CredentialStages

Replies == {"none", "done", "failed", "closed"}

Task == [stage : Stages, user : BOOLEAN, id : Ids \cup {NoAccount},
         gen : 0..MaxGen, key : Locators \cup {NoKey},
         secret : Secrets \cup {NoSecret}, reply : Replies]

Idle == [stage |-> "idle", user |-> FALSE, id |-> NoAccount, gen |-> 0,
         key |-> NoKey, secret |-> NoSecret, reply |-> "none"]

Request == [op : {"store", "load", "delete"}, key : Locators,
            secret : Secrets \cup {NoSecret}, live : BOOLEAN]

Ticket == [id : Ids, gen : 1..MaxGen, stage : {"delete", "purge"}]

NoAnswer == [kind |-> "none"]

TypeOK ==
    /\ StoreTypeOK
    /\ keyring \in [Locators -> Secrets \cup {NoSecret}]
    /\ queue \in Seq(Request) /\ Len(queue) <= Capacity
    /\ task \in Task
    /\ todo \subseteq Ticket
    /\ recovery \in {"scan_credentials", "scan_cache", "queued", "complete"}
    /\ targets \subseteq Ids \X (1..MaxGen)
    /\ phase \in {"up", "draining"}
    /\ {open, reload, clean} \subseteq BOOLEAN
    /\ faults \in 0..MaxFaults

Started ==
    /\ queue' = <<>> /\ open' = TRUE
    /\ task' = Idle /\ todo' = {} /\ recovery' = "scan_credentials"
    /\ targets' = {} /\ reload' = TRUE
    /\ phase' = "up" /\ answer' = NoAnswer /\ clean' = TRUE

Init ==
    /\ rows \in [Ids -> {Absent, NewRow(NoKey)}]
    /\ \A a, b \in Ids : a < b /\ Exists(b) => Exists(a)
    /\ keyring = [k \in Locators |-> NoSecret]
    /\ queue = <<>> /\ open = TRUE
    /\ task = Idle /\ todo = {} /\ recovery = "scan_credentials"
    /\ targets = {} /\ reload = TRUE
    /\ phase = "up" /\ answer = NoAnswer /\ clean = TRUE
    /\ faults = 0

Fault == faults < MaxFaults /\ faults' = faults + 1 /\ clean' = FALSE

NoFault == UNCHANGED <<faults, clean>>

-----------------------------------------------------------------------------
(* The end of a task                                                       *)

Answer(kind, t) ==
    IF t.user THEN [kind |-> kind, stage |-> t.stage, id |-> t.id, gen |-> t.gen,
                    key |-> t.key, secret |-> t.secret]
    ELSE NoAnswer

(* outcome_changes_sync_targets decides whether the candidates are loaded  *)
(* again.                                                                  *)
Finish(kind, t, changesTargets) ==
    /\ task' = Idle
    /\ answer' = Answer(kind, t)
    /\ reload' = (reload \/ changesTargets)
    /\ UNCHANGED queue

(* AccountWorkflowOutcome::Failed, which changes no target.                *)
Failed(t) == Finish("failed", t, FALSE)

(* CredentialPending and RemovalPending, which do.                         *)
LeftPending(t) == Finish("failed", t, TRUE)

Continue(t) == task' = t /\ answer' = NoAnswer /\ UNCHANGED <<queue, reload>>

(* try_submit and dispatch_action: a request the actor does not take fails *)
(* the task.                                                               *)
SecretRequest(op, t) ==
    [op |-> op, key |-> t.key, live |-> TRUE,
     secret |-> IF op = "store" THEN t.secret ELSE NoSecret]

Submit_Unbounded(op, t) ==
    IF open
    THEN /\ task' = [t EXCEPT !.reply = "none"]
         /\ queue' = Append(queue, SecretRequest(op, t))
         /\ answer' = NoAnswer /\ UNCHANGED reload
    ELSE Failed(t)

Submit(op, t) ==
    IF open /\ Len(queue) < Capacity
    THEN /\ task' = [t EXCEPT !.reply = "none"]
         /\ queue' = Append(queue, SecretRequest(op, t))
         /\ answer' = NoAnswer /\ UNCHANGED reload
    ELSE Failed(t)

(* After a shutdown the reply of a write has no receiver.                  *)
WhenUp(next) ==
    IF phase = "up" THEN next
    ELSE task' = Idle /\ answer' = NoAnswer /\ UNCHANGED <<queue, reload>>

(* A write of the task in its stage: committed if the store accepts it,    *)
(* refused or failed otherwise.                                            *)
Write(stage, accepted, commit, next, failure) ==
    /\ task.stage = stage
    /\ \/ accepted /\ commit /\ NoFault /\ WhenUp(next)
       \/ ~accepted /\ UNCHANGED rows /\ NoFault /\ WhenUp(failure)
       \/ Fault /\ UNCHANGED rows /\ WhenUp(failure)
    /\ UNCHANGED <<keyring, open, todo, recovery, targets, phase>>

-----------------------------------------------------------------------------
(* What the user asks for                                                  *)

(* Random 128-bit locators: never one that is still known anywhere.        *)
FreshLocators ==
    {k \in Locators : /\ \A a \in Existing : rows[a].key # k
                      /\ keyring[k] = NoSecret
                      /\ \A i \in DOMAIN queue : queue[i].key # k}

CanStartUserOperation ==
    phase = "up" /\ recovery = "complete" /\ task.stage \in {"idle", "background"}

(* A background sync gives way.  Its request for the secret stays in the   *)
(* actor's queue and nobody waits for it.                                  *)
Abandoned == [i \in DOMAIN queue |->
                 [queue[i] EXCEPT !.live = @ /\ queue[i].op # "load"]]

Begin(t) ==
    /\ CanStartUserOperation
    /\ task' = t /\ queue' = Abandoned /\ answer' = NoAnswer
    /\ NoFault
    /\ UNCHANGED <<rows, keyring, open, todo, recovery, targets, reload, phase>>

UserTask(stage, a, g) == [Idle EXCEPT !.stage = stage, !.user = TRUE,
                                      !.id = a, !.gen = g]

Setup(a, g, k, s) ==
    /\ k \in FreshLocators
    /\ Begin([UserTask("persist", a, g) EXCEPT !.key = k, !.secret = s])

RetryCredential(a, g, s) ==
    Begin([UserTask("load_retry", a, g) EXCEPT !.secret = s])

Diagnose(a, g) == Begin(UserTask("load_diagnostic", a, g))

RemoveAccount(a, g) == Begin(UserTask("load_removal", a, g))

(* Reads of the configuration.                                             *)
Loaded(stage, next) ==
    /\ phase = "up" /\ task.stage = stage
    /\ IF Fenced(task.id, task.gen) THEN next ELSE Failed(task)
    /\ NoFault
    /\ UNCHANGED <<rows, keyring, open, todo, recovery, targets, phase>>

Keyed == [task EXCEPT !.key = rows[task.id].key]

LoadRetry == Loaded("load_retry",
    IF Configured(task.id) /\ rows[task.id].state = "active"
    THEN Submit("store", [Keyed EXCEPT !.stage = "store"])
    ELSE Failed(task))

LoadDiagnostic == Loaded("load_diagnostic",
    IF Configured(task.id) /\ rows[task.id].state = "active"
    THEN Continue([Keyed EXCEPT !.stage = "begin_diagnostic"])
    ELSE Failed(task))

LoadRemoval == Loaded("load_removal",
    CASE rows[task.id].state = "active" ->
           Continue([Keyed EXCEPT !.stage = "begin_removal"])
      [] rows[task.id].state = "removing_credentials" ->
           Submit("delete", [Keyed EXCEPT !.stage = "delete"])
      [] rows[task.id].state = "removing_cache" ->
           Continue([Keyed EXCEPT !.stage = "purge"]))

LoadFails ==
    /\ phase = "up" /\ task.stage \in LoadStages
    /\ Failed(task) /\ Fault
    /\ UNCHANGED <<rows, keyring, open, todo, recovery, targets, phase>>

-----------------------------------------------------------------------------
(* The stages of the workflows                                             *)

(* The locator is committed before the secret is stored under it.          *)
PersistLocator ==
    LET creating == task.id = NoAccount
        saved    == IF creating THEN NewId ELSE task.id
        gen      == IF creating THEN 1 ELSE task.gen + 1
    IN  Write("persist",
              IF creating THEN NewId \in Ids ELSE MayConfigure(task.id, task.gen),
              IF creating THEN CreateAccount(task.key)
                          ELSE ConfigureExisting(task.id, task.key),
              Submit("store", [task EXCEPT !.stage = "store", !.id = saved,
                                           !.gen = gen]),
              Failed(task))

BeginRemovalStage_OldFence ==
    Write("begin_removal",
          MayBeginRemoval(task.id, task.gen), BeginRemoval(task.id),
          IF task.key = NoKey THEN Continue([task EXCEPT !.stage = "purge"])
          ELSE Submit("delete", [task EXCEPT !.stage = "delete"]),
          Failed(task))

BeginRemovalStage ==
    LET t == [task EXCEPT !.gen = @ + 1]
    IN  Write("begin_removal",
              MayBeginRemoval(task.id, task.gen), BeginRemoval(task.id),
              IF task.key = NoKey THEN Continue([t EXCEPT !.stage = "purge"])
              ELSE Submit("delete", [t EXCEPT !.stage = "delete"]),
              Failed(task))

ConfirmRemoval ==
    Write("confirm", MayConfirmRemoved(task.id, task.gen), ConfirmRemoved(task.id),
          Continue([task EXCEPT !.stage = "purge", !.gen = @ + 1]),
          LeftPending(task))

(* Again and again until the row is gone.                                  *)
PurgeRemoval ==
    Write("purge", MayPurge(task.id, task.gen), PurgeBatch(task.id),
          IF rows[task.id].cache = 0 THEN Finish("removed", task, TRUE)
          ELSE Continue(task),
          LeftPending(task))

(* The writer's queue is full: the next stage is not submitted.            *)
WriteBusy ==
    /\ phase = "up" /\ task.stage \in DatabaseStages \ {"persist"}
    /\ Failed(task) /\ Fault
    /\ UNCHANGED <<rows, keyring, open, todo, recovery, targets, phase>>

Replied(stage) == phase = "up" /\ task.stage = stage /\ task.reply # "none"

TakeReply(stage, next) ==
    /\ Replied(stage)
    /\ next /\ NoFault
    /\ UNCHANGED <<rows, keyring, open, todo, recovery, targets, phase>>

StoreReplied_Hopes == TakeReply("store",
    IF task.reply \in {"done", "closed"} THEN Finish("configured", task, TRUE)
    ELSE LeftPending(task))

StoreReplied_Waits ==
    /\ task.reply # "closed"
    /\ TakeReply("store", IF task.reply = "done" THEN Finish("configured", task, TRUE)
                          ELSE LeftPending(task))

StoreReplied == TakeReply("store",
    IF task.reply = "done" THEN Finish("configured", task, TRUE)
    ELSE LeftPending(task))

DeleteReplied_Confirms == TakeReply("delete",
    IF task.reply # "closed" THEN Continue([task EXCEPT !.stage = "confirm"])
    ELSE LeftPending(task))

(* Deleted or AlreadyMissing, nothing else, lets the removal go on.        *)
DeleteReplied == TakeReply("delete",
    IF task.reply = "done" THEN Continue([task EXCEPT !.stage = "confirm"])
    ELSE LeftPending(task))

-----------------------------------------------------------------------------
(* Diagnostics and background syncs                                        *)

BeginDiagnosticStage ==
    Write("begin_diagnostic",
          MayBeginDiagnostic(task.id, task.gen), BeginDiagnostic(task.id),
          Submit("load", [task EXCEPT !.stage = "load_secret"]), Failed(task))

SecretLoaded == TakeReply("load_secret",
    IF task.reply = "done" THEN Continue([task EXCEPT !.stage = "probe"])
    ELSE Failed(task))

(* The server answers, or the user is gone and nothing is recorded.        *)
Probed ==
    /\ phase = "up" /\ task.stage = "probe"
    /\ Continue([task EXCEPT !.stage = "record"]) \/ Continue(Idle)
    /\ NoFault
    /\ UNCHANGED <<rows, keyring, open, todo, recovery, targets, phase>>

(* The slot is ours since BeginDiagnostic: the epoch is still the last.    *)
RecordDiagnosticStage ==
    Write("record",
          MayRecordDiagnostic(task.id, task.gen, rows[task.id].epoch),
          UNCHANGED rows, Finish("diagnosed", task, FALSE), Failed(task))

StartBackground(a, g) ==
    /\ phase = "up" /\ recovery = "complete" /\ task = Idle
    /\ <<a, g>> \in targets
    /\ IF Fenced(a, g)
       THEN Submit("load", [Idle EXCEPT !.stage = "background", !.id = a,
                                        !.gen = g, !.key = rows[a].key])
       ELSE Continue(Idle)
    /\ NoFault
    /\ UNCHANGED <<rows, keyring, open, todo, recovery, targets, phase>>

BackgroundEnds ==
    /\ Replied("background")
    /\ Continue(Idle) /\ NoFault
    /\ UNCHANGED <<rows, keyring, open, todo, recovery, targets, phase>>

LoadTargets ==
    /\ phase = "up" /\ recovery = "complete" /\ task = Idle /\ reload
    /\ targets' = SyncTargets /\ reload' = FALSE
    /\ answer' = NoAnswer /\ NoFault
    /\ UNCHANGED <<rows, keyring, queue, open, task, todo, recovery, phase>>

-----------------------------------------------------------------------------
(* The credential worker                                                   *)

Awaited(r) == r.live /\ task.stage \in CredentialStages

Reply(r, result) ==
    task' = IF Awaited(r) THEN [task EXCEPT !.reply = result] ELSE task

(* It skips a load nobody waits for, never a store or a delete.            *)
Executed(r, ok) ==
    CASE r.op = "store"  -> ok /\ keyring' = [keyring EXCEPT ![r.key] = r.secret]
      [] r.op = "delete" -> ok /\ keyring' = [keyring EXCEPT ![r.key] = NoSecret]
      [] r.op = "load"   -> UNCHANGED keyring /\ ok = (keyring[r.key] # NoSecret)

Worker ==
    /\ queue # <<>>
    /\ queue' = Tail(queue)
    /\ LET r == Head(queue) IN
       IF r.op = "load" /\ ~r.live
       THEN UNCHANGED <<keyring, task>>
       ELSE \E ok \in BOOLEAN :
              Executed(r, ok) /\ Reply(r, IF ok THEN "done" ELSE "failed")
    /\ answer' = NoAnswer /\ NoFault
    /\ UNCHANGED <<rows, open, todo, recovery, targets, reload, phase>>

(* The service fails, with or without having done what it was asked.       *)
WorkerFails ==
    /\ queue # <<>> /\ Fault
    /\ queue' = Tail(queue)
    /\ Reply(Head(queue), "failed")
    /\ \/ UNCHANGED keyring
       \/ Head(queue).op # "load" /\ Executed(Head(queue), TRUE)
    /\ answer' = NoAnswer
    /\ UNCHANGED <<rows, open, todo, recovery, targets, reload, phase>>

(* A panic, or a thread that cannot be spawned: the actor is closed for    *)
(* the rest of the session.                                                *)
WorkerPanics ==
    /\ open /\ open' = FALSE /\ Fault
    /\ queue' = <<>>
    /\ task' = IF task.stage \in CredentialStages /\ task.reply = "none"
               THEN [task EXCEPT !.reply = "closed"] ELSE task
    /\ answer' = NoAnswer
    /\ UNCHANGED <<rows, keyring, todo, recovery, targets, reload, phase>>

-----------------------------------------------------------------------------
(* Recovery at the start                                                   *)

Tickets(state, stage) ==
    {[id |-> a, gen |-> rows[a].gen, stage |-> stage] : a \in Pending(state)}

Scan(from, state, stage, to) ==
    /\ phase = "up" /\ recovery = from /\ task = Idle
    /\ todo' = todo \cup Tickets(state, stage)
    /\ recovery' = to
    /\ answer' = NoAnswer /\ NoFault
    /\ UNCHANGED <<rows, keyring, queue, open, task, targets, reload, phase>>

ScanCredentials ==
    Scan("scan_credentials", "removing_credentials", "delete", "scan_cache")

ScanCache_Skips ==
    Scan("scan_cache", "removing_credentials", "delete", "queued")

ScanCache == Scan("scan_cache", "removing_cache", "purge", "queued")

(* What the first scan found comes first, and each scan is in the order of *)
(* the ids.                                                                *)
Precedes(t, u) ==
    (t.stage = "delete" /\ u.stage = "purge") \/ (t.stage = u.stage /\ t.id < u.id)

RecoveryDone ==
    /\ todo = {} /\ recovery' = "complete" /\ Continue(Idle) /\ UNCHANGED todo

ResumeRemoval(t) ==
    LET r == [Idle EXCEPT !.stage = t.stage, !.id = t.id, !.gen = t.gen,
                          !.key = rows[t.id].key]
    IN  /\ \A u \in todo : ~Precedes(u, t)
        /\ todo' = todo \ {t}
        /\ IF t.stage = "delete" THEN Submit("delete", r) ELSE Continue(r)
        /\ UNCHANGED recovery

Resume ==
    /\ phase = "up" /\ recovery = "queued" /\ task = Idle
    /\ RecoveryDone \/ \E t \in todo : ResumeRemoval(t)
    /\ NoFault
    /\ UNCHANGED <<rows, keyring, open, targets, phase>>

-----------------------------------------------------------------------------
(* The rest of the program, and its end                                    *)

(* The composer queues mail of an active account; it is sent or given up.  *)
QueueOrSettleMail(a) ==
    /\ phase = "up"
    /\ Exists(a) /\ (rows[a].state = "active" \/ rows[a].undelivered)
    /\ rows' = [rows EXCEPT ![a].undelivered = ~@]
    /\ answer' = NoAnswer /\ NoFault
    /\ UNCHANGED <<keyring, queue, open, task, todo, recovery, targets, reload, phase>>

GrowCache(a) ==
    /\ phase = "up" /\ Exists(a)
    /\ rows[a].state = "active" /\ rows[a].cache < MaxCache
    /\ rows' = [rows EXCEPT ![a].cache = @ + 1]
    /\ answer' = NoAnswer /\ NoFault
    /\ UNCHANGED <<keyring, queue, open, task, todo, recovery, targets, reload, phase>>

(* The core drops its tasks; the credential actor and then the database    *)
(* drain what they accepted.  A failed recovery scan ends the core too.    *)
Shutdown ==
    /\ phase = "up" /\ phase' = "draining"
    /\ task' = IF task.stage \in DatabaseStages THEN task ELSE Idle
    /\ queue' = [i \in DOMAIN queue |-> [queue[i] EXCEPT !.live = FALSE]]
    /\ answer' = NoAnswer /\ Fault
    /\ UNCHANGED <<rows, keyring, open, todo, recovery, targets, reload>>

Restart ==
    /\ phase = "draining" /\ queue = <<>> /\ task = Idle
    /\ Started
    /\ UNCHANGED <<rows, keyring, faults>>

Crash ==
    /\ faults < MaxFaults /\ faults' = faults + 1
    /\ Started
    /\ UNCHANGED <<rows, keyring>>

-----------------------------------------------------------------------------

UserRequest ==
    \/ \E k \in Locators, s \in Secrets :
         \/ Setup(NoAccount, 0, k, s)
         \/ \E a \in Ids, g \in 1..MaxGen : Setup(a, g, k, s)
    \/ \E a \in Ids, g \in 1..MaxGen, s \in Secrets : RetryCredential(a, g, s)
    \/ \E a \in Ids, g \in 1..MaxGen : Diagnose(a, g) \/ RemoveAccount(a, g)

TaskStep ==
    \/ LoadRetry \/ LoadDiagnostic \/ LoadRemoval
    \/ PersistLocator \/ BeginRemovalStage \/ ConfirmRemoval \/ PurgeRemoval
    \/ StoreReplied \/ DeleteReplied
    \/ BeginDiagnosticStage \/ SecretLoaded \/ Probed \/ RecordDiagnosticStage
    \/ BackgroundEnds

RecoveryStep == ScanCredentials \/ ScanCache \/ Resume

Next ==
    \/ UserRequest \/ TaskStep \/ RecoveryStep \/ LoadTargets \/ Worker
    \/ \E a \in Ids : QueueOrSettleMail(a) \/ GrowCache(a)
    \/ \E a \in Ids, g \in 1..MaxGen : StartBackground(a, g)
    \/ LoadFails \/ WriteBusy \/ WorkerFails \/ WorkerPanics
    \/ Shutdown \/ Restart \/ Crash

Spec == Init /\ [][Next]_accountVars

(* The core polls its task and its recovery, the worker takes what is      *)
(* queued, a probe times out, and a stopped program is started again.      *)
Fairness ==
    /\ WF_accountVars(TaskStep) /\ WF_accountVars(RecoveryStep)
    /\ WF_accountVars(Worker) /\ WF_accountVars(Restart)

FairSpec == Spec /\ Fairness

-----------------------------------------------------------------------------

(* A keyring item is named by a row that has not passed its deletion.      *)
NoOrphanSecret ==
    \A k \in Locators : keyring[k] # NoSecret =>
        \E a \in Existing : rows[a].key = k /\ rows[a].state # "removing_cache"

(* The state has its types, and there is no secret without an account that *)
(* leads to it, whatever is interrupted: what setup stores, removal or the *)
(* next start can still find and delete.                                   *)
SecretsHaveOwners == TypeOK /\ NoOrphanSecret

(* Configured accounts have the secret that was typed, removed ones        *)
(* neither a row nor a secret.                                             *)
AnswersAreTrue ==
    /\ answer.kind = "configured" =>
          /\ Fenced(answer.id, answer.gen)
          /\ rows[answer.id].key = answer.key
          /\ keyring[answer.key] = answer.secret
    /\ answer.kind = "removed" =>
          /\ ~Exists(answer.id)
          /\ answer.key # NoKey => keyring[answer.key] = NoSecret

(* A failure after the first commit names the fence a retry needs.         *)
FailureNamesFence ==
    answer.kind = "failed" /\ answer.stage \in {"store", "delete", "confirm", "purge"}
        => Fenced(answer.id, answer.gen)

(* The user is told the truth: what an outcome of the workflows claims is  *)
(* so when it is given, and a failure half way leaves a way to go on.      *)
UserIsToldTheTruth == AnswersAreTrue /\ FailureNamesFence

(* Recovery without a failure finishes every removal it found.             *)
NothingPending == Pending("removing_credentials") \cup Pending("removing_cache") = {}

RecoveryEnds == recovery = "queued" /\ recovery' = "complete" /\ clean'

NothingLeftBehind == [][RecoveryEnds => NothingPending]_accountVars

(* The accounts that are synchronised are those that are set up, or will   *)
(* be as soon as the slot is free.                                         *)
TargetsFollowAccounts ==
    phase = "up" /\ recovery = "complete" /\ task = Idle =>
        reload \/ targets = SyncTargets

(* The one slot is given back, and recovery ends.                          *)
SlotIsFreed == []<>(task = Idle)

RecoveryCompletes == []<>(recovery = "complete")
=============================================================================
