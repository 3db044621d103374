------------------------------- MODULE Outbox -------------------------------
(***************************************************************************)
(* Sending mail: the composer (core/compose.rs) that saves a draft and     *)
(* queues it, the one outbox driver (core/outbox_driver.rs) that recovers  *)
(* what a crash left behind, claims the next row, submits it over SMTP     *)
(* (network/smtp.rs) and reports the result, the file janitor, the user    *)
(* and the SMTP server, over the tables of OutboxStore.                    *)
(*                                                                         *)
(* A step of the driver or of the composer is what it does between two     *)
(* awaits: one transaction, one file operation, or one exchange with the   *)
(* server.  Everything else interleaves with it.                           *)
(***************************************************************************)
EXTENDS OutboxStore

CONSTANTS
    RecoveryBatch,    \* RECOVERY_BATCH       (16 in the code)
    MinRetryDelay,    \* MIN_RETRY_DELAY_MS   (30 s in the code)
    MaxRetryDelay,    \* MAX_RETRY_DELAY_MS   (1 h in the code)
    MaxStops,         \* bound of the model: shutdowns and crashes
    MaxFaults         \* bound of the model: failed transactions, file errors

ASSUME DriverAssumption ==
    /\ RecoveryBatch \in Nat \ {0}
    /\ {MinRetryDelay, MaxRetryDelay} \subseteq Nat \ {0}
    /\ {MaxStops, MaxFaults} \subseteq Nat

VARIABLES
    files,    \* content of each artifact on disk: a draft revision, or NoFile
    ui,       \* the compose operation the core loop is awaiting
    pc,       \* where the driver is
    budget,   \* recovery steps left in the driver's batch
    work,     \* the reservation or claim in the driver's hands
    verdict,  \* what the driver has learnt about its work
    copies,   \* copies the server accepted since the user last let go of it
    vouched,  \* messages the user declared delivered
    stops,
    faults

driverVars == <<pc, budget, work, verdict>>
ghostVars  == <<copies, vouched>>
boundVars  == <<stops, faults>>
vars == <<account, draft, outbox, fileGc, files, ui, pc, budget, work, verdict,
          copies, vouched, stops, faults>>

-----------------------------------------------------------------------------

NoFile == -1

Work == [msg : Messages \cup {NoMessage}, gen : 1..MaxGeneration,
         rev : 0..MaxRevision, key : Keys \cup {NoKey},
         epoch : 0..MaxEpoch, attempts : 0..MaxAttempts]

NoWork == [msg |-> NoMessage, gen |-> 1, rev |-> 0, key |-> NoKey,
           epoch |-> 0, attempts |-> 0]

Compose == [pc  : {"idle", "reserve", "publish", "finalize"},
            msg : Messages \cup {NoMessage}, gen : 1..MaxGeneration,
            rev : 0..MaxRevision, key : Keys \cup {NoKey}]

NoCompose == [pc |-> "idle", msg |-> NoMessage, gen |-> 1, rev |-> 0,
              key |-> NoKey]

(* Control points at which the driver holds nothing, a reservation, or a   *)
(* claim.                                                                  *)
FreePoints == {"down", "recover", "claim", "idle"}
ReservationPoints == {"observe", "resolve", "load_draft", "rebuild"}
ClaimPoints == {"credential", "connect", "fence", "fenced", "body", "quit",
                "report"}

Observations == {"missing", "published", "invalid"}
Reports == {"delivered", "retry", "retry_after_rejection",
            "permanent_failure", "uncertain"}

TypeOK ==
    /\ StoreTypeOK
    /\ files \in [Keys -> 0..MaxRevision \cup {NoFile}]
    /\ ui \in Compose
    /\ pc \in FreePoints \cup ReservationPoints \cup ClaimPoints
    /\ budget \in 0..RecoveryBatch
    /\ work \in Work
    /\ verdict \in {"none"} \cup Observations \cup Reports
    /\ copies \in [Messages -> Nat]
    /\ vouched \subseteq Messages
    /\ stops \in 0..MaxStops
    /\ faults \in 0..MaxFaults

Init ==
    /\ StoreInit
    /\ files = [k \in Keys |-> NoFile]
    /\ ui = NoCompose
    /\ pc = "recover" /\ budget = RecoveryBatch
    /\ work = NoWork /\ verdict = "none"
    /\ copies = [m \in Messages |-> 0]
    /\ vouched = {}
    /\ stops = 0 /\ faults = 0

-----------------------------------------------------------------------------
(* Helpers.                                                                *)

(* A 128-bit random token: the key is one nobody has any trace of.         *)
FreshKeys ==
    {k \in Keys \ (fileGc \cup {ui.key, work.key}) :
        files[k] = NoFile /\ \A m \in Messages : outbox[m].key # k}

Least(a, b) == IF a <= b THEN a ELSE b

PowersOfTwo == <<1, 2, 4, 8, 16, 32, 64, 128>>

RetryDelay(attempts) ==
    LET shift == IF attempts = 0 THEN 0 ELSE Least(attempts - 1, 7)
    IN  Least(MinRetryDelay * PowersOfTwo[shift + 1], MaxRetryDelay)

(* The driver goes to a point that needs no work in hand.                  *)
Drop(point) == /\ pc' = point
               /\ budget' = IF point = "recover" THEN RecoveryBatch ELSE 0
               /\ work' = NoWork
               /\ verdict' = "none"

(* The next round of the recovery batch.                                   *)
NextRecovery == /\ pc' = "recover" /\ work' = NoWork /\ verdict' = "none"
                /\ UNCHANGED budget

GoTo(point) == pc' = point /\ UNCHANGED <<budget, work, verdict>>

Conclude(point, v) == /\ pc' = point /\ verdict' = v
                      /\ UNCHANGED <<budget, work>>

(* The process ends, by a shutdown or a crash.                             *)
Stop == stops < MaxStops /\ stops' = stops + 1 /\ UNCHANGED faults

(* A transaction or a file operation fails and changes nothing.            *)
Fault == faults < MaxFaults /\ faults' = faults + 1 /\ UNCHANGED stops

-----------------------------------------------------------------------------
(* The composer.  The core loop awaits one compose operation at a time.    *)

ComposeIdle == ui.pc = "idle"

SaveDraft(m) == CreateDraft(m) \/ UpdateDraft(m)

(* ComposeOperation::SaveAndClose                                          *)
SaveAndClose(m) ==
    /\ ComposeIdle
    /\ SaveDraft(m)
    /\ UNCHANGED <<files, ui, driverVars, ghostVars, boundVars>>

(* ComposeOperation::Queue, step by step.                                  *)
QueueSave(m) ==
    /\ ComposeIdle
    /\ account[AccountOf[m]].smtp
    /\ SaveDraft(m)
    /\ ui' = [pc |-> "reserve", msg |-> m, gen |-> account[AccountOf[m]].gen,
              rev |-> draft'[m].rev, key |-> NoKey]
    /\ UNCHANGED <<files, driverVars, ghostVars, boundVars>>

QueueReserve ==
    /\ ui.pc = "reserve"
    /\ \E k \in FreshKeys :
         LET r == [msg |-> ui.msg, gen |-> ui.gen, rev |-> ui.rev, key |-> k]
         IN  IF CanReserve(r)
             THEN /\ ReserveOutbox(r)
                  /\ ui' = [ui EXCEPT !.pc = "publish", !.key = k]
             ELSE ui' = NoCompose /\ UNCHANGED storeVars
    /\ UNCHANGED <<files, driverVars, ghostVars, boundVars>>

(* stage_writer_at, then a hard link that fails when the file is there.    *)
QueuePublish ==
    /\ ui.pc = "publish"
    /\ IF files[ui.key] = NoFile
       THEN /\ files' = [files EXCEPT ![ui.key] = ui.rev]
            /\ ui' = [ui EXCEPT !.pc = "finalize"]
       ELSE ui' = NoCompose /\ UNCHANGED files
    /\ UNCHANGED <<storeVars, driverVars, ghostVars, boundVars>>

QueueFinalize ==
    /\ ui.pc = "finalize"
    /\ FinalizeOutbox(ui)
    /\ ui' = NoCompose
    /\ UNCHANGED <<files, driverVars, ghostVars, boundVars>>

(* Any step of it fails: the reply is an error, or "Recovering" once the   *)
(* reservation is durable.                                                 *)
QueueFault ==
    /\ ~ComposeIdle
    /\ Fault
    /\ ui' = NoCompose
    /\ UNCHANGED <<storeVars, files, driverVars, ghostVars>>

Retry(m) ==
    /\ ComposeIdle
    /\ RetryOutbox(m)
    /\ UNCHANGED <<files, ui, driverVars, ghostVars, boundVars>>

ReleaseFailed(m) ==
    /\ ComposeIdle
    /\ ReleaseFailedOutbox(m)
    /\ UNCHANGED <<files, ui, driverVars, ghostVars, boundVars>>

(* The user takes an uncertain message back, and with it the possibility   *)
(* that a copy of it is already out.                                       *)
ReleaseUncertain(m) ==
    /\ ComposeIdle
    /\ ReleaseUncertainOutbox(m)
    /\ copies' = [copies EXCEPT ![m] = 0]
    /\ UNCHANGED <<files, ui, driverVars, vouched, boundVars>>

Vouch(m) ==
    /\ ComposeIdle
    /\ AssumeDelivered(m)
    /\ vouched' = vouched \cup {m}
    /\ UNCHANGED <<files, ui, driverVars, copies, boundVars>>

Star(m) ==
    /\ SetStarred(m)
    /\ UNCHANGED <<files, ui, driverVars, ghostVars, boundVars>>

AccountChange(a) ==
    /\ UpdateAccount(a) \/ SetAccountEnabled(a) \/ BeginAccountRemoval(a)
    /\ UNCHANGED <<files, ui, driverVars, ghostVars, boundVars>>

-----------------------------------------------------------------------------
(* The driver: recovery.                                                   *)

(* recover_outbox settled an expired lease, or found nothing to recover.   *)
RecoverStep ==
    /\ pc = "recover" /\ budget > 0
    /\ \/ /\ \E m \in Messages : RecoverLease(m)
          /\ budget' = budget - 1
          /\ UNCHANGED <<pc, work, verdict>>
       \/ /\ RecoveryIdle
          /\ Drop("claim")
          /\ UNCHANGED storeVars
    /\ UNCHANGED <<files, ui, ghostVars, boundVars>>

(* recover_outbox handed out an expired reservation.                       *)
RecoverReservation ==
    /\ pc = "recover" /\ budget > 0
    /\ \E m \in First(Expired("reserved")) :
         work' = [NoWork EXCEPT !.msg = m, !.gen = outbox[m].gen,
                                !.rev = outbox[m].rev, !.key = outbox[m].key]
    /\ pc' = "observe" /\ budget' = budget - 1
    /\ UNCHANGED <<verdict, storeVars, files, ui, ghostVars, boundVars>>

RecoveryDone ==
    /\ pc = "recover" /\ budget = 0
    /\ Drop("claim")
    /\ UNCHANGED <<storeVars, files, ui, ghostVars, boundVars>>

(* Mutant: the artifact of a reservation is taken to be there.             *)
ObserveArtifact_Trusts ==
    /\ pc = "observe"
    /\ Conclude("resolve", "published")
    /\ UNCHANGED <<storeVars, files, ui, ghostVars, boundVars>>

ObserveArtifact ==
    /\ pc = "observe"
    /\ Conclude("resolve",
                IF files[work.key] = NoFile THEN "missing" ELSE "published")
    /\ UNCHANGED <<storeVars, files, ui, ghostVars, boundVars>>

(* recover_reservation_record and what the driver does with its outcome.   *)
ResolveReservation ==
    /\ pc = "resolve"
    /\ \/ /\ verdict = "published"
          /\ FinalizeOutbox(work)
          /\ IF FinalizeOutcome(work) = "failure" THEN Drop("claim")
                                                  ELSE NextRecovery
       \/ /\ verdict = "missing"
          /\ RenewReservation(work)
          /\ IF HoldsReservation(work) THEN GoTo("load_draft")
                                       ELSE NextRecovery
       \/ /\ verdict = "invalid"
          /\ InvalidateReservation(work)
          /\ NextRecovery
    /\ UNCHANGED <<files, ui, ghostVars, boundVars>>

LoadDraft ==
    /\ pc = "load_draft"
    /\ IF draft[work.msg].folder = "drafts" /\ draft[work.msg].locked
          /\ draft[work.msg].rev = work.rev
       THEN GoTo("rebuild")
       ELSE Conclude("resolve", "invalid")
    /\ UNCHANGED <<storeVars, files, ui, ghostVars, boundVars>>

(* The account is read, the MIME is written again from the draft and       *)
(* linked under the reserved key, without an await in between.             *)
RebuildArtifact ==
    /\ pc = "rebuild"
    /\ IF ~SendableAt(work.msg, work.gen)
       THEN Conclude("resolve", "invalid") /\ UNCHANGED files
       ELSE IF files[work.key] = NoFile
       THEN /\ files' = [files EXCEPT ![work.key] = work.rev]
            /\ Conclude("resolve", "published")
       ELSE Drop("claim") /\ UNCHANGED files
    /\ UNCHANGED <<storeVars, ui, ghostVars, boundVars>>

-----------------------------------------------------------------------------
(* The driver: claiming and waiting.                                       *)

(* Mutant: the claim is handed out with the epoch read before the update.  *)
ClaimNext_OldEpoch ==
    /\ pc = "claim"
    /\ \E T \in SUBSET Candidates, m \in Candidates :
         /\ ClaimOutbox(T, m)
         /\ work' = [NoWork EXCEPT !.msg = m, !.gen = outbox[m].gen,
                                   !.key = outbox[m].key,
                                   !.epoch = outbox[m].epoch]
    /\ pc' = "credential"
    /\ UNCHANGED <<budget, verdict, files, ui, ghostVars, boundVars>>

ClaimNext ==
    /\ pc = "claim"
    /\ \E T \in SUBSET Candidates :
         \/ /\ ClaimIdle(T)
            /\ Drop("idle")
         \/ \E m \in Candidates \ T :
              /\ ClaimOutbox(T, m)
              /\ work' = [NoWork EXCEPT
                            !.msg = m, !.gen = outbox[m].gen,
                            !.key = outbox[m].key,
                            !.epoch = outbox'[m].epoch,
                            !.attempts = outbox'[m].attempts]
              /\ pc' = "credential"
              /\ UNCHANGED <<budget, verdict>>
    /\ UNCHANGED <<files, ui, ghostVars, boundVars>>

(* A wake-up, the deadline the store named, or the 30 s poll.              *)
Wake ==
    /\ pc = "idle"
    /\ Drop("recover")
    /\ UNCHANGED <<storeVars, files, ui, ghostVars, boundVars>>

(* Shutdown is noticed at the head of the loop or while waiting; an active *)
(* submission is cancelled and reported first.                             *)
Shutdown ==
    /\ \/ pc = "recover" /\ budget = RecoveryBatch
       \/ pc = "idle"
    /\ Stop
    /\ Drop("down")
    /\ UNCHANGED <<storeVars, files, ui, ghostVars>>

(* A database or storage fault: recovery gives way to claiming, claiming   *)
(* waits, and a report is given up, leaving the lease to expire.           *)
DriverFault ==
    /\ pc \in {"recover", "claim", "report"} \cup ReservationPoints
    /\ Fault
    /\ Drop(CASE pc = "claim" -> "idle" [] pc = "report" -> "recover"
              [] OTHER -> "claim")
    /\ UNCHANGED <<storeVars, files, ui, ghostVars>>

-----------------------------------------------------------------------------
(* The driver: one submission.                                             *)

(* SmtpSubmissionFailureKind by the stage that can return it.  Up to the   *)
(* answer to DATA every kind but the last three; at the fence, a fence     *)
(* that did not apply or an interruption; after the fence, an explicit     *)
(* rejection or no usable answer.                                          *)
ConnectFailures == {"Retryable", "Timeout", "Cancelled", "Authentication",
                    "Permanent", "Certificate", "Protocol", "ResourceLimit",
                    "LocalFile"}
Interruptions == {"Timeout", "Cancelled"}
Rejections == {"TransientRejection", "Permanent"}

(* Mutant: no answer after the body counts as a rejection.                 *)
SmtpFailurePlan_RetriesDoubt(kind) ==
    IF kind \in {"Retryable", "Timeout", "Cancelled", "LocalState"}
    THEN "retry" ELSE "retry_after_rejection"

SmtpFailurePlan(kind) ==
    CASE kind \in {"Retryable", "Timeout", "Cancelled", "LocalState"} -> "retry"
      [] kind = "TransientRejection" -> "retry_after_rejection"
      [] kind = "Uncertain" -> "uncertain"
      [] OTHER -> "permanent_failure"

CredentialFailurePlan(kind) ==
    IF kind \in {"LockedOrDenied", "Unavailable"} THEN "retry"
                                                  ELSE "permanent_failure"

CredentialFailures == {"LockedOrDenied", "Unavailable", "Missing"}

FailWith(kind) == Conclude("report", SmtpFailurePlan(kind))

(* interrupted_failure: before the fence the kind itself, after it an      *)
(* uncertain result.                                                       *)
LoadCredential ==
    /\ pc = "credential"
    /\ \/ \E kind \in CredentialFailures :
            Conclude("report", CredentialFailurePlan(kind))
       \/ IF files[work.key] = NoFile
          THEN Conclude("report", "permanent_failure")
          ELSE GoTo("connect")
    /\ UNCHANGED <<storeVars, files, ui, ghostVars, boundVars>>

(* Connect, TLS, AUTH, MAIL FROM, RCPT TO and DATA up to its 354.          *)
Connect ==
    /\ pc = "connect"
    /\ \/ \E kind \in ConnectFailures : FailWith(kind)
       \/ GoTo("fence")
    /\ UNCHANGED <<storeVars, files, ui, ghostVars, boundVars>>

(* MarkDataStarted commits; its reply is still on the way.                 *)
CommitDataFence ==
    /\ pc = "fence"
    /\ IF CanMarkDataStarted(work)
       THEN MarkDataStarted(work) /\ GoTo("fenced")
       ELSE UNCHANGED storeVars /\ FailWith("LocalState")
    /\ UNCHANGED <<files, ui, ghostVars, boundVars>>

FenceFault ==
    /\ pc = "fence"
    /\ Fault
    /\ FailWith("LocalState")
    /\ UNCHANGED <<storeVars, files, ui, ghostVars>>

InterruptFence ==
    /\ pc \in {"fence", "fenced"}
    /\ \E kind \in Interruptions : FailWith(kind)
    /\ UNCHANGED <<storeVars, files, ui, ghostVars, boundVars>>

(* The reply arrives: body bytes may leave from here on.                   *)
StartBody ==
    /\ pc = "fenced"
    /\ GoTo("body")
    /\ UNCHANGED <<storeVars, files, ui, ghostVars, boundVars>>

Accept(m) == copies' = [copies EXCEPT ![m] = @ + 1]

BodyAccepted ==
    /\ pc = "body"
    /\ Accept(work.msg)
    /\ GoTo("quit")
    /\ UNCHANGED <<storeVars, files, ui, vouched, boundVars>>

BodyRejected ==
    /\ pc = "body"
    /\ \E kind \in Rejections : FailWith(kind)
    /\ UNCHANGED <<storeVars, files, ui, ghostVars, boundVars>>

(* Mutant: a connection lost after the body counts as a delivery.          *)
BodyLost_IsDelivery ==
    /\ pc = "body"
    /\ Accept(work.msg) \/ UNCHANGED copies
    /\ Conclude("report", "delivered")
    /\ UNCHANGED <<storeVars, files, ui, vouched, boundVars>>

(* Timeout, cancellation, a broken connection, an unreadable artifact or   *)
(* an answer that is neither 250 nor a rejection.  The server may accept   *)
(* all the same, at the latest by what was in transit when the client let  *)
(* go, so that acceptance is placed here.                                  *)
BodyLost ==
    /\ pc = "body"
    /\ Accept(work.msg) \/ UNCHANGED copies
    /\ FailWith("Uncertain")
    /\ UNCHANGED <<storeVars, files, ui, vouched, boundVars>>

(* QUIT runs inside the same timeout and under the same cancellation.      *)
Quit ==
    /\ pc = "quit"
    /\ Conclude("report", "delivered") \/ FailWith("Uncertain")
    /\ UNCHANGED <<storeVars, files, ui, ghostVars, boundVars>>

Report ==
    /\ pc = "report"
    /\ ReportOutbox(work, verdict, RetryDelay(work.attempts))
    /\ Drop("recover")
    /\ UNCHANGED <<files, ui, ghostVars, boundVars>>

-----------------------------------------------------------------------------
(* The file janitor removes one queued artifact, or forgets it when a row  *)
(* refers to it.                                                           *)

RunFileGc(k) ==
    /\ k \in fileGc
    /\ fileGc' = fileGc \ {k}
    /\ files' = IF \E m \in Messages : outbox[m].key = k
                THEN files ELSE [files EXCEPT ![k] = NoFile]
    /\ UNCHANGED <<account, draft, outbox, ui, driverVars, ghostVars, boundVars>>

(* The process dies: only the tables and the files remain.  Body bytes     *)
(* already sent may still become an accepted message.                      *)
Crash ==
    /\ Stop
    /\ IF pc = "body" THEN Accept(work.msg) \/ UNCHANGED copies
                      ELSE UNCHANGED copies
    /\ ui' = NoCompose
    /\ Drop("down")
    /\ UNCHANGED <<storeVars, files, vouched>>

Restart ==
    /\ pc = "down"
    /\ Drop("recover")
    /\ UNCHANGED <<storeVars, files, ui, ghostVars, boundVars>>

Tick == Elapse /\ UNCHANGED <<files, ui, driverVars, ghostVars, boundVars>>

-----------------------------------------------------------------------------

ComposeStep == QueueReserve \/ QueuePublish \/ QueueFinalize \/ QueueFault

Recovery == RecoverStep \/ RecoverReservation \/ RecoveryDone
            \/ ObserveArtifact \/ ResolveReservation \/ LoadDraft
            \/ RebuildArtifact

Submission == LoadCredential \/ Connect \/ CommitDataFence \/ FenceFault
              \/ InterruptFence \/ StartBody \/ BodyAccepted \/ BodyRejected
              \/ BodyLost \/ Quit \/ Report

DriverStep == Recovery \/ ClaimNext \/ Wake \/ DriverFault \/ Submission

UserStep == \/ \E m \in Messages :
                 \/ SaveAndClose(m) \/ QueueSave(m) \/ Retry(m) \/ Star(m)
                 \/ ReleaseFailed(m) \/ ReleaseUncertain(m) \/ Vouch(m)
            \/ \E a \in Accounts : AccountChange(a)

Environment == Shutdown \/ Crash \/ Restart \/ Tick

Next == \/ UserStep \/ ComposeStep \/ DriverStep \/ Environment
        \/ \E k \in Keys : RunFileGc(k)

Spec == Init /\ [][Next]_vars

(* The runtime polls its tasks, calls into the database, the keyring and   *)
(* the server are answered or time out, time passes, and a client that is  *)
(* down is started again.                                                  *)
Fairness == /\ WF_vars(DriverStep)
            /\ WF_vars(ComposeStep)
            /\ WF_vars(Tick)
            /\ WF_vars(Restart)

FairSpec == Spec /\ Fairness

-----------------------------------------------------------------------------
(* Safety.                                                                 *)

(* The server never holds two copies of a message unless the user took an  *)
(* uncertain one back in between: attempts that may have succeeded are not *)
(* repeated by the outbox itself (roadmap.md, M5).                         *)
AtMostOneCopy == \A m \in Messages : copies[m] <= 1

(* A row the driver or the user can send again, and a row still waiting    *)
(* for its artifact, has no copy at the server.                            *)
SendableRowsAreNotOut ==
    \A m \in Messages :
        outbox[m].state \in {"reserved", "ready", "retry_wait",
                            "permanent_failure"} => copies[m] = 0

(* A message shown in Sent was accepted once, unless the user vouched for  *)
(* it: no failure path files a message that never left.                    *)
SentIsAccepted ==
    \A m \in Messages :
        draft[m].folder = "sent" /\ m \notin vouched => copies[m] = 1

(* Whenever body bytes may be on the wire the durable fence is already     *)
(* set, under the lease the driver holds: a crash at any such moment is    *)
(* recovered as uncertain, never as ready.                                 *)
FenceBeforeBytes ==
    pc \in {"body", "quit"} =>
        HoldsLease(work) /\ outbox[work.msg].started

(* Recovery never takes a lease from under the driver that works on it,    *)
(* however long the keyring or the server keeps it waiting: its report is  *)
(* never stale.                                                            *)
ReportIsNeverStale == pc \in ClaimPoints => HoldsLease(work)

(* A row that went through finalization has its artifact on disk, written  *)
(* from the revision the user queued, through rebuilds, flag changes of    *)
(* the draft and janitor runs.                                             *)
ArtifactMatchesRevision ==
    \A m \in Messages :
        outbox[m].wire => files[outbox[m].key] = outbox[m].rev

(* A draft is locked exactly while a row owns it: no path leaves a draft   *)
(* locked for good or lets the user edit one that is being sent.           *)
LockMatchesRow ==
    \A m \in Messages : draft[m].locked <=> outbox[m].state # "absent"

(* One attempt at a time over all accounts, across crashes and faults that *)
(* abandon a lease.                                                        *)
SingleFlight ==
    \A m, n \in Messages :
        outbox[m].state = "in_flight" /\ outbox[n].state = "in_flight" => m = n

(* The capacity triggers hold on every path into an active state, the      *)
(* user's retry and the late finalization of a reservation included.       *)
CapacityRespected ==
    /\ Cardinality(Rows) <= MaxRows
    /\ Cardinality(ActiveRows) <= MaxActive
    /\ MapThenSumSet(LAMBDA n : Size[n], {n \in ActiveRows : outbox[n].wire})
         <= MaxActiveBytes

-----------------------------------------------------------------------------
(* Action properties.                                                      *)

(* An uncertain row is left alone until the user resolves it.              *)
UncertainWaitsForUser ==
    [][\A m \in Messages :
         outbox[m].state = "uncertain" =>
            \/ outbox'[m] = outbox[m]
            \/ outbox'[m].state = "absent" /\ ui.pc = "idle"]_vars

(* While a row keeps its artifact, no two of its attempts share a claim    *)
(* epoch, so a report of one cannot pass for a report of another; the      *)
(* user's retry does not start the epochs again.                           *)
LeasesAreDistinct ==
    [][\A m \in Messages :
         outbox'[m].key = outbox[m].key /\ outbox[m].key # NoKey =>
            /\ outbox'[m].epoch >= outbox[m].epoch
            /\ outbox'[m].state = "in_flight" /\ outbox[m].state # "in_flight"
                  => outbox'[m].epoch > outbox[m].epoch]_vars

-----------------------------------------------------------------------------
(* Liveness.                                                               *)

(* A queued message does not stay in the machinery for ever: the attempts  *)
(* end in Sent, in a state the user is asked about, or back in Drafts.     *)
ActiveSettles ==
    \A m \in Messages :
        outbox[m].state \in ActiveStates ~> outbox[m].state \notin ActiveStates

(* "Once reserved, the durable drainer owns recovery" (core/compose.rs):   *)
(* it brings every reservation out of the reserved state.                  *)
ReservationResolves ==
    \A m \in Messages :
        outbox[m].state = "reserved" ~> outbox[m].state # "reserved"

-----------------------------------------------------------------------------
(* The outbox implements Delivery.                                         *)

Status(m) ==
    LET row == outbox[m]
    IN  CASE draft[m].folder = "sent" -> "sent"
          [] row.state = "absent" /\ draft[m].folder # "sent" -> "draft"
          [] row.state = "in_flight" /\ row.started -> "sending"
          [] row.state = "uncertain" -> "unknown"
          [] row.state = "permanent_failure" -> "failed"
          [] OTHER -> "queued"

Promise == INSTANCE Delivery
             WITH status <- [m \in Messages |-> Status(m)]

(* Every step of the rows, the driver, the server, the user and the        *)
(* crashes is a step Delivery allows: in particular nothing but the user   *)
(* leads from an unknown outcome to another attempt.                       *)
ImplementsDelivery == Promise!Spec
=============================================================================
