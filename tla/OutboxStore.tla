---------------------------- MODULE OutboxStore ----------------------------
(***************************************************************************)
(* The durable outbox of the mail client: the rows of the SQLite tables    *)
(* outbox, local_drafts, accounts and file_gc, and the transactions that   *)
(* mail/src/store/sqlite/outbox.rs, draft.rs, account.rs and mutation.rs   *)
(* run on them.  The writer actor runs one transaction at a time, so each  *)
(* transaction is one atomic operator here: an outcome the caller gets and *)
(* an action on the tables.                                                *)
(*                                                                         *)
(* Time is relative: the "due" column of a row is the distance from now to *)
(* its reservation expiry, lease expiry or not_before, whichever its state *)
(* uses.  It never falls below -Past; rows whose deadlines passed longer   *)
(* ago than that are met in either order.                                  *)
(***************************************************************************)
EXTENDS Integers, FiniteSets, FiniteSetsExt

CONSTANTS
    Messages,         \* local messages that can be composed and sent
    Accounts,         \* configured mail accounts
    AccountOf,        \* the account of each message
    EditableAccounts, \* accounts whose settings the update operations touch
    Keys,             \* outbound/<token>.eml keys; a token is never reused
    NoMessage,        \* no message, no work in hand
    NoKey,            \* a row that has no artifact
    Size,             \* bytes of the MIME artifact of each message
    MaxGeneration,    \* largest configuration_generation (2^63-1 in the code)
    MaxRevision,      \* largest messages.revision        (2^63-1 in the code)
    MaxEpoch,         \* largest claim_epoch              (2^63-1 in the code)
    MaxAttempts,      \* MAX_DELIVERY_ATTEMPTS            (1000 in the code)
    MaxClaimScan,     \* MAX_CLAIM_SCAN                   (32 in the code)
    MaxActive,        \* enforce_outbox_active_count_*    (128 in the code)
    MaxRows,          \* enforce_outbox_total_limit       (256 in the code)
    MaxActiveBytes,   \* enforce_outbox_active_byte_limit (128 MiB in the code)
    ReservationTTL,   \* MAX_RESERVATION_TTL_MS           (15 min in the code)
    ClaimTTL,         \* CLAIM_TTL_MS                     (5 min in the code)
    Past              \* how far back elapsed deadlines are told apart

ASSUME EntitiesAssumption ==
    /\ NoMessage \notin Messages
    /\ NoKey \notin Keys
    /\ AccountOf \in [Messages -> Accounts]
    /\ EditableAccounts \subseteq Accounts
    /\ Size \in [Messages -> Nat]

ASSUME LimitsAssumption ==
    /\ MaxGeneration \in Nat \ {0}
    /\ {MaxRevision, MaxEpoch, MaxAttempts, MaxClaimScan} \subseteq Nat
    /\ {MaxActive, MaxRows, MaxActiveBytes, Past} \subseteq Nat
    /\ {ReservationTTL, ClaimTTL} \subseteq Nat \ {0}

VARIABLES
    account,  \* accounts and account_connections
    draft,    \* messages, local_drafts and message_folders of local messages
    outbox,   \* the outbox table; at most one row per message
    fileGc    \* file_gc: artifact keys queued for removal

storeVars == <<account, draft, outbox, fileGc>>

-----------------------------------------------------------------------------

RowStates == {"absent", "reserved", "ready", "in_flight", "retry_wait",
              "uncertain", "permanent_failure"}

(* The states the capacity triggers of migration 0012 count as active.     *)
ActiveStates == {"reserved", "ready", "in_flight", "retry_wait"}

Row == [state    : RowStates,
        gen      : 1..MaxGeneration,
        rev      : 0..MaxRevision,
        key      : Keys \cup {NoKey},
        wire     : BOOLEAN,            \* wire_byte_count IS NOT NULL
        attempts : 0..MaxAttempts,
        epoch    : 0..MaxEpoch,
        due      : Int,
        started  : BOOLEAN]            \* delivery_started

NoRow == [state |-> "absent", gen |-> 1, rev |-> 0, key |-> NoKey,
          wire |-> FALSE, attempts |-> 0, epoch |-> 0, due |-> 0,
          started |-> FALSE]

Account == [lifecycle : {"active", "disabled", "removing"},
            gen       : 1..MaxGeneration,
            smtp      : BOOLEAN]       \* smtp_state = 'configured'

(* "unsaved": the composer has no row yet.  artifact_generation is the     *)
(* constant 1, so locked_artifact_generation is only set or not.           *)
Draft == [folder : {"unsaved", "drafts", "sent"},
          rev    : 0..MaxRevision,
          locked : BOOLEAN]

StoreTypeOK ==
    /\ account \in [Accounts -> Account]
    /\ draft \in [Messages -> Draft]
    /\ outbox \in [Messages -> Row]
    /\ fileGc \subseteq Keys

StoreInit ==
    /\ account = [a \in Accounts |->
                    [lifecycle |-> "active", gen |-> 1, smtp |-> TRUE]]
    /\ draft = [m \in Messages |->
                    [folder |-> "unsaved", rev |-> 0, locked |-> FALSE]]
    /\ outbox = [m \in Messages |-> NoRow]
    /\ fileGc = {}

-----------------------------------------------------------------------------
(* Account facts the transactions join on.                                 *)

ActiveAt(m, gen) == /\ account[AccountOf[m]].lifecycle = "active"
                    /\ account[AccountOf[m]].gen = gen

SendableAt(m, gen) == ActiveAt(m, gen) /\ account[AccountOf[m]].smtp

(* The capacity triggers.                                                  *)
Rows == {m \in Messages : outbox[m].state # "absent"}
ActiveRows == {m \in Messages : outbox[m].state \in ActiveStates}

BytesFit(m) ==
    MapThenSumSet(LAMBDA n : Size[n],
                  {n \in ActiveRows : outbox[n].wire} \cup {m}) <= MaxActiveBytes

-----------------------------------------------------------------------------
(* Drafts.                                                                 *)

CreateDraft(m) ==
    /\ draft[m].folder = "unsaved"
    /\ account[AccountOf[m]].lifecycle = "active"
    /\ draft' = [draft EXCEPT ![m].folder = "drafts"]
    /\ UNCHANGED <<account, outbox, fileGc>>

UpdateDraft(m) ==
    /\ draft[m].folder = "drafts"
    /\ account[AccountOf[m]].lifecycle = "active"
    /\ ~draft[m].locked
    /\ draft[m].rev < MaxRevision
    /\ draft' = [draft EXCEPT ![m].rev = @ + 1]
    /\ UNCHANGED <<account, outbox, fileGc>>

(* A flag mutation advances the revision of any message, a locked draft    *)
(* included: unlike moves and deletions it does not look at the outbox.    *)
SetStarred(m) ==
    /\ draft[m].folder = "drafts"
    /\ draft[m].rev < MaxRevision
    /\ draft' = [draft EXCEPT ![m].rev = @ + 1]
    /\ UNCHANGED <<account, outbox, fileGc>>

-----------------------------------------------------------------------------
(* Reservations.  A reservation in a caller's hands is a record with the   *)
(* fields msg, gen, rev and key.                                           *)

CanReserve(r) ==
    /\ SendableAt(r.msg, r.gen)
    /\ draft[r.msg].folder = "drafts"
    /\ draft[r.msg].rev = r.rev
    /\ ~draft[r.msg].locked
    /\ outbox[r.msg].state = "absent"
    /\ Cardinality(Rows) < MaxRows
    /\ Cardinality(ActiveRows) < MaxActive

ReserveOutbox(r) ==
    /\ outbox' = [outbox EXCEPT ![r.msg] =
                    [NoRow EXCEPT !.state = "reserved", !.gen = r.gen,
                                  !.rev = r.rev, !.key = r.key,
                                  !.due = ReservationTTL]]
    /\ draft' = [draft EXCEPT ![r.msg].locked = TRUE]
    /\ fileGc' = fileGc \ {r.key}
    /\ UNCHANGED account

(* The fence of recover_reservation's own updates.                         *)
HoldsReservation(r) ==
    /\ outbox[r.msg].state = "reserved"
    /\ outbox[r.msg].gen = r.gen
    /\ outbox[r.msg].key = r.key

CanFinalize(r) ==
    /\ HoldsReservation(r)
    /\ outbox[r.msg].rev = r.rev
    /\ ActiveAt(r.msg, r.gen)
    /\ draft[r.msg].locked

FinalizeOutcome(r) ==
    IF ~CanFinalize(r) THEN "stale"
    ELSE IF BytesFit(r.msg) THEN "applied" ELSE "failure"

FinalizeOutbox(r) ==
    /\ outbox' = IF FinalizeOutcome(r) = "applied"
                 THEN [outbox EXCEPT ![r.msg] =
                           [@ EXCEPT !.state = "ready", !.wire = TRUE, !.due = 0]]
                 ELSE outbox
    /\ UNCHANGED <<account, draft, fileGc>>

(* recover_reservation with ArtifactObservation::Missing.                  *)
RenewReservation(r) ==
    /\ outbox' = IF HoldsReservation(r)
                 THEN [outbox EXCEPT ![r.msg].due = ReservationTTL]
                 ELSE outbox
    /\ UNCHANGED <<account, draft, fileGc>>

(* recover_reservation with ArtifactObservation::Invalid.                  *)
InvalidateReservation(r) ==
    /\ outbox' = IF HoldsReservation(r)
                 THEN [outbox EXCEPT ![r.msg] =
                           [@ EXCEPT !.state = "permanent_failure", !.due = 0]]
                 ELSE outbox
    /\ UNCHANGED <<account, draft, fileGc>>

-----------------------------------------------------------------------------
(* Recovery of expired rows.  Reservations are looked at first.            *)

Expired(state) ==
    {m \in Messages : outbox[m].state = state /\ outbox[m].due <= 0}

First(S) == {m \in S : \A n \in S : outbox[m].due <= outbox[n].due}

(* Mutant: recovery forgets the delivery_started column.                   *)
RecoverLease_IgnoresFence(m) ==
    /\ Expired("reserved") = {}
    /\ m \in First(Expired("in_flight"))
    /\ outbox' = [outbox EXCEPT ![m] =
                    [@ EXCEPT !.state = "ready", !.due = 0]]
    /\ UNCHANGED <<account, draft, fileGc>>

RecoverLease(m) ==
    /\ Expired("reserved") = {}
    /\ m \in First(Expired("in_flight"))
    /\ outbox' = [outbox EXCEPT ![m] =
                    [@ EXCEPT !.state = IF outbox[m].started THEN "uncertain"
                                                             ELSE "ready",
                              !.due = 0]]
    /\ UNCHANGED <<account, draft, fileGc>>

RecoveryIdle == Expired("reserved") = {} /\ Expired("in_flight") = {}

-----------------------------------------------------------------------------
(* Claims.                                                                 *)

Candidates ==
    {m \in Messages : \/ outbox[m].state = "ready"
                      \/ outbox[m].state = "retry_wait" /\ outbox[m].due <= 0}

(* Mutant: the attempts of a row are not capped.                           *)
Claimable_Uncapped(m) == /\ SendableAt(m, outbox[m].gen)
                         /\ outbox[m].epoch < MaxEpoch

Claimable(m) == /\ SendableAt(m, outbox[m].gen)
                /\ outbox[m].attempts < MaxAttempts
                /\ outbox[m].epoch < MaxEpoch

(* The scan goes by coalesce(not_before_ms, created_at_ms): retries in the *)
(* order of their deadlines, ready rows by a time that is not modelled.    *)
MayPrecede(m, n) ==
    outbox[m].state = "retry_wait" /\ outbox[n].state = "retry_wait"
        => outbox[m].due <= outbox[n].due

(* The rows the scan can have met: S and no others.                        *)
IsScanPrefix(S) ==
    S \subseteq Candidates /\ \A m \in S, n \in Candidates \ S : MayPrecede(m, n)

(* Mutant: a lease somebody left behind does not hold back the next claim. *)
LeaseBlocksClaims_Never == FALSE

LeaseBlocksClaims == \E m \in Messages : outbox[m].state = "in_flight"

Terminalized(row) == [row EXCEPT !.state = "permanent_failure", !.due = 0,
                                 !.started = FALSE]

(* The scan turned the rows of T into failures and then claimed m.         *)
ClaimOutbox(T, m) ==
    /\ ~LeaseBlocksClaims
    /\ m \in Candidates /\ Claimable(m)
    /\ \A n \in T : ~Claimable(n) /\ MayPrecede(n, m)
    /\ IsScanPrefix(T \cup {m})
    /\ Cardinality(T) < MaxClaimScan
    /\ outbox' = [n \in Messages |->
                    IF n \in T THEN Terminalized(outbox[n])
                    ELSE IF n = m
                    THEN [outbox[n] EXCEPT
                            !.state = "in_flight", !.epoch = @ + 1,
                            !.attempts = @ + 1, !.due = ClaimTTL,
                            !.started = FALSE]
                    ELSE outbox[n]]
    /\ UNCHANGED <<account, draft, fileGc>>

(* Mutant: rows that can never be claimed again are passed over.           *)
ClaimIdle_PassesOver(T) ==
    /\ T = {}
    /\ LeaseBlocksClaims \/ \A n \in Candidates : ~Claimable(n)
    /\ UNCHANGED storeVars

(* The scan found nothing to send, or stopped after MaxClaimScan rows.     *)
ClaimIdle(T) ==
    /\ IF LeaseBlocksClaims
       THEN T = {}
       ELSE /\ IsScanPrefix(T)
            /\ \A n \in T : ~Claimable(n)
            /\ \/ T = Candidates /\ Cardinality(T) < MaxClaimScan
               \/ Cardinality(T) = MaxClaimScan
    /\ outbox' = [n \in Messages |->
                    IF n \in T THEN Terminalized(outbox[n]) ELSE outbox[n]]
    /\ UNCHANGED <<account, draft, fileGc>>

-----------------------------------------------------------------------------
(* Reports.  A lease is a record with the fields msg, gen and epoch.       *)

HoldsLease(l) == /\ outbox[l.msg].state = "in_flight"
                 /\ outbox[l.msg].gen = l.gen
                 /\ outbox[l.msg].epoch = l.epoch

CanMarkDataStarted(l) == HoldsLease(l) /\ ~outbox[l.msg].started

(* Mutant: the fence only extends the lease.                               *)
MarkDataStarted_OnlyExtends(l) ==
    /\ outbox' = [outbox EXCEPT ![l.msg].due = ClaimTTL]
    /\ UNCHANGED <<account, draft, fileGc>>

MarkDataStarted(l) ==
    /\ outbox' = [outbox EXCEPT ![l.msg] =
                    [@ EXCEPT !.started = TRUE, !.due = ClaimTTL]]
    /\ UNCHANGED <<account, draft, fileGc>>

(* complete_delivered_message: the draft moves to Sent, the row goes and   *)
(* its artifact is queued for removal.                                     *)
CompleteDelivered(m) ==
    /\ draft' = [draft EXCEPT ![m] =
                   [@ EXCEPT !.folder = "sent", !.locked = FALSE]]
    /\ fileGc' = fileGc \cup {outbox[m].key}
    /\ outbox' = [outbox EXCEPT ![m] = NoRow]
    /\ UNCHANGED account

ToRetryWait(m, delay) ==
    /\ outbox' = [outbox EXCEPT ![m] =
                    [@ EXCEPT !.state = "retry_wait", !.due = delay, !.started = FALSE]]
    /\ UNCHANGED <<account, draft, fileGc>>

ToUncertain(m) ==
    /\ outbox' = [outbox EXCEPT ![m] =
                    [@ EXCEPT !.state = "uncertain", !.due = 0, !.started = TRUE]]
    /\ UNCHANGED <<account, draft, fileGc>>

ToPermanentFailure(m) ==
    /\ outbox' = [outbox EXCEPT ![m] = Terminalized(@)]
    /\ UNCHANGED <<account, draft, fileGc>>

(* Mutant: an uncertain attempt is filed as a failed one.                  *)
ReportOutbox_DoubtIsFailure(l, report, delay) ==
    IF ~HoldsLease(l) THEN UNCHANGED storeVars
    ELSE \/ report = "delivered" /\ CompleteDelivered(l.msg)
         \/ /\ report \in {"retry", "retry_after_rejection"}
            /\ ToRetryWait(l.msg, delay)
         \/ /\ report \in {"permanent_failure", "uncertain"}
            /\ ToPermanentFailure(l.msg)

(* report_outbox: a plain retry of an attempt past the DATA fence is not   *)
(* believed; only the server's explicit rejection undoes that fence.       *)
ReportOutbox(l, report, delay) ==
    IF ~HoldsLease(l) THEN UNCHANGED storeVars
    ELSE \/ report = "delivered" /\ CompleteDelivered(l.msg)
         \/ /\ report = "retry" /\ outbox[l.msg].started
            /\ ToUncertain(l.msg)
         \/ /\ \/ report = "retry" /\ ~outbox[l.msg].started
               \/ report = "retry_after_rejection"
            /\ ToRetryWait(l.msg, delay)
         \/ report = "permanent_failure" /\ ToPermanentFailure(l.msg)
         \/ report = "uncertain" /\ ToUncertain(l.msg)

-----------------------------------------------------------------------------
(* What the user does with a row that no longer moves by itself.           *)

(* Mutants: the retry also takes an uncertain row, starts the claim epochs *)
(* again, or ignores the byte limit.                                       *)
RetryOutbox_Uncertain(m) ==
    /\ outbox[m].state \in {"permanent_failure", "uncertain"}
    /\ outbox[m].wire /\ SendableAt(m, outbox[m].gen)
    /\ outbox' = [outbox EXCEPT ![m] =
                    [@ EXCEPT !.state = "ready", !.attempts = 0]]
    /\ UNCHANGED <<account, draft, fileGc>>

RetryOutbox_ResetsEpoch(m) ==
    /\ outbox[m].state = "permanent_failure"
    /\ outbox[m].wire /\ SendableAt(m, outbox[m].gen)
    /\ outbox' = [outbox EXCEPT ![m] =
                    [@ EXCEPT !.state = "ready", !.attempts = 0, !.epoch = 0]]
    /\ UNCHANGED <<account, draft, fileGc>>

RetryOutbox_Oversized(m) ==
    /\ outbox[m].state = "permanent_failure"
    /\ outbox[m].wire /\ SendableAt(m, outbox[m].gen)
    /\ outbox' = [outbox EXCEPT ![m] =
                    [@ EXCEPT !.state = "ready", !.attempts = 0]]
    /\ UNCHANGED <<account, draft, fileGc>>

RetryOutbox(m) ==
    /\ outbox[m].state = "permanent_failure"
    /\ outbox[m].epoch < MaxEpoch
    /\ outbox[m].wire
    /\ SendableAt(m, outbox[m].gen)
    /\ Cardinality(ActiveRows) < MaxActive /\ BytesFit(m)
    /\ outbox' = [outbox EXCEPT ![m] =
                    [@ EXCEPT !.state = "ready", !.due = 0, !.attempts = 0]]
    /\ UNCHANGED <<account, draft, fileGc>>

(* Mutant: the draft keeps its locked_artifact_generation.                 *)
ReleaseToDraft_KeepsLock(m) ==
    /\ draft[m].locked
    /\ fileGc' = fileGc \cup {outbox[m].key}
    /\ outbox' = [outbox EXCEPT ![m] = NoRow]
    /\ UNCHANGED <<account, draft>>

ReleaseToDraft(m) ==
    /\ draft[m].locked
    /\ draft' = [draft EXCEPT ![m].locked = FALSE]
    /\ fileGc' = fileGc \cup {outbox[m].key}
    /\ outbox' = [outbox EXCEPT ![m] = NoRow]
    /\ UNCHANGED account

ReleaseFailedOutbox(m) ==
    outbox[m].state = "permanent_failure" /\ ReleaseToDraft(m)

ReleaseUncertainOutbox(m) ==
    outbox[m].state = "uncertain" /\ ReleaseToDraft(m)

(* Mutant: any row that no longer moves can be declared delivered.         *)
AssumeDelivered_Failed(m) ==
    /\ outbox[m].state \in {"uncertain", "permanent_failure"}
    /\ CompleteDelivered(m)

AssumeDelivered(m) ==
    outbox[m].state = "uncertain" /\ CompleteDelivered(m)

-----------------------------------------------------------------------------
(* Account operations that move the configuration generation.              *)

UpdateAccount(a) ==
    /\ a \in EditableAccounts
    /\ account[a].lifecycle # "removing"
    /\ account[a].gen < MaxGeneration
    /\ \E smtp \in BOOLEAN :
         account' = [account EXCEPT ![a].gen = @ + 1, ![a].smtp = smtp]
    /\ UNCHANGED <<draft, outbox, fileGc>>

SetAccountEnabled(a) ==
    /\ a \in EditableAccounts
    /\ account[a].lifecycle # "removing"
    /\ account[a].gen < MaxGeneration
    /\ \E lifecycle \in {"active", "disabled"} :
         account' = [account EXCEPT ![a].gen = @ + 1,
                                    ![a].lifecycle = lifecycle]
    /\ UNCHANGED <<draft, outbox, fileGc>>

BeginAccountRemoval(a) ==
    /\ account[a].lifecycle # "removing"
    /\ account[a].gen < MaxGeneration
    /\ \A m \in Rows : AccountOf[m] # a
    /\ account' = [account EXCEPT ![a].gen = @ + 1,
                                  ![a].lifecycle = "removing"]
    /\ UNCHANGED <<draft, outbox, fileGc>>

-----------------------------------------------------------------------------

(* The clock moves every pending deadline one unit closer.                 *)
Elapse ==
    /\ \E m \in ActiveRows : outbox[m].due > -Past
    /\ outbox' = [m \in Messages |->
                    IF m \in ActiveRows /\ outbox[m].due > -Past
                    THEN [outbox[m] EXCEPT !.due = @ - 1] ELSE outbox[m]]
    /\ UNCHANGED <<account, draft, fileGc>>
=============================================================================
