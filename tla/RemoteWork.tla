----------------------------- MODULE RemoteWork -----------------------------
(***************************************************************************)
(* Work on the journal: claim_remote and report_remote of                  *)
(* mail/src/store/sqlite/remote.rs and remote/report.rs, interleaved with  *)
(* the user's edits (Journal), with the provider that holds the claims and *)
(* with the server it writes to.                                           *)
(*                                                                         *)
(* The provider is not in the repository: docs/remote-sync-contract.md     *)
(* says how one behaves.  Here it may lose a claim, keep one beyond its    *)
(* expiry, and report when it likes, but it writes only under a lease that *)
(* has not run out, and calls confirmed or satisfied only what the server  *)
(* shows.  Reports of a claim whose lease is gone are Stale and change     *)
(* nothing; they are stutters.                                             *)
(***************************************************************************)
EXTENDS Journal

CONSTANTS
    RetryDelays, \* delays of a Retry report, given by the server or derived
    MaxProgress, \* epoch up to which the provider reports progress
    MaxHeld,     \* claims the provider remembers
    MaxOutside   \* changes other clients make on the server

ASSUME ProviderAssumption ==
    /\ RetryDelays \subseteq Nat \ {0}
    /\ MaxProgress \in 0..MaxEpoch
    /\ {MaxHeld, MaxOutside} \subseteq Nat

VARIABLES
    token,   \* accounts with a row in account_object_states
    held,    \* provider: the claims it remembers
    server,  \* server: the messages as they are there
    outside, \* server: what other clients have changed
    known,   \* history: the values the provider's reports last vouched for
    doubt    \* history: messages whose move or deletion on an IMAP server
             \* may or may not have happened

workVars == <<token, held, server, outside, known, doubt>>
vars == <<mail, intent, tomb, undo, lastId,
          token, held, server, outside, known, doubt>>

-----------------------------------------------------------------------------

Modes == {"apply", "reconcile"}

Claim == [msg : Messages, id : 1..MaxId, version : 1..MaxVersion,
          epoch : 1..MaxEpoch, mode : Modes, changed : SUBSET Aspects,
          base : [Aspects -> Value], want : [Aspects -> Value],
          deleting : BOOLEAN]

Copy == [exists : BOOLEAN, value : [Aspects -> Value]]

TypeOK ==
    /\ JournalTypeOK
    /\ token \subseteq Accounts
    /\ held \subseteq Claim
    /\ server \in [Messages -> Copy]
    /\ outside \subseteq Messages \X Aspects
    /\ known \in [Messages -> [Aspects -> Value]]
    /\ doubt \subseteq Messages

Init ==
    /\ JournalInit
    /\ token \in SUBSET (Accounts \ ImapAccounts)
    /\ held = {}
    /\ server = [m \in Messages |-> [exists |-> TRUE, value |-> mail[m].value]]
    /\ outside = {}
    /\ known = [m \in Messages |-> mail[m].value]
    /\ doubt = {}

-----------------------------------------------------------------------------
(* Claims                                                                  *)

(* An IMAP move or deletion was handed out and not answered.               *)
Ambiguous(m) == IsImap(m) /\ intent[m].dispatched \cap {Placement, Deletion} # {}

(* recover_one_expired_lease.  It is committed on its own, before the rest *)
(* of the claim, which may fail or be cut off by a crash.                  *)
RecoverExpired(m) ==
    LET r         == intent[m]
        ambiguous == Ambiguous(m)
    IN /\ r.state = "in_flight"
       /\ r.expires = 0
       /\ intent' = [intent EXCEPT ![m] =
            [r EXCEPT !.state = IF r.attempts >= MaxAttempts THEN "blocked"
                                ELSE IF ambiguous \/ r.reconcile THEN "reconcile"
                                ELSE "ready",
                      !.leased    = 0,
                      !.expires   = 0,
                      !.reserve   = 0,
                      !.reconcile = @ \/ (ambiguous /\ ~r.deleting),
                      !.due       = 0,
                      !.error     = "other"]]
       /\ doubt' = IF ambiguous THEN doubt \cup {m} ELSE doubt
       /\ UNCHANGED <<mail, tomb, undo, lastId, token, held, server, outside, known>>

(* block_exhausted_intents *)
Exhausted(a) == {m \in Messages : /\ AccountOf[m] = a
                                  /\ intent[m].state \in WaitingStates
                                  /\ intent[m].attempts >= MaxAttempts}

BlockExhausted(a) ==
    [m \in Messages |->
        IF m \in Exhausted(a)
        THEN [intent[m] EXCEPT !.state = "blocked", !.error = "other"]
        ELSE intent[m]]

(* select_candidate: ORDER BY not_before_ms, id                            *)
Due(a) == {m \in Messages : /\ AccountOf[m] = a
                            /\ intent[m].state \in WaitingStates
                            /\ intent[m].due <= 0
                            /\ intent[m].attempts < MaxAttempts}

Precedes(m, n) == \/ intent[m].due < intent[n].due
                  \/ intent[m].due = intent[n].due /\ intent[m].id <= intent[n].id

IsCandidate(a, m) == m \in Due(a) /\ \A n \in Due(a) : Precedes(m, n)

(* Mutant: a lease that ran out no longer counts.                          *)
LeaseIsFree_IfExpired ==
    \A m \in Messages : intent[m].state = "in_flight" => intent[m].expires = 0

(* One lease at a time, over all accounts.                                 *)
LeaseIsFree == \A m \in Messages : intent[m].state # "in_flight"

(* Mutant: the state decides, the request to reconcile is not looked at.   *)
WorkMode_StateOnly(m) ==
    IF \/ intent[m].state = "reconcile"
       \/ IF IsImap(m) THEN intent[m].sources = {} ELSE AccountOf[m] \notin token
    THEN "reconcile" ELSE "apply"

(* claim_work_mode *)
WorkMode(m) ==
    IF \/ intent[m].state = "reconcile"
       \/ intent[m].reconcile
       \/ IF IsImap(m) THEN intent[m].sources = {} ELSE AccountOf[m] \notin token
    THEN "reconcile" ELSE "apply"

(* Mutant: only the growth of the base side is reserved, in every mode.    *)
FolderReserve_GrowthOnly(m) ==
    LET wanted == Cardinality(intent[m].want[Placement])
        based  == Cardinality(intent[m].base[Placement])
    IN IF Placement \in intent[m].changed /\ wanted > based
       THEN wanted - based ELSE 0

(* placement_folder_reserve: what a rebase of the placement may add.       *)
FolderReserve(m) ==
    LET wanted == Cardinality(intent[m].want[Placement])
        based  == Cardinality(intent[m].base[Placement])
    IN IF Placement \notin intent[m].changed THEN 0
       ELSE IF WorkMode(m) = "reconcile" THEN wanted + based
       ELSE IF wanted > based THEN wanted - based ELSE 0

Mask(r) == r.changed \cup (IF r.deleting THEN {Deletion} ELSE {})

(* Mutant: only a report counts as an attempt.                             *)
Leased_Uncounted(m) ==
    LET r == intent[m] IN
    [r EXCEPT !.state      = "in_flight",
              !.leased     = r.version,
              !.epoch      = @ + 1,
              !.expires    = LeaseTTL,
              !.dispatched = @ \cup (IF WorkMode(m) = "apply" THEN Mask(r) ELSE {}),
              !.reserve    = FolderReserve(m)]

(* The lease a claim takes, and the snapshot the provider gets.            *)
Leased(m) ==
    LET r == intent[m] IN
    [r EXCEPT !.state      = "in_flight",
              !.leased     = r.version,
              !.epoch      = @ + 1,
              !.expires    = LeaseTTL,
              !.attempts   = @ + 1,
              !.dispatched = @ \cup (IF WorkMode(m) = "apply" THEN Mask(r) ELSE {}),
              !.reserve    = FolderReserve(m)]

Snapshot(m) ==
    LET r == intent[m] IN
    [msg |-> m, id |-> r.id, version |-> r.version, epoch |-> r.epoch + 1,
     mode |-> WorkMode(m), changed |-> r.changed, base |-> r.base,
     want |-> r.want, deleting |-> r.deleting]

(* claim_remote, with work to hand out.                                    *)
ClaimRemote(a, m) ==
    /\ LeaseIsFree
    /\ IsCandidate(a, m)
    /\ intent[m].epoch < MaxEpoch
    /\ Room(FolderReserve(m))
    /\ Cardinality(held) < MaxHeld
    /\ intent' = [BlockExhausted(a) EXCEPT ![m] = Leased(m)]
    /\ held' = held \cup {Snapshot(m)}
    /\ UNCHANGED <<mail, tomb, undo, lastId, token, server, outside, known, doubt>>

(* claim_remote, with nothing due.                                         *)
ClaimIdle(a) ==
    /\ LeaseIsFree
    /\ Due(a) = {}
    /\ Exhausted(a) # {}
    /\ intent' = BlockExhausted(a)
    /\ UNCHANGED <<mail, tomb, undo, lastId, workVars>>

-----------------------------------------------------------------------------
(* Reports                                                                 *)

(* load_matching_lease *)
HoldsLease(c) ==
    LET r == intent[c.msg] IN
    /\ r.state = "in_flight"
    /\ r.id = c.id
    /\ r.leased = c.version
    /\ r.epoch = c.epoch

(* apply_checkpoint with the locators the server gave in the folders of    *)
(* found; with JMAP, with an email state.                                  *)
Checkpointed(c, found) ==
    [intent[c.msg] EXCEPT !.sources = @ \cup found]

CheckpointFits(c, found) ==
    LET r == intent[c.msg] IN
    Room(Cardinality(found \ r.sources)
         + (IF r.deleting THEN Cardinality(found \ tomb[c.msg]) ELSE 0))

Checkpoints(c) == IF IsImap(c.msg) THEN SUBSET server[c.msg].value[Placement]
                  ELSE {{}}

ApplyCheckpoint(c, found) ==
    LET m == c.msg IN
    /\ CheckpointFits(c, found)
    /\ tomb' = IF intent[m].deleting THEN [tomb EXCEPT ![m] = @ \cup found]
               ELSE tomb
    /\ mail' = IF mail[m].alive
               THEN [mail EXCEPT ![m].locs =
                                    @ \cup (found \cap mail[m].value[Placement])]
               ELSE mail
    /\ token' = IF IsImap(m) THEN token ELSE token \cup {AccountOf[m]}

(* acknowledge_flag, acknowledge_placement: an aspect that disappeared     *)
(* from the intent was reversed, so the message itself has what is wanted. *)
WantNow(c, a) == IF a \in intent[c.msg].changed THEN intent[c.msg].want[a]
                 ELSE mail[c.msg].value[a]

(* ... and the cases in which they refuse the report.                      *)
AckConflict(c) ==
    LET r == intent[c.msg] IN
    IF c.deleting THEN ~r.deleting \/ r.version # c.version
    ELSE /\ ~r.deleting
         /\ \E a \in c.changed :
              IF a \in r.changed THEN r.base[a] # c.base[a]
              ELSE c.mode # "reconcile" \/ r.version <= c.version

(* release_lease *)
Released(c, r, state) ==
    [r EXCEPT !.state      = state,
              !.leased     = 0,
              !.expires    = 0,
              !.reserve    = 0,
              !.attempts   = 0,
              !.dispatched = @ \ Mask(c),
              !.error      = IF r.version = c.version THEN "none" ELSE @]

(* Mutant: the base of what is still wanted is left as it was.             *)
Rebased_OldBase(c, r, satisfied) ==
    LET done      == {a \in c.changed : WantNow(c, a) = c.want[a]}
        reconcile == r.reconcile /\ ~(satisfied /\ r.version = c.version)
        row       == [r EXCEPT
            !.changed   = @ \ done,
            !.base      = [a \in Aspects |-> IF a \in done THEN {} ELSE @[a]],
            !.want      = [a \in Aspects |-> IF a \in done THEN {} ELSE @[a]],
            !.reconcile = reconcile]
    IN IF IsEmpty(row) THEN NoIntent
       ELSE Released(c, row, IF reconcile THEN "reconcile" ELSE "ready")

(* What was claimed is now the base of what is still wanted.               *)
Rebased(c, r, satisfied) ==
    LET still     == {a \in c.changed : WantNow(c, a) # c.want[a]}
        reconcile == r.reconcile /\ ~(satisfied /\ r.version = c.version)
        row       == [r EXCEPT
            !.changed   = (@ \ c.changed) \cup still,
            !.base      = [a \in Aspects |-> IF a \notin c.changed THEN @[a]
                                             ELSE IF a \in still THEN c.want[a]
                                             ELSE {}],
            !.want      = [a \in Aspects |-> IF a \notin c.changed THEN @[a]
                                             ELSE IF a \in still THEN WantNow(c, a)
                                             ELSE {}],
            !.reconcile = reconcile]
    IN IF IsEmpty(row) THEN NoIntent
       ELSE Released(c, row, IF reconcile THEN "reconcile" ELSE "ready")

(* Mutant: the report of the superseded claim ends the deletion as well.   *)
Acknowledged_EndsDeletion(c, r, satisfied) ==
    IF c.deleting \/ r.deleting THEN NoIntent ELSE Rebased(c, r, satisfied)

(* acknowledge *)
Acknowledged(c, r, satisfied) ==
    IF c.deleting THEN NoIntent
    ELSE IF r.deleting
    THEN Released(c, r, IF IsImap(c.msg) /\ r.sources = {}
                        THEN "reconcile" ELSE "ready")
    ELSE Rebased(c, r, satisfied)

(* The rebase may insert folder rows; the lease has reserved them.         *)
AckFits(c, found) ==
    LET m   == c.msg
        r   == Checkpointed(c, found)
        ack == Acknowledged(c, r, TRUE)
    IN FolderRows(ack) - FolderRows(r) + Cardinality(found \ intent[m].sources)
         <= MaxChildren - (Children + Reserved - intent[m].reserve)

(* What the server shows is what the claim asked for.                      *)
Fulfilled(c) ==
    IF c.deleting THEN ~server[c.msg].exists
    ELSE \A a \in c.changed : server[c.msg].value[a] = c.want[a]

Acknowledge(c, found, satisfied) ==
    /\ ~AckConflict(c)
    /\ ApplyCheckpoint(c, found)
    /\ AckFits(c, found)
    /\ intent' = [intent EXCEPT ![c.msg] =
                    Acknowledged(c, Checkpointed(c, found), satisfied)]
    /\ known' = [known EXCEPT ![c.msg] =
                    [a \in Aspects |-> IF a \in c.changed THEN c.want[a] ELSE @[a]]]
    /\ doubt' = doubt \ {c.msg}
    /\ UNCHANGED <<undo, lastId, held, server, outside>>

(* Confirmed is for writes, Satisfied also for what was found in place.    *)
ReportConfirmed(c, found) ==
    HoldsLease(c) /\ Fulfilled(c) /\ c.mode = "apply" /\ Acknowledge(c, found, FALSE)

ReportSatisfied(c, found) ==
    HoldsLease(c) /\ Fulfilled(c) /\ Acknowledge(c, found, TRUE)

(* Progress: a checkpoint renews the lease under the next epoch.           *)
ReportProgress(c, found) ==
    /\ HoldsLease(c)
    /\ c.epoch < MaxProgress
    /\ Cardinality(held) < MaxHeld
    /\ IsImap(c.msg) => found # {}
    /\ ApplyCheckpoint(c, found)
    /\ intent' = [intent EXCEPT ![c.msg] =
                    [Checkpointed(c, found) EXCEPT !.epoch = @ + 1,
                                                   !.expires = LeaseTTL]]
    /\ held' = held \cup {[c EXCEPT !.epoch = @ + 1]}
    /\ UNCHANGED <<undo, lastId, server, outside, known, doubt>>

(* update_failure_state *)
Failed(c, state, due, reconcile) ==
    /\ intent' = [intent EXCEPT ![c.msg] =
         [intent[c.msg] EXCEPT !.state     = state,
                               !.leased    = 0,
                               !.expires   = 0,
                               !.reserve   = 0,
                               !.reconcile = @ \/ reconcile,
                               !.due       = IF @ < due THEN due ELSE @,
                               !.error     = "other"]]
    /\ UNCHANGED <<mail, tomb, undo, lastId, token, held, server, outside, known>>

CanRetry(c) == intent[c.msg].attempts < MaxAttempts

ReportRetry(c) ==
    /\ HoldsLease(c)
    /\ CanRetry(c)
    /\ \E delay \in RetryDelays : Failed(c, "retry_wait", delay, FALSE)
    /\ UNCHANGED doubt

(* What the server did is unclear, or the identity of the message is.      *)
ReportReconcile(c) ==
    /\ HoldsLease(c)
    /\ CanRetry(c)
    /\ Failed(c, "reconcile", 0, ~intent[c.msg].deleting)
    /\ doubt' = IF Ambiguous(c.msg) THEN doubt \cup {c.msg} ELSE doubt

(* Also block_attempt_limit, which retry and reconcile fall back to.       *)
ReportBlocked(c) ==
    /\ HoldsLease(c)
    /\ Failed(c, "blocked", 0, FALSE)
    /\ UNCHANGED doubt

-----------------------------------------------------------------------------
(* The provider, the server and time                                       *)

(* One write of the claim reaches the server.                              *)
ServerWrite(c) ==
    /\ HoldsLease(c)
    /\ intent[c.msg].expires > 0
    /\ c.mode = "apply"
    /\ server[c.msg].exists
    /\ \/ /\ c.deleting
          /\ server' = [server EXCEPT ![c.msg].exists = FALSE]
       \/ \E a \in c.changed :
             /\ server[c.msg].value[a] # c.want[a]
             /\ server' = [server EXCEPT ![c.msg].value[a] = c.want[a]]
    /\ UNCHANGED <<journalVars, token, held, outside, known, doubt>>

(* The provider dies, or lets go of a claim it has reported.               *)
Forget(c) ==
    /\ held' = held \ {c}
    /\ UNCHANGED <<journalVars, token, server, outside, known, doubt>>

(* Another client sets or clears a flag, or moves the message.             *)
OutsideChange(m, a, v) ==
    /\ Cardinality(outside) < MaxOutside
    /\ <<m, a>> \notin outside
    /\ server[m].exists
    /\ server[m].value[a] # v
    /\ server' = [server EXCEPT ![m].value[a] = v]
    /\ outside' = outside \cup {<<m, a>>}
    /\ UNCHANGED <<journalVars, token, held, known, doubt>>

OutsideValues(a) == IF a = Placement THEN {{f} : f \in Folders} ELSE {{}, {Raised}}

Tick ==
    /\ intent' = [m \in Messages |->
         [intent[m] EXCEPT !.due     = IF @ > -Past /\ Present(m) THEN @ - 1 ELSE @,
                           !.expires = IF @ > 0 THEN @ - 1 ELSE @]]
    /\ undo' = IF undo.msg = NoMessage \/ undo.left < 0 THEN undo
               ELSE [undo EXCEPT !.left = @ - 1]
    /\ UNCHANGED <<mail, tomb, lastId, workVars>>

User == \/ (\E m \in Messages : Edit(m)) /\ UNCHANGED workVars
        \/ UndoExpired /\ UNCHANGED workVars

Claims == \/ \E m \in Messages : RecoverExpired(m)
          \/ \E a \in Accounts, m \in Messages : ClaimRemote(a, m)
          \/ \E a \in Accounts : ClaimIdle(a)

Reports(c) ==
    \/ \E found \in Checkpoints(c) :
          \/ ReportConfirmed(c, found)
          \/ ReportSatisfied(c, found)
          \/ ReportProgress(c, found)
    \/ ReportRetry(c)
    \/ ReportReconcile(c)
    \/ ReportBlocked(c)

Outside == \E m \in Messages, a \in Aspects :
              \E v \in OutsideValues(a) : OutsideChange(m, a, v)

Next ==
    \/ User
    \/ Claims
    \/ \E c \in held : Reports(c) \/ ServerWrite(c) \/ Forget(c)
    \/ Outside
    \/ Tick

Spec == Init /\ [][Next]_vars

(* Claims are asked for whenever there may be work, a provider lets go of  *)
(* what it holds, and time passes.  No report is assumed to ever arrive.   *)
FairSpec == Spec /\ WF_vars(Claims) /\ WF_vars(\E c \in held : Forget(c))
                 /\ WF_vars(Tick)

-----------------------------------------------------------------------------
(* Properties                                                              *)

Wants(m, a) == IF a \in intent[m].changed THEN intent[m].base[a]
               ELSE mail[m].value[a]

(* The base of a pending wish, or the message itself where nothing is      *)
(* pending, is what the provider last vouched for: folding edits into an   *)
(* intent, dropping a reversed one and rebasing what an acknowledgement    *)
(* leaves over never lose count of what the server was last known to hold. *)
BaseIsLastKnown ==
    \A m \in Messages, a \in Aspects :
        mail[m].alive => known[m][a] = Wants(m, a)

(* What the user sees is recorded: a pending wish is for the value the     *)
(* message shows, however edits, reports and expiries interleave.          *)
WishIsRecorded ==
    \A m \in Messages : mail[m].alive =>
        /\ ~intent[m].deleting
        /\ \A a \in intent[m].changed : intent[m].want[a] = mail[m].value[a]

(* Unless another client meddled, an aspect without a pending wish is on   *)
(* the server as it is here, and one whose wish was never handed out is    *)
(* there at its base.  A row may be dropped only when that is so: a        *)
(* reversal of something a lost attempt may have written must stay.        *)
NothingForgotten ==
    \A m \in Messages, a \in Aspects :
        mail[m].alive /\ <<m, a>> \notin outside /\ a \notin intent[m].dispatched
            => server[m].value[a] = Wants(m, a)

(* A message deleted here for good either still has its deletion intent or *)
(* is gone from the server: no report of an older claim ends the intent.   *)
DeletionSticks ==
    \A m \in Messages :
        ~mail[m].alive => IF Present(m) THEN intent[m].deleting
                          ELSE ~server[m].exists

(* At most one claim can still be reported, over all accounts, whatever    *)
(* the provider remembers from earlier leases.                             *)
SingleWriter ==
    \A c, d \in held : HoldsLease(c) /\ HoldsLease(d) => c = d

(* No edit under a lease makes the journal refuse the report of what the   *)
(* provider did: the conflicts of acknowledge are unreachable.             *)
AcksAreAccepted == \A c \in held : HoldsLease(c) => ~AckConflict(c)

(* The user's edits are kept: nothing recorded is lost, forgotten or based *)
(* on a value that the server was not last known to have, and every row of *)
(* the journal stays one that its operations accept.                       *)
EditsAreKept == TypeOK /\ BaseIsLastKnown /\ WishIsRecorded /\ NothingForgotten

(* Child rows and the room reserved for leases stay within the budget ...  *)
BudgetHolds == Children + Reserved <= MaxChildren

(* ... and a report never fails for lack of room in it: what the lease has *)
(* reserved covers the rebase of the placement, whatever was edited since. *)
ReservedRoomSuffices ==
    \A c \in held : HoldsLease(c) /\ ~AckConflict(c) => AckFits(c, {})

(* A move on an IMAP server that may or may not have happened is not       *)
(* handed out as a write before a report vouched for the server's state    *)
(* (remote-sync-contract.md: "enters reconciliation before another write").*)
DoubtfulMoveIsReconciled ==
    \A c \in held : HoldsLease(c) /\ c.mode = "apply" /\ ~c.deleting
        => c.msg \notin doubt

(* Work ends: if no report ever arrives, expiries lead to a new attempt    *)
(* each, and the attempt limit leaves the intent to the user.              *)
IntentSettles ==
    \A m \in Messages : Present(m) ~> intent[m].state \in {"absent", "blocked"}

-----------------------------------------------------------------------------
(* Promises of the contract the code does not keep; see README.            *)

(* "A Trash intent is not eligible before the five-second undo deadline."  *)
TrashWaitsForUndo ==
    [][\A m \in Messages :
          /\ Placement \notin intent[m].dispatched
          /\ Placement \in intent'[m].dispatched
          /\ undo.msg = m
          /\ mail[m].value[Placement] = {Trash}
          => undo.left <= 0]_vars

(* "If a value returns to base before that dimension is dispatched, the    *)
(* dimension is removed": no toggle of a flag is refused for a lease.      *)
ReversalIsAccepted ==
    \A m \in Messages, f \in Flags :
        mail[m].alive /\ CanOpen(m) => CanStore(FlagIntent(m, f))

(* "Any in-flight IMAP transfer or delete with ambiguous outcome enters    *)
(* reconciliation before another write": deletions too.                    *)
DoubtIsReconciled ==
    \A c \in held : HoldsLease(c) /\ c.mode = "apply" => c.msg \notin doubt
=============================================================================
