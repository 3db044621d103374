---------------------------- MODULE OutboxProofs ----------------------------
(***************************************************************************)
(* Proof that the outbox keeps its types, never sends a message twice on   *)
(* its own, files nothing as sent that never left, fences every body,      *)
(* sends only the file written from the revision the user queued, gives no *)
(* two attempts one lease, and implements Delivery: for any number of      *)
(* messages, keys, attempts, crashes and faults.                           *)
(***************************************************************************)
EXTENDS Outbox, TLAPS

-----------------------------------------------------------------------------
(* Typing.  TypeOK alone is not inductive: a row that goes hands its key   *)
(* to file_gc, and the driver and the composer index the tables by the     *)
(* message they hold.                                                      *)

RowsHaveKeys ==
    \A m \in Messages : outbox[m].state # "absent" => outbox[m].key \in Keys

StoreInv == StoreTypeOK /\ RowsHaveKeys

FilesInv == files \in [Keys -> 0..MaxRevision \cup {NoFile}]

UiInv == /\ ui \in Compose
         /\ ui.pc # "idle" => ui.msg \in Messages
         /\ ui.pc \in {"publish", "finalize"} => ui.key \in Keys

HoldingPoints == ReservationPoints \cup ClaimPoints
Verdicts == {"none"} \cup Observations \cup Reports

DriverInv == /\ pc \in FreePoints \cup HoldingPoints
             /\ budget \in 0..RecoveryBatch
             /\ work \in Work
             /\ verdict \in Verdicts
             /\ pc \in HoldingPoints => work.msg \in Messages

GhostInv == copies \in [Messages -> Nat] /\ vouched \subseteq Messages

BoundInv == stops \in 0..MaxStops /\ faults \in 0..MaxFaults

TypeInv == StoreInv /\ FilesInv /\ UiInv /\ DriverInv /\ GhostInv /\ BoundInv

LEMMA TypeInvImpliesTypeOK == TypeInv => TypeOK
  BY DEF TypeInv, TypeOK, StoreInv, FilesInv, UiInv, DriverInv, GhostInv,
         BoundInv, HoldingPoints, Verdicts

LEMMA NoRowTyped == NoRow \in Row
  BY LimitsAssumption DEF NoRow, Row, RowStates

LEMMA NoWorkTyped == NoWork \in Work
  BY LimitsAssumption DEF NoWork, Work

LEMMA NoComposeTyped == NoCompose \in Compose
  BY LimitsAssumption DEF NoCompose, Compose

(* The back-off is a number whatever the attempt count.                    *)
LEMMA RetryDelayTyped == \A n \in Nat : RetryDelay(n) \in Nat
<1> SUFFICES ASSUME NEW n \in Nat PROVE RetryDelay(n) \in Nat
  OBVIOUS
<1> DEFINE shift == IF n = 0 THEN 0 ELSE Least(n - 1, 7)
<1>1. shift \in 0..7
  BY DEF Least
<1>2. \A i \in 0..7 : PowersOfTwo[i + 1] \in Nat
  BY DEF PowersOfTwo
<1>3. \A i \in 0..7 :
        Least(MinRetryDelay * PowersOfTwo[i + 1], MaxRetryDelay) \in Nat
  BY <1>2, DriverAssumption DEF Least
<1> QED
  BY <1>1, <1>3 DEF RetryDelay

THEOREM InitTyped == Init => TypeInv
<1> SUFFICES ASSUME Init PROVE TypeInv
  OBVIOUS
<1> USE DEF Init, StoreInit
<1>1. StoreTypeOK
  <2>1. account \in [Accounts -> Account]
    BY LimitsAssumption DEF Account
  <2>2. draft \in [Messages -> Draft]
    BY LimitsAssumption DEF Draft
  <2>3. outbox \in [Messages -> Row]
    BY NoRowTyped
  <2> QED
    BY <2>1, <2>2, <2>3 DEF StoreTypeOK
<1>2. StoreInv
  BY <1>1 DEF StoreInv, RowsHaveKeys, NoRow
<1>3. FilesInv /\ GhostInv /\ BoundInv
  BY DriverAssumption DEF FilesInv, GhostInv, BoundInv
<1>4. UiInv
  BY NoComposeTyped DEF UiInv, NoCompose
<1>5. DriverInv
  BY NoWorkTyped, DriverAssumption
     DEF DriverInv, FreePoints, HoldingPoints, ReservationPoints, ClaimPoints,
         Verdicts
<1> QED
  BY <1>2, <1>3, <1>4, <1>5 DEF TypeInv

-----------------------------------------------------------------------------
(* Edits of one row.                                                       *)

LEMMA StatesTyped ==
  /\ "absent" \in RowStates /\ "reserved" \in RowStates
  /\ "ready" \in RowStates /\ "in_flight" \in RowStates
  /\ "retry_wait" \in RowStates /\ "uncertain" \in RowStates
  /\ "permanent_failure" \in RowStates
  BY DEF RowStates

LEMMA EditsTyped ==
  \A row \in Row :
    /\ \A s \in RowStates : [row EXCEPT !.state = s] \in Row
    /\ \A d \in Int : [row EXCEPT !.due = d] \in Row
    /\ \A b \in BOOLEAN : [row EXCEPT !.started = b] \in Row
    /\ \A b \in BOOLEAN : [row EXCEPT !.wire = b] \in Row
    /\ \A n \in 0..MaxAttempts : [row EXCEPT !.attempts = n] \in Row
    /\ \A n \in 0..MaxEpoch : [row EXCEPT !.epoch = n] \in Row
    /\ \A n \in 1..MaxGeneration : [row EXCEPT !.gen = n] \in Row
    /\ \A n \in 0..MaxRevision : [row EXCEPT !.rev = n] \in Row
    /\ \A k \in Keys : [row EXCEPT !.key = k] \in Row
    /\ [row EXCEPT !.due = 0] \in Row
    /\ [row EXCEPT !.attempts = 0] \in Row
  BY LimitsAssumption DEF Row

LEMMA EditsKeepKey ==
  \A row \in Row :
    /\ \A x : [row EXCEPT !.state = x].key = row.key
    /\ \A x : [row EXCEPT !.due = x].key = row.key
    /\ \A x : [row EXCEPT !.started = x].key = row.key
    /\ \A x : [row EXCEPT !.wire = x].key = row.key
    /\ \A x : [row EXCEPT !.attempts = x].key = row.key
    /\ \A x : [row EXCEPT !.epoch = x].key = row.key
    /\ \A x : [row EXCEPT !.key = x].key = x
  BY DEF Row

LEMMA TTLsTyped == ReservationTTL \in Int /\ ClaimTTL \in Int
  BY LimitsAssumption

LEMMA RewriteTyped ==
  ASSUME StoreInv, NEW m \in Messages, outbox[m].state # "absent",
         NEW row \in Row, row.key = outbox[m].key,
         outbox' = [outbox EXCEPT ![m] = row],
         UNCHANGED <<account, draft, fileGc>>
  PROVE  StoreInv'
  BY DEF StoreInv, StoreTypeOK, RowsHaveKeys

-----------------------------------------------------------------------------
(* Each transaction keeps the tables typed.                                *)

LEMMA DraftOpsTyped ==
  ASSUME StoreInv, NEW m \in Messages,
         CreateDraft(m) \/ UpdateDraft(m) \/ SetStarred(m)
  PROVE  StoreInv'
  BY LimitsAssumption
     DEF StoreInv, StoreTypeOK, RowsHaveKeys, CreateDraft, UpdateDraft,
         SetStarred, Draft

LEMMA ReserveTyped ==
  ASSUME StoreInv, NEW r, r.msg \in Messages, r.gen \in 1..MaxGeneration,
         r.rev \in 0..MaxRevision, r.key \in Keys, ReserveOutbox(r)
  PROVE  StoreInv'
<1> DEFINE row == [NoRow EXCEPT !.state = "reserved", !.gen = r.gen,
                                !.rev = r.rev, !.key = r.key,
                                !.due = ReservationTTL]
<1>1. row \in Row
  BY NoRowTyped, StatesTyped, EditsTyped, TTLsTyped
<1>2. row.key \in Keys
  <2> DEFINE r1 == [NoRow EXCEPT !.state = "reserved", !.gen = r.gen,
                                 !.rev = r.rev]
             r2 == [r1 EXCEPT !.key = r.key]
  <2>1. r1 \in Row
    BY NoRowTyped, StatesTyped, EditsTyped
  <2>2. r2 \in Row
    BY <2>1, EditsTyped
  <2>3. r2.key = r.key
    BY <2>1, EditsKeepKey
  <2>4. [r2 EXCEPT !.due = ReservationTTL].key = r2.key
    BY <2>2, EditsKeepKey
  <2> QED
    BY <2>3, <2>4
<1>3. outbox' = [outbox EXCEPT ![r.msg] = row]
  BY DEF ReserveOutbox
<1>4. outbox' \in [Messages -> Row] /\ RowsHaveKeys'
  <2> HIDE DEF row
  <2> QED
    BY <1>1, <1>2, <1>3 DEF StoreInv, StoreTypeOK, RowsHaveKeys
<1>5. draft' \in [Messages -> Draft]
  BY DEF ReserveOutbox, StoreInv, StoreTypeOK, Draft
<1> QED
  BY <1>4, <1>5 DEF ReserveOutbox, StoreInv, StoreTypeOK

LEMMA ReservationOpsTyped ==
  ASSUME StoreInv, NEW r, r.msg \in Messages,
         FinalizeOutbox(r) \/ RenewReservation(r) \/ InvalidateReservation(r)
  PROVE  StoreInv'
<1>1. CASE UNCHANGED storeVars
  BY <1>1 DEF storeVars, StoreInv, StoreTypeOK, RowsHaveKeys
<1>2. outbox[r.msg] \in Row
  BY DEF StoreInv, StoreTypeOK
<1>3. CASE FinalizeOutbox(r) /\ FinalizeOutcome(r) = "applied"
  <2> DEFINE row == [outbox[r.msg] EXCEPT !.state = "ready", !.wire = TRUE,
                                          !.due = 0]
  <2>1. row \in Row
    BY <1>2, StatesTyped, EditsTyped
  <2>4. row.key = outbox[r.msg].key
    BY <1>2 DEF Row
  <2>2. outbox[r.msg].state = "reserved"
    BY <1>3 DEF FinalizeOutcome, CanFinalize, HoldsReservation
  <2>3. /\ outbox' = [outbox EXCEPT ![r.msg] = row]
        /\ UNCHANGED <<account, draft, fileGc>>
    BY <1>3 DEF FinalizeOutbox
  <2> QED
    BY <2>1, <2>2, <2>3, <2>4, RewriteTyped
<1>4. CASE RenewReservation(r) /\ HoldsReservation(r)
  <2> DEFINE row == [outbox[r.msg] EXCEPT !.due = ReservationTTL]
  <2>1. row \in Row
    BY <1>2, EditsTyped, TTLsTyped
  <2>4. row.key = outbox[r.msg].key
    BY <1>2 DEF Row
  <2>2. outbox[r.msg].state = "reserved"
    BY <1>4 DEF HoldsReservation
  <2>3. /\ outbox' = [outbox EXCEPT ![r.msg] = row]
        /\ UNCHANGED <<account, draft, fileGc>>
    BY <1>4 DEF RenewReservation
  <2> QED
    BY <2>1, <2>2, <2>3, <2>4, RewriteTyped
<1>5. CASE InvalidateReservation(r) /\ HoldsReservation(r)
  <2> DEFINE row == [outbox[r.msg] EXCEPT !.state = "permanent_failure",
                                          !.due = 0]
  <2>1. row \in Row
    BY <1>2, StatesTyped, EditsTyped
  <2>4. row.key = outbox[r.msg].key
    BY <1>2 DEF Row
  <2>2. outbox[r.msg].state = "reserved"
    BY <1>5 DEF HoldsReservation
  <2>3. /\ outbox' = [outbox EXCEPT ![r.msg] = row]
        /\ UNCHANGED <<account, draft, fileGc>>
    BY <1>5 DEF InvalidateReservation
  <2> QED
    BY <2>1, <2>2, <2>3, <2>4, RewriteTyped
<1> QED
  BY <1>1, <1>3, <1>4, <1>5
     DEF FinalizeOutbox, RenewReservation, InvalidateReservation, storeVars

LEMMA RecoverLeaseTyped ==
  ASSUME StoreInv, NEW m \in Messages, RecoverLease(m)
  PROVE  StoreInv'
<1> DEFINE row == [outbox[m] EXCEPT
                     !.state = IF outbox[m].started THEN "uncertain"
                                                    ELSE "ready",
                     !.due = 0]
<1>1. outbox[m] \in Row
  BY DEF StoreInv, StoreTypeOK
<1>2. row \in Row
  <2>1. (IF outbox[m].started THEN "uncertain" ELSE "ready") \in RowStates
    BY StatesTyped
  <2> QED
    BY <1>1, <2>1, EditsTyped
<1>5. row.key = outbox[m].key
  BY <1>1 DEF Row
<1>3. outbox[m].state # "absent"
  BY DEF RecoverLease, First, Expired
<1>4. /\ outbox' = [outbox EXCEPT ![m] = row]
      /\ UNCHANGED <<account, draft, fileGc>>
  BY DEF RecoverLease
<1> QED
  BY <1>2, <1>3, <1>4, <1>5, RewriteTyped

LEMMA TerminalizedTyped ==
  \A row \in Row : /\ Terminalized(row) \in Row
                   /\ Terminalized(row).key = row.key
<1> SUFFICES ASSUME NEW row \in Row
             PROVE  /\ Terminalized(row) \in Row
                    /\ Terminalized(row).key = row.key
  OBVIOUS
<1>1. Terminalized(row) \in Row
  BY StatesTyped, EditsTyped DEF Terminalized
<1>2. Terminalized(row).key = row.key
  BY DEF Terminalized, Row
<1> QED
  BY <1>1, <1>2

LEMMA ClaimTyped ==
  ASSUME StoreInv, NEW T \in SUBSET Candidates,
         ClaimIdle(T) \/ \E m \in Candidates \ T : ClaimOutbox(T, m)
  PROVE  StoreInv'
<1>1. /\ T \subseteq Messages
      /\ \A m \in Candidates : outbox[m].state # "absent"
  BY DEF Candidates
<1>2. outbox \in [Messages -> Row]
  BY DEF StoreInv, StoreTypeOK
<1>3. CASE ClaimIdle(T)
  <2>1. outbox' \in [Messages -> Row] /\ RowsHaveKeys'
    BY <1>1, <1>2, <1>3, TerminalizedTyped
       DEF ClaimIdle, StoreInv, RowsHaveKeys
  <2> QED
    BY <1>3, <2>1 DEF ClaimIdle, StoreInv, StoreTypeOK
<1>4. ASSUME NEW m \in Candidates \ T, ClaimOutbox(T, m)
      PROVE  StoreInv'
  <2> DEFINE row == [outbox[m] EXCEPT
                       !.state = "in_flight", !.epoch = @ + 1,
                       !.attempts = @ + 1, !.due = ClaimTTL,
                       !.started = FALSE]
  <2>1. m \in Messages /\ outbox[m] \in Row
    BY <1>2 DEF Candidates
  <2>2. Claimable(m)
    BY <1>4 DEF ClaimOutbox
  <2>3. /\ outbox[m].epoch \in 0..MaxEpoch
        /\ outbox[m].attempts \in 0..MaxAttempts
    BY <2>1 DEF Row
  <2>6. outbox[m].epoch + 1 \in 0..MaxEpoch
    BY <2>2, <2>3, LimitsAssumption DEF Claimable
  <2>7. outbox[m].attempts + 1 \in 0..MaxAttempts
    BY <2>2, <2>3, LimitsAssumption DEF Claimable
  <2>8. row \in Row
    <3> DEFINE r1 == [outbox[m] EXCEPT !.state = "in_flight"]
               r2 == [r1 EXCEPT !.epoch = outbox[m].epoch + 1]
               r3 == [r2 EXCEPT !.attempts = outbox[m].attempts + 1]
    <3>1. r1 \in Row /\ r1.epoch = outbox[m].epoch
      BY <2>1, StatesTyped, EditsTyped DEF Row
    <3>2. r2 \in Row
      BY <2>6, <3>1, EditsTyped
    <3>3. r3 \in Row
      BY <2>7, <3>2, EditsTyped
    <3>4. row = [r3 EXCEPT !.due = ClaimTTL, !.started = FALSE]
      OBVIOUS
    <3> HIDE DEF r1, r2, r3
    <3>5. [r3 EXCEPT !.due = ClaimTTL, !.started = FALSE] \in Row
      BY <3>3, EditsTyped, TTLsTyped
    <3> QED
      BY <3>4, <3>5
  <2>9. row.key = outbox[m].key
    BY <2>1 DEF Row
  <2>4. outbox' = [n \in Messages |->
                     IF n \in T THEN Terminalized(outbox[n])
                     ELSE IF n = m THEN row ELSE outbox[n]]
    BY <1>4 DEF ClaimOutbox
  <2> HIDE DEF row
  <2>5. outbox' \in [Messages -> Row] /\ RowsHaveKeys'
    BY <1>1, <1>2, <2>1, <2>4, <2>8, <2>9, TerminalizedTyped
       DEF StoreInv, RowsHaveKeys
  <2> QED
    BY <1>4, <2>5 DEF ClaimOutbox, StoreInv, StoreTypeOK
<1> QED
  BY <1>3, <1>4

LEMMA RowGone ==
  ASSUME StoreInv, NEW m \in Messages, outbox[m].state # "absent",
         CompleteDelivered(m) \/ ReleaseToDraft(m)
  PROVE  StoreInv'
<1>1. outbox' = [outbox EXCEPT ![m] = NoRow] /\ UNCHANGED account
  BY DEF CompleteDelivered, ReleaseToDraft
<1>2. outbox' \in [Messages -> Row]
  BY <1>1, NoRowTyped DEF StoreInv, StoreTypeOK
<1>3. \A n \in Messages : outbox'[n] = IF n = m THEN NoRow ELSE outbox[n]
  BY <1>1 DEF StoreInv, StoreTypeOK
<1>4. NoRow.state = "absent"
  BY DEF NoRow
<1>5. RowsHaveKeys'
  BY <1>3, <1>4 DEF StoreInv, RowsHaveKeys
<1>6. outbox[m].key \in Keys
  BY DEF StoreInv, RowsHaveKeys
<1>7. fileGc' \subseteq Keys
  BY <1>6 DEF StoreInv, StoreTypeOK, CompleteDelivered, ReleaseToDraft
<1>8. draft' \in [Messages -> Draft]
  <2>1. draft \in [Messages -> Draft] /\ draft[m] \in Draft
    BY DEF StoreInv, StoreTypeOK
  <2>2. CASE CompleteDelivered(m)
    <3>1. [draft[m] EXCEPT !.folder = "sent", !.locked = FALSE] \in Draft
      BY <2>1 DEF Draft
    <3> QED
      BY <2>1, <2>2, <3>1 DEF CompleteDelivered
  <2>3. CASE ReleaseToDraft(m)
    BY <2>1, <2>3 DEF ReleaseToDraft, Draft
  <2> QED
    BY <2>2, <2>3
<1> QED
  BY <1>1, <1>2, <1>5, <1>7, <1>8 DEF StoreInv, StoreTypeOK

LEMMA SettleTyped ==
  ASSUME StoreInv, NEW m \in Messages, outbox[m].state # "absent",
         NEW delay \in Nat,
         ToRetryWait(m, delay) \/ ToUncertain(m) \/ ToPermanentFailure(m)
  PROVE  StoreInv'
<1>1. outbox[m] \in Row
  BY DEF StoreInv, StoreTypeOK
<1>2. CASE ToRetryWait(m, delay)
  <2> DEFINE row == [outbox[m] EXCEPT !.state = "retry_wait", !.due = delay,
                                      !.started = FALSE]
  <2>1. delay \in Int
    OBVIOUS
  <2>2. row \in Row
    BY <1>1, <2>1, StatesTyped, EditsTyped
  <2>3. row.key = outbox[m].key
    BY <1>1 DEF Row
  <2>4. /\ outbox' = [outbox EXCEPT ![m] = row]
        /\ UNCHANGED <<account, draft, fileGc>>
    BY <1>2 DEF ToRetryWait
  <2> QED
    BY <2>2, <2>3, <2>4, RewriteTyped
<1>3. CASE ToUncertain(m)
  <2> DEFINE row == [outbox[m] EXCEPT !.state = "uncertain", !.due = 0,
                                      !.started = TRUE]
  <2>1. row \in Row
    BY <1>1, StatesTyped, EditsTyped
  <2>2. row.key = outbox[m].key
    BY <1>1 DEF Row
  <2>3. /\ outbox' = [outbox EXCEPT ![m] = row]
        /\ UNCHANGED <<account, draft, fileGc>>
    BY <1>3 DEF ToUncertain
  <2> QED
    BY <2>1, <2>2, <2>3, RewriteTyped
<1>4. CASE ToPermanentFailure(m)
  <2>1. /\ outbox' = [outbox EXCEPT ![m] = Terminalized(outbox[m])]
        /\ UNCHANGED <<account, draft, fileGc>>
    BY <1>4 DEF ToPermanentFailure
  <2> QED
    BY <1>1, <2>1, TerminalizedTyped, RewriteTyped
<1> QED
  BY <1>2, <1>3, <1>4

LEMMA FenceTyped ==
  ASSUME StoreInv, NEW l, l.msg \in Messages, CanMarkDataStarted(l),
         MarkDataStarted(l)
  PROVE  StoreInv'
<1> DEFINE row == [outbox[l.msg] EXCEPT !.started = TRUE, !.due = ClaimTTL]
<1>1. outbox[l.msg] \in Row
  BY DEF StoreInv, StoreTypeOK
<1>2. row \in Row
  BY <1>1, EditsTyped, TTLsTyped
<1>3. row.key = outbox[l.msg].key
  BY <1>1 DEF Row
<1>4. outbox[l.msg].state # "absent"
  BY DEF CanMarkDataStarted, HoldsLease
<1>5. /\ outbox' = [outbox EXCEPT ![l.msg] = row]
      /\ UNCHANGED <<account, draft, fileGc>>
  BY DEF MarkDataStarted
<1> QED
  BY <1>2, <1>3, <1>4, <1>5, RewriteTyped

LEMMA ReportTyped ==
  ASSUME StoreInv, NEW l, l.msg \in Messages, NEW report, NEW delay \in Nat,
         ReportOutbox(l, report, delay)
  PROVE  StoreInv'
<1>1. CASE ~HoldsLease(l)
  BY <1>1 DEF ReportOutbox, storeVars, StoreInv, StoreTypeOK, RowsHaveKeys
<1>2. CASE HoldsLease(l)
  <2>1. outbox[l.msg].state # "absent"
    BY <1>2 DEF HoldsLease
  <2>2. \/ CompleteDelivered(l.msg)
        \/ ToRetryWait(l.msg, delay)
        \/ ToUncertain(l.msg)
        \/ ToPermanentFailure(l.msg)
    BY <1>2 DEF ReportOutbox
  <2> QED
    BY <2>1, <2>2, RowGone, SettleTyped
<1> QED
  BY <1>1, <1>2

LEMMA UserOpsTyped ==
  ASSUME StoreInv, NEW m \in Messages,
         \/ RetryOutbox(m) \/ ReleaseFailedOutbox(m)
         \/ ReleaseUncertainOutbox(m) \/ AssumeDelivered(m)
  PROVE  StoreInv'
<1>1. CASE RetryOutbox(m)
  <2> DEFINE row == [outbox[m] EXCEPT !.state = "ready", !.due = 0,
                                      !.attempts = 0]
  <2>1. outbox[m] \in Row
    BY DEF StoreInv, StoreTypeOK
  <2>2. row \in Row
    BY <2>1, StatesTyped, EditsTyped
  <2>3. row.key = outbox[m].key
    BY <2>1 DEF Row
  <2>4. outbox[m].state # "absent"
    BY <1>1 DEF RetryOutbox
  <2>5. /\ outbox' = [outbox EXCEPT ![m] = row]
        /\ UNCHANGED <<account, draft, fileGc>>
    BY <1>1 DEF RetryOutbox
  <2> QED
    BY <2>2, <2>3, <2>4, <2>5, RewriteTyped
<1>2. CASE ~RetryOutbox(m)
  <2>1. /\ outbox[m].state # "absent"
        /\ CompleteDelivered(m) \/ ReleaseToDraft(m)
    BY <1>2 DEF ReleaseFailedOutbox, ReleaseUncertainOutbox, AssumeDelivered
  <2> QED
    BY <2>1, RowGone
<1> QED
  BY <1>1, <1>2

LEMMA AccountOpsTyped ==
  ASSUME StoreInv, NEW a \in Accounts,
         UpdateAccount(a) \/ SetAccountEnabled(a) \/ BeginAccountRemoval(a)
  PROVE  StoreInv'
  BY LimitsAssumption
     DEF StoreInv, StoreTypeOK, RowsHaveKeys, UpdateAccount,
         SetAccountEnabled, BeginAccountRemoval, Account

LEMMA ElapseTyped == ASSUME StoreInv, Elapse PROVE StoreInv'
  BY StatesTyped DEF StoreInv, StoreTypeOK, RowsHaveKeys, Elapse, Row

-----------------------------------------------------------------------------
(* Moves of the driver.                                                    *)

LEMMA WorkEditsTyped ==
  \A w \in Work :
    /\ \A m \in Messages : [w EXCEPT !.msg = m] \in Work
    /\ \A g \in 1..MaxGeneration : [w EXCEPT !.gen = g] \in Work
    /\ \A v \in 0..MaxRevision : [w EXCEPT !.rev = v] \in Work
    /\ \A k \in Keys \cup {NoKey} : [w EXCEPT !.key = k] \in Work
    /\ \A n \in 0..MaxEpoch : [w EXCEPT !.epoch = n] \in Work
    /\ \A n \in 0..MaxAttempts : [w EXCEPT !.attempts = n] \in Work
  BY DEF Work

LEMMA DropTyped ==
  ASSUME NEW point \in FreePoints, Drop(point)
  PROVE  DriverInv'
  BY NoWorkTyped, DriverAssumption
     DEF Drop, DriverInv, FreePoints, HoldingPoints, ReservationPoints,
         ClaimPoints, Verdicts

LEMMA NextRecoveryTyped ==
  ASSUME DriverInv, NextRecovery
  PROVE  DriverInv'
  BY NoWorkTyped
     DEF NextRecovery, DriverInv, FreePoints, HoldingPoints,
         ReservationPoints, ClaimPoints, Verdicts

LEMMA GoToTyped ==
  ASSUME DriverInv, pc \in HoldingPoints, NEW point \in HoldingPoints,
         GoTo(point)
  PROVE  DriverInv'
  BY DEF GoTo, DriverInv

LEMMA ConcludeTyped ==
  ASSUME DriverInv, pc \in HoldingPoints, NEW point \in HoldingPoints,
         NEW v \in Verdicts, Conclude(point, v)
  PROVE  DriverInv'
  BY DEF Conclude, DriverInv

LEMMA PlansTyped ==
  /\ \A kind : SmtpFailurePlan(kind) \in Verdicts
  /\ \A kind : CredentialFailurePlan(kind) \in Verdicts
  BY DEF SmtpFailurePlan, CredentialFailurePlan, Verdicts, Reports

LEMMA FailWithTyped ==
  ASSUME DriverInv, pc \in HoldingPoints, NEW kind, FailWith(kind)
  PROVE  DriverInv'
  BY ConcludeTyped, PlansTyped DEF FailWith, HoldingPoints, ClaimPoints

-----------------------------------------------------------------------------
(* Each step of the system keeps everything typed.                         *)

LEMMA UntouchedTyped ==
  ASSUME TypeInv
  PROVE  /\ UNCHANGED storeVars => StoreInv'
         /\ UNCHANGED files => FilesInv'
         /\ UNCHANGED ui => UiInv'
         /\ UNCHANGED driverVars => DriverInv'
         /\ UNCHANGED ghostVars => GhostInv'
         /\ UNCHANGED boundVars => BoundInv'
<1>1. UNCHANGED storeVars => StoreInv'
  BY DEF TypeInv, StoreInv, StoreTypeOK, RowsHaveKeys, storeVars
<1>2. UNCHANGED files => FilesInv'
  BY DEF TypeInv, FilesInv
<1>3. UNCHANGED ui => UiInv'
  BY DEF TypeInv, UiInv
<1>4. UNCHANGED driverVars => DriverInv'
  BY DEF TypeInv, DriverInv, driverVars
<1>5. UNCHANGED ghostVars => GhostInv'
  BY DEF TypeInv, GhostInv, ghostVars
<1>6. UNCHANGED boundVars => BoundInv'
  BY DEF TypeInv, BoundInv, boundVars
<1> QED
  BY <1>1, <1>2, <1>3, <1>4, <1>5, <1>6

LEMMA StopsAndFaultsTyped ==
  ASSUME TypeInv, Stop \/ Fault
  PROVE  BoundInv'
  BY DriverAssumption DEF TypeInv, BoundInv, Stop, Fault

LEMMA UserStepTyped ==
  ASSUME TypeInv, UserStep
  PROVE  TypeInv'
<1>1. ASSUME NEW m \in Messages, SaveAndClose(m) \/ Star(m)
      PROVE  TypeInv'
  <2>1. StoreInv'
    BY <1>1, DraftOpsTyped DEF TypeInv, SaveAndClose, SaveDraft, Star
  <2> QED
    BY <1>1, <2>1, UntouchedTyped DEF TypeInv, SaveAndClose, Star
<1>2. ASSUME NEW m \in Messages, QueueSave(m)
      PROVE  TypeInv'
  <2>1. StoreInv'
    BY <1>2, DraftOpsTyped DEF TypeInv, QueueSave, SaveDraft
  <2>2. account[AccountOf[m]].gen \in 1..MaxGeneration
    BY EntitiesAssumption DEF TypeInv, StoreInv, StoreTypeOK, Account
  <2>3. draft'[m].rev \in 0..MaxRevision
    BY <2>1 DEF StoreInv, StoreTypeOK, Draft
  <2>4. UiInv'
    BY <1>2, <2>2, <2>3 DEF QueueSave, UiInv, Compose
  <2> QED
    BY <1>2, <2>1, <2>4, UntouchedTyped DEF TypeInv, QueueSave
<1>3. ASSUME NEW m \in Messages,
             Retry(m) \/ ReleaseFailed(m) \/ ReleaseUncertain(m) \/ Vouch(m)
      PROVE  TypeInv'
  <2>1. StoreInv'
    BY <1>3, UserOpsTyped
       DEF TypeInv, Retry, ReleaseFailed, ReleaseUncertain, Vouch
  <2>2. GhostInv'
    BY <1>3 DEF TypeInv, GhostInv, ghostVars, Retry, ReleaseFailed,
                ReleaseUncertain, Vouch
  <2> QED
    BY <1>3, <2>1, <2>2, UntouchedTyped
       DEF TypeInv, Retry, ReleaseFailed, ReleaseUncertain, Vouch
<1>4. ASSUME NEW a \in Accounts, AccountChange(a)
      PROVE  TypeInv'
  <2>1. StoreInv'
    BY <1>4, AccountOpsTyped DEF TypeInv, AccountChange
  <2> QED
    BY <1>4, <2>1, UntouchedTyped DEF TypeInv, AccountChange
<1> QED
  BY <1>1, <1>2, <1>3, <1>4 DEF UserStep

LEMMA ComposeStepTyped ==
  ASSUME TypeInv, ComposeStep
  PROVE  TypeInv'
<1>1. NoCompose \in Compose /\ NoCompose.pc = "idle"
  BY NoComposeTyped DEF NoCompose
<1>2. CASE QueueReserve
  <2>1. ui.msg \in Messages /\ ui \in Compose
    BY <1>2 DEF QueueReserve, TypeInv, UiInv
  <2>2. CASE ui' = NoCompose /\ UNCHANGED storeVars
    BY <1>1, <1>2, <2>2, UntouchedTyped DEF QueueReserve, TypeInv, UiInv
  <2>3. ASSUME NEW k \in FreshKeys,
               ReserveOutbox([msg |-> ui.msg, gen |-> ui.gen, rev |-> ui.rev,
                              key |-> k]),
               ui' = [ui EXCEPT !.pc = "publish", !.key = k]
        PROVE  TypeInv'
    <3>1. k \in Keys
      BY DEF FreshKeys
    <3>2. ui.gen \in 1..MaxGeneration /\ ui.rev \in 0..MaxRevision
      BY <2>1 DEF Compose
    <3>3. StoreInv'
      BY <2>1, <2>3, <3>1, <3>2, ReserveTyped DEF TypeInv
    <3>4. UiInv'
      BY <2>1, <2>3, <3>1 DEF UiInv, Compose
    <3> QED
      BY <1>2, <3>3, <3>4, UntouchedTyped DEF QueueReserve, TypeInv
  <2> QED
    BY <1>2, <2>2, <2>3 DEF QueueReserve
<1>3. CASE QueuePublish
  <2>1. /\ ui \in Compose /\ ui.msg \in Messages /\ ui.key \in Keys
        /\ ui.rev \in 0..MaxRevision
    BY <1>3 DEF QueuePublish, TypeInv, UiInv, Compose
  <2>2. FilesInv'
    BY <1>3, <2>1 DEF QueuePublish, TypeInv, FilesInv
  <2>3. UiInv'
    BY <1>1, <1>3, <2>1 DEF QueuePublish, UiInv, Compose
  <2> QED
    BY <1>3, <2>2, <2>3, UntouchedTyped DEF QueuePublish, TypeInv
<1>4. CASE QueueFinalize
  <2>1. ui.msg \in Messages
    BY <1>4 DEF QueueFinalize, TypeInv, UiInv
  <2>2. StoreInv'
    BY <1>4, <2>1, ReservationOpsTyped DEF QueueFinalize, TypeInv
  <2>3. UiInv'
    BY <1>1, <1>4 DEF QueueFinalize, UiInv
  <2> QED
    BY <1>4, <2>2, <2>3, UntouchedTyped DEF QueueFinalize, TypeInv
<1>5. CASE QueueFault
  <2>1. UiInv'
    BY <1>1, <1>5 DEF QueueFault, UiInv
  <2>2. BoundInv'
    BY <1>5, StopsAndFaultsTyped DEF QueueFault
  <2> QED
    BY <1>5, <2>1, <2>2, UntouchedTyped DEF QueueFault, TypeInv
<1> QED
  BY <1>2, <1>3, <1>4, <1>5 DEF ComposeStep

LEMMA RecoveryTyped ==
  ASSUME TypeInv, Recovery
  PROVE  TypeInv'
<1> USE DEF TypeInv
<1>1. /\ {"claim", "recover", "idle"} \subseteq FreePoints
      /\ {"observe", "resolve", "load_draft", "rebuild"} \subseteq HoldingPoints
      /\ {"missing", "published", "invalid"} \subseteq Verdicts
  BY DEF FreePoints, HoldingPoints, ReservationPoints, Verdicts, Observations
<1>2. pc \in HoldingPoints => work.msg \in Messages
  BY DEF DriverInv
<1>3. CASE RecoverStep
  <2>1. CASE /\ \E m \in Messages : RecoverLease(m)
             /\ budget' = budget - 1
             /\ UNCHANGED <<pc, work, verdict>>
    <3>1. StoreInv'
      BY <2>1, RecoverLeaseTyped
    <3>2. DriverInv'
      BY <1>3, <2>1, DriverAssumption DEF RecoverStep, DriverInv
    <3> QED
      BY <1>3, <3>1, <3>2, UntouchedTyped DEF RecoverStep
  <2>2. CASE Drop("claim") /\ UNCHANGED storeVars
    BY <1>1, <1>3, <2>2, DropTyped, UntouchedTyped DEF RecoverStep
  <2> QED
    BY <1>3, <2>1, <2>2 DEF RecoverStep
<1>4. CASE RecoverReservation
  <2>1. PICK m \in First(Expired("reserved")) :
          work' = [NoWork EXCEPT !.msg = m, !.gen = outbox[m].gen,
                                 !.rev = outbox[m].rev, !.key = outbox[m].key]
    BY <1>4 DEF RecoverReservation
  <2>2. m \in Messages
    BY DEF First, Expired
  <2>3. outbox[m] \in Row
    BY <2>2 DEF StoreInv, StoreTypeOK
  <2>4. /\ outbox[m].gen \in 1..MaxGeneration
        /\ outbox[m].rev \in 0..MaxRevision
        /\ outbox[m].key \in Keys \cup {NoKey}
    BY <2>3 DEF Row
  <2>5. work' \in Work
    BY <2>1, <2>2, <2>4, NoWorkTyped, WorkEditsTyped
  <2>6. work'.msg = m
    BY <2>1 DEF NoWork
  <2>7. DriverInv'
    BY <1>1, <1>4, <2>2, <2>5, <2>6, DriverAssumption
       DEF RecoverReservation, DriverInv
  <2> QED
    BY <1>4, <2>7, UntouchedTyped DEF RecoverReservation
<1>5. CASE RecoveryDone
  BY <1>1, <1>5, DropTyped, UntouchedTyped DEF RecoveryDone
<1>6. CASE ObserveArtifact
  <2>1. DriverInv'
    BY <1>1, <1>6, ConcludeTyped DEF ObserveArtifact
  <2> QED
    BY <1>6, <2>1, UntouchedTyped DEF ObserveArtifact
<1>7. CASE ResolveReservation
  <2>1. pc \in HoldingPoints
    BY <1>1, <1>7 DEF ResolveReservation
  <2>2. StoreInv'
    BY <1>2, <1>7, <2>1, ReservationOpsTyped DEF ResolveReservation
  <2>3. Drop("claim") \/ NextRecovery \/ GoTo("load_draft")
    BY <1>7 DEF ResolveReservation
  <2>4. DriverInv'
    BY <1>1, <2>1, <2>3, DropTyped, NextRecoveryTyped, GoToTyped
  <2> QED
    BY <1>7, <2>2, <2>4, UntouchedTyped DEF ResolveReservation
<1>8. CASE LoadDraft
  <2>1. DriverInv'
    BY <1>1, <1>8, GoToTyped, ConcludeTyped DEF LoadDraft
  <2> QED
    BY <1>8, <2>1, UntouchedTyped DEF LoadDraft
<1>9. CASE RebuildArtifact
  <2>1. DriverInv'
    BY <1>1, <1>9, DropTyped, ConcludeTyped DEF RebuildArtifact
  <2>2. work.rev \in 0..MaxRevision
    BY DEF DriverInv, Work
  <2>3. FilesInv'
    BY <1>9, <2>2 DEF RebuildArtifact, FilesInv
  <2> QED
    BY <1>9, <2>1, <2>3, UntouchedTyped DEF RebuildArtifact
<1> QED
  BY <1>3, <1>4, <1>5, <1>6, <1>7, <1>8, <1>9 DEF Recovery

LEMMA SubmissionTyped ==
  ASSUME TypeInv, Submission
  PROVE  TypeInv'
<1> USE DEF TypeInv
<1>1. ClaimPoints \subseteq HoldingPoints
  BY DEF HoldingPoints
<1>2. {"credential", "connect", "fence", "fenced", "body", "quit", "report"}
        \subseteq ClaimPoints
  BY DEF ClaimPoints
<1>3. "delivered" \in Verdicts /\ "permanent_failure" \in Verdicts
  BY DEF Verdicts, Reports
<1>4. Submission => pc \in ClaimPoints
  BY <1>2 DEF Submission, LoadCredential, Connect, CommitDataFence, FenceFault,
              InterruptFence, StartBody, BodyAccepted, BodyRejected, BodyLost,
              Quit, Report
<1>5. pc \in HoldingPoints /\ work.msg \in Messages /\ work \in Work
  BY <1>1, <1>4 DEF DriverInv
<1>6. CASE LoadCredential \/ Connect \/ StartBody \/ BodyRejected \/ Quit
           \/ InterruptFence
  <2>1. DriverInv'
    BY <1>1, <1>2, <1>3, <1>5, <1>6, GoToTyped, ConcludeTyped, FailWithTyped,
       PlansTyped
       DEF LoadCredential, Connect, StartBody, BodyRejected, Quit,
           InterruptFence
  <2> QED
    BY <1>6, <2>1, UntouchedTyped
       DEF LoadCredential, Connect, StartBody, BodyRejected, Quit,
           InterruptFence
<1>7. CASE CommitDataFence
  <2>1. StoreInv'
    BY <1>5, <1>7, FenceTyped, UntouchedTyped DEF CommitDataFence
  <2>2. DriverInv'
    BY <1>1, <1>2, <1>5, <1>7, GoToTyped, FailWithTyped DEF CommitDataFence
  <2> QED
    BY <1>7, <2>1, <2>2, UntouchedTyped DEF CommitDataFence
<1>8. CASE FenceFault
  <2>1. DriverInv' /\ BoundInv'
    BY <1>5, <1>8, FailWithTyped, StopsAndFaultsTyped DEF FenceFault
  <2> QED
    BY <1>8, <2>1, UntouchedTyped DEF FenceFault
<1>9. CASE BodyAccepted \/ BodyLost
  <2>1. DriverInv'
    BY <1>1, <1>2, <1>5, <1>9, GoToTyped, FailWithTyped
       DEF BodyAccepted, BodyLost
  <2>2. GhostInv'
    BY <1>5, <1>9 DEF BodyAccepted, BodyLost, Accept, GhostInv
  <2> QED
    BY <1>9, <2>1, <2>2, UntouchedTyped DEF BodyAccepted, BodyLost
<1>10. CASE Report
  <2>1. work.attempts \in Nat
    BY <1>5, LimitsAssumption DEF Work
  <2>2. StoreInv'
    BY <1>5, <1>10, <2>1, ReportTyped, RetryDelayTyped DEF Report
  <2>3. DriverInv'
    BY <1>10, DropTyped DEF Report, FreePoints
  <2> QED
    BY <1>10, <2>2, <2>3, UntouchedTyped DEF Report
<1> QED
  BY <1>6, <1>7, <1>8, <1>9, <1>10 DEF Submission

LEMMA DriverStepTyped ==
  ASSUME TypeInv, DriverStep
  PROVE  TypeInv'
<1> USE DEF TypeInv
<1>1. CASE ClaimNext
  <2>1. PICK T \in SUBSET Candidates :
          \/ ClaimIdle(T) /\ Drop("idle")
          \/ \E m \in Candidates \ T :
               /\ ClaimOutbox(T, m)
               /\ work' = [NoWork EXCEPT
                             !.msg = m, !.gen = outbox[m].gen,
                             !.key = outbox[m].key,
                             !.epoch = outbox'[m].epoch,
                             !.attempts = outbox'[m].attempts]
               /\ pc' = "credential"
               /\ UNCHANGED <<budget, verdict>>
    BY <1>1 DEF ClaimNext
  <2>2. StoreInv'
    BY <2>1, ClaimTyped
  <2>3. CASE Drop("idle")
    BY <1>1, <2>2, <2>3, DropTyped, UntouchedTyped DEF ClaimNext, FreePoints
  <2>4. ASSUME NEW m \in Candidates,
               work' = [NoWork EXCEPT
                          !.msg = m, !.gen = outbox[m].gen,
                          !.key = outbox[m].key,
                          !.epoch = outbox'[m].epoch,
                          !.attempts = outbox'[m].attempts],
               pc' = "credential", UNCHANGED <<budget, verdict>>
        PROVE  TypeInv'
    <3>1. m \in Messages
      BY DEF Candidates
    <3>2. outbox[m] \in Row /\ outbox'[m] \in Row
      BY <2>2, <3>1 DEF StoreInv, StoreTypeOK
    <3>3. /\ outbox[m].gen \in 1..MaxGeneration
          /\ outbox[m].key \in Keys \cup {NoKey}
          /\ outbox'[m].epoch \in 0..MaxEpoch
          /\ outbox'[m].attempts \in 0..MaxAttempts
      BY <3>2 DEF Row
    <3>4. work' \in Work
      BY <2>4, <3>1, <3>3, NoWorkTyped, WorkEditsTyped
    <3>5. work'.msg = m
      BY <2>4 DEF NoWork
    <3>6. DriverInv'
      BY <2>4, <3>1, <3>4, <3>5
         DEF DriverInv, HoldingPoints, ClaimPoints
    <3> QED
      BY <1>1, <2>2, <3>6, UntouchedTyped DEF ClaimNext
  <2> QED
    BY <2>1, <2>3, <2>4
<1>2. CASE Wake
  BY <1>2, DropTyped, UntouchedTyped DEF Wake, FreePoints
<1>3. CASE DriverFault
  <2>1. DriverInv'
    BY <1>3, DropTyped DEF DriverFault, FreePoints
  <2> QED
    BY <1>3, <2>1, UntouchedTyped, StopsAndFaultsTyped DEF DriverFault
<1> QED
  BY <1>1, <1>2, <1>3, RecoveryTyped, SubmissionTyped DEF DriverStep

LEMMA OtherStepsTyped ==
  ASSUME TypeInv, Environment \/ \E k \in Keys : RunFileGc(k)
  PROVE  TypeInv'
<1> USE DEF TypeInv
<1>1. CASE Shutdown
  <2>1. DriverInv'
    BY <1>1, DropTyped DEF Shutdown, FreePoints
  <2> QED
    BY <1>1, <2>1, UntouchedTyped, StopsAndFaultsTyped DEF Shutdown
<1>2. CASE Crash
  <2>1. DriverInv'
    BY <1>2, DropTyped DEF Crash, FreePoints
  <2>2. pc = "body" => work.msg \in Messages
    BY DEF DriverInv, HoldingPoints, ClaimPoints
  <2>3. GhostInv'
    BY <1>2, <2>2 DEF Crash, Accept, GhostInv
  <2>4. UiInv'
    BY <1>2, NoComposeTyped DEF Crash, UiInv, NoCompose
  <2> QED
    BY <1>2, <2>1, <2>3, <2>4, UntouchedTyped, StopsAndFaultsTyped DEF Crash
<1>3. CASE Restart
  BY <1>3, DropTyped, UntouchedTyped DEF Restart, FreePoints
<1>4. CASE Tick
  BY <1>4, ElapseTyped, UntouchedTyped DEF Tick
<1>5. ASSUME NEW k \in Keys, RunFileGc(k)
      PROVE  TypeInv'
  <2>1. StoreInv'
    BY <1>5 DEF RunFileGc, StoreInv, StoreTypeOK, RowsHaveKeys
  <2>2. FilesInv'
    BY <1>5 DEF RunFileGc, FilesInv
  <2> QED
    BY <1>5, <2>1, <2>2, UntouchedTyped DEF RunFileGc
<1> QED
  BY <1>1, <1>2, <1>3, <1>4, <1>5 DEF Environment

LEMMA NextTyped ==
  ASSUME TypeInv, [Next]_vars
  PROVE  TypeInv'
<1>1. CASE UNCHANGED vars
  BY <1>1, UntouchedTyped
     DEF TypeInv, vars, storeVars, driverVars, ghostVars, boundVars
<1> QED
  BY <1>1, UserStepTyped, ComposeStepTyped, DriverStepTyped, OtherStepsTyped
     DEF Next

(* Whatever the messages, accounts, keys and limits, every value the       *)
(* tables, the composer and the driver take stays in its domain: no claim  *)
(* or retry pushes attempt_count, claim_epoch, a revision or a generation  *)
(* past its limit (core/outbox_driver.rs, store/sqlite/outbox.rs).         *)
THEOREM TypeCorrect == Spec => []TypeOK
<1>1. Spec => []TypeInv
  BY InitTyped, NextTyped, PTL DEF Spec
<1> QED
  BY <1>1, TypeInvImpliesTypeOK, PTL

-----------------------------------------------------------------------------
(* One copy of a message, and a fence before every body.                   *)

(* The server has no copy of such a message: nothing of it was sent since  *)
(* the server last refused it or the user last let go of it.               *)
NotOut(m) ==
    \/ outbox[m].state \in {"reserved", "ready", "retry_wait",
                            "permanent_failure"}
    \/ outbox[m].state = "in_flight" /\ ~outbox[m].started
    \/ outbox[m].state = "absent" /\ draft[m].folder # "sent"

RowOK(m) == /\ draft[m].locked <=> outbox[m].state # "absent"
            /\ draft[m].locked => draft[m].folder = "drafts"
            /\ copies[m] <= 1
            /\ NotOut(m) => copies[m] = 0
            /\ draft[m].folder = "sent" /\ m \notin vouched => copies[m] = 1

RowsOK == \A m \in Messages : RowOK(m)

(* The driver at work holds its lease, has committed the fence exactly     *)
(* from "fenced" on, and knows what the server did with the body.          *)
DriverOK ==
    pc \in ClaimPoints =>
        /\ HoldsLease(work)
        /\ pc \in {"credential", "connect", "fence"} => ~outbox[work.msg].started
        /\ pc \in {"fenced", "body", "quit"} => outbox[work.msg].started
        /\ pc \in {"fenced", "body"} => copies[work.msg] = 0
        /\ pc = "quit" => copies[work.msg] = 1
        /\ pc = "report" /\ verdict = "delivered" => copies[work.msg] = 1
        /\ pc = "report" /\ verdict \in {"retry_after_rejection",
                                         "permanent_failure"}
             => copies[work.msg] = 0

(* LockMatchesRow and ReportIsNeverStale are parts of it, and the other    *)
(* three safety properties follow from it; none of them is inductive.      *)
SafetyInv == TypeInv /\ RowsOK /\ DriverOK

LEMMA SafetyInvImplies ==
  SafetyInv => /\ AtMostOneCopy /\ SendableRowsAreNotOut /\ SentIsAccepted
               /\ FenceBeforeBytes /\ ReportIsNeverStale /\ LockMatchesRow
  BY DEF SafetyInv, RowsOK, RowOK, NotOut, DriverOK, ClaimPoints,
         AtMostOneCopy, SendableRowsAreNotOut, SentIsAccepted,
         FenceBeforeBytes, ReportIsNeverStale, LockMatchesRow

LEMMA InitSafe == Init => SafetyInv
<1> SUFFICES ASSUME Init PROVE SafetyInv
  OBVIOUS
<1>1. TypeInv
  BY InitTyped
<1>2. RowsOK
  BY DEF Init, StoreInit, RowsOK, RowOK, NotOut, NoRow
<1>3. DriverOK
  BY DEF Init, DriverOK, ClaimPoints
<1> QED
  BY <1>1, <1>2, <1>3 DEF SafetyInv

-----------------------------------------------------------------------------
(* Frames: what a step that does not concern a message, or the driver,     *)
(* leaves as it was.                                                       *)

SameStatus(m) == /\ outbox'[m].state = outbox[m].state
                 /\ outbox'[m].started = outbox[m].started
                 /\ draft'[m].locked = draft[m].locked
                 /\ draft'[m].folder = draft[m].folder
                 /\ copies'[m] = copies[m]
                 /\ m \in vouched => m \in vouched'

SameLease(m) == /\ outbox'[m].state = outbox[m].state
                /\ outbox'[m].started = outbox[m].started
                /\ outbox'[m].gen = outbox[m].gen
                /\ outbox'[m].epoch = outbox[m].epoch

LEMMA RowStays ==
  ASSUME NEW m \in Messages, RowOK(m), SameStatus(m)
  PROVE  RowOK(m)'
  BY DEF RowOK, NotOut, SameStatus

LEMMA DriverStays ==
  ASSUME SafetyInv, UNCHANGED <<pc, work, verdict>>,
         pc \in ClaimPoints => /\ SameLease(work.msg)
                               /\ copies'[work.msg] = copies[work.msg]
  PROVE  DriverOK'
  BY DEF SafetyInv, DriverOK, HoldsLease, SameLease

(* A step that rewrites one row, m, which the driver does not work on.     *)
LEMMA OneRowChanges ==
  ASSUME SafetyInv, NEW m \in Messages, RowOK(m)',
         pc \in ClaimPoints => outbox[m].state # "in_flight",
         \A n \in Messages \ {m} : SameStatus(n) /\ SameLease(n),
         UNCHANGED <<pc, work, verdict>>
  PROVE  RowsOK' /\ DriverOK'
<1>1. \A n \in Messages : RowOK(n)
  BY DEF SafetyInv, RowsOK
<1>2. RowsOK'
  BY <1>1, RowStays DEF RowsOK
<1>3. pc \in ClaimPoints => work.msg \in Messages \ {m}
  BY DEF SafetyInv, TypeInv, DriverInv, HoldingPoints, DriverOK, HoldsLease
<1>4. DriverOK'
  BY <1>3, DriverStays DEF SameStatus
<1> QED
  BY <1>2, <1>4

LEMMA NothingChanges ==
  ASSUME SafetyInv, UNCHANGED <<draft, outbox, copies, vouched>>
  PROVE  /\ RowsOK'
         /\ UNCHANGED <<pc, work, verdict>> => DriverOK'
<1>1. \A n \in Messages : RowOK(n) /\ SameStatus(n)
  BY DEF SafetyInv, RowsOK, SameStatus
<1>2. RowsOK'
  BY <1>1, RowStays DEF RowsOK
<1>3. SameLease(work.msg)
  BY DEF SameLease
<1> QED
  BY <1>2, <1>3, DriverStays

LEMMA Rewritten ==
  ASSUME StoreInv, NEW m \in Messages, NEW row,
         outbox' = [outbox EXCEPT ![m] = row],
         UNCHANGED <<draft, copies, vouched>>
  PROVE  /\ outbox'[m] = row
         /\ \A n \in Messages \ {m} : SameStatus(n) /\ SameLease(n)
  BY DEF StoreInv, StoreTypeOK, SameStatus, SameLease

-----------------------------------------------------------------------------
(* The transactions of the composer, of recovery and of the user.          *)

LEMMA DraftOpsSafe ==
  ASSUME SafetyInv, NEW m \in Messages,
         CreateDraft(m) \/ UpdateDraft(m) \/ SetStarred(m),
         UNCHANGED <<copies, vouched, pc, work, verdict>>
  PROVE  RowsOK' /\ DriverOK'
<1>1. draft \in [Messages -> Draft]
  BY DEF SafetyInv, TypeInv, StoreInv, StoreTypeOK
<1>2. \A n \in Messages :
        /\ draft'[n].locked = draft[n].locked
        /\ \/ draft'[n].folder = draft[n].folder
           \/ draft[n].folder = "unsaved" /\ draft'[n].folder = "drafts"
  BY <1>1 DEF CreateDraft, UpdateDraft, SetStarred, Draft
<1>3. UNCHANGED outbox
  BY DEF CreateDraft, UpdateDraft, SetStarred
<1>4. RowsOK'
  BY <1>2, <1>3 DEF SafetyInv, RowsOK, RowOK, NotOut
<1>5. DriverOK'
  BY <1>3, DriverStays DEF SameLease
<1> QED
  BY <1>4, <1>5

LEMMA ReserveSafe ==
  ASSUME SafetyInv, NEW r, r.msg \in Messages, CanReserve(r), ReserveOutbox(r),
         UNCHANGED <<copies, vouched, pc, work, verdict>>
  PROVE  RowsOK' /\ DriverOK'
<1> DEFINE m == r.msg
<1>1. /\ draft[m].folder = "drafts" /\ outbox[m].state = "absent"
      /\ copies[m] = 0
  BY DEF SafetyInv, RowsOK, RowOK, NotOut, CanReserve
<1>2. /\ outbox \in [Messages -> Row] /\ draft \in [Messages -> Draft]
      /\ draft[m] \in Draft
  BY DEF SafetyInv, TypeInv, StoreInv, StoreTypeOK
<1>3. outbox'[m].state = "reserved"
  BY <1>2 DEF ReserveOutbox, NoRow
<1>4. draft'[m].locked /\ draft'[m].folder = draft[m].folder
  BY <1>2 DEF ReserveOutbox, Draft
<1>5. RowOK(m)'
  BY <1>1, <1>3, <1>4 DEF RowOK, NotOut
<1>6. \A n \in Messages \ {m} : SameStatus(n) /\ SameLease(n)
  BY <1>2 DEF ReserveOutbox, SameStatus, SameLease
<1> QED
  BY <1>1, <1>5, <1>6, OneRowChanges

LEMMA ReservationOpsSafe ==
  ASSUME SafetyInv, NEW r, r.msg \in Messages,
         FinalizeOutbox(r) \/ RenewReservation(r) \/ InvalidateReservation(r),
         UNCHANGED <<copies, vouched>>
  PROVE  /\ RowsOK'
         /\ UNCHANGED <<pc, work, verdict>> => DriverOK'
<1> DEFINE m == r.msg
<1>1. StoreInv /\ outbox[m] \in Row /\ UNCHANGED draft
  BY DEF SafetyInv, TypeInv, StoreInv, StoreTypeOK, FinalizeOutbox,
         RenewReservation, InvalidateReservation
<1>2. CASE UNCHANGED outbox
  BY <1>1, <1>2, NothingChanges
<1>3. CASE outbox' # outbox
  <2>1. outbox[m].state = "reserved"
    BY <1>3 DEF FinalizeOutbox, FinalizeOutcome, CanFinalize,
                RenewReservation, InvalidateReservation, HoldsReservation
  <2>2. /\ \A n \in Messages \ {m} : SameStatus(n) /\ SameLease(n)
        /\ outbox'[m].state \in {"ready", "reserved", "permanent_failure"}
    <3>1. CASE FinalizeOutbox(r)
      BY <1>1, <1>3, <3>1, Rewritten DEF FinalizeOutbox, Row
    <3>2. CASE RenewReservation(r)
      BY <1>1, <1>3, <2>1, <3>2, Rewritten DEF RenewReservation, Row
    <3>3. CASE InvalidateReservation(r)
      BY <1>1, <1>3, <3>3, Rewritten DEF InvalidateReservation, Row
    <3> QED
      BY <3>1, <3>2, <3>3
  <2>3. RowOK(m)'
    BY <1>1, <2>1, <2>2 DEF SafetyInv, RowsOK, RowOK, NotOut
  <2>4. RowsOK'
    BY <2>2, <2>3, RowStays DEF SafetyInv, RowsOK
  <2> QED
    BY <2>1, <2>2, <2>3, <2>4, OneRowChanges
<1> QED
  BY <1>2, <1>3

LEMMA RecoverLeaseSafe ==
  ASSUME SafetyInv, NEW m \in Messages, RecoverLease(m), pc = "recover",
         UNCHANGED <<copies, vouched, pc, work, verdict>>
  PROVE  RowsOK' /\ DriverOK'
<1>1. StoreInv /\ outbox[m] \in Row /\ UNCHANGED draft
  BY DEF SafetyInv, TypeInv, StoreInv, StoreTypeOK, RecoverLease
<1>2. outbox[m].state = "in_flight"
  BY DEF RecoverLease, First, Expired
<1>3. /\ \A n \in Messages \ {m} : SameStatus(n) /\ SameLease(n)
      /\ outbox'[m].state = IF outbox[m].started THEN "uncertain" ELSE "ready"
  <2> DEFINE next == IF outbox[m].started THEN "uncertain" ELSE "ready"
             row == [outbox[m] EXCEPT !.state = next, !.due = 0]
  <2>1. outbox' = [outbox EXCEPT ![m] = row]
    BY DEF RecoverLease
  <2>2. row.state = next
    <3> HIDE DEF next
    <3> QED
      BY <1>1 DEF Row
  <2> HIDE DEF row
  <2> QED
    BY <1>1, <2>1, <2>2, Rewritten
<1>4. RowOK(m)'
  BY <1>1, <1>2, <1>3 DEF SafetyInv, RowsOK, RowOK, NotOut
<1> QED
  BY <1>3, <1>4, OneRowChanges DEF ClaimPoints

LEMMA UserOpsSafe ==
  ASSUME SafetyInv, NEW m \in Messages,
         \/ RetryOutbox(m) /\ UNCHANGED <<copies, vouched>>
         \/ ReleaseFailedOutbox(m) /\ UNCHANGED <<copies, vouched>>
         \/ /\ ReleaseUncertainOutbox(m)
            /\ copies' = [copies EXCEPT ![m] = 0] /\ UNCHANGED vouched
         \/ /\ AssumeDelivered(m)
            /\ vouched' = vouched \cup {m} /\ UNCHANGED copies,
         UNCHANGED <<pc, work, verdict>>
  PROVE  RowsOK' /\ DriverOK'
<1>1. /\ StoreInv /\ outbox \in [Messages -> Row] /\ outbox[m] \in Row
      /\ draft \in [Messages -> Draft] /\ draft[m] \in Draft
      /\ copies \in [Messages -> Nat]
  BY DEF SafetyInv, TypeInv, StoreInv, StoreTypeOK, GhostInv
<1>2. /\ outbox[m].state \in {"permanent_failure", "uncertain"}
      /\ outbox[m].state = "permanent_failure" => copies[m] = 0
      /\ copies[m] <= 1
  BY DEF SafetyInv, RowsOK, RowOK, NotOut, RetryOutbox, ReleaseFailedOutbox,
         ReleaseUncertainOutbox, AssumeDelivered
<1>3. draft[m].locked /\ draft[m].folder = "drafts"
  BY <1>2 DEF SafetyInv, RowsOK, RowOK
<1>4. CASE RetryOutbox(m) /\ UNCHANGED <<copies, vouched>>
  <2>1. /\ \A n \in Messages \ {m} : SameStatus(n) /\ SameLease(n)
        /\ outbox'[m].state = "ready"
    BY <1>1, <1>4, Rewritten DEF RetryOutbox, Row
  <2>2. RowOK(m)'
    BY <1>2, <1>3, <1>4, <2>1 DEF RowOK, NotOut, RetryOutbox
  <2> QED
    BY <1>2, <2>1, <2>2, OneRowChanges
<1>5. CASE /\ ReleaseToDraft(m) /\ copies'[m] = 0 /\ UNCHANGED vouched
           /\ \A n \in Messages \ {m} : copies'[n] = copies[n]
  <2>1. /\ \A n \in Messages \ {m} : SameStatus(n) /\ SameLease(n)
        /\ outbox'[m].state = "absent"
        /\ ~draft'[m].locked /\ draft'[m].folder = "drafts"
    BY <1>1, <1>3, <1>5
       DEF ReleaseToDraft, NoRow, Draft, SameStatus, SameLease
  <2>2. RowOK(m)'
    BY <1>5, <2>1 DEF RowOK, NotOut
  <2> QED
    BY <1>2, <2>1, <2>2, OneRowChanges
<1>6. CASE /\ AssumeDelivered(m)
           /\ vouched' = vouched \cup {m} /\ UNCHANGED copies
  <2>1. /\ outbox' = [outbox EXCEPT ![m] = NoRow]
        /\ draft' = [draft EXCEPT ![m] =
                       [@ EXCEPT !.folder = "sent", !.locked = FALSE]]
    BY <1>6 DEF AssumeDelivered, CompleteDelivered
  <2>2. /\ \A n \in Messages \ {m} : SameStatus(n) /\ SameLease(n)
        /\ outbox'[m].state = "absent"
        /\ ~draft'[m].locked /\ draft'[m].folder = "sent"
    BY <1>1, <1>6, <2>1 DEF NoRow, Draft, SameStatus, SameLease
  <2>3. RowOK(m)'
    BY <1>2, <1>6, <2>2 DEF RowOK, NotOut
  <2> QED
    BY <1>2, <2>2, <2>3, OneRowChanges
<1>7. ReleaseFailedOutbox(m) /\ UNCHANGED copies => copies'[m] = 0
  BY <1>2 DEF ReleaseFailedOutbox
<1> QED
  BY <1>1, <1>4, <1>5, <1>6, <1>7
     DEF ReleaseFailedOutbox, ReleaseUncertainOutbox

-----------------------------------------------------------------------------
(* The driver's transactions.                                              *)

LEMMA ClaimIdleSafe ==
  ASSUME SafetyInv, NEW T \in SUBSET Candidates, ClaimIdle(T),
         UNCHANGED <<copies, vouched>>
  PROVE  RowsOK'
<1>1. /\ outbox \in [Messages -> Row] /\ UNCHANGED draft
      /\ outbox' = [n \in Messages |->
                      IF n \in T THEN Terminalized(outbox[n]) ELSE outbox[n]]
  BY DEF SafetyInv, TypeInv, StoreInv, StoreTypeOK, ClaimIdle
<1>2. ASSUME NEW n \in Messages PROVE RowOK(n)'
  <2>1. CASE n \in T
    <3>1. outbox[n].state \in {"ready", "retry_wait"}
      BY <2>1 DEF Candidates
    <3>2. outbox'[n].state = "permanent_failure"
      BY <1>1, <2>1 DEF Terminalized, Row
    <3> QED
      BY <1>1, <3>1, <3>2 DEF SafetyInv, RowsOK, RowOK, NotOut
  <2>2. CASE n \notin T
    BY <1>1, <2>2 DEF SafetyInv, RowsOK, RowOK, NotOut
  <2> QED
    BY <2>1, <2>2
<1> QED
  BY <1>2 DEF RowsOK

LEMMA ClaimSafe ==
  ASSUME SafetyInv, NEW T \in SUBSET Candidates, NEW m \in Candidates \ T,
         ClaimOutbox(T, m), UNCHANGED <<copies, vouched>>
  PROVE  /\ RowsOK'
         /\ outbox'[m].state = "in_flight" /\ ~outbox'[m].started
         /\ outbox'[m].gen = outbox[m].gen
<1> DEFINE row == [outbox[m] EXCEPT
                     !.state = "in_flight", !.epoch = @ + 1,
                     !.attempts = @ + 1, !.due = ClaimTTL, !.started = FALSE]
<1>1. /\ outbox \in [Messages -> Row] /\ UNCHANGED draft
      /\ outbox' = [n \in Messages |->
                      IF n \in T THEN Terminalized(outbox[n])
                      ELSE IF n = m THEN row ELSE outbox[n]]
  BY DEF SafetyInv, TypeInv, StoreInv, StoreTypeOK, ClaimOutbox
<1>2. m \in Messages /\ outbox[m].state \in {"ready", "retry_wait"}
  BY DEF Candidates
<1>3. row.state = "in_flight" /\ ~row.started /\ row.gen = outbox[m].gen
  BY <1>1, <1>2 DEF Row
<1> HIDE DEF row
<1>4. outbox'[m] = row
  BY <1>1, <1>2
<1>5. ASSUME NEW n \in Messages PROVE RowOK(n)'
  <2>1. CASE n \in T
    <3>1. outbox[n].state \in {"ready", "retry_wait"}
      BY <2>1 DEF Candidates
    <3>2. outbox'[n].state = "permanent_failure"
      BY <1>1, <2>1 DEF Terminalized, Row
    <3> QED
      BY <1>1, <3>1, <3>2 DEF SafetyInv, RowsOK, RowOK, NotOut
  <2>2. CASE n = m
    BY <1>1, <1>2, <1>3, <1>4, <2>2 DEF SafetyInv, RowsOK, RowOK, NotOut
  <2>3. CASE n \notin T /\ n # m
    BY <1>1, <2>3 DEF SafetyInv, RowsOK, RowOK, NotOut
  <2> QED
    BY <2>1, <2>2, <2>3
<1> QED
  BY <1>3, <1>4, <1>5 DEF RowsOK

LEMMA FenceSafe ==
  ASSUME SafetyInv, NEW m \in Messages, work.msg = m,
         CanMarkDataStarted(work), MarkDataStarted(work),
         UNCHANGED <<copies, vouched>>
  PROVE  /\ RowsOK'
         /\ outbox'[m].state = "in_flight"
         /\ outbox'[m].gen = outbox[m].gen /\ outbox'[m].epoch = outbox[m].epoch
         /\ outbox'[m].started
         /\ copies'[m] = 0
<1>1. StoreInv /\ outbox[m] \in Row /\ UNCHANGED draft
  BY DEF SafetyInv, TypeInv, StoreInv, StoreTypeOK, MarkDataStarted
<1>2. outbox[m].state = "in_flight" /\ ~outbox[m].started /\ copies[m] = 0
  BY DEF CanMarkDataStarted, HoldsLease, SafetyInv, RowsOK, RowOK, NotOut
<1> DEFINE row == [outbox[m] EXCEPT !.started = TRUE, !.due = ClaimTTL]
<1>3. /\ row.state = "in_flight" /\ row.started
      /\ row.gen = outbox[m].gen /\ row.epoch = outbox[m].epoch
  BY <1>1, <1>2 DEF Row
<1>4. outbox' = [outbox EXCEPT ![m] = row]
  BY DEF MarkDataStarted
<1> HIDE DEF row
<1>6. outbox'[m] = row /\ \A n \in Messages \ {m} : SameStatus(n)
  BY <1>1, <1>4, Rewritten
<1>5. RowOK(m)'
  BY <1>1, <1>2, <1>3, <1>6 DEF SafetyInv, RowsOK, RowOK, NotOut
<1> QED
  BY <1>2, <1>3, <1>5, <1>6, RowStays DEF SafetyInv, RowsOK

LEMMA ReportSafe ==
  ASSUME SafetyInv, pc = "report", NEW delay \in Nat,
         NEW m \in Messages, work.msg = m,
         ReportOutbox(work, verdict, delay), UNCHANGED <<copies, vouched>>
  PROVE  RowsOK'
<1>1. /\ StoreInv /\ outbox \in [Messages -> Row]
      /\ draft \in [Messages -> Draft]
  BY DEF SafetyInv, TypeInv, StoreInv, StoreTypeOK
<1>2. outbox[m] \in Row /\ draft[m] \in Draft
  BY <1>1
<1>3. /\ HoldsLease(work) /\ outbox[m].state = "in_flight"
      /\ verdict = "delivered" => copies[m] = 1
      /\ verdict \in {"retry_after_rejection", "permanent_failure"}
           => copies[m] = 0
      /\ ~outbox[m].started => copies[m] = 0
  BY <1>1 DEF SafetyInv, DriverOK, ClaimPoints, HoldsLease, RowsOK, RowOK,
              NotOut
<1>4. draft[m].locked /\ draft[m].folder = "drafts" /\ copies[m] <= 1
  BY <1>1, <1>3 DEF SafetyInv, RowsOK, RowOK
<1>5. CASE verdict = "delivered" /\ CompleteDelivered(m)
  <2>1. /\ outbox' = [outbox EXCEPT ![m] = NoRow]
        /\ draft' = [draft EXCEPT ![m] =
                       [@ EXCEPT !.folder = "sent", !.locked = FALSE]]
    BY <1>5 DEF CompleteDelivered
  <2>2. /\ \A n \in Messages \ {m} : SameStatus(n)
        /\ outbox'[m].state = "absent"
        /\ ~draft'[m].locked /\ draft'[m].folder = "sent"
    BY <1>1, <1>2, <2>1 DEF NoRow, Draft, SameStatus
  <2>3. RowOK(m)'
    BY <1>3, <1>5, <2>2 DEF RowOK, NotOut
  <2> QED
    BY <2>2, <2>3, RowStays DEF SafetyInv, RowsOK
<1>6. CASE \/ copies[m] = 0 /\ ToRetryWait(m, delay)
           \/ ToUncertain(m)
           \/ copies[m] = 0 /\ ToPermanentFailure(m)
  <2>1. UNCHANGED draft
    BY <1>6 DEF ToRetryWait, ToUncertain, ToPermanentFailure
  <2>2. /\ \A n \in Messages \ {m} : SameStatus(n)
        /\ \/ outbox'[m].state = "uncertain"
           \/ /\ outbox'[m].state \in {"retry_wait", "permanent_failure"}
              /\ copies[m] = 0
    <3>1. CASE copies[m] = 0 /\ ToRetryWait(m, delay)
      BY <1>1, <1>2, <2>1, <3>1, Rewritten DEF ToRetryWait, Row
    <3>2. CASE ToUncertain(m)
      BY <1>1, <1>2, <2>1, <3>2, Rewritten DEF ToUncertain, Row
    <3>3. CASE copies[m] = 0 /\ ToPermanentFailure(m)
      BY <1>1, <1>2, <2>1, <3>3, Rewritten
         DEF ToPermanentFailure, Terminalized, Row
    <3> QED
      BY <1>6, <3>1, <3>2, <3>3
  <2>3. RowOK(m)'
    BY <1>4, <2>1, <2>2 DEF RowOK, NotOut
  <2> QED
    BY <2>2, <2>3, RowStays DEF SafetyInv, RowsOK
<1>7. \/ verdict = "delivered" /\ CompleteDelivered(work.msg)
      \/ copies[m] = 0 /\ ToRetryWait(work.msg, delay)
      \/ ToUncertain(work.msg)
      \/ copies[m] = 0 /\ ToPermanentFailure(work.msg)
  BY <1>3 DEF ReportOutbox
<1> QED
  BY <1>5, <1>6, <1>7
     DEF CompleteDelivered, ToRetryWait, ToUncertain, ToPermanentFailure

LEMMA FreeSafe == ASSUME pc' \notin ClaimPoints PROVE DriverOK'
  BY DEF DriverOK

(* The driver turns to its report having learnt v, not a delivery.         *)
LEMMA ConcludeSafe ==
  ASSUME SafetyInv, pc \in ClaimPoints, NEW v, Conclude("report", v),
         v # "delivered",
         v \in {"retry_after_rejection", "permanent_failure"}
           => copies'[work.msg] = 0,
         UNCHANGED outbox
  PROVE  DriverOK'
  BY DEF SafetyInv, DriverOK, Conclude, HoldsLease, ClaimPoints

LEMMA PlanOutcomes ==
  /\ \A kind : SmtpFailurePlan(kind) # "delivered"
  /\ \A kind : CredentialFailurePlan(kind) # "delivered"
  /\ \A kind \in Interruptions : SmtpFailurePlan(kind) = "retry"
  /\ SmtpFailurePlan("Uncertain") = "uncertain"
  /\ SmtpFailurePlan("LocalState") = "retry"
  BY DEF SmtpFailurePlan, CredentialFailurePlan, Interruptions

LEMMA AcceptSafe ==
  ASSUME SafetyInv, pc = "body", Accept(work.msg),
         UNCHANGED <<draft, outbox, vouched>>
  PROVE  RowsOK' /\ copies'[work.msg] = 1
<1>1. /\ work.msg \in Messages /\ copies \in [Messages -> Nat]
      /\ HoldsLease(work) /\ outbox[work.msg].started
      /\ copies[work.msg] = 0
  BY DEF SafetyInv, TypeInv, DriverInv, HoldingPoints, ClaimPoints, GhostInv,
         DriverOK
<1>2. \A n \in Messages :
        copies'[n] = IF n = work.msg THEN 1 ELSE copies[n]
  BY <1>1 DEF Accept
<1>3. RowsOK'
  BY <1>1, <1>2 DEF SafetyInv, RowsOK, RowOK, NotOut, HoldsLease
<1> QED
  BY <1>1, <1>2, <1>3

-----------------------------------------------------------------------------
(* Each step of the system keeps the invariant.                            *)

LEMMA UserStepSafe ==
  ASSUME SafetyInv, UserStep
  PROVE  RowsOK' /\ DriverOK'
<1> USE DEF driverVars, ghostVars
<1>1. ASSUME NEW m \in Messages, SaveAndClose(m) \/ QueueSave(m) \/ Star(m)
      PROVE  RowsOK' /\ DriverOK'
  BY <1>1, DraftOpsSafe DEF SaveAndClose, QueueSave, Star, SaveDraft
<1>2. ASSUME NEW m \in Messages,
             Retry(m) \/ ReleaseFailed(m) \/ ReleaseUncertain(m) \/ Vouch(m)
      PROVE  RowsOK' /\ DriverOK'
  BY <1>2, UserOpsSafe DEF Retry, ReleaseFailed, ReleaseUncertain, Vouch
<1>3. ASSUME NEW a \in Accounts, AccountChange(a)
      PROVE  RowsOK' /\ DriverOK'
  BY <1>3, NothingChanges
     DEF AccountChange, UpdateAccount, SetAccountEnabled, BeginAccountRemoval
<1> QED
  BY <1>1, <1>2, <1>3 DEF UserStep

LEMMA ComposeStepSafe ==
  ASSUME SafetyInv, ComposeStep
  PROVE  RowsOK' /\ DriverOK'
<1> USE DEF driverVars, ghostVars
<1>1. CASE QueueReserve
  <2>1. ui.msg \in Messages
    BY <1>1 DEF QueueReserve, SafetyInv, TypeInv, UiInv
  <2>2. CASE UNCHANGED storeVars
    BY <1>1, <2>2, NothingChanges DEF QueueReserve, storeVars
  <2>3. ASSUME NEW r, r.msg = ui.msg, CanReserve(r), ReserveOutbox(r)
        PROVE  RowsOK' /\ DriverOK'
    <3>1. r.msg \in Messages
      BY <2>1, <2>3
    <3> QED
      BY <1>1, <2>3, <3>1, ReserveSafe DEF QueueReserve
  <2> QED
    BY <1>1, <2>2, <2>3 DEF QueueReserve
<1>2. CASE QueueFinalize
  BY <1>2, ReservationOpsSafe DEF QueueFinalize, SafetyInv, TypeInv, UiInv
<1>3. CASE QueuePublish \/ QueueFault
  BY <1>3, NothingChanges DEF QueuePublish, QueueFault, storeVars
<1> QED
  BY <1>1, <1>2, <1>3 DEF ComposeStep

LEMMA RecoverySafe ==
  ASSUME SafetyInv, Recovery
  PROVE  RowsOK' /\ DriverOK'
<1> USE DEF ghostVars
<1>1. CASE RecoverStep
  <2>1. ASSUME NEW m \in Messages, RecoverLease(m),
               UNCHANGED <<pc, work, verdict>>
        PROVE  RowsOK' /\ DriverOK'
    BY <1>1, <2>1, RecoverLeaseSafe DEF RecoverStep
  <2>2. CASE Drop("claim") /\ UNCHANGED storeVars
    BY <1>1, <2>2, NothingChanges, FreeSafe
       DEF RecoverStep, Drop, ClaimPoints, storeVars
  <2> QED
    BY <1>1, <2>1, <2>2 DEF RecoverStep
<1>2. CASE RecoverReservation \/ RecoveryDone \/ ObserveArtifact \/ LoadDraft
           \/ RebuildArtifact
  <2>1. UNCHANGED <<draft, outbox, copies, vouched>>
    BY <1>2 DEF RecoverReservation, RecoveryDone, ObserveArtifact, LoadDraft,
                RebuildArtifact, storeVars
  <2>2. pc' \notin ClaimPoints
    BY <1>2 DEF RecoverReservation, RecoveryDone, ObserveArtifact, LoadDraft,
                RebuildArtifact, Drop, GoTo, Conclude, ClaimPoints
  <2> QED
    BY <2>1, <2>2, NothingChanges, FreeSafe
<1>3. CASE ResolveReservation
  <2>1. work.msg \in Messages
    BY <1>3 DEF ResolveReservation, SafetyInv, TypeInv, DriverInv,
                HoldingPoints, ReservationPoints
  <2>2. pc' \notin ClaimPoints
    BY <1>3 DEF ResolveReservation, Drop, GoTo, NextRecovery, ClaimPoints
  <2> QED
    BY <1>3, <2>1, <2>2, ReservationOpsSafe, FreeSafe DEF ResolveReservation
<1> QED
  BY <1>1, <1>2, <1>3 DEF Recovery

LEMMA SubmissionSafe ==
  ASSUME SafetyInv, Submission
  PROVE  RowsOK' /\ DriverOK'
<1> USE DEF ghostVars
<1>1. pc \in ClaimPoints
  BY DEF Submission, LoadCredential, Connect, CommitDataFence, FenceFault,
         InterruptFence, StartBody, BodyAccepted, BodyRejected, BodyLost,
         Quit, Report, ClaimPoints
<1>2. /\ work.msg \in Messages /\ HoldsLease(work)
      /\ pc \in {"credential", "connect", "fence"} => copies[work.msg] = 0
  BY <1>1 DEF SafetyInv, TypeInv, DriverInv, HoldingPoints, DriverOK,
              HoldsLease, RowsOK, RowOK, NotOut
<1>3. CASE LoadCredential \/ Connect \/ FenceFault \/ InterruptFence
  <2>1. UNCHANGED <<draft, outbox, copies, vouched>>
    BY <1>3 DEF LoadCredential, Connect, FenceFault, InterruptFence, storeVars
  <2>2. pc \in {"credential", "connect", "fence"} \/ InterruptFence
    BY <1>3 DEF LoadCredential, Connect, FenceFault
  <2>3. \/ GoTo("connect") /\ pc = "credential"
        \/ GoTo("fence") /\ pc = "connect"
        \/ \E v : /\ Conclude("report", v) /\ v # "delivered"
                  /\ copies[work.msg] = 0 \/ v = "retry"
    BY <1>2, <1>3, PlanOutcomes
       DEF LoadCredential, Connect, FenceFault, InterruptFence, FailWith
  <2>4. ASSUME NEW v, Conclude("report", v), v # "delivered",
               copies[work.msg] = 0 \/ v = "retry"
        PROVE  DriverOK'
    BY <1>1, <2>1, <2>4, ConcludeSafe
  <2>5. GoTo("connect") /\ pc = "credential" => DriverOK'
    BY <1>1, <2>1 DEF SafetyInv, DriverOK, GoTo, HoldsLease
  <2>6. GoTo("fence") /\ pc = "connect" => DriverOK'
    BY <1>1, <2>1 DEF SafetyInv, DriverOK, GoTo, HoldsLease
  <2> QED
    BY <2>1, <2>3, <2>4, <2>5, <2>6, NothingChanges
<1>4. CASE CommitDataFence
  <2>1. CASE CanMarkDataStarted(work)
    <3>1. MarkDataStarted(work) /\ GoTo("fenced") /\ UNCHANGED <<copies, vouched>>
      BY <1>4, <2>1 DEF CommitDataFence
    <3>2. /\ RowsOK'
          /\ outbox'[work.msg].state = "in_flight"
          /\ outbox'[work.msg].gen = outbox[work.msg].gen
          /\ outbox'[work.msg].epoch = outbox[work.msg].epoch
          /\ outbox'[work.msg].started /\ copies'[work.msg] = 0
      BY <1>2, <2>1, <3>1, FenceSafe
    <3>3. DriverOK'
      BY <1>2, <3>1, <3>2 DEF DriverOK, GoTo, HoldsLease
    <3> QED
      BY <3>2, <3>3
  <2>2. CASE ~CanMarkDataStarted(work)
    <3>1. /\ UNCHANGED <<draft, outbox, copies, vouched>>
          /\ Conclude("report", "retry")
      BY <1>4, <2>2, PlanOutcomes DEF CommitDataFence, FailWith, storeVars
    <3> QED
      BY <1>1, <3>1, ConcludeSafe, NothingChanges
  <2> QED
    BY <2>1, <2>2
<1>5. CASE StartBody
  <2>1. /\ UNCHANGED <<draft, outbox, copies, vouched>>
        /\ pc = "fenced" /\ GoTo("body")
    BY <1>5 DEF StartBody, storeVars
  <2>2. DriverOK'
    BY <1>1, <2>1 DEF SafetyInv, DriverOK, GoTo, HoldsLease
  <2> QED
    BY <2>1, <2>2, NothingChanges
<1>6. CASE BodyAccepted
  <2>1. /\ UNCHANGED <<draft, outbox, vouched>> /\ Accept(work.msg)
        /\ pc = "body" /\ GoTo("quit")
    BY <1>6 DEF BodyAccepted, storeVars
  <2>2. RowsOK' /\ copies'[work.msg] = 1
    BY <2>1, AcceptSafe
  <2>3. DriverOK'
    BY <1>1, <2>1, <2>2 DEF SafetyInv, DriverOK, GoTo, HoldsLease
  <2> QED
    BY <2>2, <2>3
<1>7. CASE BodyRejected
  <2>1. /\ UNCHANGED <<draft, outbox, copies, vouched>>
        /\ pc = "body" /\ \E v : Conclude("report", v) /\ v # "delivered"
    BY <1>7, PlanOutcomes DEF BodyRejected, FailWith, storeVars
  <2>2. copies[work.msg] = 0
    BY <1>1, <2>1 DEF SafetyInv, DriverOK
  <2> QED
    BY <1>1, <2>1, <2>2, ConcludeSafe, NothingChanges
<1>8. CASE BodyLost
  <2>1. /\ UNCHANGED <<draft, outbox, vouched>> /\ pc = "body"
        /\ Accept(work.msg) \/ UNCHANGED copies
        /\ Conclude("report", "uncertain")
    BY <1>8, PlanOutcomes DEF BodyLost, FailWith, storeVars
  <2>2. RowsOK'
    BY <2>1, AcceptSafe, NothingChanges
  <2>3. DriverOK'
    BY <1>1, <2>1, ConcludeSafe
  <2> QED
    BY <2>2, <2>3
<1>9. CASE Quit
  <2>1. /\ UNCHANGED <<draft, outbox, copies, vouched>> /\ pc = "quit"
        /\ \/ Conclude("report", "delivered")
           \/ Conclude("report", "uncertain")
    BY <1>9, PlanOutcomes DEF Quit, FailWith, storeVars
  <2>2. Conclude("report", "delivered") => DriverOK'
    BY <1>1, <2>1 DEF SafetyInv, DriverOK, Conclude, HoldsLease
  <2>3. Conclude("report", "uncertain") => DriverOK'
    BY <1>1, <2>1, ConcludeSafe
  <2> QED
    BY <2>1, <2>2, <2>3, NothingChanges
<1>10. CASE Report
  <2>1. /\ pc = "report" /\ Drop("recover") /\ UNCHANGED <<copies, vouched>>
        /\ ReportOutbox(work, verdict, RetryDelay(work.attempts))
    BY <1>10 DEF Report
  <2>2. RetryDelay(work.attempts) \in Nat
    BY RetryDelayTyped, LimitsAssumption
       DEF SafetyInv, TypeInv, DriverInv, Work
  <2>3. RowsOK'
    BY <1>2, <2>1, <2>2, ReportSafe
  <2>4. pc' \notin ClaimPoints
    BY <2>1 DEF Drop, ClaimPoints
  <2> QED
    BY <2>3, <2>4, FreeSafe
<1> QED
  BY <1>3, <1>4, <1>5, <1>6, <1>7, <1>8, <1>9, <1>10 DEF Submission

LEMMA DriverStepSafe ==
  ASSUME SafetyInv, DriverStep
  PROVE  RowsOK' /\ DriverOK'
<1> USE DEF ghostVars
<1>1. CASE ClaimNext
  <2>1. PICK T \in SUBSET Candidates :
          \/ ClaimIdle(T) /\ Drop("idle")
          \/ \E m \in Candidates \ T :
               /\ ClaimOutbox(T, m)
               /\ work' = [NoWork EXCEPT
                             !.msg = m, !.gen = outbox[m].gen,
                             !.key = outbox[m].key,
                             !.epoch = outbox'[m].epoch,
                             !.attempts = outbox'[m].attempts]
               /\ pc' = "credential"
    BY <1>1 DEF ClaimNext
  <2>2. UNCHANGED <<copies, vouched>>
    BY <1>1 DEF ClaimNext
  <2>3. CASE ClaimIdle(T) /\ Drop("idle")
    BY <2>2, <2>3, ClaimIdleSafe, FreeSafe DEF Drop, ClaimPoints
  <2>4. ASSUME NEW m \in Candidates \ T, ClaimOutbox(T, m),
               work' = [NoWork EXCEPT
                          !.msg = m, !.gen = outbox[m].gen,
                          !.key = outbox[m].key,
                          !.epoch = outbox'[m].epoch,
                          !.attempts = outbox'[m].attempts],
               pc' = "credential"
        PROVE  RowsOK' /\ DriverOK'
    <3>1. /\ RowsOK'
          /\ outbox'[m].state = "in_flight" /\ ~outbox'[m].started
          /\ outbox'[m].gen = outbox[m].gen
      BY <2>2, <2>4, ClaimSafe
    <3>2. /\ work'.msg = m /\ work'.gen = outbox[m].gen
          /\ work'.epoch = outbox'[m].epoch
      BY <2>4 DEF NoWork
    <3>3. DriverOK'
      BY <2>4, <3>1, <3>2 DEF DriverOK, HoldsLease
    <3> QED
      BY <3>1, <3>3
  <2> QED
    BY <2>1, <2>3, <2>4
<1>2. CASE Wake
  BY <1>2, NothingChanges, FreeSafe DEF Wake, Drop, ClaimPoints, storeVars
<1>3. CASE DriverFault
  <2>1. pc' \in {"idle", "recover", "claim"}
    BY <1>3 DEF DriverFault, Drop
  <2> QED
    BY <1>3, <2>1, NothingChanges, FreeSafe
       DEF DriverFault, ClaimPoints, storeVars
<1> QED
  BY <1>1, <1>2, <1>3, RecoverySafe, SubmissionSafe DEF DriverStep

LEMMA OtherStepsSafe ==
  ASSUME SafetyInv, Environment \/ \E k \in Keys : RunFileGc(k)
  PROVE  RowsOK' /\ DriverOK'
<1> USE DEF ghostVars, driverVars
<1>1. CASE Shutdown \/ Restart
  BY <1>1, NothingChanges, FreeSafe
     DEF Shutdown, Restart, Drop, ClaimPoints, storeVars
<1>2. CASE Crash
  <2>1. /\ pc' \notin ClaimPoints
        /\ UNCHANGED <<draft, outbox, vouched>>
        /\ \/ pc = "body" /\ Accept(work.msg)
           \/ UNCHANGED copies
    BY <1>2 DEF Crash, Drop, ClaimPoints, storeVars
  <2> QED
    BY <2>1, AcceptSafe, NothingChanges, FreeSafe
<1>3. CASE Tick
  <2>1. /\ outbox \in [Messages -> Row]
        /\ UNCHANGED <<draft, copies, vouched, pc, work, verdict>>
    BY <1>3 DEF SafetyInv, TypeInv, StoreInv, StoreTypeOK, Tick, Elapse
  <2>2. \A n \in Messages : SameStatus(n) /\ SameLease(n)
    BY <1>3, <2>1 DEF Tick, Elapse, Row, SameStatus, SameLease
  <2>3. pc \in ClaimPoints => work.msg \in Messages
    BY DEF SafetyInv, TypeInv, DriverInv, HoldingPoints
  <2> QED
    BY <2>1, <2>2, <2>3, RowStays, DriverStays DEF SafetyInv, RowsOK
<1>4. CASE \E k \in Keys : RunFileGc(k)
  BY <1>4, NothingChanges DEF RunFileGc
<1> QED
  BY <1>1, <1>2, <1>3, <1>4 DEF Environment

LEMMA NextSafe ==
  ASSUME SafetyInv, [Next]_vars
  PROVE  SafetyInv'
<1>1. TypeInv'
  BY NextTyped DEF SafetyInv
<1>2. CASE UNCHANGED vars
  BY <1>1, <1>2, NothingChanges DEF vars, SafetyInv
<1> QED
  BY <1>1, <1>2, UserStepSafe, ComposeStepSafe, DriverStepSafe, OtherStepsSafe
     DEF Next, SafetyInv

(* The rows, the drafts, the driver and the server agree in every state    *)
(* reachable through the code of core/outbox_driver.rs, core/compose.rs    *)
(* and store/sqlite/outbox.rs.                                             *)
THEOREM SafetyInvariant == Spec => []SafetyInv
  BY InitSafe, NextSafe, PTL DEF Spec

(* However often it is claimed, retried, recovered or cut off by a crash,  *)
(* a message is accepted by the server at most once until the user takes   *)
(* it back: no path of the outbox repeats an attempt that may have         *)
(* succeeded.                                                              *)
THEOREM NeverSentTwice == Spec => []AtMostOneCopy
  BY SafetyInvariant, SafetyInvImplies, PTL

(* What recovery, a retry or the user can still send is not out.           *)
THEOREM NothingSendableIsOut == Spec => []SendableRowsAreNotOut
  BY SafetyInvariant, SafetyInvImplies, PTL

(* Only a report of an accepted body, or the user's word, files a message  *)
(* in Sent (complete_delivered_message).                                   *)
THEOREM SentMeansAccepted == Spec => []SentIsAccepted
  BY SafetyInvariant, SafetyInvImplies, PTL

(* The fence of mark_outbox_data_started is committed, under the driver's  *)
(* own lease, whenever body bytes may be on the wire.                      *)
THEOREM BodiesAreFenced == Spec => []FenceBeforeBytes
  BY SafetyInvariant, SafetyInvImplies, PTL

(* The lease of a driver at work is not recovered or claimed by another    *)
(* path, whatever the lease time and however long the attempt takes.       *)
THEOREM LeaseOutlivesAttempt == Spec => []ReportIsNeverStale
  BY SafetyInvariant, SafetyInvImplies, PTL

(* Every path that makes or removes a row locks or unlocks its draft.      *)
THEOREM LocksFollowRows == Spec => []LockMatchesRow
  BY SafetyInvariant, SafetyInvImplies, PTL

-----------------------------------------------------------------------------
(* A row and its artifact belong together, at most one row is in flight,   *)
(* and no two attempts of a row share a lease.                             *)

(* A transaction keeps the identity of row n and starts no attempt of it.  *)
Kept(n) ==
    /\ outbox'[n].key = outbox[n].key
    /\ outbox'[n].rev = outbox[n].rev
    /\ outbox'[n].wire = outbox[n].wire
    /\ outbox'[n].epoch = outbox[n].epoch
    /\ outbox'[n].state = "absent" <=> outbox[n].state = "absent"
    /\ outbox'[n].state = "in_flight" => outbox[n].state = "in_flight"

Gone(n) == outbox'[n] = NoRow

LEMMA SameKept ==
  ASSUME UNCHANGED outbox
  PROVE  \A n \in Messages : Kept(n)
  BY DEF Kept

LEMMA RewriteKeeps ==
  ASSUME StoreInv, NEW m \in Messages, outbox[m].state # "absent",
         NEW row, outbox' = [outbox EXCEPT ![m] = row],
         row.key = outbox[m].key, row.rev = outbox[m].rev,
         row.wire = outbox[m].wire, row.epoch = outbox[m].epoch,
         row.state # "absent",
         row.state = "in_flight" => outbox[m].state = "in_flight"
  PROVE  \A n \in Messages : Kept(n)
  BY DEF StoreInv, StoreTypeOK, Kept

LEMMA DropRow ==
  ASSUME StoreInv, NEW m \in Messages,
         CompleteDelivered(m) \/ ReleaseToDraft(m)
  PROVE  Gone(m) /\ \A n \in Messages \ {m} : Kept(n)
  BY DEF StoreInv, StoreTypeOK, Kept, Gone, CompleteDelivered, ReleaseToDraft

LEMMA RenewKeeps ==
  ASSUME StoreInv, NEW r, r.msg \in Messages, RenewReservation(r)
  PROVE  \A n \in Messages : Kept(n)
<1>1. outbox[r.msg] \in Row
  BY DEF StoreInv, StoreTypeOK
<1>2. CASE HoldsReservation(r)
  <2> DEFINE row == [outbox[r.msg] EXCEPT !.due = ReservationTTL]
  <2>1. /\ row.key = outbox[r.msg].key /\ row.rev = outbox[r.msg].rev
        /\ row.wire = outbox[r.msg].wire /\ row.epoch = outbox[r.msg].epoch
        /\ row.state = outbox[r.msg].state
    BY <1>1 DEF Row
  <2>2. outbox' = [outbox EXCEPT ![r.msg] = row]
    BY <1>2 DEF RenewReservation
  <2>3. outbox[r.msg].state = "reserved"
    BY <1>2 DEF HoldsReservation
  <2> HIDE DEF row
  <2> QED
    BY <2>1, <2>2, <2>3, RewriteKeeps
<1>3. CASE ~HoldsReservation(r)
  BY <1>3, SameKept DEF RenewReservation
<1> QED
  BY <1>2, <1>3

LEMMA InvalidateKeeps ==
  ASSUME StoreInv, NEW r, r.msg \in Messages, InvalidateReservation(r)
  PROVE  \A n \in Messages : Kept(n)
<1>1. outbox[r.msg] \in Row
  BY DEF StoreInv, StoreTypeOK
<1>2. CASE HoldsReservation(r)
  <2> DEFINE row == [outbox[r.msg] EXCEPT !.state = "permanent_failure",
                                          !.due = 0]
  <2>1. /\ row.key = outbox[r.msg].key /\ row.rev = outbox[r.msg].rev
        /\ row.wire = outbox[r.msg].wire /\ row.epoch = outbox[r.msg].epoch
        /\ row.state = "permanent_failure"
    BY <1>1 DEF Row
  <2>2. outbox' = [outbox EXCEPT ![r.msg] = row]
    BY <1>2 DEF InvalidateReservation
  <2>3. outbox[r.msg].state = "reserved"
    BY <1>2 DEF HoldsReservation
  <2> HIDE DEF row
  <2> QED
    BY <2>1, <2>2, <2>3, RewriteKeeps
<1>3. CASE ~HoldsReservation(r)
  BY <1>3, SameKept DEF InvalidateReservation
<1> QED
  BY <1>2, <1>3

LEMMA RecoverLeaseKeeps ==
  ASSUME StoreInv, NEW m \in Messages, RecoverLease(m)
  PROVE  \A n \in Messages : Kept(n)
<1> DEFINE next == IF outbox[m].started THEN "uncertain" ELSE "ready"
           row == [outbox[m] EXCEPT !.state = next, !.due = 0]
<1>1. outbox[m] \in Row
  BY DEF StoreInv, StoreTypeOK
<1>2. next \in {"uncertain", "ready"}
  OBVIOUS
<1>3. outbox' = [outbox EXCEPT ![m] = row]
  BY DEF RecoverLease
<1>4. outbox[m].state = "in_flight"
  BY DEF RecoverLease, First, Expired
<1> HIDE DEF next
<1>5. /\ row.key = outbox[m].key /\ row.rev = outbox[m].rev
      /\ row.wire = outbox[m].wire /\ row.epoch = outbox[m].epoch
      /\ row.state = next
  BY <1>1 DEF Row
<1> HIDE DEF row
<1> QED
  BY <1>2, <1>3, <1>4, <1>5, RewriteKeeps

LEMMA FenceKeeps ==
  ASSUME StoreInv, NEW l, l.msg \in Messages, CanMarkDataStarted(l),
         MarkDataStarted(l)
  PROVE  \A n \in Messages : Kept(n)
<1> DEFINE row == [outbox[l.msg] EXCEPT !.started = TRUE, !.due = ClaimTTL]
<1>1. outbox[l.msg] \in Row
  BY DEF StoreInv, StoreTypeOK
<1>2. /\ row.key = outbox[l.msg].key /\ row.rev = outbox[l.msg].rev
      /\ row.wire = outbox[l.msg].wire /\ row.epoch = outbox[l.msg].epoch
      /\ row.state = outbox[l.msg].state
  BY <1>1 DEF Row
<1>3. outbox' = [outbox EXCEPT ![l.msg] = row]
  BY DEF MarkDataStarted
<1>4. outbox[l.msg].state = "in_flight"
  BY DEF CanMarkDataStarted, HoldsLease
<1> HIDE DEF row
<1> QED
  BY <1>2, <1>3, <1>4, RewriteKeeps

LEMMA SettleKeeps ==
  ASSUME StoreInv, NEW m \in Messages, outbox[m].state # "absent", NEW delay,
         ToRetryWait(m, delay) \/ ToUncertain(m) \/ ToPermanentFailure(m)
  PROVE  \A n \in Messages : Kept(n)
<1>1. outbox[m] \in Row
  BY DEF StoreInv, StoreTypeOK
<1>2. CASE ToRetryWait(m, delay)
  <2> DEFINE row == [outbox[m] EXCEPT !.state = "retry_wait", !.due = delay,
                                      !.started = FALSE]
  <2>1. /\ row.key = outbox[m].key /\ row.rev = outbox[m].rev
        /\ row.wire = outbox[m].wire /\ row.epoch = outbox[m].epoch
        /\ row.state = "retry_wait"
    BY <1>1 DEF Row
  <2>2. outbox' = [outbox EXCEPT ![m] = row]
    BY <1>2 DEF ToRetryWait
  <2> HIDE DEF row
  <2> QED
    BY <2>1, <2>2, RewriteKeeps
<1>3. CASE ToUncertain(m)
  <2> DEFINE row == [outbox[m] EXCEPT !.state = "uncertain", !.due = 0,
                                      !.started = TRUE]
  <2>1. /\ row.key = outbox[m].key /\ row.rev = outbox[m].rev
        /\ row.wire = outbox[m].wire /\ row.epoch = outbox[m].epoch
        /\ row.state = "uncertain"
    BY <1>1 DEF Row
  <2>2. outbox' = [outbox EXCEPT ![m] = row]
    BY <1>3 DEF ToUncertain
  <2> HIDE DEF row
  <2> QED
    BY <2>1, <2>2, RewriteKeeps
<1>4. CASE ToPermanentFailure(m)
  <2> DEFINE row == [outbox[m] EXCEPT !.state = "permanent_failure",
                                      !.due = 0, !.started = FALSE]
  <2>1. /\ row.key = outbox[m].key /\ row.rev = outbox[m].rev
        /\ row.wire = outbox[m].wire /\ row.epoch = outbox[m].epoch
        /\ row.state = "permanent_failure"
    BY <1>1 DEF Row
  <2>2. outbox' = [outbox EXCEPT ![m] = row]
    BY <1>4 DEF ToPermanentFailure, Terminalized
  <2> HIDE DEF row
  <2> QED
    BY <2>1, <2>2, RewriteKeeps
<1> QED
  BY <1>2, <1>3, <1>4

LEMMA RetryKeeps ==
  ASSUME StoreInv, NEW m \in Messages, RetryOutbox(m)
  PROVE  \A n \in Messages : Kept(n)
<1> DEFINE row == [outbox[m] EXCEPT !.state = "ready", !.due = 0,
                                    !.attempts = 0]
<1>1. outbox[m] \in Row
  BY DEF StoreInv, StoreTypeOK
<1>2. /\ row.key = outbox[m].key /\ row.rev = outbox[m].rev
      /\ row.wire = outbox[m].wire /\ row.epoch = outbox[m].epoch
      /\ row.state = "ready"
  BY <1>1 DEF Row
<1>3. outbox' = [outbox EXCEPT ![m] = row] /\ outbox[m].state # "absent"
  BY DEF RetryOutbox
<1> HIDE DEF row
<1> QED
  BY <1>2, <1>3, RewriteKeeps

LEMMA TerminalizedFields ==
  ASSUME NEW row \in Row
  PROVE  /\ Terminalized(row).key = row.key
         /\ Terminalized(row).rev = row.rev
         /\ Terminalized(row).wire = row.wire
         /\ Terminalized(row).epoch = row.epoch
         /\ Terminalized(row).state = "permanent_failure"
  BY DEF Terminalized, Row

LEMMA ClaimIdleKeeps ==
  ASSUME StoreInv, NEW T \in SUBSET Candidates, ClaimIdle(T)
  PROVE  \A n \in Messages : Kept(n)
<1>1. \A n \in Messages : outbox[n] \in Row
  BY DEF StoreInv, StoreTypeOK
<1>2. ASSUME NEW n \in Messages PROVE Kept(n)
  <2>1. n \in T => outbox[n].state \in {"ready", "retry_wait"}
    BY DEF Candidates
  <2>2. outbox'[n] = IF n \in T THEN Terminalized(outbox[n]) ELSE outbox[n]
    BY DEF ClaimIdle
  <2> QED
    BY <1>1, <2>1, <2>2, TerminalizedFields DEF Kept
<1> QED
  BY <1>2

(* The only transaction that starts an attempt takes a new epoch, and only *)
(* while no other row is in flight.                                        *)
Claimed(m) == /\ outbox'[m].key = outbox[m].key
              /\ outbox'[m].rev = outbox[m].rev
              /\ outbox'[m].wire = outbox[m].wire
              /\ outbox'[m].epoch = outbox[m].epoch + 1
              /\ outbox'[m].state = "in_flight" /\ outbox[m].state # "absent"
              /\ \A n \in Messages : outbox[n].state # "in_flight"

LEMMA ClaimKeeps ==
  ASSUME StoreInv, NEW T \in SUBSET Candidates, NEW m \in Candidates \ T,
         ClaimOutbox(T, m)
  PROVE  Claimed(m) /\ \A n \in Messages \ {m} : Kept(n)
<1> DEFINE row == [outbox[m] EXCEPT
                     !.state = "in_flight", !.epoch = @ + 1,
                     !.attempts = @ + 1, !.due = ClaimTTL, !.started = FALSE]
<1>1. \A n \in Messages : outbox[n] \in Row
  BY DEF StoreInv, StoreTypeOK
<1>2. outbox' = [n \in Messages |->
                   IF n \in T THEN Terminalized(outbox[n])
                   ELSE IF n = m THEN row ELSE outbox[n]]
  BY DEF ClaimOutbox
<1>3. m \in Messages /\ outbox[m].state \in {"ready", "retry_wait"}
  BY DEF Candidates
<1>4. /\ row.key = outbox[m].key /\ row.rev = outbox[m].rev
      /\ row.wire = outbox[m].wire /\ row.epoch = outbox[m].epoch + 1
      /\ row.state = "in_flight"
  BY <1>1, <1>3 DEF Row
<1> HIDE DEF row
<1>5. outbox'[m] = row
  BY <1>2, <1>3
<1>6. Claimed(m)
  BY <1>3, <1>4, <1>5 DEF Claimed, ClaimOutbox, LeaseBlocksClaims
<1>7. ASSUME NEW n \in Messages \ {m} PROVE Kept(n)
  <2>1. n \in T => outbox[n].state \in {"ready", "retry_wait"}
    BY DEF Candidates
  <2>2. outbox'[n] = IF n \in T THEN Terminalized(outbox[n]) ELSE outbox[n]
    BY <1>2
  <2> QED
    BY <1>1, <2>1, <2>2, TerminalizedFields DEF Kept
<1> QED
  BY <1>6, <1>7

LEMMA ElapseKeeps ==
  ASSUME StoreInv, Elapse
  PROVE  \A n \in Messages : Kept(n)
<1>1. \A n \in Messages : outbox[n] \in Row
  BY DEF StoreInv, StoreTypeOK
<1>2. ASSUME NEW n \in Messages PROVE Kept(n)
  <2>1. \/ outbox'[n] = outbox[n]
        \/ outbox'[n] = [outbox[n] EXCEPT !.due = @ - 1]
    BY DEF Elapse
  <2> QED
    BY <1>1, <2>1 DEF Kept, Row
<1> QED
  BY <1>2

LEMMA ReserveBooks ==
  ASSUME StoreInv, NEW r, r.msg \in Messages, CanReserve(r), ReserveOutbox(r)
  PROVE  /\ outbox[r.msg].state = "absent" /\ outbox'[r.msg].state = "reserved"
         /\ outbox'[r.msg].key = r.key /\ outbox'[r.msg].rev = r.rev
         /\ ~outbox'[r.msg].wire
         /\ \A n \in Messages \ {r.msg} : Kept(n)
<1> DEFINE row == [NoRow EXCEPT !.state = "reserved", !.gen = r.gen,
                                !.rev = r.rev, !.key = r.key,
                                !.due = ReservationTTL]
<1>1. /\ row.state = "reserved" /\ row.key = r.key /\ row.rev = r.rev
      /\ ~row.wire
  BY DEF NoRow
<1>2. outbox' = [outbox EXCEPT ![r.msg] = row]
  BY DEF ReserveOutbox
<1> HIDE DEF row
<1>3. outbox'[r.msg] = row /\ \A n \in Messages \ {r.msg} : Kept(n)
  BY <1>2 DEF StoreInv, StoreTypeOK, Kept
<1> QED
  BY <1>1, <1>3 DEF CanReserve

(* Finalization turns a reservation into a row with an artifact, and only  *)
(* under the generation, key and revision it was given.                    *)
Finalized(r) == /\ outbox'[r.msg].key = outbox[r.msg].key
                /\ outbox'[r.msg].rev = outbox[r.msg].rev
                /\ outbox'[r.msg].epoch = outbox[r.msg].epoch
                /\ outbox'[r.msg].wire
                /\ outbox'[r.msg].state = "ready"
                /\ outbox[r.msg].state = "reserved"
                /\ outbox[r.msg].key = r.key /\ outbox[r.msg].rev = r.rev

LEMMA FinalizeKeeps ==
  ASSUME StoreInv, NEW r, r.msg \in Messages, FinalizeOutbox(r)
  PROVE  /\ Kept(r.msg) \/ Finalized(r)
         /\ \A n \in Messages \ {r.msg} : Kept(n)
<1>1. CASE FinalizeOutcome(r) = "applied"
  <2> DEFINE row == [outbox[r.msg] EXCEPT !.state = "ready", !.wire = TRUE,
                                          !.due = 0]
  <2>1. outbox[r.msg] \in Row
    BY DEF StoreInv, StoreTypeOK
  <2>2. /\ row.key = outbox[r.msg].key /\ row.rev = outbox[r.msg].rev
        /\ row.epoch = outbox[r.msg].epoch /\ row.wire /\ row.state = "ready"
    BY <2>1 DEF Row
  <2>3. outbox' = [outbox EXCEPT ![r.msg] = row]
    BY <1>1 DEF FinalizeOutbox
  <2> HIDE DEF row
  <2>4. outbox'[r.msg] = row /\ \A n \in Messages \ {r.msg} : Kept(n)
    BY <2>3 DEF StoreInv, StoreTypeOK, Kept
  <2>5. CanFinalize(r)
    BY <1>1 DEF FinalizeOutcome
  <2> QED
    BY <2>2, <2>4, <2>5 DEF Finalized, CanFinalize, HoldsReservation
<1>2. CASE FinalizeOutcome(r) # "applied"
  BY <1>2, SameKept DEF FinalizeOutbox
<1> QED
  BY <1>1, <1>2

-----------------------------------------------------------------------------
(* Rows and artifacts.                                                     *)

Held(m) == outbox[m].key # NoKey

RowsOwnKeys ==
    /\ \A m \in Messages :
         outbox[m].state = "absent" => ~Held(m) /\ ~outbox[m].wire
    /\ \A m, n \in Messages :
         Held(m) /\ outbox[m].key = outbox[n].key => m = n

(* A file under the key of a row is the one of its revision, and a row     *)
(* that went through finalization has one.                                 *)
FilesOfRows ==
    \A m \in Messages :
        /\ Held(m) => files[outbox[m].key] \in {NoFile, outbox[m].rev}
        /\ outbox[m].wire => files[outbox[m].key] # NoFile

(* A key the composer still holds after its reservation is that of the     *)
(* reserved row, unless the row is gone.                                   *)
ComposerOwnsKey ==
    ui.pc \in {"publish", "finalize"} =>
        \A m \in Messages :
            outbox[m].key = ui.key =>
                /\ m = ui.msg /\ outbox[m].rev = ui.rev
                /\ ui.pc = "finalize" => files[ui.key] # NoFile

(* The same of a reservation the driver recovers.                          *)
RecoveryOwnsKey ==
    pc \in ReservationPoints =>
        /\ work.key \in Keys
        /\ \A m \in Messages :
             outbox[m].key = work.key =>
                /\ m = work.msg /\ outbox[m].rev = work.rev
                /\ pc = "resolve" /\ verdict = "published"
                     => files[work.key] # NoFile

(* ArtifactMatchesRevision is not inductive: the composer and the recovery *)
(* write files before a row vouches for them, the janitor removes files,   *)
(* and a key must not pass from one row to another.                        *)
ArtifactInv == RowsOwnKeys /\ FilesOfRows /\ ComposerOwnsKey /\ RecoveryOwnsKey

RowsInv == SafetyInv /\ ArtifactInv /\ SingleFlight

LEMMA WiredRowsMatch == TypeInv /\ ArtifactInv => ArtifactMatchesRevision
  BY EntitiesAssumption
     DEF TypeInv, StoreInv, RowsHaveKeys, ArtifactInv, RowsOwnKeys,
         FilesOfRows, Held, ArtifactMatchesRevision

LEMMA InitArtifacts == Init => ArtifactInv /\ SingleFlight
  BY DEF Init, StoreInit, NoRow, NoCompose, ArtifactInv, RowsOwnKeys,
         FilesOfRows, ComposerOwnsKey, RecoveryOwnsKey, Held,
         ReservationPoints, SingleFlight

(* A step that writes no file and books no row, after which the driver is  *)
(* not surer of an artifact than before.                                   *)
LEMMA ArtifactsStay ==
  ASSUME TypeInv, ArtifactInv,
         \A n \in Messages : Kept(n) \/ Gone(n),
         UNCHANGED files,
         UNCHANGED ui \/ ui'.pc \in {"idle", "reserve"},
         \/ pc' \notin ReservationPoints
         \/ /\ pc \in ReservationPoints /\ UNCHANGED work
            /\ pc' = "resolve" /\ verdict' = "published"
                 => pc = "resolve" /\ verdict = "published"
  PROVE  ArtifactInv'
<1>1. RowsOwnKeys'
  BY DEF ArtifactInv, RowsOwnKeys, Held, Kept, Gone, NoRow
<1>2. FilesOfRows'
  BY DEF ArtifactInv, FilesOfRows, Held, Kept, Gone, NoRow
<1>3. ComposerOwnsKey'
  <2>1. ui.pc \in {"publish", "finalize"} => ui.key # NoKey
    BY EntitiesAssumption DEF TypeInv, UiInv
  <2> QED
    BY <2>1 DEF ArtifactInv, ComposerOwnsKey, Kept, Gone, NoRow
<1>4. RecoveryOwnsKey'
  BY EntitiesAssumption DEF ArtifactInv, RecoveryOwnsKey, Kept, Gone, NoRow
<1> QED
  BY <1>1, <1>2, <1>3, <1>4 DEF ArtifactInv

(* A row that is booked under a key nobody holds.                          *)
LEMMA ReserveOwnsKey ==
  ASSUME RowsInv, NEW k \in FreshKeys, ui.pc = "reserve",
         NEW r, r = [msg |-> ui.msg, gen |-> ui.gen, rev |-> ui.rev, key |-> k],
         CanReserve(r), ReserveOutbox(r),
         ui' = [ui EXCEPT !.pc = "publish", !.key = k],
         UNCHANGED <<files, pc, work, verdict>>
  PROVE  ArtifactInv' /\ \A n \in Messages : outbox'[n].key = outbox[n].key
                              => Kept(n)
<1> USE DEF RowsInv
<1>1. /\ k \in Keys /\ k # work.key /\ files[k] = NoFile
      /\ \A n \in Messages : outbox[n].key # k
      /\ k # NoKey
  BY EntitiesAssumption DEF FreshKeys
<1>2. StoreInv /\ ui \in Compose /\ ui.msg \in Messages
  BY DEF SafetyInv, TypeInv, UiInv
<1>3. /\ outbox[ui.msg].state = "absent" /\ outbox'[ui.msg].state = "reserved"
      /\ outbox'[ui.msg].key = k /\ outbox'[ui.msg].rev = ui.rev
      /\ ~outbox'[ui.msg].wire
      /\ \A n \in Messages \ {ui.msg} : Kept(n)
  BY <1>2, ReserveBooks
<1>4. /\ ui'.pc = "publish" /\ ui'.key = k /\ ui'.msg = ui.msg
      /\ ui'.rev = ui.rev
  BY <1>2 DEF Compose
<1>5. RowsOwnKeys'
  BY <1>1, <1>2, <1>3 DEF ArtifactInv, RowsOwnKeys, Held, Kept
<1>6. FilesOfRows'
  BY <1>1, <1>2, <1>3 DEF ArtifactInv, FilesOfRows, Held, Kept
<1>7. ComposerOwnsKey'
  BY <1>1, <1>3, <1>4 DEF ComposerOwnsKey, Kept
<1>8. RecoveryOwnsKey'
  BY <1>1, <1>3 DEF ArtifactInv, RecoveryOwnsKey, Kept
<1> QED
  BY <1>1, <1>3, <1>5, <1>6, <1>7, <1>8 DEF ArtifactInv

(* Publishing never writes over the artifact of another row or revision.   *)
LEMMA PublishMatches ==
  ASSUME RowsInv, QueuePublish
  PROVE  ArtifactInv'
<1> USE DEF RowsInv, driverVars
<1>1. /\ ui.pc = "publish" /\ ui \in Compose /\ ui.key \in Keys
      /\ ui.rev \in 0..MaxRevision /\ UNCHANGED outbox
      /\ ui.rev # NoFile /\ ui.key # NoKey
      /\ files \in [Keys -> 0..MaxRevision \cup {NoFile}]
  BY LimitsAssumption, EntitiesAssumption
     DEF QueuePublish, SafetyInv, TypeInv, UiInv, Compose, storeVars, NoFile,
         FilesInv
<1>2. CASE files[ui.key] # NoFile
  <2>1. ui'.pc = "idle" /\ UNCHANGED files
    BY <1>2 DEF QueuePublish, NoCompose
  <2> QED
    BY <1>1, <2>1, SameKept, ArtifactsStay DEF QueuePublish, SafetyInv, 
       ReservationPoints
<1>3. CASE files[ui.key] = NoFile
  <2>1. /\ files' = [files EXCEPT ![ui.key] = ui.rev]
        /\ ui' = [ui EXCEPT !.pc = "finalize"]
    BY <1>3 DEF QueuePublish
  <2>2. /\ ui'.pc = "finalize" /\ ui'.key = ui.key /\ ui'.msg = ui.msg
        /\ ui'.rev = ui.rev
    BY <1>1, <2>1 DEF Compose
  <2>3. \A k \in Keys : files'[k] = IF k = ui.key THEN ui.rev ELSE files[k]
    BY <1>1, <2>1
  <2>4. \A m \in Messages : outbox[m].key = ui.key => outbox[m].rev = ui.rev
    BY <1>1 DEF ArtifactInv, ComposerOwnsKey
  <2>5. \A m \in Messages : outbox[m].key \in Keys \cup {NoKey}
    BY DEF SafetyInv, TypeInv, StoreInv, StoreTypeOK, Row
  <2>6. \A m \in Messages : outbox[m].wire => Held(m)
    BY EntitiesAssumption
       DEF SafetyInv, TypeInv, StoreInv, RowsHaveKeys, ArtifactInv, RowsOwnKeys,
           Held
  <2>7. RowsOwnKeys'
    BY <1>1 DEF ArtifactInv, RowsOwnKeys, Held
  <2>8. FilesOfRows'
    BY <1>1, <2>3, <2>4, <2>5, <2>6 DEF ArtifactInv, FilesOfRows, Held
  <2>9. ComposerOwnsKey'
    BY <1>1, <2>2, <2>3 DEF ArtifactInv, ComposerOwnsKey
  <2>10. RecoveryOwnsKey'
    BY <1>1, <2>3 DEF ArtifactInv, RecoveryOwnsKey, QueuePublish
  <2> QED
    BY <2>7, <2>8, <2>9, <2>10 DEF ArtifactInv
<1> QED
  BY <1>2, <1>3

(* Only a reservation whose artifact is there is finalized: by the         *)
(* composer that published it, or by the recovery that saw it.             *)
LEMMA FinalizeMatches ==
  ASSUME RowsInv, NEW r, r.msg \in Messages, FinalizeOutbox(r), r.key \in Keys,
         files[r.key] # NoFile \/ \A m \in Messages : outbox[m].key # r.key,
         UNCHANGED files,
         UNCHANGED ui \/ ui'.pc = "idle",
         pc' \notin ReservationPoints \/ UNCHANGED <<pc, work, verdict>>
  PROVE  ArtifactInv'
<1> USE DEF RowsInv
<1>1. StoreInv
  BY DEF SafetyInv, TypeInv
<1>2. /\ Kept(r.msg) \/ Finalized(r)
      /\ \A n \in Messages \ {r.msg} : Kept(n)
  BY <1>1, FinalizeKeeps
<1>3. CASE Kept(r.msg)
  BY <1>2, <1>3, ArtifactsStay DEF SafetyInv
<1>4. CASE Finalized(r)
  <2>1. \A n \in Messages :
          /\ outbox'[n].key = outbox[n].key /\ outbox'[n].rev = outbox[n].rev
          /\ outbox'[n].state = "absent" <=> outbox[n].state = "absent"
          /\ outbox'[n].wire = outbox[n].wire \/ n = r.msg
    BY <1>2, <1>4 DEF Kept, Finalized
  <2>2. outbox[r.msg].state = "reserved" /\ files[outbox[r.msg].key] # NoFile
    BY <1>4 DEF Finalized
  <2>3. RowsOwnKeys'
    BY <2>1, <2>2 DEF ArtifactInv, RowsOwnKeys, Held
  <2>4. FilesOfRows'
    BY <2>1, <2>2 DEF ArtifactInv, FilesOfRows, Held
  <2>5. ComposerOwnsKey'
    BY <2>1 DEF ArtifactInv, ComposerOwnsKey
  <2>6. RecoveryOwnsKey'
    BY <2>1 DEF ArtifactInv, RecoveryOwnsKey
  <2> QED
    BY <2>3, <2>4, <2>5, <2>6 DEF ArtifactInv
<1> QED
  BY <1>2, <1>3, <1>4

(* The janitor removes no file a row refers to.                            *)
LEMMA JanitorSpares ==
  ASSUME RowsInv, NEW k \in Keys, RunFileGc(k)
  PROVE  ArtifactInv'
<1> USE DEF RowsInv, driverVars
<1>1. /\ UNCHANGED <<outbox, ui, pc, work, verdict>>
      /\ files \in [Keys -> 0..MaxRevision \cup {NoFile}]
      /\ ui.pc \in {"publish", "finalize"} => ui.key \in Keys
  BY DEF RunFileGc, SafetyInv, TypeInv, FilesInv, UiInv
<1>2. \A m \in Messages : /\ outbox[m].key \in Keys \cup {NoKey}
                          /\ outbox[m].wire => Held(m)
  BY EntitiesAssumption
     DEF SafetyInv, TypeInv, StoreInv, StoreTypeOK, RowsHaveKeys, Row,
         ArtifactInv, RowsOwnKeys, Held
<1>3. \A m \in Messages :
        outbox[m].key \in Keys => files'[outbox[m].key] = files[outbox[m].key]
  BY <1>1 DEF RunFileGc
<1>4. RowsOwnKeys'
  BY <1>1 DEF ArtifactInv, RowsOwnKeys, Held
<1>5. FilesOfRows'
  BY <1>1, <1>2, <1>3 DEF ArtifactInv, FilesOfRows, Held
<1>6. ComposerOwnsKey'
  BY <1>1, <1>3 DEF ArtifactInv, ComposerOwnsKey
<1>7. RecoveryOwnsKey'
  BY <1>1, <1>3 DEF ArtifactInv, RecoveryOwnsKey
<1> QED
  BY <1>4, <1>5, <1>6, <1>7 DEF ArtifactInv

-----------------------------------------------------------------------------
(* Each step of the system keeps the invariant and takes fresh leases.     *)

FreshLeases ==
    \A m \in Messages :
        outbox'[m].key = outbox[m].key /\ outbox[m].key # NoKey =>
            /\ outbox'[m].epoch >= outbox[m].epoch
            /\ outbox'[m].state = "in_flight" /\ outbox[m].state # "in_flight"
                  => outbox'[m].epoch > outbox[m].epoch

RowsFollow == ArtifactInv' /\ SingleFlight' /\ FreshLeases

Quiet(n) == /\ outbox'[n].state = "in_flight" => outbox[n].state = "in_flight"
            /\ outbox'[n].key = outbox[n].key /\ outbox[n].key # NoKey
                 => outbox'[n].epoch = outbox[n].epoch

LEMMA KeptIsQuiet ==
  \A n \in Messages : Kept(n) \/ Gone(n) => Quiet(n)
  BY DEF Kept, Gone, NoRow, Quiet

LEMMA EpochsAreNumbers ==
  ASSUME TypeInv
  PROVE  \A n \in Messages : outbox[n].epoch \in Nat
  BY LimitsAssumption DEF TypeInv, StoreInv, StoreTypeOK, Row

LEMMA QuietRows ==
  ASSUME RowsInv, \A n \in Messages : Quiet(n)
  PROVE  SingleFlight' /\ FreshLeases
<1>1. \A n \in Messages : outbox[n].epoch \in Nat
  BY EpochsAreNumbers DEF RowsInv, SafetyInv
<1> QED
  BY <1>1 DEF RowsInv, SingleFlight, Quiet, FreshLeases

(* Every step that neither writes a file nor books, finalizes or claims a  *)
(* row.                                                                    *)
LEMMA PlainStep ==
  ASSUME RowsInv, \A n \in Messages : Kept(n) \/ Gone(n), UNCHANGED files,
         UNCHANGED ui \/ ui'.pc \in {"idle", "reserve"},
         \/ pc' \notin ReservationPoints
         \/ /\ pc \in ReservationPoints /\ UNCHANGED work
            /\ pc' = "resolve" /\ verdict' = "published"
                 => pc = "resolve" /\ verdict = "published"
  PROVE  RowsFollow
<1>1. ArtifactInv'
  BY ArtifactsStay DEF RowsInv, SafetyInv
<1>2. \A n \in Messages : Quiet(n)
  BY KeptIsQuiet
<1> QED
  BY <1>1, <1>2, QuietRows DEF RowsFollow

LEMMA UserStepRows ==
  ASSUME RowsInv, UserStep
  PROVE  RowsFollow
<1> USE DEF driverVars
<1>0. StoreInv
  BY DEF RowsInv, SafetyInv, TypeInv
<1>1. ASSUME NEW m \in Messages, SaveAndClose(m) \/ QueueSave(m) \/ Star(m)
      PROVE  RowsFollow
  <2>1. UNCHANGED outbox
    BY <1>1 DEF SaveAndClose, QueueSave, Star, SaveDraft, CreateDraft,
                UpdateDraft, SetStarred
  <2>2. /\ UNCHANGED <<files, pc, work, verdict>>
        /\ UNCHANGED ui \/ ui'.pc = "reserve"
    BY <1>1 DEF SaveAndClose, QueueSave, Star
  <2> QED
    BY <2>1, <2>2, SameKept, PlainStep
<1>2. ASSUME NEW m \in Messages,
             Retry(m) \/ ReleaseFailed(m) \/ ReleaseUncertain(m) \/ Vouch(m)
      PROVE  RowsFollow
  <2>1. \A n \in Messages : Kept(n) \/ Gone(n)
    BY <1>0, <1>2, RetryKeeps, DropRow
       DEF Retry, ReleaseFailed, ReleaseUncertain, Vouch, ReleaseFailedOutbox,
           ReleaseUncertainOutbox, AssumeDelivered
  <2>2. UNCHANGED <<files, ui, pc, work, verdict>>
    BY <1>2 DEF Retry, ReleaseFailed, ReleaseUncertain, Vouch
  <2> QED
    BY <2>1, <2>2, PlainStep
<1>3. ASSUME NEW a \in Accounts, AccountChange(a)
      PROVE  RowsFollow
  <2>1. UNCHANGED <<outbox, files, ui, pc, work, verdict>>
    BY <1>3 DEF AccountChange, UpdateAccount, SetAccountEnabled,
                BeginAccountRemoval
  <2> QED
    BY <2>1, SameKept, PlainStep
<1> QED
  BY <1>1, <1>2, <1>3 DEF UserStep

LEMMA ComposeStepRows ==
  ASSUME RowsInv, ComposeStep
  PROVE  RowsFollow
<1> USE DEF driverVars
<1>0. StoreInv /\ UiInv
  BY DEF RowsInv, SafetyInv, TypeInv
<1>1. CASE QueueReserve
  <2>1. /\ UNCHANGED <<files, pc, work, verdict>> /\ ui.pc = "reserve"
        /\ ui.msg \in Messages
    BY <1>0, <1>1 DEF QueueReserve, UiInv
  <2>2. CASE ui' = NoCompose /\ UNCHANGED storeVars
    BY <2>1, <2>2, SameKept, PlainStep DEF NoCompose, storeVars
  <2>3. ASSUME NEW k \in FreshKeys,
               NEW r, r = [msg |-> ui.msg, gen |-> ui.gen, rev |-> ui.rev,
                           key |-> k],
               CanReserve(r), ReserveOutbox(r),
               ui' = [ui EXCEPT !.pc = "publish", !.key = k]
        PROVE  RowsFollow
    <3>1. ArtifactInv'
      BY <2>1, <2>3, ReserveOwnsKey
    <3>2. /\ outbox'[ui.msg].state = "reserved" /\ outbox'[ui.msg].key = k
          /\ \A n \in Messages \ {ui.msg} : Kept(n)
      BY <1>0, <2>1, <2>3, ReserveBooks
    <3>3. outbox[ui.msg].key # k
      BY <2>1 DEF FreshKeys
    <3>4. \A n \in Messages : Quiet(n)
      BY <3>2, <3>3, KeptIsQuiet DEF Quiet
    <3> QED
      BY <3>1, <3>4, QuietRows DEF RowsFollow
  <2> QED
    BY <1>1, <2>2, <2>3 DEF QueueReserve
<1>2. CASE QueuePublish
  <2>1. ArtifactInv' /\ UNCHANGED outbox
    BY <1>2, PublishMatches DEF QueuePublish, storeVars
  <2>2. \A n \in Messages : Quiet(n)
    BY <2>1, SameKept, KeptIsQuiet
  <2> QED
    BY <2>1, <2>2, QuietRows DEF RowsFollow
<1>3. CASE QueueFinalize
  <2>1. /\ ui.msg \in Messages /\ ui.key \in Keys /\ FinalizeOutbox(ui)
        /\ UNCHANGED <<files, pc, work, verdict>> /\ ui'.pc = "idle"
    BY <1>0, <1>3 DEF QueueFinalize, UiInv, NoCompose
  <2>2. files[ui.key] # NoFile \/ \A m \in Messages : outbox[m].key # ui.key
    BY <1>3 DEF QueueFinalize, RowsInv, ArtifactInv, ComposerOwnsKey
  <2>3. ArtifactInv'
    BY <2>1, <2>2, FinalizeMatches
  <2>4. \A n \in Messages : Quiet(n)
    BY <1>0, <2>1, FinalizeKeeps, KeptIsQuiet DEF Quiet, Finalized
  <2> QED
    BY <2>3, <2>4, QuietRows DEF RowsFollow
<1>4. CASE QueueFault
  <2>1. UNCHANGED <<outbox, files, pc, work, verdict>> /\ ui'.pc = "idle"
    BY <1>4 DEF QueueFault, storeVars, NoCompose
  <2> QED
    BY <2>1, SameKept, PlainStep
<1> QED
  BY <1>1, <1>2, <1>3, <1>4 DEF ComposeStep

LEMMA RecoveryRows ==
  ASSUME RowsInv, Recovery
  PROVE  RowsFollow
<1>0. StoreInv /\ DriverInv /\ FilesInv
  BY DEF RowsInv, SafetyInv, TypeInv
<1>1. CASE RecoverStep
  <2>1. UNCHANGED <<files, ui>> /\ pc = "recover" /\ pc' \in {"recover", "claim"}
    BY <1>1 DEF RecoverStep, Drop
  <2>2. \A n \in Messages : Kept(n)
    BY <1>0, <1>1, RecoverLeaseKeeps, SameKept DEF RecoverStep, storeVars
  <2> QED
    BY <2>1, <2>2, PlainStep DEF ReservationPoints
<1>2. CASE RecoverReservation
  <2>1. PICK m \in First(Expired("reserved")) :
          work' = [NoWork EXCEPT !.msg = m, !.gen = outbox[m].gen,
                                 !.rev = outbox[m].rev, !.key = outbox[m].key]
    BY <1>2 DEF RecoverReservation
  <2>2. m \in Messages /\ outbox[m].state = "reserved" /\ outbox[m].key \in Keys
    BY <1>0 DEF First, Expired, StoreInv, RowsHaveKeys
  <2>3. /\ work'.msg = m /\ work'.key = outbox[m].key
        /\ work'.rev = outbox[m].rev
    BY <2>1 DEF NoWork
  <2>4. UNCHANGED <<outbox, files, ui>> /\ pc' = "observe"
    BY <1>2 DEF RecoverReservation, storeVars
  <2>5. RecoveryOwnsKey'
    BY <2>2, <2>3, <2>4, EntitiesAssumption
       DEF RowsInv, ArtifactInv, RowsOwnKeys, RecoveryOwnsKey, Held
  <2>6. ArtifactInv'
    BY <2>4, <2>5
       DEF RowsInv, ArtifactInv, RowsOwnKeys, FilesOfRows, ComposerOwnsKey, Held
  <2>7. \A n \in Messages : Quiet(n)
    BY <2>4, SameKept, KeptIsQuiet
  <2> QED
    BY <2>6, <2>7, QuietRows DEF RowsFollow
<1>3. CASE RecoveryDone
  <2>1. UNCHANGED <<outbox, files, ui>> /\ pc' = "claim"
    BY <1>3 DEF RecoveryDone, Drop, storeVars
  <2> QED
    BY <2>1, SameKept, PlainStep DEF ReservationPoints
<1>4. CASE ObserveArtifact
  <2>1. /\ UNCHANGED <<outbox, files, ui, work>>
        /\ pc = "observe" /\ pc' = "resolve"
        /\ verdict' = "published" => files[work.key] # NoFile
    BY <1>4 DEF ObserveArtifact, Conclude, storeVars
  <2>2. RecoveryOwnsKey'
    BY <2>1 DEF RowsInv, ArtifactInv, RecoveryOwnsKey, ReservationPoints
  <2>3. ArtifactInv'
    BY <2>1, <2>2
       DEF RowsInv, ArtifactInv, RowsOwnKeys, FilesOfRows, ComposerOwnsKey, Held
  <2>4. \A n \in Messages : Quiet(n)
    BY <2>1, SameKept, KeptIsQuiet
  <2> QED
    BY <2>3, <2>4, QuietRows DEF RowsFollow
<1>5. CASE ResolveReservation
  <2>1. /\ UNCHANGED <<files, ui>> /\ pc = "resolve" /\ work.msg \in Messages
        /\ work.key \in Keys
    BY <1>0, <1>5 DEF ResolveReservation, DriverInv, HoldingPoints,
       ReservationPoints, RowsInv, ArtifactInv, RecoveryOwnsKey
  <2>2. pc' \notin ReservationPoints \/ GoTo("load_draft")
    BY <1>5 DEF ResolveReservation, Drop, NextRecovery, ReservationPoints
  <2>3. CASE RenewReservation(work) \/ InvalidateReservation(work)
    <3>1. \A n \in Messages : Kept(n)
      BY <1>0, <2>1, <2>3, RenewKeeps, InvalidateKeeps
    <3> QED
      BY <2>1, <2>2, <3>1, PlainStep DEF GoTo, ReservationPoints
  <2>4. CASE /\ verdict = "published" /\ FinalizeOutbox(work)
             /\ Drop("claim") \/ NextRecovery
    <3>1. pc' \notin ReservationPoints
      BY <2>4 DEF Drop, NextRecovery, ReservationPoints
    <3>2. \/ files[work.key] # NoFile
          \/ \A m \in Messages : outbox[m].key # work.key
      BY <2>1, <2>4
         DEF RowsInv, ArtifactInv, RecoveryOwnsKey, ReservationPoints
    <3>3. ArtifactInv'
      BY <2>1, <2>4, <3>1, <3>2, FinalizeMatches
    <3>4. \A n \in Messages : Quiet(n)
      BY <1>0, <2>1, <2>4, FinalizeKeeps, KeptIsQuiet DEF Quiet, Finalized
    <3> QED
      BY <3>3, <3>4, QuietRows DEF RowsFollow
  <2> QED
    BY <1>5, <2>3, <2>4 DEF ResolveReservation
<1>6. CASE LoadDraft
  <2>1. /\ UNCHANGED <<outbox, files, ui, work>> /\ pc = "load_draft"
        /\ pc' = "rebuild" \/ verdict' = "invalid"
    BY <1>6 DEF LoadDraft, GoTo, Conclude, storeVars
  <2> QED
    BY <2>1, SameKept, PlainStep DEF ReservationPoints
<1>7. CASE RebuildArtifact
  <2>1. /\ UNCHANGED <<outbox, ui>> /\ pc = "rebuild" /\ work.key \in Keys
        /\ work.key # NoKey /\ work.rev # NoFile
    BY <1>0, <1>7, LimitsAssumption, EntitiesAssumption
       DEF RebuildArtifact, storeVars, RowsInv, ArtifactInv, RecoveryOwnsKey,
           ReservationPoints, DriverInv, Work, NoFile
  <2>2. \A n \in Messages : Quiet(n)
    BY <2>1, SameKept, KeptIsQuiet
  <2>3. CASE UNCHANGED files /\ (Drop("claim") \/ Conclude("resolve", "invalid"))
    <3>1. pc' = "claim" \/ (pc' = "resolve" /\ verdict' = "invalid" /\ UNCHANGED work)
      BY <2>3 DEF Drop, Conclude
    <3> QED
      BY <2>1, <2>3, <3>1, SameKept, PlainStep DEF ReservationPoints
  <2>4. CASE /\ files[work.key] = NoFile
             /\ files' = [files EXCEPT ![work.key] = work.rev]
             /\ Conclude("resolve", "published")
    <3>1. /\ \A k \in Keys :
               files'[k] = IF k = work.key THEN work.rev ELSE files[k]
          /\ pc' = "resolve" /\ UNCHANGED work
      BY <1>0, <2>1, <2>4 DEF FilesInv, Conclude
    <3>2. \A m \in Messages :
            /\ outbox[m].key \in Keys \cup {NoKey}
            /\ outbox[m].wire => Held(m)
            /\ outbox[m].key = work.key => outbox[m].rev = work.rev
      BY <1>0, <2>1, EntitiesAssumption
         DEF StoreInv, StoreTypeOK, RowsHaveKeys, Row, RowsInv, ArtifactInv,
             RowsOwnKeys, RecoveryOwnsKey, ReservationPoints, Held
    <3>3. RowsOwnKeys'
      BY <2>1 DEF RowsInv, ArtifactInv, RowsOwnKeys, Held
    <3>4. FilesOfRows'
      BY <2>1, <3>1, <3>2 DEF RowsInv, ArtifactInv, FilesOfRows, Held
    <3>5. ComposerOwnsKey'
      <4>1. ui.pc \in {"publish", "finalize"} => ui.key \in Keys
        BY DEF RowsInv, SafetyInv, TypeInv, UiInv
      <4> QED
        BY <2>1, <3>1, <4>1 DEF RowsInv, ArtifactInv, ComposerOwnsKey
    <3>6. RecoveryOwnsKey'
      BY <2>1, <3>1 DEF RowsInv, ArtifactInv, RecoveryOwnsKey, ReservationPoints
    <3>7. ArtifactInv'
      BY <3>3, <3>4, <3>5, <3>6 DEF ArtifactInv
    <3> QED
      BY <2>2, <3>7, QuietRows DEF RowsFollow
  <2> QED
    BY <1>7, <2>3, <2>4 DEF RebuildArtifact
<1> QED
  BY <1>1, <1>2, <1>3, <1>4, <1>5, <1>6, <1>7 DEF Recovery

LEMMA SubmissionRows ==
  ASSUME RowsInv, Submission
  PROVE  RowsFollow
<1>0. StoreInv /\ DriverInv
  BY DEF RowsInv, SafetyInv, TypeInv
<1>1. UNCHANGED <<files, ui>> /\ pc \in ClaimPoints
  BY DEF Submission, LoadCredential, Connect, CommitDataFence, FenceFault,
         InterruptFence, StartBody, BodyAccepted, BodyRejected, BodyLost,
         Quit, Report, ClaimPoints
<1>2. work.msg \in Messages
  BY <1>0, <1>1 DEF DriverInv, HoldingPoints
<1>3. pc' \notin ReservationPoints
  BY DEF Submission, LoadCredential, Connect, CommitDataFence, FenceFault,
         InterruptFence, StartBody, BodyAccepted, BodyRejected, BodyLost,
         Quit, Report, FailWith, Conclude, GoTo, Drop, ReservationPoints
<1>4. \A n \in Messages : Kept(n) \/ Gone(n)
  <2>1. CASE CommitDataFence
    BY <1>0, <1>2, <2>1, FenceKeeps, SameKept DEF CommitDataFence, storeVars
  <2>2. CASE Report
    <3>1. ReportOutbox(work, verdict, RetryDelay(work.attempts))
      BY <2>2 DEF Report
    <3>2. CASE ~HoldsLease(work)
      BY <3>1, <3>2, SameKept DEF ReportOutbox, storeVars
    <3>3. CASE HoldsLease(work)
      <4>1. outbox[work.msg].state # "absent"
        BY <3>3 DEF HoldsLease
      <4>2. \/ CompleteDelivered(work.msg)
            \/ ToRetryWait(work.msg, RetryDelay(work.attempts))
            \/ ToUncertain(work.msg)
            \/ ToPermanentFailure(work.msg)
        BY <3>1, <3>3 DEF ReportOutbox
      <4> QED
        BY <1>0, <1>2, <4>1, <4>2, DropRow, SettleKeeps
    <3> QED
      BY <3>2, <3>3
  <2>3. CASE ~(CommitDataFence \/ Report)
    <3>1. UNCHANGED outbox
      BY <2>3 DEF Submission, LoadCredential, Connect, FenceFault,
                  InterruptFence, StartBody, BodyAccepted, BodyRejected,
                  BodyLost, Quit, storeVars
    <3> QED
      BY <3>1, SameKept
  <2> QED
    BY <2>1, <2>2, <2>3
<1> QED
  BY <1>1, <1>3, <1>4, PlainStep

LEMMA ClaimRows ==
  ASSUME RowsInv, ClaimNext
  PROVE  RowsFollow
<1>0. StoreInv
  BY DEF RowsInv, SafetyInv, TypeInv
<1>1. PICK T \in SUBSET Candidates :
        \/ ClaimIdle(T) /\ Drop("idle")
        \/ /\ \E m \in Candidates \ T : ClaimOutbox(T, m)
           /\ pc' = "credential"
  BY DEF ClaimNext
<1>2. UNCHANGED <<files, ui>>
  BY DEF ClaimNext
<1>3. CASE ClaimIdle(T) /\ Drop("idle")
  <2>1. pc' \notin ReservationPoints
    BY <1>3 DEF Drop, ReservationPoints
  <2> QED
    BY <1>0, <1>2, <1>3, <2>1, ClaimIdleKeeps, PlainStep
<1>4. ASSUME NEW m \in Candidates \ T, ClaimOutbox(T, m), pc' = "credential"
      PROVE  RowsFollow
  <2>1. /\ Claimed(m) /\ m \in Messages
        /\ \A n \in Messages \ {m} : Kept(n)
    BY <1>0, <1>4, ClaimKeeps DEF Candidates
  <2>2. \A n \in Messages :
          /\ outbox'[n].key = outbox[n].key /\ outbox'[n].rev = outbox[n].rev
          /\ outbox'[n].wire = outbox[n].wire
          /\ outbox'[n].state = "absent" <=> outbox[n].state = "absent"
    BY <2>1 DEF Kept, Claimed
  <2>3. RowsOwnKeys'
    BY <2>2 DEF RowsInv, ArtifactInv, RowsOwnKeys, Held
  <2>4. FilesOfRows'
    BY <1>2, <2>2 DEF RowsInv, ArtifactInv, FilesOfRows, Held
  <2>5. ComposerOwnsKey'
    BY <1>2, <2>2 DEF RowsInv, ArtifactInv, ComposerOwnsKey
  <2>6. RecoveryOwnsKey'
    BY <1>4 DEF RecoveryOwnsKey, ReservationPoints
  <2>7. SingleFlight'
    BY <2>1 DEF SingleFlight, Kept, Claimed
  <2>8. FreshLeases
    <3>1. \A n \in Messages : outbox[n].epoch \in Nat
      BY EpochsAreNumbers DEF RowsInv, SafetyInv
    <3> QED
      BY <2>1, <3>1 DEF FreshLeases, Kept, Claimed
  <2> QED
    BY <2>3, <2>4, <2>5, <2>6, <2>7, <2>8 DEF RowsFollow, ArtifactInv
<1> QED
  BY <1>1, <1>3, <1>4

LEMMA DriverStepRows ==
  ASSUME RowsInv, DriverStep
  PROVE  RowsFollow
<1>1. CASE Wake \/ DriverFault
  <2>1. UNCHANGED <<outbox, files, ui>>
    BY <1>1 DEF Wake, DriverFault, storeVars
  <2>2. pc' \notin ReservationPoints
    BY <1>1 DEF Wake, DriverFault, Drop, ReservationPoints
  <2> QED
    BY <2>1, <2>2, SameKept, PlainStep
<1> QED
  BY <1>1, RecoveryRows, SubmissionRows, ClaimRows DEF DriverStep

LEMMA OtherStepsRows ==
  ASSUME RowsInv, Environment \/ \E k \in Keys : RunFileGc(k)
  PROVE  RowsFollow
<1> USE DEF driverVars
<1>0. StoreInv
  BY DEF RowsInv, SafetyInv, TypeInv
<1>1. CASE Shutdown \/ Crash \/ Restart
  <2>1. UNCHANGED <<outbox, files>> /\ (UNCHANGED ui \/ ui'.pc = "idle")
    BY <1>1 DEF Shutdown, Crash, Restart, NoCompose, storeVars
  <2>2. pc' \notin ReservationPoints
    BY <1>1 DEF Shutdown, Crash, Restart, Drop, ReservationPoints
  <2> QED
    BY <2>1, <2>2, SameKept, PlainStep
<1>2. CASE Tick
  <2>1. UNCHANGED <<files, ui, pc, work, verdict>> /\ Elapse
    BY <1>2 DEF Tick
  <2> QED
    BY <1>0, <2>1, ElapseKeeps, PlainStep
<1>3. ASSUME NEW k \in Keys, RunFileGc(k)
      PROVE  RowsFollow
  <2>1. ArtifactInv'
    BY <1>3, JanitorSpares
  <2>2. \A n \in Messages : Quiet(n)
    BY <1>3, SameKept, KeptIsQuiet DEF RunFileGc
  <2> QED
    BY <2>1, <2>2, QuietRows DEF RowsFollow
<1> QED
  BY <1>1, <1>2, <1>3 DEF Environment

LEMMA NextRows ==
  ASSUME RowsInv, [Next]_vars
  PROVE  RowsInv' /\ FreshLeases
<1>1. SafetyInv'
  BY NextSafe DEF RowsInv
<1>2. CASE UNCHANGED vars
  BY <1>2, SameKept, PlainStep, <1>1 DEF vars, RowsInv, RowsFollow
<1> QED
  BY <1>1, <1>2, UserStepRows, ComposeStepRows, DriverStepRows, OtherStepsRows
     DEF Next, RowsInv, RowsFollow

THEOREM RowsInvariant == Spec => []RowsInv
<1>1. Init => RowsInv
  BY InitSafe, InitArtifacts DEF RowsInv
<1> QED
  BY <1>1, NextRows, PTL DEF Spec

(* Whatever is rebuilt, recovered, starred or collected in between, the    *)
(* file a finalized row is sent from is the one written from the revision  *)
(* the user queued: reserve_outbox, finalize_outbox, recover_reservation   *)
(* and the janitor agree on who owns a key.                                *)
THEOREM ArtifactsMatch == Spec => []ArtifactMatchesRevision
<1>1. RowsInv => ArtifactMatchesRevision
  BY WiredRowsMatch DEF RowsInv, SafetyInv
<1> QED
  BY <1>1, RowsInvariant, PTL

(* claim_outbox never hands out a second attempt while one is in flight,   *)
(* over all accounts and across abandoned leases.                          *)
THEOREM OneFlight == Spec => []SingleFlight
  BY RowsInvariant, PTL DEF RowsInv

(* Each claim of a row takes an epoch none of its attempts had, also after *)
(* the user's retry, so that a late report of one cannot pass for another. *)
THEOREM EpochsAreFresh == Spec => LeasesAreDistinct
<1>1. RowsInv /\ [Next]_vars => [FreshLeases]_vars
  BY NextRows
<1>2. Spec => [][FreshLeases]_vars
  BY <1>1, RowsInvariant, PTL DEF Spec
<1> QED
  BY <1>2 DEF LeasesAreDistinct, FreshLeases

-----------------------------------------------------------------------------
(* Every step is a step of Delivery, or one it does not see.               *)

(* An attempt whose outcome is unknown is one whose body was started.      *)
DoubtIsFenced ==
    pc = "report" /\ verdict = "uncertain" => outbox[work.msg].started

(* SafetyInv does not say so, and without it the report of a doubt could   *)
(* lead from "queued" to "unknown", which Delivery does not allow.         *)
DeliveryInv == SafetyInv /\ DoubtIsFenced

DeliveryStep ==
    [Promise!Next]_<<[m \in Messages |-> Status(m)], copies>>

-----------------------------------------------------------------------------
(* What Delivery sees of a row.                                            *)

LEMMA StatusOfRow ==
  ASSUME NEW m \in Messages, RowOK(m)
  PROVE  /\ outbox[m].state \in {"reserved", "ready", "retry_wait"}
              => Status(m) = "queued"
         /\ outbox[m].state = "in_flight"
              => Status(m) = IF outbox[m].started THEN "sending" ELSE "queued"
         /\ outbox[m].state = "uncertain" => Status(m) = "unknown"
         /\ outbox[m].state = "permanent_failure" => Status(m) = "failed"
         /\ outbox[m].state = "absent"
              => Status(m) = IF draft[m].folder = "sent" THEN "sent"
                                                         ELSE "draft"
<1>1. outbox[m].state # "absent" => draft[m].folder # "sent"
  BY DEF RowOK
<1>2. CASE draft[m].folder = "sent"
  BY <1>1, <1>2 DEF Status
<1>3. CASE draft[m].folder # "sent" /\ outbox[m].state = "absent"
  BY <1>3 DEF Status
<1>4. CASE draft[m].folder # "sent" /\ outbox[m].state = "in_flight"
  BY <1>4 DEF Status
<1>5. CASE draft[m].folder # "sent" /\ outbox[m].state = "uncertain"
  BY <1>5 DEF Status
<1>6. CASE draft[m].folder # "sent" /\ outbox[m].state = "permanent_failure"
  BY <1>6 DEF Status
<1>7. CASE /\ draft[m].folder # "sent"
           /\ outbox[m].state \in {"reserved", "ready", "retry_wait"}
  BY <1>7 DEF Status
<1> QED
  BY <1>2, <1>3, <1>4, <1>5, <1>6, <1>7

LEMMA StatusOfNextRow ==
  ASSUME NEW m \in Messages, RowOK(m)'
  PROVE  /\ outbox'[m].state \in {"reserved", "ready", "retry_wait"}
              => Status(m)' = "queued"
         /\ outbox'[m].state = "in_flight"
              => Status(m)' = IF outbox'[m].started THEN "sending"
                                                    ELSE "queued"
         /\ outbox'[m].state = "uncertain" => Status(m)' = "unknown"
         /\ outbox'[m].state = "permanent_failure" => Status(m)' = "failed"
         /\ outbox'[m].state = "absent"
              => Status(m)' = IF draft'[m].folder = "sent" THEN "sent"
                                                           ELSE "draft"
<1>1. outbox'[m].state # "absent" => draft'[m].folder # "sent"
  BY DEF RowOK
<1>2. CASE draft'[m].folder = "sent"
  BY <1>1, <1>2 DEF Status
<1>3. CASE draft'[m].folder # "sent" /\ outbox'[m].state = "absent"
  BY <1>3 DEF Status
<1>4. CASE draft'[m].folder # "sent" /\ outbox'[m].state = "in_flight"
  BY <1>4 DEF Status
<1>5. CASE draft'[m].folder # "sent" /\ outbox'[m].state = "uncertain"
  BY <1>5 DEF Status
<1>6. CASE draft'[m].folder # "sent" /\ outbox'[m].state = "permanent_failure"
  BY <1>6 DEF Status
<1>7. CASE /\ draft'[m].folder # "sent"
           /\ outbox'[m].state \in {"reserved", "ready", "retry_wait"}
  BY <1>7 DEF Status
<1> QED
  BY <1>2, <1>3, <1>4, <1>5, <1>6, <1>7

LEMMA StatusStays ==
  ASSUME NEW m, SameStatus(m)
  PROVE  Status(m)' = Status(m)
  BY DEF SameStatus, Status

Calm == \A n \in Messages : Status(n)' = Status(n)

Moves(m, from, to) ==
    /\ Status(m) = from /\ Status(m)' = to
    /\ \A n \in Messages \ {m} : Status(n)' = Status(n)

LEMMA CalmIsStutter ==
  ASSUME Calm, UNCHANGED copies
  PROVE  DeliveryStep
  BY DEF Calm, DeliveryStep

LEMMA MovesIsMove ==
  ASSUME NEW m \in Messages, NEW from, NEW to, Moves(m, from, to)
  PROVE  Promise!Move({m}, from, to)
  BY DEF Moves, Promise!Move

LEMMA MoveIsStep ==
  ASSUME NEW m \in Messages, copies \in [Messages -> Nat],
         \/ /\ UNCHANGED copies
            /\ \/ Moves(m, "draft", "queued")
               \/ Moves(m, "failed", "queued")
               \/ Moves(m, "failed", "draft")
               \/ Moves(m, "queued", "failed")
               \/ copies[m] = 0 /\ Moves(m, "queued", "sending")
               \/ copies[m] = 0 /\ Moves(m, "sending", "queued")
               \/ copies[m] = 0 /\ Moves(m, "sending", "failed")
               \/ copies[m] # 0 /\ Moves(m, "sending", "sent")
               \/ Moves(m, "sending", "unknown")
               \/ Moves(m, "unknown", "sent")
         \/ Moves(m, "unknown", "draft") /\ copies' = [copies EXCEPT ![m] = 0]
  PROVE  DeliveryStep
<1> USE MovesIsMove
<1>1. CASE UNCHANGED copies /\ Moves(m, "draft", "queued")
  BY <1>1 DEF DeliveryStep, Promise!Next, Promise!Queue
<1>2. CASE UNCHANGED copies /\ Moves(m, "failed", "queued")
  BY <1>2 DEF DeliveryStep, Promise!Next, Promise!Retry
<1>3. CASE UNCHANGED copies /\ Moves(m, "failed", "draft")
  BY <1>3 DEF DeliveryStep, Promise!Next, Promise!Release
<1>4. CASE UNCHANGED copies /\ Moves(m, "queued", "failed")
  <2>1. Promise!GiveUp({m})
    BY <1>4 DEF Promise!GiveUp
  <2> QED
    BY <2>1 DEF DeliveryStep, Promise!Next
<1>5. CASE UNCHANGED copies /\ copies[m] = 0 /\ Moves(m, "queued", "sending")
  BY <1>5 DEF DeliveryStep, Promise!Next, Promise!Send, Promise!Unsent
<1>6. CASE UNCHANGED copies /\ copies[m] = 0 /\ Moves(m, "sending", "queued")
  BY <1>6 DEF DeliveryStep, Promise!Next, Promise!Reject, Promise!Unsent
<1>7. CASE UNCHANGED copies /\ copies[m] = 0 /\ Moves(m, "sending", "failed")
  BY <1>7 DEF DeliveryStep, Promise!Next, Promise!Reject, Promise!Unsent
<1>8. CASE UNCHANGED copies /\ copies[m] # 0 /\ Moves(m, "sending", "sent")
  BY <1>8 DEF DeliveryStep, Promise!Next, Promise!Confirm, Promise!Unsent
<1>9. CASE UNCHANGED copies /\ Moves(m, "sending", "unknown")
  BY <1>9 DEF DeliveryStep, Promise!Next, Promise!Doubt
<1>10. CASE UNCHANGED copies /\ Moves(m, "unknown", "sent")
  BY <1>10 DEF DeliveryStep, Promise!Next, Promise!Vouch
<1>11. CASE Moves(m, "unknown", "draft") /\ copies' = [copies EXCEPT ![m] = 0]
  BY <1>11 DEF DeliveryStep, Promise!Next, Promise!TakeBack
<1> QED
  BY <1>1, <1>2, <1>3, <1>4, <1>5, <1>6, <1>7, <1>8, <1>9, <1>10, <1>11

LEMMA AcceptIsStep ==
  ASSUME NEW m \in Messages, copies \in [Messages -> Nat], copies[m] = 0,
         Status(m) = "sending", Calm, Accept(m)
  PROVE  DeliveryStep
<1>1. copies' = [copies EXCEPT ![m] = 1]
  BY DEF Accept
<1>2. [n \in Messages |-> Status(n)]' = [n \in Messages |-> Status(n)]
  BY DEF Calm
<1>3. Promise!Accept(m)
  BY <1>1, <1>2 DEF Promise!Accept, Promise!Unsent
<1> QED
  BY <1>3 DEF DeliveryStep, Promise!Next

(* Rows no attempt of which has started are given up together by a claim.  *)
LEMMA GiveUpIsStep ==
  ASSUME NEW S \in SUBSET Messages, UNCHANGED copies,
         \A n \in S : Status(n) = "queued" /\ Status(n)' = "failed",
         \A n \in Messages \ S : Status(n)' = Status(n)
  PROVE  DeliveryStep
<1>1. Promise!GiveUp(S)
  BY DEF Promise!GiveUp, Promise!Move
<1> QED
  BY <1>1 DEF DeliveryStep, Promise!Next

-----------------------------------------------------------------------------
(* Frames.                                                                 *)

Follows == DeliveryStep /\ DoubtIsFenced'

LEMMA DoubtStays ==
  ASSUME DeliveryInv, UNCHANGED <<pc, work, verdict>>,
         pc = "report" => SameLease(work.msg)
  PROVE  DoubtIsFenced'
  BY DEF DeliveryInv, DoubtIsFenced, SameLease

(* The row that moves is not the one the driver works on.                  *)
LEMMA DoubtElsewhere ==
  ASSUME DeliveryInv, NEW m \in Messages, outbox[m].state # "in_flight",
         \A n \in Messages \ {m} : SameLease(n),
         UNCHANGED <<pc, work, verdict>>
  PROVE  DoubtIsFenced'
<1>1. pc = "report" => work.msg \in Messages \ {m}
  BY DEF DeliveryInv, SafetyInv, TypeInv, DriverInv, HoldingPoints, DriverOK,
         HoldsLease, ClaimPoints
<1> QED
  BY <1>1, DoubtStays

LEMMA RowsUntouched ==
  ASSUME DeliveryInv, UNCHANGED <<draft, outbox>>
  PROVE  /\ Calm
         /\ UNCHANGED <<pc, work, verdict>> => DoubtIsFenced'
<1>1. Calm
  BY DEF Calm, Status
<1>2. SameLease(work.msg)
  BY DEF SameLease
<1> QED
  BY <1>1, <1>2, DoubtStays

LEMMA Settled ==
  ASSUME DeliveryInv, SafetyInv', NEW m \in Messages,
         \A n \in Messages \ {m} : SameStatus(n)
  PROVE  /\ RowOK(m) /\ RowOK(m)'
         /\ \A n \in Messages \ {m} : Status(n)' = Status(n)
         /\ Status(m)' = Status(m) => Calm
         /\ Moves(m, Status(m), Status(m)')
<1>1. \A n \in Messages \ {m} : Status(n)' = Status(n)
  BY StatusStays
<1> QED
  BY <1>1 DEF DeliveryInv, SafetyInv, RowsOK, Calm, Moves

-----------------------------------------------------------------------------
(* The composer and the user.                                              *)

LEMMA DraftOpsFollow ==
  ASSUME DeliveryInv, SafetyInv', NEW m \in Messages,
         CreateDraft(m) \/ UpdateDraft(m) \/ SetStarred(m),
         UNCHANGED <<copies, pc, work, verdict>>
  PROVE  Follows
<1>1. draft \in [Messages -> Draft] /\ outbox \in [Messages -> Row]
  BY DEF DeliveryInv, SafetyInv, TypeInv, StoreInv, StoreTypeOK
<1>2. \A n \in Messages :
        \/ draft'[n].folder = draft[n].folder
        \/ draft[n].folder = "unsaved" /\ draft'[n].folder = "drafts"
  BY <1>1 DEF CreateDraft, UpdateDraft, SetStarred, Draft
<1>3. UNCHANGED outbox
  BY DEF CreateDraft, UpdateDraft, SetStarred
<1>4. ASSUME NEW n \in Messages PROVE Status(n)' = Status(n)
  <2>1. RowOK(n) /\ RowOK(n)' /\ outbox[n].state \in RowStates
    BY <1>1 DEF DeliveryInv, SafetyInv, RowsOK, Row
  <2> QED
    BY <1>2, <1>3, <2>1, StatusOfRow, StatusOfNextRow DEF RowStates
<1>5. DoubtIsFenced'
  BY <1>3, DoubtStays DEF SameLease
<1> QED
  BY <1>4, <1>5, CalmIsStutter DEF Follows, Calm

LEMMA ReserveFollows ==
  ASSUME DeliveryInv, SafetyInv', NEW r, r.msg \in Messages, CanReserve(r),
         ReserveOutbox(r), UNCHANGED <<copies, vouched, pc, work, verdict>>
  PROVE  Follows
<1> DEFINE m == r.msg
<1>1. /\ outbox \in [Messages -> Row] /\ draft \in [Messages -> Draft]
      /\ copies \in [Messages -> Nat]
  BY DEF DeliveryInv, SafetyInv, TypeInv, StoreInv, StoreTypeOK, GhostInv
<1>2. \A n \in Messages \ {m} : SameStatus(n) /\ SameLease(n)
  BY <1>1 DEF ReserveOutbox, SameStatus, SameLease
<1>3. /\ outbox[m].state = "absent" /\ draft[m].folder = "drafts"
      /\ outbox'[m].state = "reserved"
  BY <1>1 DEF CanReserve, ReserveOutbox, NoRow
<1>4. Moves(m, "draft", "queued")
  BY <1>2, <1>3, Settled, StatusOfRow, StatusOfNextRow
<1> QED
  BY <1>1, <1>2, <1>3, <1>4, MoveIsStep, DoubtElsewhere DEF Follows

LEMMA ReservationOpsFollow ==
  ASSUME DeliveryInv, SafetyInv', NEW r, r.msg \in Messages,
         FinalizeOutbox(r) \/ RenewReservation(r) \/ InvalidateReservation(r),
         UNCHANGED <<copies, vouched>>
  PROVE  /\ DeliveryStep
         /\ UNCHANGED <<pc, work, verdict>> => DoubtIsFenced'
<1> DEFINE m == r.msg
<1>1. /\ StoreInv /\ outbox[m] \in Row /\ UNCHANGED draft
      /\ copies \in [Messages -> Nat]
  BY DEF DeliveryInv, SafetyInv, TypeInv, StoreInv, StoreTypeOK, GhostInv,
         FinalizeOutbox, RenewReservation, InvalidateReservation
<1>2. CASE UNCHANGED outbox
  BY <1>1, <1>2, RowsUntouched, CalmIsStutter
<1>3. CASE outbox' # outbox
  <2>1. outbox[m].state = "reserved"
    BY <1>3 DEF FinalizeOutbox, FinalizeOutcome, CanFinalize,
                RenewReservation, InvalidateReservation, HoldsReservation
  <2>2. /\ \A n \in Messages \ {m} : SameStatus(n) /\ SameLease(n)
        /\ outbox'[m].state \in {"ready", "reserved", "permanent_failure"}
    <3>1. CASE FinalizeOutbox(r)
      BY <1>1, <1>3, <3>1, Rewritten DEF FinalizeOutbox, Row
    <3>2. CASE RenewReservation(r)
      BY <1>1, <1>3, <2>1, <3>2, Rewritten DEF RenewReservation, Row
    <3>3. CASE InvalidateReservation(r)
      BY <1>1, <1>3, <3>3, Rewritten DEF InvalidateReservation, Row
    <3> QED
      BY <3>1, <3>2, <3>3
  <2>3. Calm \/ Moves(m, "queued", "failed")
    BY <2>1, <2>2, Settled, StatusOfRow, StatusOfNextRow
  <2>4. DeliveryStep
    BY <1>1, <2>3, CalmIsStutter, MoveIsStep
  <2> QED
    BY <2>1, <2>2, <2>4, DoubtElsewhere
<1> QED
  BY <1>2, <1>3

LEMMA UserOpsFollow ==
  ASSUME DeliveryInv, SafetyInv', NEW m \in Messages,
         \/ RetryOutbox(m) /\ UNCHANGED <<copies, vouched>>
         \/ ReleaseFailedOutbox(m) /\ UNCHANGED <<copies, vouched>>
         \/ /\ ReleaseUncertainOutbox(m)
            /\ copies' = [copies EXCEPT ![m] = 0] /\ UNCHANGED vouched
         \/ /\ AssumeDelivered(m)
            /\ vouched' = vouched \cup {m} /\ UNCHANGED copies,
         UNCHANGED <<pc, work, verdict>>
  PROVE  Follows
<1>1. /\ StoreInv /\ outbox \in [Messages -> Row] /\ outbox[m] \in Row
      /\ draft \in [Messages -> Draft] /\ draft[m] \in Draft
      /\ copies \in [Messages -> Nat]
  BY DEF DeliveryInv, SafetyInv, TypeInv, StoreInv, StoreTypeOK, GhostInv
<1>2. outbox[m].state \in {"permanent_failure", "uncertain"}
  BY DEF RetryOutbox, ReleaseFailedOutbox, ReleaseUncertainOutbox,
         AssumeDelivered
<1>3. draft[m].folder = "drafts"
  BY <1>2 DEF DeliveryInv, SafetyInv, RowsOK, RowOK
<1>4. CASE RetryOutbox(m) /\ UNCHANGED <<copies, vouched>>
  <2>1. /\ \A n \in Messages \ {m} : SameStatus(n) /\ SameLease(n)
        /\ outbox'[m].state = "ready" /\ outbox[m].state = "permanent_failure"
    BY <1>1, <1>4, Rewritten DEF RetryOutbox, Row
  <2>2. Moves(m, "failed", "queued")
    BY <2>1, Settled, StatusOfRow, StatusOfNextRow
  <2> QED
    BY <1>1, <1>2, <1>4, <2>1, <2>2, MoveIsStep, DoubtElsewhere DEF Follows
<1>5. CASE /\ ReleaseToDraft(m) /\ UNCHANGED vouched
           /\ \/ outbox[m].state = "permanent_failure" /\ UNCHANGED copies
              \/ /\ outbox[m].state = "uncertain"
                 /\ copies' = [copies EXCEPT ![m] = 0]
  <2>1. /\ \A n \in Messages \ {m} : SameStatus(n) /\ SameLease(n)
        /\ outbox'[m].state = "absent" /\ draft'[m].folder = "drafts"
    BY <1>1, <1>3, <1>5
       DEF ReleaseToDraft, NoRow, Draft, SameStatus, SameLease
  <2>2. \/ UNCHANGED copies /\ Moves(m, "failed", "draft")
        \/ copies' = [copies EXCEPT ![m] = 0] /\ Moves(m, "unknown", "draft")
    BY <1>5, <2>1, Settled, StatusOfRow, StatusOfNextRow
  <2> QED
    BY <1>1, <1>2, <2>1, <2>2, MoveIsStep, DoubtElsewhere DEF Follows
<1>6. CASE AssumeDelivered(m) /\ vouched' = vouched \cup {m} /\ UNCHANGED copies
  <2>1. /\ outbox' = [outbox EXCEPT ![m] = NoRow]
        /\ draft' = [draft EXCEPT ![m] =
                       [@ EXCEPT !.folder = "sent", !.locked = FALSE]]
        /\ outbox[m].state = "uncertain"
    BY <1>6 DEF AssumeDelivered, CompleteDelivered
  <2>2. /\ \A n \in Messages \ {m} : SameStatus(n) /\ SameLease(n)
        /\ outbox'[m].state = "absent" /\ draft'[m].folder = "sent"
    BY <1>1, <1>6, <2>1 DEF NoRow, Draft, SameStatus, SameLease
  <2>3. Moves(m, "unknown", "sent")
    BY <2>1, <2>2, Settled, StatusOfRow, StatusOfNextRow
  <2> QED
    BY <1>1, <1>2, <1>6, <2>2, <2>3, MoveIsStep, DoubtElsewhere DEF Follows
<1> QED
  BY <1>4, <1>5, <1>6 DEF ReleaseFailedOutbox, ReleaseUncertainOutbox

LEMMA UserStepFollows ==
  ASSUME DeliveryInv, SafetyInv', UserStep
  PROVE  Follows
<1> USE DEF driverVars, ghostVars
<1>1. ASSUME NEW m \in Messages, SaveAndClose(m) \/ QueueSave(m) \/ Star(m)
      PROVE  Follows
  BY <1>1, DraftOpsFollow DEF SaveAndClose, QueueSave, Star, SaveDraft
<1>2. ASSUME NEW m \in Messages,
             Retry(m) \/ ReleaseFailed(m) \/ ReleaseUncertain(m) \/ Vouch(m)
      PROVE  Follows
  BY <1>2, UserOpsFollow DEF Retry, ReleaseFailed, ReleaseUncertain, Vouch
<1>3. ASSUME NEW a \in Accounts, AccountChange(a)
      PROVE  Follows
  <2>1. UNCHANGED <<draft, outbox, copies, pc, work, verdict>>
    BY <1>3 DEF AccountChange, UpdateAccount, SetAccountEnabled,
                BeginAccountRemoval
  <2> QED
    BY <2>1, RowsUntouched, CalmIsStutter DEF Follows
<1> QED
  BY <1>1, <1>2, <1>3 DEF UserStep

LEMMA ComposeStepFollows ==
  ASSUME DeliveryInv, SafetyInv', ComposeStep
  PROVE  Follows
<1> USE DEF driverVars, ghostVars
<1>0. UiInv
  BY DEF DeliveryInv, SafetyInv, TypeInv
<1>1. CASE QueueReserve
  <2>1. ui.msg \in Messages /\ UNCHANGED <<copies, vouched, pc, work, verdict>>
    BY <1>0, <1>1 DEF QueueReserve, UiInv
  <2>2. CASE UNCHANGED storeVars
    BY <2>1, <2>2, RowsUntouched, CalmIsStutter DEF storeVars, Follows
  <2>3. ASSUME NEW r, r.msg = ui.msg, CanReserve(r), ReserveOutbox(r)
        PROVE  Follows
    <3>1. r.msg \in Messages
      BY <2>1, <2>3
    <3> QED
      BY <2>1, <2>3, <3>1, ReserveFollows
  <2> QED
    BY <1>1, <2>2, <2>3 DEF QueueReserve
<1>2. CASE QueueFinalize
  <2>1. ui.msg \in Messages /\ FinalizeOutbox(ui)
        /\ UNCHANGED <<copies, vouched, pc, work, verdict>>
    BY <1>0, <1>2 DEF QueueFinalize, UiInv
  <2> QED
    BY <2>1, ReservationOpsFollow DEF Follows
<1>3. CASE QueuePublish \/ QueueFault
  <2>1. UNCHANGED <<draft, outbox, copies, pc, work, verdict>>
    BY <1>3 DEF QueuePublish, QueueFault, storeVars
  <2> QED
    BY <2>1, RowsUntouched, CalmIsStutter DEF Follows
<1> QED
  BY <1>1, <1>2, <1>3 DEF ComposeStep

-----------------------------------------------------------------------------
(* The driver.                                                             *)

LEMMA DoubtGone ==
  ASSUME pc' # "report" \/ verdict' # "uncertain"
  PROVE  DoubtIsFenced'
  BY DEF DoubtIsFenced

LEMMA RecoverLeaseFollows ==
  ASSUME DeliveryInv, SafetyInv', NEW m \in Messages, RecoverLease(m),
         pc = "recover", UNCHANGED <<copies, vouched, pc, work, verdict>>
  PROVE  Follows
<1>1. /\ StoreInv /\ outbox[m] \in Row /\ UNCHANGED draft
      /\ copies \in [Messages -> Nat]
  BY DEF DeliveryInv, SafetyInv, TypeInv, StoreInv, StoreTypeOK, GhostInv,
         RecoverLease
<1>2. outbox[m].state = "in_flight"
  BY DEF RecoverLease, First, Expired
<1>3. /\ \A n \in Messages \ {m} : SameStatus(n)
      /\ outbox'[m].state = IF outbox[m].started THEN "uncertain" ELSE "ready"
  <2> DEFINE next == IF outbox[m].started THEN "uncertain" ELSE "ready"
             row == [outbox[m] EXCEPT !.state = next, !.due = 0]
  <2>1. outbox' = [outbox EXCEPT ![m] = row]
    BY DEF RecoverLease
  <2>2. row.state = next
    <3> HIDE DEF next
    <3> QED
      BY <1>1 DEF Row
  <2> HIDE DEF row
  <2> QED
    BY <1>1, <2>1, <2>2, Rewritten
<1>4. Calm \/ Moves(m, "sending", "unknown")
  BY <1>2, <1>3, Settled, StatusOfRow, StatusOfNextRow
<1>5. DeliveryStep
  BY <1>1, <1>4, CalmIsStutter, MoveIsStep
<1>6. DoubtIsFenced'
  BY DoubtGone
<1> QED
  BY <1>5, <1>6 DEF Follows

LEMMA RecoveryFollows ==
  ASSUME DeliveryInv, SafetyInv', Recovery
  PROVE  Follows
<1> USE DEF ghostVars
<1>0. DriverInv
  BY DEF DeliveryInv, SafetyInv, TypeInv
<1>1. CASE RecoverStep
  <2>1. ASSUME NEW m \in Messages, RecoverLease(m),
               UNCHANGED <<pc, work, verdict>>
        PROVE  Follows
    BY <1>1, <2>1, RecoverLeaseFollows DEF RecoverStep
  <2>2. CASE Drop("claim") /\ UNCHANGED storeVars
    BY <1>1, <2>2, RowsUntouched, CalmIsStutter, DoubtGone
       DEF RecoverStep, Drop, storeVars, Follows
  <2> QED
    BY <1>1, <2>1, <2>2 DEF RecoverStep
<1>2. CASE RecoverReservation \/ RecoveryDone \/ ObserveArtifact \/ LoadDraft
           \/ RebuildArtifact
  <2>1. UNCHANGED <<draft, outbox, copies>>
    BY <1>2 DEF RecoverReservation, RecoveryDone, ObserveArtifact, LoadDraft,
                RebuildArtifact, storeVars
  <2>2. pc' # "report"
    BY <1>2 DEF RecoverReservation, RecoveryDone, ObserveArtifact, LoadDraft,
                RebuildArtifact, Drop, GoTo, Conclude
  <2> QED
    BY <2>1, <2>2, RowsUntouched, CalmIsStutter, DoubtGone DEF Follows
<1>3. CASE ResolveReservation
  <2>1. work.msg \in Messages
    BY <1>0, <1>3 DEF ResolveReservation, DriverInv, HoldingPoints,
                      ReservationPoints
  <2>2. pc' # "report"
    BY <1>3 DEF ResolveReservation, Drop, GoTo, NextRecovery
  <2>3. /\ \/ FinalizeOutbox(work) \/ RenewReservation(work)
           \/ InvalidateReservation(work)
        /\ UNCHANGED <<copies, vouched>>
    BY <1>3 DEF ResolveReservation
  <2> QED
    BY <2>1, <2>2, <2>3, ReservationOpsFollow, DoubtGone DEF Follows
<1> QED
  BY <1>1, <1>2, <1>3 DEF Recovery

LEMMA ClaimFollows ==
  ASSUME DeliveryInv, SafetyInv', ClaimNext
  PROVE  Follows
<1>1. /\ outbox \in [Messages -> Row] /\ UNCHANGED copies
      /\ \A n \in Messages : RowOK(n) /\ RowOK(n)'
  BY DEF DeliveryInv, SafetyInv, TypeInv, StoreInv, StoreTypeOK, RowsOK,
         ClaimNext, ghostVars
<1>2. pc' # "report"
  BY DEF ClaimNext, Drop
<1>3. PICK T \in SUBSET Candidates :
        ClaimIdle(T) \/ \E m \in Candidates \ T : ClaimOutbox(T, m)
  BY DEF ClaimNext
<1>4. UNCHANGED draft
  BY <1>3 DEF ClaimIdle, ClaimOutbox
<1>5. \A n \in T : /\ n \in Messages
                   /\ outbox[n].state \in {"ready", "retry_wait"}
                   /\ outbox'[n] = Terminalized(outbox[n])
  BY <1>3 DEF ClaimIdle, ClaimOutbox, Candidates
<1>6. \A n \in T : Status(n) = "queued" /\ Status(n)' = "failed"
  <2>1. \A n \in T : outbox'[n].state = "permanent_failure"
    BY <1>1, <1>5 DEF Terminalized, Row
  <2> QED
    BY <1>1, <1>5, <2>1, StatusOfRow, StatusOfNextRow
<1>7. ASSUME NEW n \in Messages \ T PROVE Status(n)' = Status(n)
  <2>1. CASE outbox'[n] = outbox[n]
    BY <1>4, <2>1 DEF Status
  <2>2. CASE ClaimOutbox(T, n) /\ n \in Candidates
    <3> DEFINE row == [outbox[n] EXCEPT
                         !.state = "in_flight", !.epoch = @ + 1,
                         !.attempts = @ + 1, !.due = ClaimTTL,
                         !.started = FALSE]
    <3>1. outbox[n].state \in {"ready", "retry_wait"}
      BY <2>2 DEF Candidates
    <3>2. outbox'[n] = row
      BY <2>2 DEF ClaimOutbox
    <3>3. row.state = "in_flight" /\ ~row.started
      BY <1>1 DEF Row
    <3> HIDE DEF row
    <3> QED
      BY <1>1, <3>1, <3>2, <3>3, StatusOfRow, StatusOfNextRow
  <2> QED
    BY <1>3, <2>1, <2>2 DEF ClaimIdle, ClaimOutbox
<1>8. DeliveryStep
  BY <1>1, <1>5, <1>6, <1>7, GiveUpIsStep
<1> QED
  BY <1>2, <1>8, DoubtGone DEF Follows

LEMMA FenceFollows ==
  ASSUME DeliveryInv, SafetyInv', NEW m \in Messages, work.msg = m,
         CanMarkDataStarted(work), MarkDataStarted(work),
         UNCHANGED <<copies, vouched>>
  PROVE  DeliveryStep
<1> DEFINE row == [outbox[m] EXCEPT !.started = TRUE, !.due = ClaimTTL]
<1>1. /\ StoreInv /\ outbox[m] \in Row /\ UNCHANGED draft
      /\ copies \in [Messages -> Nat]
  BY DEF DeliveryInv, SafetyInv, TypeInv, StoreInv, StoreTypeOK, GhostInv,
         MarkDataStarted
<1>2. outbox[m].state = "in_flight" /\ ~outbox[m].started /\ copies[m] = 0
  BY DEF CanMarkDataStarted, HoldsLease, DeliveryInv, SafetyInv, RowsOK, RowOK,
         NotOut
<1>3. row.state = "in_flight" /\ row.started
  BY <1>1, <1>2 DEF Row
<1>4. outbox' = [outbox EXCEPT ![m] = row]
  BY DEF MarkDataStarted
<1> HIDE DEF row
<1>5. outbox'[m] = row /\ \A n \in Messages \ {m} : SameStatus(n)
  BY <1>1, <1>4, Rewritten
<1>6. Moves(m, "queued", "sending")
  BY <1>2, <1>3, <1>5, Settled, StatusOfRow, StatusOfNextRow
<1> QED
  BY <1>1, <1>2, <1>6, MoveIsStep

LEMMA ReportFollows ==
  ASSUME DeliveryInv, SafetyInv', pc = "report", NEW delay,
         NEW m \in Messages, work.msg = m,
         ReportOutbox(work, verdict, delay), UNCHANGED <<copies, vouched>>
  PROVE  DeliveryStep
<1>1. /\ StoreInv /\ outbox \in [Messages -> Row] /\ outbox[m] \in Row
      /\ draft \in [Messages -> Draft] /\ draft[m] \in Draft
      /\ copies \in [Messages -> Nat]
  BY DEF DeliveryInv, SafetyInv, TypeInv, StoreInv, StoreTypeOK, GhostInv
<1>2. /\ HoldsLease(work) /\ outbox[m].state = "in_flight"
      /\ verdict = "delivered" => copies[m] = 1
      /\ verdict \in {"retry_after_rejection", "permanent_failure"}
           => copies[m] = 0
      /\ ~outbox[m].started => copies[m] = 0
      /\ verdict = "uncertain" => outbox[m].started
  BY <1>1 DEF DeliveryInv, DoubtIsFenced, SafetyInv, DriverOK, ClaimPoints,
              HoldsLease, RowsOK, RowOK, NotOut
<1>3. CASE verdict = "delivered" /\ CompleteDelivered(m)
  <2>1. /\ outbox' = [outbox EXCEPT ![m] = NoRow]
        /\ draft' = [draft EXCEPT ![m] =
                       [@ EXCEPT !.folder = "sent", !.locked = FALSE]]
    BY <1>3 DEF CompleteDelivered
  <2>2. /\ \A n \in Messages \ {m} : SameStatus(n)
        /\ outbox'[m].state = "absent" /\ draft'[m].folder = "sent"
    BY <1>1, <2>1 DEF NoRow, Draft, SameStatus
  <2>3. outbox[m].started
    BY <1>2, <1>3
  <2>4. Moves(m, "sending", "sent")
    BY <1>2, <2>2, <2>3, Settled, StatusOfRow, StatusOfNextRow
  <2> QED
    BY <1>1, <1>2, <1>3, <2>4, MoveIsStep
<1>4. CASE \/ ToRetryWait(m, delay) /\ copies[m] = 0
           \/ ToPermanentFailure(m) /\ copies[m] = 0
           \/ ToUncertain(m) /\ outbox[m].started
  <2>1. UNCHANGED draft
    BY <1>4 DEF ToRetryWait, ToUncertain, ToPermanentFailure
  <2>2. /\ \A n \in Messages \ {m} : SameStatus(n)
        /\ \/ outbox'[m].state = "retry_wait" /\ copies[m] = 0
           \/ outbox'[m].state = "permanent_failure" /\ copies[m] = 0
           \/ outbox'[m].state = "uncertain" /\ outbox[m].started
    <3>1. CASE ToRetryWait(m, delay) /\ copies[m] = 0
      BY <1>1, <2>1, <3>1, Rewritten DEF ToRetryWait, Row
    <3>2. CASE ToPermanentFailure(m) /\ copies[m] = 0
      BY <1>1, <2>1, <3>2, Rewritten
         DEF ToPermanentFailure, Terminalized, Row
    <3>3. CASE ToUncertain(m) /\ outbox[m].started
      BY <1>1, <2>1, <3>3, Rewritten DEF ToUncertain, Row
    <3> QED
      BY <1>4, <3>1, <3>2, <3>3
  <2>3. \/ Calm
        \/ copies[m] = 0 /\ Moves(m, "sending", "queued")
        \/ copies[m] = 0 /\ Moves(m, "sending", "failed")
        \/ Moves(m, "queued", "failed")
        \/ Moves(m, "sending", "unknown")
    BY <1>2, <2>2, Settled, StatusOfRow, StatusOfNextRow
  <2> QED
    BY <1>1, <2>3, CalmIsStutter, MoveIsStep
<1>5. \/ verdict = "delivered" /\ CompleteDelivered(m)
      \/ ToRetryWait(m, delay) /\ copies[m] = 0
      \/ ToPermanentFailure(m) /\ copies[m] = 0
      \/ ToUncertain(m) /\ outbox[m].started
  BY <1>2 DEF ReportOutbox, CompleteDelivered, ToRetryWait, ToUncertain,
              ToPermanentFailure
<1> QED
  BY <1>3, <1>4, <1>5

(* The server takes a message only while it is being sent, once.           *)
LEMMA BodyAcceptFollows ==
  ASSUME DeliveryInv, pc = "body", Accept(work.msg),
         UNCHANGED <<draft, outbox>>
  PROVE  DeliveryStep
<1>1. /\ work.msg \in Messages /\ copies \in [Messages -> Nat]
      /\ HoldsLease(work) /\ outbox[work.msg].started
      /\ copies[work.msg] = 0 /\ RowOK(work.msg)
  BY DEF DeliveryInv, SafetyInv, TypeInv, DriverInv, HoldingPoints,
         ClaimPoints, GhostInv, DriverOK, RowsOK
<1>2. Status(work.msg) = "sending"
  BY <1>1, StatusOfRow DEF HoldsLease
<1> QED
  BY <1>1, <1>2, RowsUntouched, AcceptIsStep

LEMMA SubmissionFollows ==
  ASSUME DeliveryInv, SafetyInv', Submission
  PROVE  Follows
<1> USE DEF ghostVars
<1>1. pc \in ClaimPoints
  BY DEF Submission, LoadCredential, Connect, CommitDataFence, FenceFault,
         InterruptFence, StartBody, BodyAccepted, BodyRejected, BodyLost,
         Quit, Report, ClaimPoints
<1>2. /\ work.msg \in Messages
      /\ pc \in {"body", "quit"} => outbox[work.msg].started
  BY <1>1 DEF DeliveryInv, SafetyInv, TypeInv, DriverInv, HoldingPoints,
              DriverOK
<1>3. CASE LoadCredential \/ Connect \/ FenceFault \/ InterruptFence
           \/ StartBody \/ BodyRejected
  <2>1. UNCHANGED <<draft, outbox, copies>>
    BY <1>3 DEF LoadCredential, Connect, FenceFault, InterruptFence,
                StartBody, BodyRejected, storeVars
  <2>2. pc' # "report" \/ verdict' # "uncertain"
    BY <1>3 DEF LoadCredential, Connect, FenceFault, InterruptFence,
                StartBody, BodyRejected, GoTo, FailWith, Conclude,
                CredentialFailurePlan, SmtpFailurePlan, ConnectFailures,
                Interruptions, Rejections
  <2> QED
    BY <2>1, <2>2, RowsUntouched, CalmIsStutter, DoubtGone DEF Follows
<1>4. CASE CommitDataFence
  <2>1. pc' # "report" \/ verdict' # "uncertain"
    BY <1>4 DEF CommitDataFence, GoTo, FailWith, Conclude, SmtpFailurePlan
  <2>2. CASE CanMarkDataStarted(work)
    <3>1. MarkDataStarted(work) /\ UNCHANGED <<copies, vouched>>
      BY <1>4, <2>2 DEF CommitDataFence
    <3> QED
      BY <1>2, <2>1, <2>2, <3>1, FenceFollows, DoubtGone DEF Follows
  <2>3. CASE ~CanMarkDataStarted(work)
    <3>1. UNCHANGED <<draft, outbox, copies>>
      BY <1>4, <2>3 DEF CommitDataFence, storeVars
    <3> QED
      BY <2>1, <3>1, RowsUntouched, CalmIsStutter, DoubtGone DEF Follows
  <2> QED
    BY <2>2, <2>3
<1>5. CASE BodyAccepted
  <2>1. /\ pc = "body" /\ Accept(work.msg) /\ UNCHANGED <<draft, outbox>>
        /\ pc' # "report"
    BY <1>5 DEF BodyAccepted, GoTo, storeVars
  <2> QED
    BY <2>1, BodyAcceptFollows, DoubtGone DEF Follows
<1>6. CASE BodyLost \/ Quit
  <2>1. /\ pc \in {"body", "quit"} /\ UNCHANGED <<draft, outbox, work>>
        /\ (pc = "body" /\ Accept(work.msg)) \/ UNCHANGED copies
    BY <1>6 DEF BodyLost, Quit, FailWith, Conclude, storeVars
  <2>2. DoubtIsFenced'
    BY <1>2, <2>1 DEF DoubtIsFenced
  <2> QED
    BY <2>1, <2>2, BodyAcceptFollows, RowsUntouched, CalmIsStutter DEF Follows
<1>7. CASE Report
  <2>1. /\ pc = "report" /\ pc' # "report" /\ UNCHANGED <<copies, vouched>>
        /\ ReportOutbox(work, verdict, RetryDelay(work.attempts))
    BY <1>7 DEF Report, Drop
  <2> QED
    BY <1>2, <2>1, ReportFollows, DoubtGone DEF Follows
<1> QED
  BY <1>3, <1>4, <1>5, <1>6, <1>7 DEF Submission

LEMMA DriverStepFollows ==
  ASSUME DeliveryInv, SafetyInv', DriverStep
  PROVE  Follows
<1>1. CASE Wake \/ DriverFault
  <2>1. UNCHANGED <<draft, outbox, copies>> /\ pc' # "report"
    BY <1>1 DEF Wake, DriverFault, Drop, storeVars, ghostVars
  <2> QED
    BY <2>1, RowsUntouched, CalmIsStutter, DoubtGone DEF Follows
<1> QED
  BY <1>1, RecoveryFollows, ClaimFollows, SubmissionFollows DEF DriverStep

LEMMA OtherStepsFollow ==
  ASSUME DeliveryInv, SafetyInv', Environment \/ \E k \in Keys : RunFileGc(k)
  PROVE  Follows
<1> USE DEF ghostVars, driverVars
<1>1. CASE Shutdown \/ Restart
  <2>1. UNCHANGED <<draft, outbox, copies>> /\ pc' # "report"
    BY <1>1 DEF Shutdown, Restart, Drop, storeVars
  <2> QED
    BY <2>1, RowsUntouched, CalmIsStutter, DoubtGone DEF Follows
<1>2. CASE Crash
  <2>1. /\ UNCHANGED <<draft, outbox>> /\ pc' # "report"
        /\ (pc = "body" /\ Accept(work.msg)) \/ UNCHANGED copies
    BY <1>2 DEF Crash, Drop, storeVars
  <2> QED
    BY <2>1, BodyAcceptFollows, RowsUntouched, CalmIsStutter, DoubtGone
       DEF Follows
<1>3. CASE Tick
  <2>1. /\ outbox \in [Messages -> Row]
        /\ UNCHANGED <<draft, copies, vouched, pc, work, verdict>>
    BY <1>3 DEF DeliveryInv, SafetyInv, TypeInv, StoreInv, StoreTypeOK, Tick,
                Elapse
  <2>2. \A n \in Messages : SameStatus(n) /\ SameLease(n)
    BY <1>3, <2>1 DEF Tick, Elapse, Row, SameStatus, SameLease
  <2>3. pc = "report" => work.msg \in Messages
    BY DEF DeliveryInv, SafetyInv, TypeInv, DriverInv, HoldingPoints,
           ClaimPoints
  <2>4. Calm /\ DoubtIsFenced'
    BY <2>1, <2>2, <2>3, StatusStays, DoubtStays DEF Calm
  <2> QED
    BY <2>1, <2>4, CalmIsStutter DEF Follows
<1>4. ASSUME NEW k \in Keys, RunFileGc(k)
      PROVE  Follows
  <2>1. UNCHANGED <<draft, outbox, copies, pc, work, verdict>>
    BY <1>4 DEF RunFileGc
  <2> QED
    BY <2>1, RowsUntouched, CalmIsStutter DEF Follows
<1> QED
  BY <1>1, <1>2, <1>3, <1>4 DEF Environment

LEMMA NextFollows ==
  ASSUME DeliveryInv, [Next]_vars
  PROVE  DeliveryInv' /\ DeliveryStep
<1>1. SafetyInv'
  BY NextSafe DEF DeliveryInv
<1>2. UNCHANGED vars => Follows
  BY RowsUntouched, CalmIsStutter DEF vars, Follows
<1>3. Follows
  BY <1>1, <1>2, UserStepFollows, ComposeStepFollows, DriverStepFollows,
     OtherStepsFollow DEF Next
<1> QED
  BY <1>1, <1>3 DEF Follows, DeliveryInv

LEMMA InitFollows == Init => DeliveryInv /\ Promise!Init
<1> SUFFICES ASSUME Init PROVE DeliveryInv /\ Promise!Init
  OBVIOUS
<1>1. SafetyInv
  BY InitSafe
<1>2. DoubtIsFenced
  BY DEF Init, DoubtIsFenced
<1>3. \A m \in Messages : Status(m) = "draft"
  <2>1. \A m \in Messages : /\ RowOK(m) /\ outbox[m].state = "absent"
                            /\ draft[m].folder = "unsaved"
    BY <1>1 DEF SafetyInv, RowsOK, Init, StoreInit, NoRow
  <2> QED
    BY <2>1, StatusOfRow
<1>4. Promise!Init
  BY <1>3 DEF Init, Promise!Init
<1> QED
  BY <1>1, <1>2, <1>4 DEF DeliveryInv

(* Nothing the composer, the driver, a crash or the clock does to a        *)
(* message is more than Delivery allows: it is sent at most once unless    *)
(* its outcome is unknown and the user takes it back.                      *)
THEOREM Delivers == Spec => ImplementsDelivery
<1>1. DeliveryInv /\ [Next]_vars =>
        [Promise!Next]_<<[m \in Messages |-> Status(m)], copies>>
  BY NextFollows DEF DeliveryStep
<1>2. DeliveryInv /\ [Next]_vars => DeliveryInv'
  BY NextFollows
<1> QED
  BY <1>1, <1>2, InitFollows, PTL
     DEF Spec, ImplementsDelivery, Promise!Spec
=============================================================================
