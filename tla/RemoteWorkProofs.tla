--------------------------- MODULE RemoteWorkProofs ---------------------------
(***************************************************************************)
(* Proof that the journal of remote work keeps the user's edits.  It is    *)
(* type correct: every row an edit, a claim, a report or an expiry leaves  *)
(* behind is a legal row, and every claim the provider can hold is a legal *)
(* claim.  What is recorded is what the user sees, its base is what the    *)
(* server was last known to hold, nothing dispatched is forgotten, a       *)
(* deletion is not undone by a report of an older claim, no report of a    *)
(* lease is refused, and at most one claim can be reported.                *)
(***************************************************************************)
EXTENDS RemoteWork, FiniteSetTheorems, TLAPS


(* A row that exists has an id that was given and a version, and its lease *)
(* is of a version it has had.                                             *)
RowSound(m) ==
    LET r == intent[m] IN
    /\ r.state = "absent" => r = NoIntent
    /\ r.state # "absent" => r.id \in 1..lastId /\ r.version \in 1..MaxVersion
    /\ r.state = "in_flight" => r.leased \in 1..r.version

(* Where a message lies, here and on the server, and where it is to lie    *)
(* are sets of folders.                                                    *)
PlacesSound(m) ==
    /\ mail[m].value[Placement] \subseteq Folders
    /\ server[m].value[Placement] \subseteq Folders
    /\ intent[m].want[Placement] \subseteq Folders

TypeInv ==
    /\ TypeOK
    /\ \A m \in Messages : RowSound(m) /\ PlacesSound(m)
    /\ \A c \in held : c.want[Placement] \subseteq Folders

LEMMA BlankTyped == Blank \in [Aspects -> Value]
  BY DEF Blank, Value

LEMMA ZeroTyped ==
  /\ 0 \in 0..MaxId /\ 0 \in 0..MaxVersion /\ 0 \in 0..MaxEpoch
  /\ 0 \in 0..LeaseTTL /\ LeaseTTL \in 0..LeaseTTL
  /\ 0 \in 0..MaxAttempts /\ 0 \in Int /\ 0 \in Nat
  BY JournalLimitsAssumption

LEMMA NoIntentTyped == NoIntent \in Intent
  BY ZeroTyped, BlankTyped DEF NoIntent, Intent, IntentStates

LEMMA FoldersFinite ==
  ASSUME NEW S \in Value
  PROVE  IsFiniteSet(S) /\ Cardinality(S) \in Nat
<1>1. IsFiniteSet({Raised})
  BY FS_Singleton
<1>2. IsFiniteSet(Folders \cup {Raised})
  BY <1>1, FS_Union, MailboxAssumption
<1>3. IsFiniteSet(S)
  BY <1>2, FS_Subset DEF Value
<1> QED
  BY <1>3, FS_CardinalityType

LEMMA InitTyped ==
  ASSUME Init
  PROVE  TypeInv
<1>1. intent = [m \in Messages |-> NoIntent] /\ lastId = 0 /\ undo = NoUndo
      /\ tomb = [m \in Messages |-> {}]
  BY DEF Init, JournalInit
<1>2. \A m \in Messages : /\ mail[m] \in Mail
                            /\ mail[m].value[Placement] \subseteq Folders
  <2> TAKE m \in Messages
  <2> DEFINE P == {q \in SUBSET (Folders \ {Archive, Trash}) : Inbox \in q}
             entry(p, l) == [alive |-> TRUE, value |-> [Blank EXCEPT ![Placement] = p],
                             locs |-> l]
  <2>0. mail \in [Messages -> {entry(p, l) : p \in P, l \in {{}, {Inbox}}}]
    BY DEF Init, JournalInit
  <2> HIDE DEF entry
  <2>1. PICK p \in P, l \in {{}, {Inbox}} : mail[m] = entry(p, l)
    BY <2>0
  <2>2. [Blank EXCEPT ![Placement] = p] \in [Aspects -> Value]
    BY BlankTyped DEF Value
  <2> QED
    BY <2>1, <2>2, MailboxAssumption DEF Mail, entry, Aspects
<1>3. mail \in [Messages -> Mail]
  BY <1>2 DEF Init, JournalInit
<1>4. intent \in [Messages -> Intent] /\ \A m \in Messages : RowSound(m)
  BY <1>1, NoIntentTyped DEF RowSound, NoIntent
<1>7. \A m \in Messages : PlacesSound(m)
  <2> TAKE m \in Messages
  <2>1. mail[m].value[Placement] \subseteq Folders
    BY <1>2
  <2>2. server[m].value = mail[m].value
    BY DEF Init
  <2>3. intent[m].want[Placement] = {}
    BY <1>1 DEF NoIntent, Blank, Aspects
  <2> QED
    BY <2>1, <2>2, <2>3 DEF PlacesSound
<1>5. JournalTypeOK
  BY <1>1, <1>3, <1>4, JournalLimitsAssumption DEF JournalTypeOK, Undo, NoUndo
<1>6. /\ server \in [Messages -> Copy]
      /\ known \in [Messages -> [Aspects -> Value]]
  BY <1>3 DEF Init, Copy, Mail
<1> QED
  BY <1>4, <1>5, <1>6, <1>7 DEF Init, TypeInv, TypeOK

-----------------------------------------------------------------------------
(* The rows that edits make                                                *)

LEMMA OpenedTyped ==
  ASSUME TypeInv, NEW m \in Messages, CanOpen(m)
  PROVE  /\ Opened(m) \in Intent
         /\ Opened(m).state # "absent"
         /\ Opened(m).version \in 0..(MaxVersion - 1)
         /\ Opened(m).id \in 1..(IF Present(m) THEN lastId ELSE lastId + 1)
         /\ ~Present(m) => lastId + 1 \in 0..MaxId
         /\ Opened(m).state = "in_flight" => /\ Present(m)
                                             /\ Opened(m).leased \in 1..Opened(m).version
         /\ Opened(m).want[Placement] \subseteq Folders
<1>1. /\ intent[m] \in Intent /\ lastId \in 0..MaxId /\ RowSound(m)
      /\ intent[m].want[Placement] \subseteq Folders
  BY DEF TypeInv, TypeOK, JournalTypeOK, PlacesSound
<1>2. CASE Present(m)
  <2>1. Opened(m) = intent[m]
    BY <1>2 DEF Opened
  <2> QED
    BY <1>1, <1>2, <2>1, JournalLimitsAssumption DEF CanOpen, RowSound, Present, Intent
<1>3. CASE ~Present(m)
  <2>1. lastId + 1 \in 1..MaxId
    BY <1>1, <1>3, JournalLimitsAssumption DEF CanOpen
  <2>2. Opened(m) = [NoIntent EXCEPT !.id = lastId + 1, !.state = "ready"]
    BY <1>3 DEF Opened
  <2>3. /\ Opened(m).id = lastId + 1 /\ Opened(m).state = "ready"
        /\ Opened(m).version = 0
    BY <2>2 DEF NoIntent
  <2>4. Opened(m) \in Intent
    <3>1. "ready" \in IntentStates /\ lastId + 1 \in 0..MaxId
      BY <2>1 DEF IntentStates, WaitingStates
    <3> QED
      BY <2>2, <3>1, NoIntentTyped DEF Intent
  <2>6. Opened(m).want[Placement] = {}
    BY <2>2 DEF NoIntent, Blank, Aspects
  <2>5. 0 < MaxVersion
    BY <2>3 DEF CanOpen
  <2> QED
    BY <1>1, <1>3, <2>1, <2>3, <2>4, <2>5, <2>6, JournalLimitsAssumption
<1> QED
  BY <1>2, <1>3

(* An edit keeps what belongs to the lease of the row, and counts.         *)
Folds(m, r) ==
    LET o == Opened(m) IN
    /\ r \in Intent
    /\ r.id = o.id
    /\ r.version = o.version + 1
    /\ r.leased = o.leased
    /\ r.epoch = o.epoch
    /\ r.dispatched = o.dispatched
    /\ r.state = "in_flight" <=> o.state = "in_flight"
    /\ r.state # "absent"
    /\ r.want[Placement] \subseteq Folders

LEMMA FlagFolds ==
  ASSUME TypeInv, NEW m \in Messages, NEW f \in Flags, CanOpen(m)
  PROVE  Folds(m, FlagIntent(m, f))
<1> DEFINE r         == Opened(m)
           before    == mail[m].value[f]
           base      == IF f \in r.changed THEN r.base[f] ELSE before
           want      == Toggled(before)
           cancel    == base = want /\ f \notin r.dispatched
           changed   == IF cancel THEN r.changed \ {f} ELSE r.changed \cup {f}
           sources   == r.sources \cup mail[m].locs
           missing   == IsImap(m) /\ sources = {}
           automatic == r.error = "missing_locator"
           request   == \/ r.reconcile /\ ~automatic
                        \/ changed # {} /\ (automatic \/ missing)
           mark      == request /\ ~r.reconcile /\ r.error = "none" /\ missing
           b         == IF cancel THEN {} ELSE base
           w         == IF cancel THEN {} ELSE want
           state     == IF request /\ r.state # "in_flight" THEN "reconcile" ELSE r.state
           error     == IF mark THEN "missing_locator" ELSE r.error
           due       == IF r.due < 0 THEN 0 ELSE r.due
<1>1. /\ r \in Intent /\ r.state # "absent" /\ r.version + 1 \in 0..MaxVersion
  BY OpenedTyped, JournalLimitsAssumption
<1>2. mail[m] \in Mail
  BY DEF TypeInv, TypeOK, JournalTypeOK
<1>3. before \in Value /\ f \in Aspects
  BY <1>2 DEF Mail, Aspects
<1>4. b \in Value /\ w \in Value
  BY <1>1, <1>3 DEF Intent, Value, Toggled
<1>5. changed \in SUBSET Aspects /\ sources \in SUBSET Folders /\ request \in BOOLEAN
  BY <1>1, <1>2, <1>3 DEF Intent, Mail
<1>6. state \in IntentStates /\ state # "absent"
      /\ (state = "in_flight" <=> r.state = "in_flight")
  BY <1>1 DEF Intent, IntentStates, WaitingStates
<1>7. error \in {"none", "missing_locator", "other"} /\ due \in Int
  BY <1>1 DEF Intent
<1>8. FlagIntent(m, f) = [r EXCEPT !.version = @ + 1, !.changed = changed,
                                   !.base[f] = b, !.want[f] = w,
                                   !.reconcile = request, !.state = state,
                                   !.sources = sources, !.error = error, !.due = due]
  BY <1>1 DEF FlagIntent, Intent
<1> HIDE DEF r, before, base, want, cancel, changed, sources, missing, automatic, request,
             mark, b, w, state, error, due
<1>9. FlagIntent(m, f) \in Intent
  <2> DEFINE x == [r.base EXCEPT ![f] = b]
             y == [r.want EXCEPT ![f] = w]
             v == r.version + 1
  <2>1. x \in [Aspects -> Value] /\ y \in [Aspects -> Value]
    BY <1>1, <1>4 DEF Intent
  <2>2. FlagIntent(m, f) = [r EXCEPT !.version = v, !.changed = changed,
                                     !.base = x, !.want = y,
                                     !.reconcile = request, !.state = state,
                                     !.sources = sources, !.error = error, !.due = due]
    BY <1>1, <1>8 DEF Intent
  <2> HIDE DEF x, y, v
  <2>3. v \in 0..MaxVersion
    BY <1>1 DEF v
  <2> QED
    <3> DEFINE o == [r EXCEPT !.version = v, !.changed = changed, !.base = x,
                              !.want = y, !.reconcile = request, !.state = state]
    <3>1. o \in Intent
      BY <1>1, <1>5, <1>6, <2>1, <2>3 DEF Intent
    <3>2. [o EXCEPT !.sources = sources, !.error = error, !.due = due] \in Intent
      BY <1>5, <1>7, <3>1 DEF Intent
    <3>3. FlagIntent(m, f) = [o EXCEPT !.sources = sources, !.error = error, !.due = due]
      BY <1>1, <2>2 DEF Intent
    <3> QED
      BY <3>2, <3>3

<1>10. FlagIntent(m, f).want[Placement] \subseteq Folders
  <2>1. f # Placement /\ Placement \in Aspects
    BY MailboxAssumption DEF Aspects
  <2>2. r.want[Placement] \subseteq Folders
    BY OpenedTyped DEF r
  <2> QED
    BY <1>1, <1>8, <2>1, <2>2 DEF Intent
<1> QED
  BY <1>1, <1>6, <1>8, <1>9, <1>10 DEF Intent, Folds, r

LEMMA PlacementFolds ==
  ASSUME TypeInv, NEW m \in Messages, NEW to \in SUBSET Folders, NEW eligible \in Int,
         CanOpen(m)
  PROVE  Folds(m, PlacementIntent(m, to, eligible))
<1> DEFINE r         == Opened(m)
           base      == IF Placement \in r.changed THEN r.base[Placement]
                        ELSE mail[m].value[Placement]
           sources   == r.sources \cup mail[m].locs
           missing   == IsImap(m) /\ sources = {}
           request   == r.reconcile \/ missing
           mark      == missing /\ ~r.reconcile /\ r.error = "none"
           error     == IF mark THEN "missing_locator" ELSE r.error
           cancel    == to = base /\ Placement \notin r.dispatched
           others    == r.changed \ {Placement}
           lapse     == cancel /\ others = {} /\ error = "missing_locator"
           changed   == IF cancel THEN others ELSE others \cup {Placement}
           b         == IF cancel THEN {} ELSE base
           w         == IF cancel THEN {} ELSE to
           reconcile == request /\ ~lapse
           state     == IF request /\ r.state # "in_flight" THEN "reconcile" ELSE r.state
           due       == IF r.due < eligible THEN eligible ELSE r.due
           x         == [r.base EXCEPT ![Placement] = b]
           y         == [r.want EXCEPT ![Placement] = w]
           v         == r.version + 1
<1>1. /\ r \in Intent /\ r.state # "absent" /\ v \in 0..MaxVersion
  BY OpenedTyped, JournalLimitsAssumption
<1>2. mail[m] \in Mail /\ Placement \in Aspects
  BY DEF TypeInv, TypeOK, JournalTypeOK, Aspects
<1>3. b \in Value /\ w \in Value
  BY <1>1, <1>2 DEF Intent, Mail, Value
<1>4. changed \in SUBSET Aspects /\ sources \in SUBSET Folders /\ reconcile \in BOOLEAN
  BY <1>1, <1>2 DEF Intent, Mail
<1>5. state \in IntentStates /\ state # "absent"
      /\ (state = "in_flight" <=> r.state = "in_flight")
  BY <1>1 DEF Intent, IntentStates, WaitingStates
<1>6. error \in {"none", "missing_locator", "other"} /\ due \in Int
  BY <1>1 DEF Intent
<1>7. x \in [Aspects -> Value] /\ y \in [Aspects -> Value]
  BY <1>1, <1>3 DEF Intent
<1>8. PlacementIntent(m, to, eligible) =
        [r EXCEPT !.version = v, !.changed = changed, !.base = x, !.want = y,
                  !.reconcile = reconcile, !.state = state, !.sources = sources,
                  !.error = error, !.due = due]
  BY <1>1 DEF PlacementIntent, Intent
<1> HIDE DEF r, base, sources, missing, request, mark, error, cancel, others, lapse, changed,
             b, w, reconcile, state, due, x, y, v
<1>9. PlacementIntent(m, to, eligible) \in Intent
  <2> DEFINE o == [r EXCEPT !.version = v, !.changed = changed, !.base = x,
                            !.want = y, !.reconcile = reconcile, !.state = state]
  <2>1. o \in Intent
    BY <1>1, <1>4, <1>5, <1>7 DEF Intent
  <2>2. [o EXCEPT !.sources = sources, !.error = error, !.due = due] \in Intent
    BY <1>4, <1>6, <2>1 DEF Intent
  <2>3. PlacementIntent(m, to, eligible)
          = [o EXCEPT !.sources = sources, !.error = error, !.due = due]
    BY <1>1, <1>8 DEF Intent
  <2> QED
    BY <2>2, <2>3
<1>10. PlacementIntent(m, to, eligible).want[Placement] \subseteq Folders
  BY <1>1, <1>2, <1>8 DEF Intent, y, w
<1> QED
  BY <1>1, <1>5, <1>8, <1>9, <1>10 DEF Intent, Folds, r, v

LEMMA TerminalFolds ==
  ASSUME TypeInv, NEW m \in Messages, CanOpen(m)
  PROVE  Folds(m, TerminalIntent(m))
<1> DEFINE r       == Opened(m)
           sources == r.sources \cup mail[m].locs
           state   == IF r.state # "in_flight" /\ IsImap(m) /\ sources = {}
                      THEN "reconcile" ELSE r.state
           due     == IF r.state = "in_flight" THEN r.due ELSE 0
           v       == r.version + 1
<1>1. /\ r \in Intent /\ r.state # "absent" /\ v \in 0..MaxVersion
  BY OpenedTyped, JournalLimitsAssumption
<1>2. mail[m] \in Mail
  BY DEF TypeInv, TypeOK, JournalTypeOK
<1>3. sources \in SUBSET Folders /\ due \in Int
  BY <1>1, <1>2 DEF Intent, Mail
<1>4. state \in IntentStates /\ state # "absent"
      /\ (state = "in_flight" <=> r.state = "in_flight")
  BY <1>1 DEF Intent, IntentStates, WaitingStates
<1>5. TerminalIntent(m) =
        [r EXCEPT !.version = v, !.changed = {}, !.base = Blank, !.want = Blank,
                  !.reconcile = FALSE, !.deleting = TRUE, !.state = state,
                  !.sources = sources, !.due = due]
  BY <1>1 DEF TerminalIntent, Intent
<1> HIDE DEF r, sources, state, due, v
<1>6. TerminalIntent(m) \in Intent
  <2> DEFINE o == [r EXCEPT !.version = v, !.changed = {}, !.base = Blank, !.want = Blank,
                            !.reconcile = FALSE, !.deleting = TRUE]
  <2>1. o \in Intent
    BY <1>1, BlankTyped DEF Intent
  <2>2. [o EXCEPT !.state = state, !.sources = sources, !.due = due] \in Intent
    BY <1>3, <1>4, <2>1 DEF Intent
  <2>3. TerminalIntent(m) = [o EXCEPT !.state = state, !.sources = sources, !.due = due]
    BY <1>1, <1>5 DEF Intent
  <2> QED
    BY <2>2, <2>3
<1>7. TerminalIntent(m).want[Placement] \subseteq Folders
  BY <1>1, <1>5 DEF Intent, Blank, Aspects
<1> QED
  BY <1>1, <1>4, <1>5, <1>6, <1>7 DEF Intent, Folds, r, v

(* Storing a folded row keeps the journal sound.                           *)
LEMMA StoreTyped ==
  ASSUME TypeInv, NEW m \in Messages, CanOpen(m), NEW r, Folds(m, r), Store(m, r)
  PROVE  /\ intent' \in [Messages -> Intent]
         /\ lastId' \in 0..MaxId
         /\ lastId <= lastId'
         /\ \A n \in Messages : RowSound(n)'
         /\ \A n \in Messages : intent'[n].want[Placement] \subseteq Folders
<1> DEFINE row == IF IsEmpty(r) THEN NoIntent ELSE r
<1>1. intent \in [Messages -> Intent] /\ lastId \in 0..MaxId
  BY DEF TypeInv, TypeOK, JournalTypeOK
<1>2. lastId' \in 0..MaxId /\ lastId \in Int /\ lastId <= lastId'
  BY <1>1, OpenedTyped, JournalLimitsAssumption DEF Store
<1>3. row \in Intent
  BY NoIntentTyped DEF Folds
<1>4. intent' = [intent EXCEPT ![m] = row]
  BY DEF Store
<1> HIDE DEF row
<1>5. intent' \in [Messages -> Intent]
  BY <1>1, <1>3, <1>4
<1>6. ASSUME NEW n \in Messages, n # m
      PROVE  RowSound(n)'
  <2>1. intent'[n] = intent[n] /\ RowSound(n)
    BY <1>1, <1>4, <1>6 DEF TypeInv
  <2> QED
    BY <1>1, <1>2, <2>1, JournalLimitsAssumption DEF RowSound
<1>7. RowSound(m)'
  <2>1. intent'[m] = row
    BY <1>1, <1>4
  <2>2. CASE IsEmpty(r)
    BY <2>1, <2>2 DEF row, RowSound, NoIntent
  <2>3. CASE ~IsEmpty(r)
    <3>1. intent'[m] = r
      BY <2>1, <2>3 DEF row
    <3>2. /\ r.state # "absent"
          /\ r.id = Opened(m).id
          /\ r.version = Opened(m).version + 1
          /\ r.state = "in_flight" => Opened(m).state = "in_flight"
          /\ r.leased = Opened(m).leased
      BY DEF Folds
    <3>3. /\ Opened(m).version \in 0..(MaxVersion - 1)
          /\ Opened(m).id \in 1..lastId'
          /\ Opened(m).state = "in_flight" =>
               Opened(m).leased \in 1..Opened(m).version
      BY OpenedTyped DEF Store
    <3> QED
      BY <1>2, <3>1, <3>2, <3>3, JournalLimitsAssumption DEF RowSound
  <2> QED
    BY <2>2, <2>3
<1>8. \A n \in Messages : intent'[n].want[Placement] \subseteq Folders
  <2>1. row.want[Placement] \subseteq Folders
    BY DEF row, Folds, NoIntent, Blank, Aspects
  <2>2. \A n \in Messages : intent[n].want[Placement] \subseteq Folders
    BY DEF TypeInv, PlacesSound
  <2> QED
    BY <1>1, <1>4, <2>1, <2>2
<1> QED
  BY <1>2, <1>5, <1>6, <1>7, <1>8

-----------------------------------------------------------------------------
(* The user's steps                                                        *)

LEMMA SetFlagTyped ==
  ASSUME TypeInv, NEW m \in Messages, NEW f \in Flags, SetFlag(m, f), UNCHANGED workVars
  PROVE  TypeInv'
<1>1. CanOpen(m) /\ Store(m, FlagIntent(m, f))
  BY DEF SetFlag
<1>2. /\ intent' \in [Messages -> Intent]
      /\ lastId' \in 0..MaxId
      /\ \A n \in Messages : RowSound(n)'
      /\ \A n \in Messages : intent'[n].want[Placement] \subseteq Folders
  BY <1>1, FlagFolds, StoreTyped
<1>3. mail' \in [Messages -> Mail]
  <2>1. mail \in [Messages -> Mail] /\ mail[m] \in Mail
    BY DEF TypeInv, TypeOK, JournalTypeOK
  <2>2. f \in Aspects /\ Toggled(mail[m].value[f]) \in Value
    BY DEF Aspects, Toggled, Value
  <2> DEFINE entry == [mail[m] EXCEPT !.value[f] = Toggled(mail[m].value[f])]
  <2>3. entry \in Mail
    BY <2>1, <2>2 DEF Mail
  <2>4. mail' = [mail EXCEPT ![m] = entry]
    BY <2>1 DEF SetFlag, Mail
  <2> QED
    BY <2>1, <2>3, <2>4
<1>4. \A n \in Messages : mail'[n].value[Placement] \subseteq Folders
  <2>1. f # Placement
    BY MailboxAssumption
  <2> QED
    BY <2>1 DEF SetFlag, TypeInv, TypeOK, JournalTypeOK, PlacesSound, Mail
<1> QED
  BY <1>2, <1>3, <1>4
  DEF TypeInv, TypeOK, JournalTypeOK, PlacesSound, SetFlag, workVars

LEMMA MoveTyped ==
  ASSUME TypeInv, NEW m \in Messages, NEW left \in SUBSET Folders,
         NEW entered \in SUBSET Folders, NEW eligible \in Int,
         Move(m, left, entered, eligible), UNCHANGED workVars, undo' \in Undo
  PROVE  TypeInv'
<1> DEFINE to == (mail[m].value[Placement] \ left) \cup entered
<1>1. CanOpen(m) /\ Store(m, PlacementIntent(m, to, eligible))
  BY DEF Move
<1>2. to \in SUBSET Folders
  BY DEF TypeInv, PlacesSound
<1>3. mail' = [mail EXCEPT ![m].value[Placement] = to, ![m].locs = @ \ left]
  BY DEF Move
<1> HIDE DEF to
<1>4. /\ intent' \in [Messages -> Intent]
      /\ lastId' \in 0..MaxId
      /\ \A n \in Messages : RowSound(n)'
      /\ \A n \in Messages : intent'[n].want[Placement] \subseteq Folders
  BY <1>1, <1>2, PlacementFolds, StoreTyped
<1>5. mail' \in [Messages -> Mail]
  <2>1. mail \in [Messages -> Mail] /\ mail[m] \in Mail
    BY DEF TypeInv, TypeOK, JournalTypeOK
  <2> DEFINE entry == [mail[m] EXCEPT !.value[Placement] = to,
                                      !.locs = mail[m].locs \ left]
  <2>2. entry \in Mail
    BY <1>2, <2>1 DEF Mail, Value, Aspects
  <2>3. mail' = [mail EXCEPT ![m] = entry]
    BY <1>3, <2>1 DEF Mail
  <2> QED
    BY <2>1, <2>2, <2>3
<1>6. \A n \in Messages : mail'[n].value[Placement] \subseteq Folders
  BY <1>2, <1>3 DEF TypeInv, TypeOK, JournalTypeOK, PlacesSound, Mail, Aspects
<1> QED
  BY <1>4, <1>5, <1>6 DEF TypeInv, TypeOK, JournalTypeOK, PlacesSound, Move, workVars

LEMMA DeleteTyped ==
  ASSUME TypeInv, NEW m \in Messages, DeletePermanently(m), UNCHANGED workVars
  PROVE  TypeInv'
<1> DEFINE r == TerminalIntent(m)
           entry == [alive |-> FALSE, value |-> Blank, locs |-> {}]
<1>1. CanOpen(m) /\ Store(m, r)
  BY DEF DeletePermanently
<1>2. Folds(m, r)
  BY <1>1, TerminalFolds
<1> HIDE DEF r
<1>3. /\ intent' \in [Messages -> Intent]
      /\ lastId' \in 0..MaxId
      /\ \A n \in Messages : RowSound(n)'
      /\ \A n \in Messages : intent'[n].want[Placement] \subseteq Folders
  BY <1>1, <1>2, StoreTyped
<1>4. r.sources \in SUBSET Folders
  BY <1>2 DEF Folds, Intent
<1>5. tomb' \in [Messages -> SUBSET Folders]
  BY <1>4 DEF DeletePermanently, TypeInv, TypeOK, JournalTypeOK, r
<1>6. mail' \in [Messages -> Mail]
  <2>1. entry \in Mail
    BY BlankTyped DEF Mail
  <2> QED
    BY <2>1 DEF DeletePermanently, TypeInv, TypeOK, JournalTypeOK
<1>7. undo' \in Undo
  BY DEF DeletePermanently, TypeInv, TypeOK, JournalTypeOK, Undo, NoUndo
<1>8. \A n \in Messages : mail'[n].value[Placement] \subseteq Folders
  BY DEF DeletePermanently, TypeInv, TypeOK, JournalTypeOK, PlacesSound, Mail, Blank, Aspects
<1> QED
  BY <1>3, <1>5, <1>6, <1>7, <1>8
  DEF TypeInv, TypeOK, JournalTypeOK, PlacesSound, workVars

LEMMA EditTyped ==
  ASSUME TypeInv, NEW m \in Messages, Edit(m), UNCHANGED workVars
  PROVE  TypeInv'
<1>1. ASSUME NEW f \in Flags, SetFlag(m, f)
      PROVE  TypeInv'
  BY <1>1, SetFlagTyped
<1>2. CASE MoveToArchive(m)
  <2>1. undo' \in Undo
    BY <1>2 DEF MoveToArchive, TypeInv, TypeOK, JournalTypeOK
  <2> QED
    BY <1>2, <2>1, MoveTyped, MailboxAssumption DEF MoveToArchive
<1>3. CASE MoveToTrash(m)
  <2>1. undo' \in Undo
    BY <1>3, JournalLimitsAssumption DEF MoveToTrash, Undo, TypeInv, PlacesSound
  <2> QED
    BY <1>3, <2>1, MoveTyped, MailboxAssumption, JournalLimitsAssumption
    DEF MoveToTrash
<1>4. CASE UndoTrash(m)
  <2>1. undo' \in Undo /\ undo.folders \in SUBSET Folders
    BY <1>4 DEF UndoTrash, Undo, NoUndo, TypeInv, TypeOK, JournalTypeOK
  <2> QED
    BY <1>4, <2>1, MoveTyped DEF UndoTrash
<1>5. CASE DeletePermanently(m)
  BY <1>5, DeleteTyped
<1> QED
  BY <1>1, <1>2, <1>3, <1>4, <1>5 DEF Edit

-----------------------------------------------------------------------------
(* The rows that claims, reports and time make                             *)

(* A row that takes the place of n's, with its identity or as no row.      *)
Replaces(n, row) ==
    /\ row \in Intent
    /\ row.want[Placement] \subseteq Folders
    /\ row.state = "absent" => row = NoIntent
    /\ row.state # "absent" => /\ Present(n)
                               /\ row.id = intent[n].id
                               /\ row.version = intent[n].version
    /\ row.state = "in_flight" => row.leased \in 1..row.version

LEMMA ReplacedTyped ==
  ASSUME TypeInv, lastId' = lastId, intent' = [n \in Messages |-> intent'[n]],
         \A n \in Messages : Replaces(n, intent'[n])
  PROVE  /\ intent' \in [Messages -> Intent]
         /\ \A n \in Messages : RowSound(n)' /\ intent'[n].want[Placement] \subseteq Folders
<1>1. ASSUME NEW n \in Messages
      PROVE  /\ intent'[n] \in Intent
             /\ RowSound(n)' /\ intent'[n].want[Placement] \subseteq Folders
  <2>1. RowSound(n)
    BY DEF TypeInv
  <2> QED
    BY <2>1 DEF Replaces, RowSound, Present
<1> QED
  BY <1>1

LEMMA SameReplaces ==
  ASSUME TypeInv, NEW n \in Messages
  PROVE  Replaces(n, intent[n])
  BY DEF TypeInv, TypeOK, JournalTypeOK, RowSound, PlacesSound, Replaces, Present

LEMMA OneReplacedTyped ==
  ASSUME TypeInv, lastId' = lastId, NEW m \in Messages, NEW row,
         intent' = [intent EXCEPT ![m] = row], Replaces(m, row)
  PROVE  /\ intent' \in [Messages -> Intent]
         /\ \A n \in Messages : RowSound(n)' /\ intent'[n].want[Placement] \subseteq Folders
<1>1. intent \in [Messages -> Intent]
  BY DEF TypeInv, TypeOK, JournalTypeOK
<1>2. intent' = [n \in Messages |-> intent'[n]]
  BY <1>1
<1>3. \A n \in Messages : Replaces(n, intent'[n])
  BY <1>1, SameReplaces
<1> QED
  BY <1>2, <1>3, ReplacedTyped

LEMMA RecoverTyped ==
  ASSUME TypeInv, NEW m \in Messages, RecoverExpired(m)
  PROVE  TypeInv'
<1> DEFINE r         == intent[m]
           ambiguous == Ambiguous(m)
           state     == IF r.attempts >= MaxAttempts THEN "blocked"
                        ELSE IF ambiguous \/ r.reconcile THEN "reconcile" ELSE "ready"
           reconcile == r.reconcile \/ (ambiguous /\ ~r.deleting)
           row       == [r EXCEPT !.state = state, !.leased = 0, !.expires = 0,
                                  !.reserve = 0, !.reconcile = reconcile,
                                  !.due = 0, !.error = "other"]
<1>1. r \in Intent /\ RowSound(m) /\ r.want[Placement] \subseteq Folders
  BY DEF TypeInv, TypeOK, JournalTypeOK, PlacesSound
<1>2. intent' = [intent EXCEPT ![m] = row] /\ r.state = "in_flight"
  BY DEF RecoverExpired
<1>3. state \in {"blocked", "reconcile", "ready"} /\ reconcile \in BOOLEAN
  BY <1>1 DEF Intent
<1> HIDE DEF state, reconcile
<1>4. row \in Intent
  <2>1. state \in IntentStates
    BY <1>3 DEF IntentStates, WaitingStates
  <2> QED
    BY <1>1, <1>3, <2>1, ZeroTyped DEF Intent
<1>5. /\ row.state = state /\ row.id = r.id /\ row.version = r.version
      /\ row.want = r.want
  BY <1>1 DEF Intent
<1> HIDE DEF row
<1>6. Replaces(m, row)
  BY <1>1, <1>2, <1>3, <1>4, <1>5 DEF Replaces, Present
<1> QED
  BY <1>2, <1>6, OneReplacedTyped
  DEF RecoverExpired, TypeInv, TypeOK, JournalTypeOK, PlacesSound

(* Giving up exhausted rows touches nothing but their state and error.     *)
LEMMA BlockReplaces ==
  ASSUME TypeInv, NEW a \in Accounts
  PROVE  /\ BlockExhausted(a) \in [Messages -> Intent]
         /\ \A n \in Messages : Replaces(n, BlockExhausted(a)[n])
<1>1. ASSUME NEW n \in Messages
      PROVE  BlockExhausted(a)[n] \in Intent /\ Replaces(n, BlockExhausted(a)[n])
  <2>1. intent[n] \in Intent /\ Replaces(n, intent[n])
    BY SameReplaces DEF TypeInv, TypeOK, JournalTypeOK
  <2>2. CASE n \in Exhausted(a)
    <3> DEFINE row == [intent[n] EXCEPT !.state = "blocked", !.error = "other"]
    <3>1. BlockExhausted(a)[n] = row
      BY <2>2 DEF BlockExhausted
    <3>2. "blocked" \in IntentStates
      BY DEF IntentStates
    <3>3. row \in Intent
      BY <2>1, <3>2 DEF Intent
    <3>4. /\ row.state = "blocked" /\ row.id = intent[n].id
          /\ row.version = intent[n].version /\ row.want = intent[n].want
      BY <2>1 DEF Intent
    <3>5. Present(n)
      BY <2>2 DEF Exhausted, Present, WaitingStates
    <3> HIDE DEF row
    <3> QED
      BY <2>1, <3>1, <3>3, <3>4, <3>5 DEF Replaces
  <2>3. CASE n \notin Exhausted(a)
    BY <2>1, <2>3 DEF BlockExhausted
  <2> QED
    BY <2>2, <2>3
<1> QED
  BY <1>1 DEF BlockExhausted

LEMMA ClaimIdleTyped ==
  ASSUME TypeInv, NEW a \in Accounts, ClaimIdle(a)
  PROVE  TypeInv'
<1>1. intent' = BlockExhausted(a) /\ lastId' = lastId
  BY DEF ClaimIdle
<1>2. intent' = [n \in Messages |-> intent'[n]]
  BY <1>1 DEF BlockExhausted
<1>3. /\ intent' \in [Messages -> Intent]
      /\ \A n \in Messages : RowSound(n)' /\ intent'[n].want[Placement] \subseteq Folders
  BY <1>1, <1>2, BlockReplaces, ReplacedTyped
<1> QED
  BY <1>3 DEF ClaimIdle, workVars, TypeInv, TypeOK, JournalTypeOK, PlacesSound

(* What a lease may add is a number of folders.                            *)
LEMMA ReserveTyped ==
  ASSUME TypeInv, NEW m \in Messages
  PROVE  FolderReserve(m) \in Nat
<1>1. intent[m].want[Placement] \in Value /\ intent[m].base[Placement] \in Value
  BY DEF TypeInv, TypeOK, JournalTypeOK, Intent, Aspects
<1>2. /\ Cardinality(intent[m].want[Placement]) \in Nat
      /\ Cardinality(intent[m].base[Placement]) \in Nat
  BY <1>1, FoldersFinite
<1> QED
  BY <1>2 DEF FolderReserve

LEMMA LeasedTyped ==
  ASSUME TypeInv, NEW a \in Accounts, NEW m \in Messages, IsCandidate(a, m),
         intent[m].epoch < MaxEpoch
  PROVE  /\ Replaces(m, Leased(m))
         /\ Snapshot(m) \in Claim
         /\ Snapshot(m).want[Placement] \subseteq Folders
<1> DEFINE r == intent[m]
           dispatched == r.dispatched \cup (IF WorkMode(m) = "apply" THEN Mask(r) ELSE {})
           epoch == r.epoch + 1
           attempts == r.attempts + 1
<1>1. r \in Intent /\ RowSound(m) /\ r.want[Placement] \subseteq Folders
  BY DEF TypeInv, TypeOK, JournalTypeOK, PlacesSound
<1>2. r.state \in WaitingStates /\ r.attempts < MaxAttempts
  BY DEF IsCandidate, Due
<1>3. r.state # "absent" /\ Present(m)
  BY <1>2 DEF WaitingStates, Present
<1>4. /\ r.id \in 1..lastId /\ r.version \in 1..MaxVersion
      /\ r.id \in 1..MaxId
  BY <1>1, <1>3, JournalLimitsAssumption DEF RowSound, TypeInv, TypeOK, JournalTypeOK
<1>5. epoch \in 1..MaxEpoch /\ epoch \in 0..MaxEpoch /\ attempts \in 0..MaxAttempts
  BY <1>1, <1>2, JournalLimitsAssumption DEF Intent
<1>6. dispatched \in SUBSET (Aspects \cup {Deletion})
  BY <1>1 DEF Intent, Mask
<1>7. WorkMode(m) \in Modes
  BY DEF WorkMode, Modes
<1>8. Leased(m) = [r EXCEPT !.state = "in_flight", !.leased = r.version, !.epoch = epoch,
                            !.expires = LeaseTTL, !.attempts = attempts,
                            !.dispatched = dispatched, !.reserve = FolderReserve(m)]
  BY <1>1 DEF Leased, Intent
<1>9. "in_flight" \in IntentStates /\ FolderReserve(m) \in Nat /\ r.version \in 0..MaxVersion
  BY <1>4, ReserveTyped DEF IntentStates
<1>10. Snapshot(m) \in Claim /\ Snapshot(m).want = r.want
  BY <1>1, <1>4, <1>5, <1>7 DEF Snapshot, Claim, Intent
<1> HIDE DEF dispatched, epoch, attempts
<1>11. Leased(m) \in Intent
  <2> DEFINE o == [r EXCEPT !.state = "in_flight", !.leased = r.version, !.epoch = epoch]
  <2>1. o \in Intent
    BY <1>1, <1>5, <1>9 DEF Intent
  <2>2. [o EXCEPT !.expires = LeaseTTL, !.attempts = attempts, !.dispatched = dispatched,
                  !.reserve = FolderReserve(m)] \in Intent
    BY <1>5, <1>6, <1>9, <2>1, ZeroTyped DEF Intent
  <2>3. Leased(m) = [o EXCEPT !.expires = LeaseTTL, !.attempts = attempts,
                              !.dispatched = dispatched, !.reserve = FolderReserve(m)]
    BY <1>1, <1>8 DEF Intent
  <2> QED
    BY <2>2, <2>3
<1>12. /\ Leased(m).state = "in_flight" /\ Leased(m).id = r.id
       /\ Leased(m).version = r.version /\ Leased(m).leased = r.version
       /\ Leased(m).want = r.want
  BY <1>1, <1>8 DEF Intent
<1> QED
  BY <1>1, <1>3, <1>4, <1>10, <1>11, <1>12 DEF Replaces

LEMMA ClaimRemoteTyped ==
  ASSUME TypeInv, NEW a \in Accounts, NEW m \in Messages, ClaimRemote(a, m)
  PROVE  TypeInv'
<1>1. intent' = [BlockExhausted(a) EXCEPT ![m] = Leased(m)] /\ lastId' = lastId
  BY DEF ClaimRemote
<1>2. /\ Replaces(m, Leased(m))
      /\ Snapshot(m) \in Claim
      /\ Snapshot(m).want[Placement] \subseteq Folders
  BY LeasedTyped DEF ClaimRemote
<1>3. /\ BlockExhausted(a) \in [Messages -> Intent]
      /\ \A n \in Messages : Replaces(n, BlockExhausted(a)[n])
  BY BlockReplaces
<1>4. \A n \in Messages : Replaces(n, intent'[n])
  BY <1>1, <1>2, <1>3
<1>5. intent' = [n \in Messages |-> intent'[n]]
  BY <1>1, <1>3
<1>6. /\ intent' \in [Messages -> Intent]
      /\ \A n \in Messages : RowSound(n)' /\ intent'[n].want[Placement] \subseteq Folders
  BY <1>1, <1>4, <1>5, ReplacedTyped
<1> QED
  BY <1>2, <1>6 DEF ClaimRemote, TypeInv, TypeOK, JournalTypeOK, PlacesSound

LEMMA CheckpointedTyped ==
  ASSUME TypeInv, NEW c \in held, NEW found \in SUBSET Folders, HoldsLease(c)
  PROVE  LET r == intent[c.msg]
             s == Checkpointed(c, found)
         IN /\ c.msg \in Messages
            /\ s \in Intent
            /\ s = [r EXCEPT !.sources = r.sources \cup found]
            /\ s.state = "in_flight" /\ s.id = r.id /\ s.version = r.version
            /\ s.leased = r.leased /\ s.epoch = r.epoch
            /\ s.want[Placement] \subseteq Folders
            /\ Present(c.msg)
<1>1. c.msg \in Messages /\ intent[c.msg] \in Intent
      /\ intent[c.msg].want[Placement] \subseteq Folders
  BY DEF TypeInv, TypeOK, JournalTypeOK, Claim, PlacesSound
<1>2. intent[c.msg].state = "in_flight"
  BY DEF HoldsLease
<1>3. intent[c.msg].sources \cup found \in SUBSET Folders
  BY <1>1 DEF Intent
<1> QED
  BY <1>1, <1>2, <1>3 DEF Checkpointed, Intent, Present

LEMMA ReleasedTyped ==
  ASSUME NEW r \in Intent, NEW c, NEW state \in {"ready", "reconcile"}
  PROVE  /\ Released(c, r, state) \in Intent
         /\ Released(c, r, state).state = state
         /\ Released(c, r, state).id = r.id
         /\ Released(c, r, state).version = r.version
         /\ Released(c, r, state).epoch = r.epoch
         /\ Released(c, r, state).changed = r.changed
         /\ Released(c, r, state).base = r.base
         /\ Released(c, r, state).want = r.want
         /\ Released(c, r, state).deleting = r.deleting
         /\ Released(c, r, state).reconcile = r.reconcile
         /\ Released(c, r, state).dispatched = r.dispatched \ Mask(c)
<1> DEFINE error == IF r.version = c.version THEN "none" ELSE r.error
           dispatched == r.dispatched \ Mask(c)
<1>1. error \in {"none", "missing_locator", "other"}
      /\ dispatched \in SUBSET (Aspects \cup {Deletion}) /\ state \in IntentStates
  BY DEF Intent, IntentStates, WaitingStates
<1>2. Released(c, r, state) =
        [r EXCEPT !.state = state, !.leased = 0, !.expires = 0, !.reserve = 0,
                  !.attempts = 0, !.dispatched = dispatched, !.error = error]
  BY DEF Released, Intent
<1> HIDE DEF error, dispatched
<1>3. Released(c, r, state) \in Intent
  <2> DEFINE o == [r EXCEPT !.state = state, !.leased = 0, !.expires = 0, !.reserve = 0]
  <2>1. o \in Intent
    BY <1>1, ZeroTyped DEF Intent
  <2>2. [o EXCEPT !.attempts = 0, !.dispatched = dispatched, !.error = error] \in Intent
    BY <1>1, <2>1, ZeroTyped DEF Intent
  <2>3. Released(c, r, state) =
          [o EXCEPT !.attempts = 0, !.dispatched = dispatched, !.error = error]
    BY <1>2 DEF Intent
  <2> QED
    BY <2>2, <2>3
<1>4. Released(c, r, state).dispatched = dispatched
  BY <1>2 DEF Intent
<1> QED
  BY <1>2, <1>3, <1>4 DEF Intent, dispatched

LEMMA AckReplaces ==
  ASSUME TypeInv, NEW c \in held, NEW found \in SUBSET Folders, HoldsLease(c),
         NEW satisfied \in BOOLEAN
  PROVE  Replaces(c.msg, Acknowledged(c, Checkpointed(c, found), satisfied))
<1> DEFINE r == Checkpointed(c, found)
<1>1. /\ c.msg \in Messages
      /\ r \in Intent
      /\ r.id = intent[c.msg].id /\ r.version = intent[c.msg].version
      /\ r.want[Placement] \subseteq Folders
      /\ Present(c.msg)
  BY CheckpointedTyped
<1>2. /\ mail[c.msg].value \in [Aspects -> Value]
      /\ mail[c.msg].value[Placement] \subseteq Folders
      /\ intent[c.msg] \in Intent /\ intent[c.msg].want[Placement] \subseteq Folders
      /\ c \in Claim
  BY <1>1 DEF TypeInv, TypeOK, JournalTypeOK, Mail, PlacesSound
<1>3. \A a \in Aspects : WantNow(c, a) \in Value
  BY <1>2 DEF WantNow, Intent
<1>4. WantNow(c, Placement) \subseteq Folders
  BY <1>2 DEF WantNow
<1> HIDE DEF r
<1>5. CASE c.deleting
  BY <1>5, NoIntentTyped DEF Acknowledged, Replaces, NoIntent, Blank, Aspects
<1>6. CASE ~c.deleting /\ r.deleting
  <2> DEFINE state == IF IsImap(c.msg) /\ r.sources = {} THEN "reconcile" ELSE "ready"
  <2>1. Acknowledged(c, r, satisfied) = Released(c, r, state)
    BY <1>6 DEF Acknowledged
  <2>2. state \in {"ready", "reconcile"}
    OBVIOUS
  <2> HIDE DEF state
  <2> QED
    BY <1>1, <2>1, <2>2, ReleasedTyped DEF Replaces, r
<1>7. CASE ~c.deleting /\ ~r.deleting
  <2> DEFINE still     == {a \in c.changed : WantNow(c, a) # c.want[a]}
             reconcile == r.reconcile /\ ~(satisfied /\ r.version = c.version)
             changed   == (r.changed \ c.changed) \cup still
             base      == [a \in Aspects |-> IF a \notin c.changed THEN r.base[a]
                                             ELSE IF a \in still THEN c.want[a]
                                             ELSE {}]
             want      == [a \in Aspects |-> IF a \notin c.changed THEN r.want[a]
                                             ELSE IF a \in still THEN WantNow(c, a)
                                             ELSE {}]
             row       == [r EXCEPT !.changed = changed, !.base = base, !.want = want,
                                    !.reconcile = reconcile]
             state     == IF reconcile THEN "reconcile" ELSE "ready"
  <2>1. changed \in SUBSET Aspects /\ reconcile \in BOOLEAN
    BY <1>1, <1>2 DEF Intent, Claim
  <2>2. base \in [Aspects -> Value]
    BY <1>1, <1>2 DEF Intent, Claim, Value
  <2>3. want \in [Aspects -> Value]
    BY <1>1, <1>3 DEF Intent, Value
  <2>4. want[Placement] \subseteq Folders
    BY <1>1, <1>4 DEF Aspects
  <2>5. Acknowledged(c, r, satisfied) = IF IsEmpty(row) THEN NoIntent
                                        ELSE Released(c, row, state)
    BY <1>1, <1>7 DEF Acknowledged, Rebased, Intent
  <2>6. state \in {"ready", "reconcile"}
    OBVIOUS
  <2> HIDE DEF still, reconcile, changed, base, want, state
  <2>7. row \in Intent
    BY <1>1, <2>1, <2>2, <2>3 DEF Intent
  <2>8. row.id = r.id /\ row.version = r.version /\ row.want = want
    BY <1>1 DEF Intent
  <2> HIDE DEF row
  <2>9. CASE IsEmpty(row)
    BY <2>5, <2>9, NoIntentTyped DEF r, Replaces, NoIntent, Blank, Aspects
  <2>10. CASE ~IsEmpty(row)
    BY <1>1, <2>4, <2>5, <2>6, <2>7, <2>8, <2>10, ReleasedTyped DEF r, Replaces
  <2> QED
    BY <2>9, <2>10 DEF r
<1> QED
  BY <1>5, <1>6, <1>7 DEF r

(* A checkpoint names folders the server has the message in.               *)
LEMMA FoundTyped ==
  ASSUME TypeInv, NEW c \in held, NEW found \in Checkpoints(c)
  PROVE  found \in SUBSET Folders
<1>1. c.msg \in Messages
  BY DEF TypeInv, TypeOK, Claim
<1> QED
  BY <1>1 DEF TypeInv, PlacesSound, Checkpoints

LEMMA CheckpointTyped ==
  ASSUME TypeInv, NEW c \in held, NEW found \in SUBSET Folders, ApplyCheckpoint(c, found)
  PROVE  /\ tomb' \in [Messages -> SUBSET Folders]
         /\ mail' \in [Messages -> Mail]
         /\ \A n \in Messages : /\ mail'[n].alive = mail[n].alive
                                /\ mail'[n].value = mail[n].value
         /\ token' \subseteq Accounts
<1>1. /\ c.msg \in Messages
      /\ mail \in [Messages -> Mail] /\ tomb \in [Messages -> SUBSET Folders]
      /\ mail[c.msg] \in Mail /\ token \subseteq Accounts
      /\ AccountOf[c.msg] \in Accounts
  BY MailboxAssumption DEF TypeInv, TypeOK, JournalTypeOK, Claim
<1>2. tomb' \in [Messages -> SUBSET Folders]
  BY <1>1 DEF ApplyCheckpoint
<1>3. token' \subseteq Accounts
  BY <1>1 DEF ApplyCheckpoint
<1> DEFINE entry == [mail[c.msg] EXCEPT !.locs = mail[c.msg].locs \cup
                                          (found \cap mail[c.msg].value[Placement])]
<1>4. /\ entry \in Mail
      /\ entry.alive = mail[c.msg].alive
      /\ entry.value = mail[c.msg].value
  BY <1>1 DEF Mail
<1>5. mail' = mail \/ mail' = [mail EXCEPT ![c.msg] = entry]
  BY <1>1 DEF ApplyCheckpoint, Mail
<1> HIDE DEF entry
<1>6. /\ mail' \in [Messages -> Mail]
      /\ \A n \in Messages : /\ mail'[n].alive = mail[n].alive
                             /\ mail'[n].value = mail[n].value
  BY <1>1, <1>4, <1>5
<1> QED
  BY <1>2, <1>3, <1>6

LEMMA AcknowledgeTyped ==
  ASSUME TypeInv, NEW c \in held, NEW found \in SUBSET Folders, HoldsLease(c),
         NEW satisfied \in BOOLEAN, Acknowledge(c, found, satisfied)
  PROVE  TypeInv'
<1>1. c.msg \in Messages /\ c \in Claim
  BY DEF TypeInv, TypeOK, Claim
<1>2. intent' = [intent EXCEPT ![c.msg] =
                   Acknowledged(c, Checkpointed(c, found), satisfied)]
      /\ lastId' = lastId
  BY DEF Acknowledge
<1>3. /\ intent' \in [Messages -> Intent]
      /\ \A n \in Messages : RowSound(n)' /\ intent'[n].want[Placement] \subseteq Folders
  BY <1>1, <1>2, AckReplaces, OneReplacedTyped
<1>4. known' \in [Messages -> [Aspects -> Value]]
  BY <1>1 DEF Acknowledge, TypeInv, TypeOK, Claim
<1>5. /\ tomb' \in [Messages -> SUBSET Folders]
      /\ mail' \in [Messages -> Mail]
      /\ \A n \in Messages : mail'[n].value = mail[n].value
      /\ token' \subseteq Accounts
  BY CheckpointTyped DEF Acknowledge
<1> QED
  BY <1>3, <1>4, <1>5 DEF Acknowledge, TypeInv, TypeOK, JournalTypeOK, PlacesSound

LEMMA ProgressTyped ==
  ASSUME TypeInv, NEW c \in held, NEW found \in SUBSET Folders, ReportProgress(c, found)
  PROVE  TypeInv'
<1> DEFINE r == Checkpointed(c, found)
           epoch == r.epoch + 1
           row == [r EXCEPT !.epoch = epoch, !.expires = LeaseTTL]
<1>1. /\ c.msg \in Messages
      /\ r \in Intent
      /\ r.id = intent[c.msg].id /\ r.version = intent[c.msg].version
      /\ r.state = "in_flight" /\ r.leased = intent[c.msg].leased
      /\ r.epoch = intent[c.msg].epoch
      /\ r.want[Placement] \subseteq Folders
      /\ Present(c.msg) /\ intent[c.msg].state = "in_flight"
  BY CheckpointedTyped DEF ReportProgress, HoldsLease
<1>2. /\ intent' = [intent EXCEPT ![c.msg] = row]
      /\ lastId' = lastId /\ c.epoch = r.epoch
      /\ c.epoch < MaxProgress
  BY <1>1 DEF ReportProgress, HoldsLease
<1>3. c \in Claim /\ c.epoch \in 1..MaxEpoch
  BY DEF TypeInv, TypeOK, Claim
<1>4. epoch \in 1..MaxEpoch /\ epoch \in 0..MaxEpoch /\ c.epoch + 1 = epoch
  BY <1>2, <1>3, JournalLimitsAssumption, ProviderAssumption
<1>5. [c EXCEPT !.epoch = @ + 1] \in Claim
      /\ [c EXCEPT !.epoch = @ + 1].want = c.want
  BY <1>3, <1>4 DEF Claim
<1>6. RowSound(c.msg)
  BY <1>1 DEF TypeInv
<1> HIDE DEF r, epoch
<1>7. row \in Intent
  BY <1>1, <1>4, ZeroTyped DEF Intent
<1>8. /\ row.id = r.id /\ row.version = r.version /\ row.state = "in_flight"
      /\ row.leased = r.leased /\ row.want = r.want
  BY <1>1 DEF Intent
<1> HIDE DEF row
<1>9. Replaces(c.msg, row)
  BY <1>1, <1>6, <1>7, <1>8 DEF Replaces, RowSound
<1>10. /\ intent' \in [Messages -> Intent]
       /\ \A n \in Messages : RowSound(n)' /\ intent'[n].want[Placement] \subseteq Folders
  BY <1>1, <1>2, <1>9, OneReplacedTyped
<1>11. /\ tomb' \in [Messages -> SUBSET Folders]
       /\ mail' \in [Messages -> Mail]
       /\ \A n \in Messages : mail'[n].value = mail[n].value
       /\ token' \subseteq Accounts
  BY CheckpointTyped DEF ReportProgress
<1> QED
  BY <1>5, <1>10, <1>11 DEF ReportProgress, TypeInv, TypeOK, JournalTypeOK, PlacesSound

LEMMA FailedTyped ==
  ASSUME TypeInv, NEW c \in held, HoldsLease(c),
         NEW state \in {"retry_wait", "reconcile", "blocked"},
         NEW due \in Int, NEW reconcile \in BOOLEAN,
         Failed(c, state, due, reconcile), doubt' \subseteq Messages
  PROVE  TypeInv'
<1> DEFINE r == intent[c.msg]
           rec == r.reconcile \/ reconcile
           next == IF r.due < due THEN due ELSE r.due
           row == [r EXCEPT !.state = state, !.leased = 0, !.expires = 0, !.reserve = 0,
                            !.reconcile = rec, !.due = next, !.error = "other"]
<1>1. /\ c.msg \in Messages /\ r \in Intent /\ r.state = "in_flight"
      /\ r.want[Placement] \subseteq Folders
  BY DEF TypeInv, TypeOK, JournalTypeOK, Claim, PlacesSound, HoldsLease
<1>2. intent' = [intent EXCEPT ![c.msg] = row] /\ lastId' = lastId
  BY DEF Failed
<1>3. rec \in BOOLEAN /\ next \in Int /\ state \in IntentStates
  BY <1>1 DEF Intent, IntentStates, WaitingStates
<1> HIDE DEF rec, next
<1>4. row \in Intent
  <2> DEFINE o == [r EXCEPT !.state = state, !.leased = 0, !.expires = 0, !.reserve = 0]
  <2>1. o \in Intent
    BY <1>1, <1>3, ZeroTyped DEF Intent
  <2>2. [o EXCEPT !.reconcile = rec, !.due = next, !.error = "other"] \in Intent
    BY <1>3, <2>1 DEF Intent
  <2>3. row = [o EXCEPT !.reconcile = rec, !.due = next, !.error = "other"]
    BY <1>1 DEF Intent
  <2> QED
    BY <2>2, <2>3
<1>5. /\ row.state = state /\ row.id = r.id /\ row.version = r.version
      /\ row.want = r.want
  BY <1>1 DEF Intent
<1> HIDE DEF row
<1>6. Replaces(c.msg, row)
  BY <1>1, <1>4, <1>5 DEF Replaces, Present
<1>7. /\ intent' \in [Messages -> Intent]
      /\ \A n \in Messages : RowSound(n)' /\ intent'[n].want[Placement] \subseteq Folders
  BY <1>1, <1>2, <1>6, OneReplacedTyped
<1> QED
  BY <1>7 DEF Failed, TypeInv, TypeOK, JournalTypeOK, PlacesSound

LEMMA ReportsTyped ==
  ASSUME TypeInv, NEW c \in held, Reports(c)
  PROVE  TypeInv'
<1>1. c.msg \in Messages /\ doubt \subseteq Messages
  BY DEF TypeInv, TypeOK, Claim
<1>2. ASSUME NEW found \in Checkpoints(c),
             ReportConfirmed(c, found) \/ ReportSatisfied(c, found)
      PROVE  TypeInv'
  BY <1>2, FoundTyped, AcknowledgeTyped DEF ReportConfirmed, ReportSatisfied
<1>3. ASSUME NEW found \in Checkpoints(c), ReportProgress(c, found)
      PROVE  TypeInv'
  BY <1>3, FoundTyped, ProgressTyped
<1>4. CASE ReportRetry(c)
  <2>1. PICK delay \in RetryDelays : Failed(c, "retry_wait", delay, FALSE)
    BY <1>4 DEF ReportRetry
  <2>2. delay \in Int
    BY ProviderAssumption
  <2> QED
    BY <1>1, <1>4, <2>1, <2>2, FailedTyped DEF ReportRetry
<1>5. CASE ReportReconcile(c)
  <2>1. HoldsLease(c) /\ Failed(c, "reconcile", 0, ~intent[c.msg].deleting)
    BY <1>5 DEF ReportReconcile
  <2>2. doubt' \subseteq Messages
    BY <1>1, <1>5 DEF ReportReconcile
  <2> DEFINE q == ~intent[c.msg].deleting
  <2>3. q \in BOOLEAN
    OBVIOUS
  <2>4. Failed(c, "reconcile", 0, q)
    BY <2>1
  <2> HIDE DEF q
  <2> QED
    BY <2>1, <2>2, <2>3, <2>4, FailedTyped
<1>6. CASE ReportBlocked(c)
  <2> DEFINE q == FALSE
  <2>1. HoldsLease(c) /\ Failed(c, "blocked", 0, q) /\ doubt' \subseteq Messages
    BY <1>1, <1>6 DEF ReportBlocked
  <2>2. q \in BOOLEAN
    OBVIOUS
  <2> HIDE DEF q
  <2> QED
    BY <2>1, <2>2, FailedTyped
<1> QED
  BY <1>2, <1>3, <1>4, <1>5, <1>6 DEF Reports

LEMMA ServerTyped ==
  ASSUME TypeInv, NEW c \in held, ServerWrite(c) \/ Forget(c)
  PROVE  TypeInv'
<1>1. c.msg \in Messages /\ c \in Claim /\ server \in [Messages -> Copy]
      /\ c.want[Placement] \subseteq Folders
  BY DEF TypeInv, TypeOK, Claim
<1>2. CASE Forget(c)
  BY <1>2 DEF Forget, journalVars, TypeInv, TypeOK, JournalTypeOK, RowSound, PlacesSound
<1>3. CASE ServerWrite(c)
  <2>1. /\ server' \in [Messages -> Copy]
        /\ \A n \in Messages : server'[n].value[Placement] \subseteq Folders
    <3>1. CASE server' = [server EXCEPT ![c.msg].exists = FALSE]
      BY <1>1, <3>1 DEF Copy, TypeInv, PlacesSound
    <3>2. ASSUME NEW a \in c.changed, server' = [server EXCEPT ![c.msg].value[a] = c.want[a]]
          PROVE  /\ server' \in [Messages -> Copy]
                 /\ \A n \in Messages : server'[n].value[Placement] \subseteq Folders
      <4>1. a \in Aspects /\ c.want[a] \in Value
        BY <1>1 DEF Claim
      <4>2. /\ server[c.msg] \in Copy
            /\ \A n \in Messages : server[n].value[Placement] \subseteq Folders
        BY <1>1 DEF TypeInv, PlacesSound
      <4> DEFINE copy == [server[c.msg] EXCEPT !.value[a] = c.want[a]]
      <4>3. copy \in Copy /\ copy.value[Placement] \subseteq Folders
        BY <1>1, <4>1, <4>2 DEF Copy
      <4>4. server' = [server EXCEPT ![c.msg] = copy]
        BY <1>1, <3>2, <4>2 DEF Copy
      <4> HIDE DEF copy
      <4> QED
        BY <1>1, <4>2, <4>3, <4>4
    <3> QED
      BY <1>3, <3>1, <3>2 DEF ServerWrite
  <2> QED
    BY <1>3, <2>1
    DEF ServerWrite, journalVars, TypeInv, TypeOK, JournalTypeOK, RowSound, PlacesSound
<1> QED
  BY <1>2, <1>3

LEMMA OutsideTyped ==
  ASSUME TypeInv, NEW m \in Messages, NEW a \in Aspects, NEW v \in OutsideValues(a),
         OutsideChange(m, a, v)
  PROVE  TypeInv'
<1>1. v \in Value /\ (a = Placement => v \subseteq Folders)
  BY DEF OutsideValues, Value
<1> DEFINE copy == [server[m] EXCEPT !.value[a] = v]
<1>2. server \in [Messages -> Copy] /\ server[m] \in Copy
      /\ \A n \in Messages : server[n].value[Placement] \subseteq Folders
  BY DEF TypeInv, TypeOK, PlacesSound
<1>3. copy \in Copy /\ copy.value[Placement] \subseteq Folders
  BY <1>1, <1>2 DEF Copy
<1>4. server' = [server EXCEPT ![m] = copy]
  BY <1>2 DEF OutsideChange, Copy
<1> HIDE DEF copy
<1>5. /\ server' \in [Messages -> Copy]
      /\ \A n \in Messages : server'[n].value[Placement] \subseteq Folders
  BY <1>2, <1>3, <1>4
<1> QED
  BY <1>5
  DEF OutsideChange, journalVars, TypeInv, TypeOK, JournalTypeOK, RowSound, PlacesSound

LEMMA TickTyped ==
  ASSUME TypeInv, Tick
  PROVE  TypeInv'
<1>1. ASSUME NEW n \in Messages
      PROVE  Replaces(n, intent'[n])
  <2> DEFINE due == IF intent[n].due > -Past /\ Present(n) THEN intent[n].due - 1
                    ELSE intent[n].due
             expires == IF intent[n].expires > 0 THEN intent[n].expires - 1
                        ELSE intent[n].expires
             row == [intent[n] EXCEPT !.due = due, !.expires = expires]
  <2>1. intent[n] \in Intent /\ Replaces(n, intent[n])
    BY SameReplaces DEF TypeInv, TypeOK, JournalTypeOK
  <2>2. due \in Int /\ expires \in 0..LeaseTTL
    BY <2>1, JournalLimitsAssumption DEF Intent
  <2>3. intent'[n] = row
    BY <2>1 DEF Tick, Intent
  <2>4. ~Present(n) => due = 0 /\ expires = 0 /\ intent[n] = NoIntent
    BY <2>1 DEF Replaces, Present, NoIntent
  <2> HIDE DEF due, expires
  <2>5. row \in Intent
    BY <2>1, <2>2 DEF Intent
  <2>6. /\ row.id = intent[n].id /\ row.version = intent[n].version
        /\ row.state = intent[n].state /\ row.leased = intent[n].leased
        /\ row.want = intent[n].want
    BY <2>1 DEF Intent
  <2>7. ASSUME ~Present(n)
        PROVE  row = NoIntent
    <3>1. due = 0 /\ expires = 0 /\ intent[n] = NoIntent
      BY <2>4, <2>7
    <3>2. NoIntent.due = 0 /\ NoIntent.expires = 0
      BY DEF NoIntent
    <3>3. [NoIntent EXCEPT !.due = 0, !.expires = 0] = NoIntent
      BY <3>2, NoIntentTyped DEF Intent
    <3> QED
      BY <3>1, <3>3
  <2> HIDE DEF row
  <2> QED
    BY <2>1, <2>3, <2>5, <2>6, <2>7 DEF Replaces, Present
<1>2. intent' = [n \in Messages |-> intent'[n]] /\ lastId' = lastId
  BY DEF Tick
<1>3. /\ intent' \in [Messages -> Intent]
      /\ \A n \in Messages : RowSound(n)' /\ intent'[n].want[Placement] \subseteq Folders
  BY <1>1, <1>2, ReplacedTyped
<1>4. undo' \in Undo
  <2>1. undo \in Undo
    BY DEF TypeInv, TypeOK, JournalTypeOK
  <2>2. undo' = undo \/ undo' = [undo EXCEPT !.left = undo.left - 1]
    BY DEF Tick
  <2> QED
    BY <2>1, <2>2 DEF Undo
<1> QED
  BY <1>3, <1>4 DEF Tick, workVars, TypeInv, TypeOK, JournalTypeOK, PlacesSound

LEMMA NextTyped ==
  ASSUME TypeInv, [Next]_vars
  PROVE  TypeInv'
<1>1. CASE User
  <2>1. CASE UndoExpired /\ UNCHANGED workVars
    BY <2>1 DEF UndoExpired, workVars, TypeInv, TypeOK, JournalTypeOK, RowSound,
                PlacesSound, Undo, NoUndo
  <2> QED
    BY <1>1, <2>1, EditTyped DEF User
<1>2. CASE Claims
  BY <1>2, RecoverTyped, ClaimRemoteTyped, ClaimIdleTyped DEF Claims
<1>3. ASSUME NEW c \in held, Reports(c) \/ ServerWrite(c) \/ Forget(c)
      PROVE  TypeInv'
  BY <1>3, ReportsTyped, ServerTyped
<1>4. CASE Outside
  BY <1>4, OutsideTyped DEF Outside
<1>5. CASE Tick
  BY <1>5, TickTyped
<1>6. CASE UNCHANGED vars
  BY <1>6 DEF vars, TypeInv, TypeOK, JournalTypeOK, RowSound, PlacesSound
<1> QED
  BY <1>1, <1>2, <1>3, <1>4, <1>5, <1>6 DEF Next

(* The journal stays legal, for any messages, folders and limits: no edit, *)
(* claim, report or expiry passes a cap, and an existing row always has an *)
(* id that was given to it.                                                *)
THEOREM JournalTyped == Spec => []TypeInv
<1>1. Init => TypeInv
  BY InitTyped
<1>2. TypeInv /\ [Next]_vars => TypeInv'
  BY NextTyped
<1> QED
  BY <1>1, <1>2, PTL DEF Spec

-----------------------------------------------------------------------------
(* A message that lives here: its intent is for what it shows, every       *)
(* aspect handed out still has its wish, the bases are what the provider   *)
(* last vouched for, which the server still has unless it was asked        *)
(* otherwise, and a doubtful outcome is to be reconciled.                  *)
Live(n) ==
    LET r == intent[n] IN
    mail[n].alive =>
      /\ ~r.deleting
      /\ r.dispatched \subseteq r.changed
      /\ \A a \in r.changed : r.want[a] = mail[n].value[a]
      /\ \A a \in Aspects :
            known[n][a] = IF a \in r.changed THEN r.base[a] ELSE mail[n].value[a]
      /\ \A a \in Aspects : \/ a \in r.dispatched
                            \/ <<n, a>> \in outside
                            \/ server[n].value[a] = known[n][a]
      /\ n \in doubt => r.reconcile /\ r.error # "missing_locator"

(* A message deleted here lies nowhere, and is still to be deleted or gone *)
(* from the server.                                                        *)
Dead(n) ==
    ~mail[n].alive =>
      /\ mail[n].value[Placement] = {}
      /\ intent[n].state # "absent" => intent[n].deleting /\ intent[n].changed = {}
      /\ intent[n].state = "absent" => ~server[n].exists

(* A claim that holds the lease: what it deletes nobody edits, what it may *)
(* write is marked as dispatched and not in doubt, and it was handed the   *)
(* bases that are still known, of wishes that were only dropped since.     *)
Leases(c) ==
    LET r == intent[c.msg] IN
    HoldsLease(c) =>
      /\ c.deleting => r.deleting /\ r.version = c.version
      /\ c.mode = "apply" => c.changed \subseteq r.dispatched
      /\ c.mode = "apply" /\ ~c.deleting => c.msg \notin doubt
      /\ mail[c.msg].alive =>
           \A a \in c.changed : /\ c.base[a] = known[c.msg][a]
                                /\ a \in r.changed \/ r.version > c.version

(* The ids and epochs of a message's claims were given before.             *)
Given(c) ==
    /\ c.id <= lastId
    /\ c.id = intent[c.msg].id => c.epoch <= intent[c.msg].epoch

MessageSafe(n) ==
    /\ Live(n)
    /\ Dead(n)
    /\ \A c \in held : c.msg = n => Leases(c) /\ Given(c)

(* At most one row is under a lease, and no two claims share one.          *)
OneLease ==
    \A m, n \in Messages :
        intent[m].state = "in_flight" /\ intent[n].state = "in_flight" => m = n

ClaimsDiffer ==
    \A c, d \in held : c.msg = d.msg /\ c.id = d.id /\ c.epoch = d.epoch => c = d

SafetyInv ==
    /\ TypeInv
    /\ \A n \in Messages : MessageSafe(n)
    /\ OneLease
    /\ ClaimsDiffer

LEMMA InitSafe ==
  ASSUME Init
  PROVE  SafetyInv
<1>1. TypeInv
  BY InitTyped
<1>2. /\ intent = [m \in Messages |-> NoIntent] /\ held = {} /\ doubt = {}
      /\ known = [m \in Messages |-> mail[m].value]
      /\ server = [m \in Messages |-> [exists |-> TRUE, value |-> mail[m].value]]
  BY DEF Init, JournalInit
<1>3. \A n \in Messages : mail[n].alive
  <2> DEFINE P == {q \in SUBSET (Folders \ {Archive, Trash}) : Inbox \in q}
             entry(p, l) == [alive |-> TRUE, value |-> [Blank EXCEPT ![Placement] = p],
                             locs |-> l]
  <2> TAKE n \in Messages
  <2>1. mail \in [Messages -> {entry(p, l) : p \in P, l \in {{}, {Inbox}}}]
    BY DEF Init, JournalInit
  <2> HIDE DEF entry
  <2>2. PICK p \in P, l \in {{}, {Inbox}} : mail[n] = entry(p, l)
    BY <2>1
  <2> QED
    BY <2>2 DEF entry
<1>4. ASSUME NEW n \in Messages
      PROVE  MessageSafe(n)
  <2>1. /\ intent[n] = NoIntent /\ mail[n].alive
        /\ known[n] = mail[n].value /\ server[n].value = mail[n].value
    BY <1>2, <1>3
  <2> QED
    BY <1>2, <2>1 DEF MessageSafe, Live, Dead, NoIntent
<1>5. OneLease /\ ClaimsDiffer
  BY <1>2 DEF OneLease, ClaimsDiffer, NoIntent
<1> QED
  BY <1>1, <1>4, <1>5 DEF SafetyInv

-----------------------------------------------------------------------------
(* What a step does to a message it is not about                           *)

(* The row keeps its wish, its identity and, if it has one, its lease.     *)
RowRests(n) ==
    LET r == intent[n]
        s == intent'[n]
    IN /\ s.state = "absent" <=> r.state = "absent"
       /\ s.id = r.id
       /\ s.version = r.version
       /\ s.epoch = r.epoch
       /\ s.changed = r.changed
       /\ s.base = r.base
       /\ s.want = r.want
       /\ s.deleting = r.deleting
       /\ s.dispatched = r.dispatched
       /\ r.reconcile => s.reconcile
       /\ s.error \in {r.error, "other"}
       /\ s.state = "in_flight" => r.state = "in_flight" /\ s.leased = r.leased

(* Nothing is forgotten of it, and the server changes it only as it was    *)
(* asked to, or another client did.                                        *)
Rests(n) ==
    /\ RowRests(n)
    /\ mail'[n].alive = mail[n].alive
    /\ mail'[n].value = mail[n].value
    /\ known'[n] = known[n]
    /\ server'[n].exists => server[n].exists
    /\ \A a \in Aspects : \/ server'[n].value[a] = server[n].value[a]
                          \/ a \in intent[n].dispatched
                          \/ <<n, a>> \in outside'
    /\ \A a \in Aspects : <<n, a>> \in outside => <<n, a>> \in outside'
    /\ n \in doubt' => \/ n \in doubt
                       \/ /\ intent'[n].state # "in_flight"
                          /\ mail[n].alive => /\ intent'[n].reconcile
                                              /\ intent'[n].error = "other"
    /\ \A c \in held' : c.msg = n => c \in held
    /\ lastId <= lastId' /\ lastId' \in Int

LEMMA RestsKeeps ==
  ASSUME SafetyInv, NEW n \in Messages, Rests(n)
  PROVE  MessageSafe(n)'
<1>1. Live(n) /\ Dead(n) /\ \A c \in held : c.msg = n => Leases(c) /\ Given(c)
  BY DEF SafetyInv, MessageSafe
<1>2. Live(n)'
  BY <1>1 DEF Live, Rests, RowRests
<1>3. Dead(n)'
  BY <1>1 DEF Dead, Rests, RowRests
<1>4. ASSUME NEW c \in held', c.msg = n
      PROVE  Leases(c)' /\ Given(c)'
  <2>1. c \in held /\ Leases(c) /\ Given(c)
    BY <1>1, <1>4 DEF Rests
  <2>2. Leases(c)'
    BY <1>4, <2>1 DEF Leases, HoldsLease, Rests, RowRests
  <2>3. c \in Claim /\ lastId \in Int
    BY <2>1 DEF SafetyInv, TypeInv, TypeOK, JournalTypeOK
  <2>4. Given(c)'
    BY <1>4, <2>1, <2>3 DEF Given, Claim, Rests, RowRests
  <2> QED
    BY <2>2, <2>4
<1> QED
  BY <1>2, <1>3, <1>4 DEF MessageSafe

LEMMA SameRowRests ==
  ASSUME NEW n \in Messages, intent'[n] = intent[n]
  PROVE  RowRests(n)
  BY DEF RowRests

(* A step about m leaves the other messages alone.                         *)
LEMMA OthersRest ==
  ASSUME SafetyInv, NEW m \in Messages, NEW row,
         intent' = [intent EXCEPT ![m] = row],
         \A n \in Messages \ {m} : /\ mail'[n].alive = mail[n].alive
                                   /\ mail'[n].value = mail[n].value
                                   /\ known'[n] = known[n]
                                   /\ server'[n] = server[n]
                                   /\ n \in doubt' => n \in doubt,
         outside' = outside, lastId <= lastId', lastId' \in Int,
         \A c \in held' : c.msg # m => c \in held
  PROVE  \A n \in Messages \ {m} : MessageSafe(n)'
<1> TAKE n \in Messages \ {m}
<1>1. intent'[n] = intent[n]
  BY DEF SafetyInv, TypeInv, TypeOK, JournalTypeOK
<1>2. Rests(n)
  BY <1>1, SameRowRests DEF Rests
<1> QED
  BY <1>2, RestsKeeps

(* No new lease, and no new claim.                                         *)
LEMMA LeasesOnlyEnd ==
  ASSUME SafetyInv, held' \subseteq held,
         \A n \in Messages : intent'[n].state = "in_flight" => intent[n].state = "in_flight"
  PROVE  OneLease' /\ ClaimsDiffer'
  BY DEF SafetyInv, OneLease, ClaimsDiffer

LEMMA RecoverSafe ==
  ASSUME SafetyInv, NEW m \in Messages, RecoverExpired(m)
  PROVE  SafetyInv'
<1> DEFINE r         == intent[m]
           ambiguous == Ambiguous(m)
           state     == IF r.attempts >= MaxAttempts THEN "blocked"
                        ELSE IF ambiguous \/ r.reconcile THEN "reconcile" ELSE "ready"
           reconcile == r.reconcile \/ (ambiguous /\ ~r.deleting)
           row       == [r EXCEPT !.state = state, !.leased = 0, !.expires = 0,
                                  !.reserve = 0, !.reconcile = reconcile,
                                  !.due = 0, !.error = "other"]
<1>1. r \in Intent /\ intent \in [Messages -> Intent] /\ lastId \in Int /\ TypeInv
      /\ Live(m)
  BY DEF SafetyInv, MessageSafe, TypeInv, TypeOK, JournalTypeOK
<1>2. intent' = [intent EXCEPT ![m] = row] /\ r.state = "in_flight"
  BY DEF RecoverExpired
<1>3. /\ state \in {"blocked", "reconcile", "ready"}
      /\ r.reconcile => reconcile
      /\ ambiguous /\ ~r.deleting => reconcile
  BY <1>1 DEF Intent
<1>4. doubt' = IF ambiguous THEN doubt \cup {m} ELSE doubt
  BY DEF RecoverExpired
<1>5. m \in doubt' => m \in doubt \/ ambiguous
  BY <1>4
<1> HIDE DEF state, reconcile, ambiguous
<1>6. /\ row.state = state /\ row.id = r.id /\ row.version = r.version
      /\ row.epoch = r.epoch /\ row.changed = r.changed /\ row.base = r.base
      /\ row.want = r.want /\ row.deleting = r.deleting
      /\ row.dispatched = r.dispatched /\ row.reconcile = reconcile
      /\ row.error = "other"
  BY <1>1 DEF Intent
<1> HIDE DEF row
<1>7. intent'[m] = row
  BY <1>1, <1>2
<1>8. RowRests(m)
  BY <1>2, <1>3, <1>6, <1>7 DEF RowRests
<1>9. m \in doubt' => \/ m \in doubt
                      \/ /\ intent'[m].state # "in_flight"
                         /\ mail[m].alive => intent'[m].reconcile /\ intent'[m].error = "other"
  BY <1>1, <1>3, <1>5, <1>6, <1>7 DEF Live
<1>10. Rests(m)
  BY <1>1, <1>8, <1>9 DEF Rests, RecoverExpired
<1>11. \A n \in Messages \ {m} : MessageSafe(n)'
  <2>1. \A n \in Messages \ {m} : n \in doubt' => n \in doubt
    BY <1>4
  <2>2. \A n \in Messages \ {m} : /\ mail'[n] = mail[n] /\ known'[n] = known[n]
                                  /\ server'[n] = server[n]
    BY DEF RecoverExpired
  <2>3. outside' = outside /\ lastId' = lastId /\ held' = held
    BY DEF RecoverExpired
  <2>4. lastId <= lastId' /\ lastId' \in Int
    BY <1>1, <2>3
  <2> QED
    BY <1>2, <2>1, <2>2, <2>3, <2>4, OthersRest
<1>12. OneLease' /\ ClaimsDiffer'
  <2>1. \A n \in Messages : intent'[n].state = "in_flight" => intent[n].state = "in_flight"
    BY <1>1, <1>2
  <2> QED
    BY <2>1, LeasesOnlyEnd DEF RecoverExpired
<1> QED
  BY <1>1, <1>10, <1>11, <1>12, RestsKeeps, RecoverTyped DEF SafetyInv

LEMMA BlockRests ==
  ASSUME SafetyInv, NEW a \in Accounts, NEW n \in Messages,
         intent'[n] = BlockExhausted(a)[n]
  PROVE  RowRests(n) /\ (intent'[n].state = "in_flight" => intent[n].state = "in_flight")
<1>1. intent[n] \in Intent
  BY DEF SafetyInv, TypeInv, TypeOK, JournalTypeOK
<1>2. CASE n \in Exhausted(a)
  <2>1. intent'[n] = [intent[n] EXCEPT !.state = "blocked", !.error = "other"]
    BY <1>2 DEF BlockExhausted
  <2>2. intent[n].state # "absent"
    BY <1>2 DEF Exhausted, WaitingStates
  <2>3. /\ intent'[n].state = "blocked" /\ intent'[n].id = intent[n].id
        /\ intent'[n].version = intent[n].version /\ intent'[n].epoch = intent[n].epoch
        /\ intent'[n].changed = intent[n].changed /\ intent'[n].base = intent[n].base
        /\ intent'[n].want = intent[n].want /\ intent'[n].deleting = intent[n].deleting
        /\ intent'[n].dispatched = intent[n].dispatched
        /\ intent'[n].reconcile = intent[n].reconcile /\ intent'[n].error = "other"
    BY <1>1, <2>1 DEF Intent
  <2> QED
    BY <2>2, <2>3 DEF RowRests
<1>3. CASE n \notin Exhausted(a)
  BY <1>3, SameRowRests DEF BlockExhausted
<1> QED
  BY <1>2, <1>3

LEMMA ClaimIdleSafe ==
  ASSUME SafetyInv, NEW a \in Accounts, ClaimIdle(a)
  PROVE  SafetyInv'
<1>1. \A n \in Messages : RowRests(n)
                          /\ (intent'[n].state = "in_flight" => intent[n].state = "in_flight")
  BY BlockRests DEF ClaimIdle
<1>2. lastId \in Int /\ TypeInv
  BY DEF SafetyInv, TypeInv, TypeOK, JournalTypeOK
<1>3. \A n \in Messages : Rests(n)
  BY <1>1, <1>2 DEF Rests, ClaimIdle, workVars
<1>4. OneLease' /\ ClaimsDiffer'
  BY <1>1, LeasesOnlyEnd DEF ClaimIdle, workVars
<1> QED
  BY <1>2, <1>3, <1>4, RestsKeeps, ClaimIdleTyped DEF SafetyInv

LEMMA FailedSafe ==
  ASSUME SafetyInv, NEW c \in held, HoldsLease(c),
         NEW state \in {"retry_wait", "reconcile", "blocked"},
         NEW due \in Int, NEW reconcile \in BOOLEAN,
         Failed(c, state, due, reconcile),
         doubt' = doubt \/ (doubt' = doubt \cup {c.msg}
                            /\ (mail[c.msg].alive => reconcile))
  PROVE  SafetyInv'
<1> DEFINE m == c.msg
           r == intent[m]
           rec == r.reconcile \/ reconcile
           next == IF r.due < due THEN due ELSE r.due
           row == [r EXCEPT !.state = state, !.leased = 0, !.expires = 0, !.reserve = 0,
                            !.reconcile = rec, !.due = next, !.error = "other"]
<1>1. /\ m \in Messages /\ r \in Intent /\ r.state = "in_flight"
      /\ intent \in [Messages -> Intent] /\ lastId \in Int /\ TypeInv
      /\ doubt' \subseteq Messages
  BY DEF SafetyInv, TypeInv, TypeOK, JournalTypeOK, Claim, HoldsLease
<1>2. intent' = [intent EXCEPT ![m] = row]
  BY DEF Failed
<1>3. /\ mail' = mail /\ known' = known /\ server' = server /\ outside' = outside
      /\ lastId' = lastId /\ held' = held
  BY DEF Failed
<1>4. (r.reconcile => rec) /\ (reconcile => rec)
  OBVIOUS
<1> HIDE DEF rec, next
<1>5. /\ row.state = state /\ row.id = r.id /\ row.version = r.version
      /\ row.epoch = r.epoch /\ row.changed = r.changed /\ row.base = r.base
      /\ row.want = r.want /\ row.deleting = r.deleting
      /\ row.dispatched = r.dispatched /\ row.reconcile = rec
      /\ row.error = "other"
  BY <1>1 DEF Intent
<1> HIDE DEF row
<1>6. intent'[m] = row
  BY <1>1, <1>2
<1>7. RowRests(m)
  BY <1>1, <1>4, <1>5, <1>6 DEF RowRests
<1>8. m \in doubt' => \/ m \in doubt
                      \/ /\ intent'[m].state # "in_flight"
                         /\ mail[m].alive => intent'[m].reconcile /\ intent'[m].error = "other"
  BY <1>4, <1>5, <1>6
<1>9. Rests(m)
  BY <1>1, <1>3, <1>7, <1>8 DEF Rests
<1>10. \A n \in Messages \ {m} : MessageSafe(n)'
  <2>1. \A n \in Messages \ {m} : n \in doubt' => n \in doubt
    OBVIOUS
  <2>2. lastId <= lastId' /\ lastId' \in Int
    BY <1>1, <1>3
  <2> HIDE DEF m
  <2> QED
    BY <1>1, <1>2, <1>3, <2>1, <2>2, OthersRest
<1>11. OneLease' /\ ClaimsDiffer'
  <2>1. \A n \in Messages : intent'[n].state = "in_flight" => intent[n].state = "in_flight"
    BY <1>1, <1>2
  <2> QED
    BY <1>3, <2>1, LeasesOnlyEnd
<1> QED
  BY <1>1, <1>9, <1>10, <1>11, RestsKeeps, FailedTyped DEF SafetyInv

LEMMA FailuresSafe ==
  ASSUME SafetyInv, NEW c \in held,
         ReportRetry(c) \/ ReportReconcile(c) \/ ReportBlocked(c)
  PROVE  SafetyInv'
<1>1. c.msg \in Messages /\ Live(c.msg)
  BY DEF SafetyInv, TypeInv, TypeOK, Claim, MessageSafe
<1>2. CASE ReportRetry(c)
  <2>1. PICK delay \in RetryDelays : Failed(c, "retry_wait", delay, FALSE)
    BY <1>2 DEF ReportRetry
  <2>2. delay \in Int
    BY ProviderAssumption
  <2> QED
    BY <1>2, <2>1, <2>2, FailedSafe DEF ReportRetry
<1>3. CASE ReportReconcile(c)
  <2> DEFINE q == ~intent[c.msg].deleting
  <2>1. /\ HoldsLease(c) /\ Failed(c, "reconcile", 0, q)
        /\ doubt' = doubt \/ doubt' = doubt \cup {c.msg}
    BY <1>3 DEF ReportReconcile
  <2>2. q \in BOOLEAN /\ (mail[c.msg].alive => q)
    BY <1>1 DEF Live
  <2> HIDE DEF q
  <2> QED
    BY <2>1, <2>2, FailedSafe
<1>4. CASE ReportBlocked(c)
  <2> DEFINE q == FALSE
  <2>1. HoldsLease(c) /\ Failed(c, "blocked", 0, q) /\ doubt' = doubt
    BY <1>4 DEF ReportBlocked
  <2>2. q \in BOOLEAN
    OBVIOUS
  <2> HIDE DEF q
  <2> QED
    BY <2>1, <2>2, FailedSafe
<1> QED
  BY <1>2, <1>3, <1>4

(* A write is of a claim that holds the lease, so of what was dispatched.  *)
LEMMA ServerSafe ==
  ASSUME SafetyInv, NEW c \in held, ServerWrite(c) \/ Forget(c)
  PROVE  SafetyInv'
<1>1. /\ TypeInv /\ lastId \in Int /\ c.msg \in Messages /\ c \in Claim
      /\ server \in [Messages -> Copy] /\ Leases(c)
  BY DEF SafetyInv, TypeInv, TypeOK, JournalTypeOK, Claim, MessageSafe
<1>2. /\ intent' = intent /\ mail' = mail /\ known' = known /\ doubt' = doubt
      /\ outside' = outside /\ lastId' = lastId /\ held' \subseteq held
  BY DEF ServerWrite, Forget, journalVars
<1>3. ASSUME NEW n \in Messages
      PROVE  /\ server'[n].exists => server[n].exists
             /\ \A a \in Aspects : \/ server'[n].value[a] = server[n].value[a]
                                   \/ a \in intent[n].dispatched
  <2>1. CASE server' = server
    BY <2>1
  <2>2. CASE server' = [server EXCEPT ![c.msg].exists = FALSE]
    BY <1>1, <2>2 DEF Copy
  <2>3. ASSUME NEW b \in c.changed, ServerWrite(c),
               server' = [server EXCEPT ![c.msg].value[b] = c.want[b]]
        PROVE  /\ server'[n].exists => server[n].exists
               /\ \A a \in Aspects : \/ server'[n].value[a] = server[n].value[a]
                                     \/ a \in intent[n].dispatched
    <3>1. b \in intent[c.msg].dispatched
      BY <1>1, <2>3 DEF ServerWrite, Leases
    <3>2. server[n] \in Copy
      BY <1>1
    <3>3. CASE n = c.msg
      <4>1. server'[n] = [server[n] EXCEPT !.value[b] = c.want[b]]
        BY <1>1, <2>3, <3>3
      <4> QED
        BY <3>1, <3>2, <3>3, <4>1 DEF Copy
    <3>4. CASE n # c.msg
      BY <1>1, <2>3, <3>4
    <3> QED
      BY <3>3, <3>4
  <2> QED
    BY <2>1, <2>2, <2>3 DEF ServerWrite, Forget
<1>4. \A n \in Messages : Rests(n)
  BY <1>1, <1>2, <1>3, SameRowRests DEF Rests
<1>5. OneLease' /\ ClaimsDiffer'
  BY <1>2, LeasesOnlyEnd
<1> QED
  BY <1>1, <1>4, <1>5, RestsKeeps, ServerTyped DEF SafetyInv

LEMMA OutsideSafe ==
  ASSUME SafetyInv, NEW m \in Messages, NEW a \in Aspects, NEW v \in OutsideValues(a),
         OutsideChange(m, a, v)
  PROVE  SafetyInv'
<1>1. TypeInv /\ lastId \in Int /\ server \in [Messages -> Copy]
  BY DEF SafetyInv, TypeInv, TypeOK, JournalTypeOK
<1>2. /\ intent' = intent /\ mail' = mail /\ known' = known /\ doubt' = doubt
      /\ lastId' = lastId /\ held' = held /\ outside' = outside \cup {<<m, a>>}
      /\ server' = [server EXCEPT ![m].value[a] = v]
  BY DEF OutsideChange, journalVars
<1>3. ASSUME NEW n \in Messages
      PROVE  /\ server'[n].exists = server[n].exists
             /\ \A b \in Aspects : \/ server'[n].value[b] = server[n].value[b]
                                   \/ <<n, b>> \in outside'
  <2>1. CASE n = m
    <3>1. server'[n] = [server[n] EXCEPT !.value[a] = v] /\ server[n] \in Copy
      BY <1>1, <1>2, <2>1
    <3> QED
      BY <1>2, <2>1, <3>1 DEF Copy
  <2>2. CASE n # m
    BY <1>1, <1>2, <2>2
  <2> QED
    BY <2>1, <2>2
<1>4. \A n \in Messages : Rests(n)
  BY <1>1, <1>2, <1>3, SameRowRests DEF Rests
<1>5. OneLease' /\ ClaimsDiffer'
  BY <1>2, LeasesOnlyEnd
<1> QED
  BY <1>1, <1>4, <1>5, RestsKeeps, OutsideTyped DEF SafetyInv

LEMMA TickSafe ==
  ASSUME SafetyInv, Tick
  PROVE  SafetyInv'
<1>1. TypeInv /\ lastId \in Int /\ intent \in [Messages -> Intent]
  BY DEF SafetyInv, TypeInv, TypeOK, JournalTypeOK
<1>2. ASSUME NEW n \in Messages
      PROVE  RowRests(n) /\ intent'[n].state = intent[n].state
  <2> DEFINE due == IF intent[n].due > -Past /\ Present(n) THEN intent[n].due - 1
                    ELSE intent[n].due
             expires == IF intent[n].expires > 0 THEN intent[n].expires - 1
                        ELSE intent[n].expires
  <2>1. intent'[n] = [intent[n] EXCEPT !.due = due, !.expires = expires]
        /\ intent[n] \in Intent
    BY <1>1 DEF Tick, Intent
  <2> HIDE DEF due, expires
  <2> QED
    BY <2>1 DEF RowRests, Intent
<1>3. /\ mail' = mail /\ known' = known /\ server' = server /\ outside' = outside
      /\ doubt' = doubt /\ lastId' = lastId /\ held' = held
  BY DEF Tick, workVars
<1>4. \A n \in Messages : Rests(n)
  BY <1>1, <1>2, <1>3 DEF Rests
<1>5. OneLease' /\ ClaimsDiffer'
  BY <1>2, <1>3, LeasesOnlyEnd
<1> QED
  BY <1>1, <1>4, <1>5, RestsKeeps, TickTyped DEF SafetyInv

-----------------------------------------------------------------------------
(* Claims                                                                  *)

LEMMA LeasedFields ==
  ASSUME TypeInv, NEW m \in Messages
  PROVE  LET r == intent[m]
             s == Leased(m)
         IN /\ s.state = "in_flight" /\ s.leased = r.version /\ s.epoch = r.epoch + 1
            /\ s.id = r.id /\ s.version = r.version /\ s.changed = r.changed
            /\ s.base = r.base /\ s.want = r.want /\ s.deleting = r.deleting
            /\ s.reconcile = r.reconcile /\ s.error = r.error
            /\ s.dispatched =
                 r.dispatched \cup (IF WorkMode(m) = "apply" THEN Mask(r) ELSE {})
<1>1. intent[m] \in Intent
  BY DEF TypeInv, TypeOK, JournalTypeOK
<1> QED
  BY <1>1 DEF Leased, Intent

LEMMA LeasedSafe ==
  ASSUME SafetyInv, NEW a \in Accounts, NEW m \in Messages, ClaimRemote(a, m)
  PROVE  MessageSafe(m)'
<1> DEFINE r == intent[m]
           s == intent'[m]
<1>0. PICK d : d = Snapshot(m)
  OBVIOUS
<1>1. /\ r \in Intent /\ RowSound(m) /\ Live(m) /\ Dead(m) /\ TypeInv
      /\ \A c \in held : c.msg = m => Given(c) /\ c \in Claim
      /\ lastId \in Int
  BY DEF SafetyInv, TypeInv, TypeOK, JournalTypeOK, MessageSafe
<1>2. s = Leased(m)
  BY BlockReplaces, <1>1 DEF ClaimRemote
<1>3. /\ s.state = "in_flight" /\ s.leased = r.version /\ s.epoch = r.epoch + 1
      /\ s.id = r.id /\ s.version = r.version /\ s.changed = r.changed
      /\ s.base = r.base /\ s.want = r.want /\ s.deleting = r.deleting
      /\ s.reconcile = r.reconcile /\ s.error = r.error
      /\ s.dispatched = r.dispatched \cup (IF WorkMode(m) = "apply" THEN Mask(r) ELSE {})
  BY <1>1, <1>2, LeasedFields
<1>4. /\ mail' = mail /\ known' = known /\ server' = server /\ outside' = outside
      /\ doubt' = doubt /\ lastId' = lastId /\ held' = held \cup {d}
  BY <1>0 DEF ClaimRemote
<1>5. r.state # "absent"
  BY DEF ClaimRemote, IsCandidate, Due, WaitingStates
<1>6. Live(m)'
  BY <1>1, <1>3, <1>4 DEF Live, Mask
<1>7. Dead(m)'
  BY <1>1, <1>3, <1>4, <1>5 DEF Dead
<1>8. ASSUME NEW c \in held, c.msg = m
      PROVE  Leases(c)' /\ Given(c)'
  <2>1. Given(c) /\ c \in Claim
    BY <1>1, <1>8
  <2>2. c.id = r.id => c.epoch < s.epoch
    BY <1>1, <1>3, <1>8, <2>1 DEF Given, Claim, Intent
  <2>3. ~HoldsLease(c)'
    BY <1>3, <1>8, <2>1, <2>2 DEF HoldsLease, Claim
  <2>4. Given(c)'
    BY <1>1, <1>3, <1>4, <1>8, <2>1, <2>2 DEF Given, Claim, Intent
  <2> QED
    BY <2>3, <2>4 DEF Leases
<1>9. Leases(d)' /\ Given(d)'
  <2>1. /\ d.msg = m /\ d.id = r.id /\ d.version = r.version /\ d.epoch = r.epoch + 1
        /\ d.mode = WorkMode(m) /\ d.changed = r.changed /\ d.base = r.base
        /\ d.deleting = r.deleting
    BY <1>0 DEF Snapshot
  <2>2. d.mode = "apply" => ~r.reconcile
    BY <2>1 DEF WorkMode
  <2>3. d.mode = "apply" /\ ~d.deleting => m \notin doubt
    BY <1>1, <1>5, <2>1, <2>2 DEF Live, Dead
  <2>4. d.mode = "apply" => d.changed \subseteq s.dispatched
    BY <1>3, <2>1 DEF Mask
  <2>5. mail[m].alive => \A b \in d.changed : d.base[b] = known[m][b] /\ b \in s.changed
    BY <1>1, <1>3, <2>1 DEF Live, Intent
  <2>6. Leases(d)'
    BY <1>3, <1>4, <2>1, <2>3, <2>4, <2>5 DEF Leases
  <2>7. Given(d)'
    BY <1>1, <1>3, <1>4, <1>5, <2>1 DEF Given, RowSound, Intent
  <2> QED
    BY <2>6, <2>7
<1> QED
  BY <1>4, <1>6, <1>7, <1>8, <1>9 DEF MessageSafe

LEMMA ClaimRemoteSafe ==
  ASSUME SafetyInv, NEW a \in Accounts, NEW m \in Messages, ClaimRemote(a, m)
  PROVE  SafetyInv'
<1>1. TypeInv /\ lastId \in Int
  BY DEF SafetyInv, TypeInv, TypeOK, JournalTypeOK
<1>2. /\ intent' = [BlockExhausted(a) EXCEPT ![m] = Leased(m)]
      /\ mail' = mail /\ known' = known /\ server' = server /\ outside' = outside
      /\ doubt' = doubt /\ lastId' = lastId /\ held' = held \cup {Snapshot(m)}
      /\ LeaseIsFree
  BY DEF ClaimRemote
<1>3. ASSUME NEW n \in Messages \ {m}
      PROVE  MessageSafe(n)' /\ intent'[n].state # "in_flight"
  <2>1. intent'[n] = BlockExhausted(a)[n]
    BY <1>2, BlockReplaces, <1>1
  <2>2. RowRests(n) /\ intent'[n].state # "in_flight"
    BY <1>2, <2>1, BlockRests DEF LeaseIsFree
  <2>3. \A c \in held' : c.msg = n => c \in held
    BY <1>2 DEF Snapshot
  <2>4. Rests(n)
    BY <1>1, <1>2, <2>2, <2>3 DEF Rests
  <2> QED
    BY <2>2, <2>4, RestsKeeps
<1>4. OneLease'
  BY <1>3 DEF OneLease
<1>5. ClaimsDiffer'
  <2>1. ASSUME NEW c \in held, c.msg = m, c.id = intent[m].id
        PROVE  c.epoch < Snapshot(m).epoch
    <3>1. Given(c) /\ c \in Claim /\ intent[m] \in Intent
      BY <2>1 DEF SafetyInv, MessageSafe, TypeInv, TypeOK, JournalTypeOK
    <3> QED
      BY <2>1, <3>1 DEF Given, Claim, Intent, Snapshot
  <2>2. Snapshot(m).msg = m /\ Snapshot(m).id = intent[m].id
    BY DEF Snapshot
  <2>3. \A c \in held : c \in Claim
    BY <1>1 DEF TypeInv, TypeOK
  <2>4. Snapshot(m).epoch \in Int
    BY <1>1 DEF Snapshot, TypeInv, TypeOK, JournalTypeOK, Intent
  <2>5. \A c \in held : ~(/\ c.msg = Snapshot(m).msg /\ c.id = Snapshot(m).id
                          /\ c.epoch = Snapshot(m).epoch)
    BY <2>1, <2>2, <2>3, <2>4 DEF Claim
  <2> QED
    BY <1>2, <2>5 DEF SafetyInv, ClaimsDiffer
<1> QED
  BY <1>3, <1>4, <1>5, LeasedSafe, ClaimRemoteTyped DEF SafetyInv

-----------------------------------------------------------------------------
(* Reports of a lease                                                      *)

LEMMA ProgressSafe ==
  ASSUME SafetyInv, NEW c \in held, NEW found \in SUBSET Folders,
         ReportProgress(c, found)
  PROVE  SafetyInv'
<1> DEFINE m == c.msg
           r == intent[m]
           s == intent'[m]
           d == [c EXCEPT !.epoch = c.epoch + 1]
<1>1. /\ m \in Messages /\ r \in Intent /\ c \in Claim /\ HoldsLease(c)
      /\ Live(m) /\ Dead(m) /\ TypeInv /\ lastId \in Int
      /\ \A e \in held : e \in Claim /\ (e.msg = m => Leases(e) /\ Given(e))
      /\ RowSound(m) /\ OneLease /\ ClaimsDiffer
  BY DEF SafetyInv, TypeInv, TypeOK, JournalTypeOK, Claim, MessageSafe, ReportProgress
<1> DEFINE k == Checkpointed(c, found)
           row == [k EXCEPT !.epoch = k.epoch + 1, !.expires = LeaseTTL]
<1>2. intent' = [intent EXCEPT ![m] = row]
  BY DEF ReportProgress
<1>3. k = [r EXCEPT !.sources = r.sources \cup found]
  BY DEF Checkpointed
<1>4. /\ row.state = "in_flight" /\ row.leased = r.leased /\ row.epoch = r.epoch + 1
      /\ row.id = r.id /\ row.version = r.version /\ row.changed = r.changed
      /\ row.base = r.base /\ row.want = r.want /\ row.deleting = r.deleting
      /\ row.reconcile = r.reconcile /\ row.error = r.error
      /\ row.dispatched = r.dispatched
  BY <1>1, <1>3 DEF Intent, HoldsLease
<1> HIDE DEF k, row
<1>5. s = row
  BY <1>1, <1>2 DEF TypeInv, TypeOK, JournalTypeOK
<1>6. /\ known' = known /\ server' = server /\ outside' = outside
      /\ doubt' = doubt /\ lastId' = lastId /\ held' = held \cup {d}
      /\ \A n \in Messages : /\ mail'[n].alive = mail[n].alive
                             /\ mail'[n].value = mail[n].value
  BY CheckpointTyped, <1>1 DEF ReportProgress
<1>7. /\ d.msg = m /\ d.id = c.id /\ d.version = c.version /\ d.epoch = c.epoch + 1
      /\ d.mode = c.mode /\ d.changed = c.changed /\ d.base = c.base
      /\ d.deleting = c.deleting
  BY <1>1 DEF Claim
<1>8. r.state = "in_flight" /\ r.id = c.id /\ r.leased = c.version /\ r.epoch = c.epoch
  BY <1>1 DEF HoldsLease
<1> HIDE DEF d
<1>9. Live(m)' /\ Dead(m)'
  <2>1. Live(m)'
    BY <1>1, <1>4, <1>5, <1>6 DEF Live
  <2>2. Dead(m)'
    BY <1>1, <1>4, <1>5, <1>6, <1>8 DEF Dead
  <2> QED
    BY <2>1, <2>2
<1>10. ASSUME NEW e \in held, e.msg = m
       PROVE  Leases(e)' /\ Given(e)' /\ (e.id = d.id => e.epoch < d.epoch)
  <2>1. Given(e) /\ e \in Claim
    BY <1>1, <1>10
  <2>2. e.id = r.id => e.epoch < s.epoch
    BY <1>1, <1>4, <1>5, <1>10, <2>1 DEF Given, Claim, Intent
  <2>3. ~HoldsLease(e)'
    BY <1>4, <1>5, <1>10, <2>1, <2>2 DEF HoldsLease, Claim
  <2>4. Given(e)'
    BY <1>1, <1>4, <1>5, <1>6, <1>10, <2>1, <2>2 DEF Given, Claim, Intent
  <2>5. e.id = d.id => e.epoch < d.epoch
    BY <1>4, <1>5, <1>7, <1>8, <2>2
  <2> QED
    BY <2>3, <2>4, <2>5 DEF Leases
<1>11. Leases(d)'
  <2>1. Leases(c)
    BY <1>1
  <2> QED
    BY <1>1, <1>4, <1>5, <1>6, <1>7, <2>1 DEF Leases
<1>12. Given(d)'
  <2>1. c.id <= lastId
    BY <1>1, <1>8 DEF Given
  <2> QED
    BY <1>1, <1>4, <1>5, <1>6, <1>7, <1>8, <2>1 DEF Given, Intent
<1>13. MessageSafe(m)'
  BY <1>6, <1>9, <1>10, <1>11, <1>12 DEF MessageSafe
<1>14. \A n \in Messages \ {m} : MessageSafe(n)'
  <2>1. \A e \in held' : e.msg # m => e \in held
    BY <1>6, <1>7
  <2>2. lastId <= lastId' /\ lastId' \in Int
    BY <1>1, <1>6
  <2> HIDE DEF m
  <2> QED
    BY <1>1, <1>2, <1>6, <2>1, <2>2, OthersRest
<1>15. OneLease'
  <2>1. \A n \in Messages : intent'[n].state = "in_flight" => intent[n].state = "in_flight"
    BY <1>1, <1>2, <1>8 DEF TypeInv, TypeOK, JournalTypeOK
  <2> QED
    BY <1>1, <2>1 DEF OneLease
<1>16. ClaimsDiffer'
  <2>1. d.epoch \in Int /\ \A e \in held : e.epoch \in Int
    BY <1>1, <1>7 DEF Claim
  <2>2. \A e \in held : ~(e.msg = d.msg /\ e.id = d.id /\ e.epoch = d.epoch)
    BY <1>7, <1>10, <2>1
  <2> QED
    BY <1>1, <1>6, <2>2 DEF ClaimsDiffer
<1> QED
  BY <1>1, <1>13, <1>14, <1>15, <1>16, ProgressTyped DEF SafetyInv

(* What an acknowledgement leaves of a row whose message lives on: the     *)
(* aspects of the claim that are wanted otherwise by now, over the claimed *)
(* value, and what the claim was not about.                                *)
LEMMA RebasedFields ==
  ASSUME NEW c \in Claim, NEW r \in Intent, NEW satisfied \in BOOLEAN,
         ~c.deleting, ~r.deleting, r.dispatched \subseteq r.changed,
         \A a \in c.changed : WantNow(c, a) \in Value
  PROVE  LET s     == Rebased(c, r, satisfied)
             still == {a \in c.changed : WantNow(c, a) # c.want[a]}
         IN /\ s.state \in {"absent", "ready", "reconcile"}
            /\ ~s.deleting
            /\ s.changed = (r.changed \ c.changed) \cup still
            /\ s.dispatched = r.dispatched \ c.changed
            /\ \A a \in s.changed :
                  /\ s.base[a] = IF a \in c.changed THEN c.want[a] ELSE r.base[a]
                  /\ s.want[a] = IF a \in c.changed THEN WantNow(c, a) ELSE r.want[a]
            /\ s.state # "absent" => s.id = r.id /\ s.epoch = r.epoch
            /\ s.state = "absent" => s.id = 0
<1> DEFINE still     == {a \in c.changed : WantNow(c, a) # c.want[a]}
           reconcile == r.reconcile /\ ~(satisfied /\ r.version = c.version)
           changed   == (r.changed \ c.changed) \cup still
           base      == [a \in Aspects |-> IF a \notin c.changed THEN r.base[a]
                                           ELSE IF a \in still THEN c.want[a]
                                           ELSE {}]
           want      == [a \in Aspects |-> IF a \notin c.changed THEN r.want[a]
                                           ELSE IF a \in still THEN WantNow(c, a)
                                           ELSE {}]
           row       == [r EXCEPT !.changed = changed, !.base = base, !.want = want,
                                  !.reconcile = reconcile]
           state     == IF reconcile THEN "reconcile" ELSE "ready"
<1>1. changed \in SUBSET Aspects /\ still \subseteq c.changed /\ reconcile \in BOOLEAN
      /\ c.changed \subseteq Aspects /\ r.changed \subseteq Aspects
  BY DEF Intent, Claim
<1>2. base \in [Aspects -> Value]
  BY DEF Intent, Claim, Value
<1>3. want \in [Aspects -> Value]
  BY <1>1 DEF Intent, Value
<1>4. Rebased(c, r, satisfied) = IF IsEmpty(row) THEN NoIntent ELSE Released(c, row, state)
  BY DEF Rebased, Intent
<1>5. state \in {"ready", "reconcile"}
  OBVIOUS
<1>6. \A a \in changed : /\ base[a] = IF a \in c.changed THEN c.want[a] ELSE r.base[a]
                         /\ want[a] = IF a \in c.changed THEN WantNow(c, a) ELSE r.want[a]
  BY <1>1
<1>7. changed = (r.changed \ c.changed) \cup still
  OBVIOUS
<1> HIDE DEF reconcile, changed, base, want, state, still
<1>8. row \in Intent
  BY <1>1, <1>2, <1>3 DEF Intent
<1>9. /\ row.id = r.id /\ row.epoch = r.epoch /\ row.changed = changed /\ row.base = base
      /\ row.want = want /\ row.deleting = r.deleting /\ row.dispatched = r.dispatched
  BY DEF Intent
<1> HIDE DEF row
<1>10. CASE IsEmpty(row)
  <2>1. Rebased(c, r, satisfied) = NoIntent /\ changed = {}
    BY <1>4, <1>9, <1>10 DEF IsEmpty
  <2>2. r.dispatched \ c.changed = {}
    BY <1>7, <2>1
  <2> QED
    BY <1>7, <2>1, <2>2 DEF NoIntent, still
<1>11. CASE ~IsEmpty(row)
  <2>1. Rebased(c, r, satisfied) = Released(c, row, state)
    BY <1>4, <1>11
  <2>2. Mask(c) = c.changed
    BY DEF Mask
  <2> DEFINE s == Released(c, row, state)
  <2>3. /\ s.state = state /\ s.id = row.id /\ s.epoch = row.epoch
        /\ s.changed = row.changed /\ s.base = row.base /\ s.want = row.want
        /\ s.deleting = row.deleting /\ s.dispatched = row.dispatched \ Mask(c)
    BY <1>5, <1>8, ReleasedTyped
  <2> HIDE DEF s
  <2>4. /\ s.state \in {"ready", "reconcile"} /\ s.id = r.id /\ s.epoch = r.epoch
        /\ s.changed = changed /\ s.base = base /\ s.want = want
        /\ ~s.deleting /\ s.dispatched = r.dispatched \ c.changed
    BY <1>5, <1>9, <2>2, <2>3
  <2>5. Rebased(c, r, satisfied) = s
    BY <2>1 DEF s
  <2> QED
    BY <1>6, <1>7, <2>4, <2>5 DEF still
<1> QED
  BY <1>10, <1>11

LEMMA AcknowledgeSafe ==
  ASSUME SafetyInv, NEW c \in held, NEW found \in SUBSET Folders, HoldsLease(c),
         Fulfilled(c), NEW satisfied \in BOOLEAN, Acknowledge(c, found, satisfied)
  PROVE  SafetyInv'
<1> DEFINE m == c.msg
           r == intent[m]
           k == Checkpointed(c, found)
           s == Acknowledged(c, k, satisfied)
<1>1. /\ m \in Messages /\ r \in Intent /\ c \in Claim /\ mail[m] \in Mail
      /\ Live(m) /\ Dead(m) /\ Leases(c) /\ TypeInv /\ lastId \in Int
      /\ \A e \in held : e \in Claim /\ (e.msg = m => Given(e))
      /\ server[m] \in Copy /\ known \in [Messages -> [Aspects -> Value]]
      /\ intent \in [Messages -> Intent]
  BY DEF SafetyInv, TypeInv, TypeOK, JournalTypeOK, Claim, MessageSafe
<1>2. /\ k \in Intent /\ k = [r EXCEPT !.sources = r.sources \cup found]
      /\ r.state = "in_flight"
  BY CheckpointedTyped, <1>1 DEF HoldsLease
<1>3. /\ k.id = r.id /\ k.epoch = r.epoch /\ k.changed = r.changed /\ k.base = r.base
      /\ k.want = r.want /\ k.deleting = r.deleting /\ k.dispatched = r.dispatched
  BY <1>1, <1>2 DEF Intent
<1>4. /\ intent' = [intent EXCEPT ![m] = s]
      /\ known' = [known EXCEPT ![m] =
                     [a \in Aspects |-> IF a \in c.changed THEN c.want[a] ELSE known[m][a]]]
      /\ doubt' = doubt \ {m}
      /\ lastId' = lastId /\ held' = held /\ server' = server /\ outside' = outside
  BY DEF Acknowledge
<1>5. \A n \in Messages : /\ mail'[n].alive = mail[n].alive
                          /\ mail'[n].value = mail[n].value
  BY CheckpointTyped, <1>1 DEF Acknowledge
<1>6. \A a \in c.changed : WantNow(c, a) \in Value
  BY <1>1 DEF WantNow, Intent, Mail, Claim
<1> HIDE DEF k, s
<1>7. intent'[m] = s
  BY <1>1, <1>4
<1>8. /\ s.state \in {"absent", "ready", "reconcile"}
      /\ s.state # "absent" => s.id = r.id /\ s.epoch = r.epoch
      /\ s.state = "absent" => s.id = 0
      /\ Live(m)' /\ Dead(m)'
  <2>1. CASE c.deleting
    <3>1. s = NoIntent
      BY <2>1 DEF s, Acknowledged
    <3>2. ~mail[m].alive
      BY <1>1, <2>1 DEF Leases, Live
    <3>3. ~server[m].exists
      BY <2>1 DEF Fulfilled
    <3>4. Live(m)'
      BY <1>1, <1>5, <3>2 DEF Live
    <3>5. Dead(m)'
      BY <1>1, <1>4, <1>5, <1>7, <3>1, <3>2, <3>3 DEF Dead, NoIntent
    <3> QED
      BY <3>1, <3>4, <3>5 DEF NoIntent
  <2>2. CASE ~c.deleting /\ r.deleting
    <3> DEFINE state == IF IsImap(m) /\ k.sources = {} THEN "reconcile" ELSE "ready"
    <3>1. s = Released(c, k, state)
      BY <1>3, <2>2 DEF s, Acknowledged
    <3>2. state \in {"ready", "reconcile"}
      OBVIOUS
    <3> HIDE DEF state
    <3>3. /\ s.state = state /\ s.id = r.id /\ s.epoch = r.epoch
          /\ s.changed = r.changed /\ s.deleting
      <4>1. /\ Released(c, k, state).state = state /\ Released(c, k, state).id = k.id
            /\ Released(c, k, state).epoch = k.epoch
            /\ Released(c, k, state).changed = k.changed
            /\ Released(c, k, state).deleting = k.deleting
        <5>1. k \in Intent
          BY <1>2
        <5> QED
          BY <3>2, <5>1, ReleasedTyped
      <4> QED
        BY <1>3, <2>2, <3>1, <4>1
    <3>4. ~mail[m].alive
      BY <1>1, <2>2 DEF Live
    <3>5. Live(m)'
      BY <1>1, <1>5, <3>4 DEF Live
    <3>6. Dead(m)'
      BY <1>1, <1>2, <1>4, <1>5, <1>7, <3>2, <3>3, <3>4 DEF Dead
    <3> QED
      BY <3>2, <3>3, <3>5, <3>6
  <2>3. CASE ~c.deleting /\ ~r.deleting
    <3>1. s = Rebased(c, k, satisfied)
      BY <1>3, <2>3 DEF s, Acknowledged
    <3>2. mail[m].alive
      BY <1>1, <1>2, <2>3 DEF Dead
    <3> DEFINE still == {a \in c.changed : WantNow(c, a) # c.want[a]}
    <3>3. /\ s.state \in {"absent", "ready", "reconcile"}
          /\ ~s.deleting
          /\ s.changed = (r.changed \ c.changed) \cup still
          /\ s.dispatched = r.dispatched \ c.changed
          /\ \A a \in s.changed :
                /\ s.base[a] = IF a \in c.changed THEN c.want[a] ELSE r.base[a]
                /\ s.want[a] = IF a \in c.changed THEN WantNow(c, a) ELSE r.want[a]
          /\ s.state # "absent" => s.id = r.id /\ s.epoch = r.epoch
          /\ s.state = "absent" => s.id = 0
      <4>1. k.dispatched \subseteq k.changed
        BY <1>1, <1>3, <3>2 DEF Live
      <4>2. /\ s.state \in {"absent", "ready", "reconcile"}
            /\ ~s.deleting
            /\ s.changed = (k.changed \ c.changed) \cup still
            /\ s.dispatched = k.dispatched \ c.changed
            /\ \A a \in s.changed :
                  /\ s.base[a] = IF a \in c.changed THEN c.want[a] ELSE k.base[a]
                  /\ s.want[a] = IF a \in c.changed THEN WantNow(c, a) ELSE k.want[a]
            /\ s.state # "absent" => s.id = k.id /\ s.epoch = k.epoch
            /\ s.state = "absent" => s.id = 0
        <5>1. k \in Intent /\ c \in Claim /\ ~k.deleting
          BY <1>1, <1>2, <1>3, <2>3
        <5> QED
          BY <1>6, <2>3, <3>1, <4>1, <5>1, RebasedFields
      <4> QED
        BY <1>3, <4>2
    <3>4. \A a \in c.changed : WantNow(c, a) = mail[m].value[a]
      BY <1>1, <3>2 DEF Live, WantNow
    <3>5. \A a \in Aspects : known'[m][a] = IF a \in c.changed THEN c.want[a]
                                            ELSE known[m][a]
      BY <1>1, <1>4
    <3>6. \A a \in c.changed : server[m].value[a] = c.want[a]
      BY <2>3 DEF Fulfilled
    <3>7. s.dispatched \subseteq s.changed
      BY <1>1, <3>2, <3>3 DEF Live
    <3>8. \A a \in s.changed : s.want[a] = mail[m].value[a]
      BY <1>1, <3>2, <3>3, <3>4 DEF Live
    <3>9. \A a \in Aspects :
             known'[m][a] = IF a \in s.changed THEN s.base[a] ELSE mail[m].value[a]
      BY <1>1, <3>2, <3>3, <3>4, <3>5 DEF Live
    <3>10. \A a \in Aspects : \/ a \in s.dispatched
                              \/ <<m, a>> \in outside
                              \/ server[m].value[a] = known'[m][a]
      BY <1>1, <3>2, <3>3, <3>5, <3>6 DEF Live
    <3>11. Live(m)'
      BY <1>1, <1>4, <1>5, <1>7, <3>3, <3>7, <3>8, <3>9, <3>10 DEF Live
    <3>12. Dead(m)'
      BY <1>1, <1>5, <3>2 DEF Dead
    <3> QED
      BY <3>3, <3>11, <3>12
  <2> QED
    BY <2>1, <2>2, <2>3
<1>9. ASSUME NEW e \in held, e.msg = m
      PROVE  Leases(e)' /\ Given(e)'
  <2>1. ~HoldsLease(e)'
    BY <1>7, <1>8, <1>9 DEF HoldsLease
  <2>2. Given(e)'
    BY <1>1, <1>4, <1>7, <1>8, <1>9 DEF Given, Claim
  <2> QED
    BY <2>1, <2>2 DEF Leases
<1>10. MessageSafe(m)'
  BY <1>4, <1>8, <1>9 DEF MessageSafe
<1>11. \A n \in Messages \ {m} : MessageSafe(n)'
  <2>1. \A n \in Messages \ {m} : known'[n] = known[n] /\ (n \in doubt' => n \in doubt)
    BY <1>1, <1>4
  <2>2. lastId <= lastId' /\ lastId' \in Int
    BY <1>1, <1>4
  <2> HIDE DEF m
  <2> QED
    BY <1>1, <1>4, <1>5, <2>1, <2>2, OthersRest
<1>12. OneLease' /\ ClaimsDiffer'
  <2>1. \A n \in Messages : intent'[n].state = "in_flight" => intent[n].state = "in_flight"
    BY <1>1, <1>4, <1>8
  <2> QED
    BY <1>4, <2>1, LeasesOnlyEnd
<1> QED
  BY <1>1, <1>10, <1>11, <1>12, AcknowledgeTyped DEF SafetyInv

-----------------------------------------------------------------------------
(* The user's edits                                                        *)

(* The edit of aspect b to v folds into the row: the base stays or is what *)
(* the message showed, and the wish is dropped only at its base and before *)
(* it was handed out.  A request to reconcile that is not about a missing  *)
(* locator stays.                                                          *)
Edits(m, b, r, v) ==
    LET o    == Opened(m)
        base == IF b \in o.changed THEN o.base[b] ELSE mail[m].value[b]
    IN /\ ~o.deleting => ~r.deleting
       /\ r.changed \subseteq Aspects
       /\ \A a \in Aspects \ {b} : /\ a \in r.changed <=> a \in o.changed
                                   /\ r.base[a] = o.base[a]
                                   /\ r.want[a] = o.want[a]
       /\ \/ b \in r.changed /\ r.base[b] = base /\ r.want[b] = v
          \/ b \notin r.changed /\ v = base /\ b \notin o.dispatched
       /\ o.reconcile /\ o.error # "missing_locator"
            => r.reconcile /\ r.error # "missing_locator"

LEMMA OpenedFields ==
  ASSUME SafetyInv, NEW m \in Messages, mail[m].alive
  PROVE  LET o == Opened(m)
         IN /\ ~o.deleting
            /\ o.dispatched \subseteq o.changed
            /\ o.changed \subseteq Aspects
            /\ \A a \in o.changed : o.want[a] = mail[m].value[a]
            /\ \A a \in Aspects :
                  known[m][a] = IF a \in o.changed THEN o.base[a] ELSE mail[m].value[a]
            /\ \A a \in Aspects : \/ a \in o.dispatched
                                  \/ <<m, a>> \in outside
                                  \/ server[m].value[a] = known[m][a]
            /\ m \in doubt => o.reconcile /\ o.error # "missing_locator"
            /\ Present(m) => o = intent[m]
            /\ ~Present(m) => o.id = lastId + 1 /\ o.state = "ready"
<1>1. Live(m) /\ RowSound(m) /\ intent[m] \in Intent
  BY DEF SafetyInv, MessageSafe, TypeInv, TypeOK, JournalTypeOK
<1>2. CASE Present(m)
  BY <1>1, <1>2 DEF Opened, Live, Intent
<1>3. CASE ~Present(m)
  <2>1. intent[m] = NoIntent /\ Opened(m) = [NoIntent EXCEPT !.id = lastId + 1,
                                                             !.state = "ready"]
    BY <1>1, <1>3 DEF RowSound, Present, Opened
  <2>2. /\ intent[m].changed = {} /\ ~intent[m].reconcile /\ intent[m].dispatched = {}
    BY <2>1 DEF NoIntent
  <2>3. /\ ~Opened(m).deleting /\ Opened(m).dispatched = {} /\ Opened(m).changed = {}
        /\ Opened(m).id = lastId + 1 /\ Opened(m).state = "ready"
    BY <2>1 DEF NoIntent
  <2>4. m \notin doubt
    BY <1>1, <2>2 DEF Live
  <2>5. \A a \in Aspects : /\ known[m][a] = mail[m].value[a]
                           /\ \/ <<m, a>> \in outside
                              \/ server[m].value[a] = known[m][a]
    BY <1>1, <2>2 DEF Live
  <2> QED
    BY <1>3, <2>3, <2>4, <2>5
<1> QED
  BY <1>2, <1>3

LEMMA EditSafe ==
  ASSUME SafetyInv, NEW m \in Messages, mail[m].alive, CanOpen(m),
         NEW r, Folds(m, r), Store(m, r), NEW b \in Aspects, NEW v, Edits(m, b, r, v),
         mail'[m].alive,
         \A a \in Aspects : mail'[m].value[a] = IF a = b THEN v ELSE mail[m].value[a],
         \A n \in Messages \ {m} : mail'[n] = mail[n],
         UNCHANGED workVars
  PROVE  /\ \A n \in Messages : MessageSafe(n)'
         /\ OneLease' /\ ClaimsDiffer'
<1> DEFINE o == Opened(m)
           s == IF IsEmpty(r) THEN NoIntent ELSE r
<1>1. /\ intent \in [Messages -> Intent] /\ lastId \in Int /\ TypeInv
      /\ \A c \in held : c \in Claim /\ (c.msg = m => Leases(c) /\ Given(c))
      /\ RowSound(m) /\ Live(m)
  BY DEF SafetyInv, TypeInv, TypeOK, JournalTypeOK, MessageSafe
<1>2. /\ ~o.deleting
      /\ o.dispatched \subseteq o.changed
      /\ o.changed \subseteq Aspects
      /\ \A a \in o.changed : o.want[a] = mail[m].value[a]
      /\ \A a \in Aspects :
            known[m][a] = IF a \in o.changed THEN o.base[a] ELSE mail[m].value[a]
      /\ \A a \in Aspects : \/ a \in o.dispatched
                            \/ <<m, a>> \in outside
                            \/ server[m].value[a] = known[m][a]
      /\ m \in doubt => o.reconcile /\ o.error # "missing_locator"
      /\ Present(m) => o = intent[m]
      /\ ~Present(m) => o.id = lastId + 1 /\ o.state = "ready"
  BY OpenedFields
<1>3. /\ intent' = [intent EXCEPT ![m] = s]
      /\ lastId <= lastId' /\ lastId' \in Int
      /\ ~Present(m) => lastId' = lastId + 1
  BY <1>1 DEF Store
<1>4. /\ held' = held /\ server' = server /\ outside' = outside /\ known' = known
      /\ doubt' = doubt
  BY DEF workVars
<1>5. intent'[m] = s
  BY <1>1, <1>3
<1> HIDE DEF o
<1>6. /\ r.id = o.id /\ r.version = o.version + 1 /\ r.leased = o.leased
      /\ r.epoch = o.epoch /\ r.dispatched = o.dispatched
      /\ r.state = "in_flight" <=> o.state = "in_flight"
      /\ r.state # "absent"
  BY DEF Folds, o
<1>7. /\ ~r.deleting
      /\ r.changed \subseteq Aspects
      /\ \A a \in Aspects \ {b} : /\ a \in r.changed <=> a \in o.changed
                                  /\ r.base[a] = o.base[a]
                                  /\ r.want[a] = o.want[a]
      /\ LET base == IF b \in o.changed THEN o.base[b] ELSE mail[m].value[b]
         IN \/ b \in r.changed /\ r.base[b] = base /\ r.want[b] = v
            \/ b \notin r.changed /\ v = base /\ b \notin o.dispatched
      /\ o.reconcile /\ o.error # "missing_locator"
           => r.reconcile /\ r.error # "missing_locator"
  BY <1>2 DEF Edits, o
<1>8. known[m][b] = IF b \in o.changed THEN o.base[b] ELSE mail[m].value[b]
  BY <1>2
<1>9. /\ r.dispatched \subseteq r.changed
      /\ \A a \in r.changed : r.want[a] = mail'[m].value[a]
      /\ \A a \in Aspects :
            known[m][a] = IF a \in r.changed THEN r.base[a] ELSE mail'[m].value[a]
  <2>1. r.dispatched \subseteq r.changed
    BY <1>2, <1>6, <1>7
  <2>2. \A a \in r.changed : r.want[a] = mail'[m].value[a]
    BY <1>2, <1>7
  <2>3. \A a \in Aspects :
           known[m][a] = IF a \in r.changed THEN r.base[a] ELSE mail'[m].value[a]
    BY <1>2, <1>7, <1>8
  <2> QED
    BY <2>1, <2>2, <2>3
<1>10. /\ s.changed = r.changed /\ s.dispatched = r.dispatched /\ ~s.deleting
       /\ s.changed # {} => s = r
       /\ m \in doubt => s = r
       /\ s.state # "absent" => s = r
       /\ s = r \/ s = NoIntent
  <2>1. CASE IsEmpty(r)
    <3>1. r.changed = {} /\ r.dispatched = {} /\ ~r.reconcile
      BY <1>9, <2>1 DEF IsEmpty
    <3>2. m \notin doubt
      BY <1>2, <1>7, <3>1
    <3> QED
      BY <2>1, <3>1, <3>2 DEF NoIntent
  <2>2. CASE ~IsEmpty(r)
    BY <1>7, <2>2
  <2> QED
    BY <2>1, <2>2
<1> HIDE DEF s
<1>11. Live(m)'
  <2>1. \A a \in s.changed : s.want[a] = mail'[m].value[a]
    BY <1>9, <1>10
  <2>2. \A a \in Aspects :
           known[m][a] = IF a \in s.changed THEN s.base[a] ELSE mail'[m].value[a]
    BY <1>9, <1>10
  <2>3. \A a \in Aspects : \/ a \in s.dispatched
                           \/ <<m, a>> \in outside
                           \/ server[m].value[a] = known[m][a]
    BY <1>2, <1>6, <1>10
  <2>4. m \in doubt => s.reconcile /\ s.error # "missing_locator"
    BY <1>2, <1>7, <1>10
  <2> QED
    BY <1>4, <1>5, <1>9, <1>10, <2>1, <2>2, <2>3, <2>4 DEF Live
<1>12. Dead(m)'
  BY DEF Dead
<1>13. ASSUME NEW c \in held, c.msg = m
       PROVE  Leases(c)' /\ Given(c)'
  <2>1. Leases(c) /\ Given(c) /\ c \in Claim
    BY <1>1, <1>13
  <2>2. CASE s = r /\ Present(m)
    <3>1. o = intent[m]
      BY <1>2, <2>2
    <3>2. HoldsLease(c)' => HoldsLease(c)
      BY <1>5, <1>6, <1>13, <2>2, <3>1 DEF HoldsLease
    <3>3. HoldsLease(c)' => s.version > c.version
      BY <1>1, <1>5, <1>6, <1>13, <2>1, <2>2, <3>1, <3>2 DEF HoldsLease, RowSound, Claim
    <3>4. Leases(c)'
      BY <1>2, <1>4, <1>5, <1>6, <1>13, <2>1, <2>2, <3>1, <3>2, <3>3 DEF Leases
    <3>5. Given(c)'
      BY <1>1, <1>3, <1>5, <1>6, <1>13, <2>1, <2>2, <3>1 DEF Given, Claim
    <3> QED
      BY <3>4, <3>5
  <2>3. CASE s = r /\ ~Present(m)
    <3>1. ~HoldsLease(c)'
      BY <1>2, <1>5, <1>6, <1>13, <2>3 DEF HoldsLease
    <3>2. Given(c)'
      BY <1>1, <1>2, <1>3, <1>5, <1>6, <1>13, <2>1, <2>3 DEF Given, Claim
    <3> QED
      BY <3>1, <3>2 DEF Leases
  <2>4. CASE s = NoIntent
    <3>1. ~HoldsLease(c)'
      BY <1>5, <1>13, <2>4 DEF HoldsLease, NoIntent
    <3>2. Given(c)'
      BY <1>1, <1>3, <1>5, <1>13, <2>1, <2>4 DEF Given, Claim, NoIntent
    <3> QED
      BY <3>1, <3>2 DEF Leases
  <2> QED
    BY <1>10, <2>2, <2>3, <2>4
<1>14. MessageSafe(m)'
  BY <1>4, <1>11, <1>12, <1>13 DEF MessageSafe
<1>15. \A n \in Messages \ {m} : MessageSafe(n)'
  BY <1>3, <1>4, OthersRest
<1>16. OneLease' /\ ClaimsDiffer'
  <2>1. intent'[m].state = "in_flight" => intent[m].state = "in_flight"
    BY <1>2, <1>5, <1>6, <1>10
  <2>2. \A n \in Messages : intent'[n].state = "in_flight" => intent[n].state = "in_flight"
    BY <1>1, <1>3, <2>1
  <2> QED
    BY <1>4, <2>2, LeasesOnlyEnd
<1> QED
  BY <1>14, <1>15, <1>16

LEMMA FlagEdits ==
  ASSUME SafetyInv, NEW m \in Messages, NEW f \in Flags, CanOpen(m)
  PROVE  Edits(m, f, FlagIntent(m, f), Toggled(mail[m].value[f]))
<1> DEFINE r         == Opened(m)
           before    == mail[m].value[f]
           base      == IF f \in r.changed THEN r.base[f] ELSE before
           want      == Toggled(before)
           cancel    == base = want /\ f \notin r.dispatched
           changed   == IF cancel THEN r.changed \ {f} ELSE r.changed \cup {f}
           sources   == r.sources \cup mail[m].locs
           missing   == IsImap(m) /\ sources = {}
           automatic == r.error = "missing_locator"
           request   == \/ r.reconcile /\ ~automatic
                        \/ changed # {} /\ (automatic \/ missing)
           mark      == request /\ ~r.reconcile /\ r.error = "none" /\ missing
           b         == IF cancel THEN {} ELSE base
           w         == IF cancel THEN {} ELSE want
           state     == IF request /\ r.state # "in_flight" THEN "reconcile" ELSE r.state
           error     == IF mark THEN "missing_locator" ELSE r.error
           due       == IF r.due < 0 THEN 0 ELSE r.due
<1>1. r \in Intent /\ f \in Aspects
  BY OpenedTyped DEF SafetyInv, Aspects
<1>2. FlagIntent(m, f) = [r EXCEPT !.version = @ + 1, !.changed = changed,
                                   !.base[f] = b, !.want[f] = w,
                                   !.reconcile = request, !.state = state,
                                   !.sources = sources, !.error = error, !.due = due]
  BY <1>1 DEF FlagIntent, Intent
<1>3. r.reconcile /\ r.error # "missing_locator" => request /\ error # "missing_locator"
  OBVIOUS
<1>4. changed \subseteq Aspects /\ \A a \in Aspects \ {f} : a \in changed <=> a \in r.changed
  BY <1>1 DEF Intent
<1>5. \/ f \in changed /\ b = base /\ w = want
      \/ f \notin changed /\ want = base /\ f \notin r.dispatched
  OBVIOUS
<1> HIDE DEF changed, sources, missing, automatic, request, mark, cancel, b, w, state,
             error, due
<1>6. /\ FlagIntent(m, f).changed = changed
      /\ FlagIntent(m, f).base = [r.base EXCEPT ![f] = b]
      /\ FlagIntent(m, f).want = [r.want EXCEPT ![f] = w]
      /\ FlagIntent(m, f).reconcile = request
      /\ FlagIntent(m, f).error = error
      /\ FlagIntent(m, f).deleting = r.deleting
  BY <1>1, <1>2 DEF Intent
<1>7. r.base \in [Aspects -> Value] /\ r.want \in [Aspects -> Value]
  BY <1>1 DEF Intent
<1> QED
  BY <1>1, <1>3, <1>4, <1>5, <1>6, <1>7 DEF Edits

LEMMA PlacementEdits ==
  ASSUME SafetyInv, NEW m \in Messages, NEW to \in SUBSET Folders, NEW eligible \in Int,
         CanOpen(m)
  PROVE  Edits(m, Placement, PlacementIntent(m, to, eligible), to)
<1> DEFINE r         == Opened(m)
           base      == IF Placement \in r.changed THEN r.base[Placement]
                        ELSE mail[m].value[Placement]
           sources   == r.sources \cup mail[m].locs
           missing   == IsImap(m) /\ sources = {}
           request   == r.reconcile \/ missing
           mark      == missing /\ ~r.reconcile /\ r.error = "none"
           error     == IF mark THEN "missing_locator" ELSE r.error
           cancel    == to = base /\ Placement \notin r.dispatched
           others    == r.changed \ {Placement}
           lapse     == cancel /\ others = {} /\ error = "missing_locator"
           changed   == IF cancel THEN others ELSE others \cup {Placement}
           b         == IF cancel THEN {} ELSE base
           w         == IF cancel THEN {} ELSE to
           reconcile == request /\ ~lapse
           state     == IF request /\ r.state # "in_flight" THEN "reconcile" ELSE r.state
           due       == IF r.due < eligible THEN eligible ELSE r.due
           x         == [r.base EXCEPT ![Placement] = b]
           y         == [r.want EXCEPT ![Placement] = w]
           v         == r.version + 1
<1>1. r \in Intent /\ Placement \in Aspects
  BY OpenedTyped DEF SafetyInv, Aspects
<1>2. PlacementIntent(m, to, eligible) =
        [r EXCEPT !.version = v, !.changed = changed, !.base = x, !.want = y,
                  !.reconcile = reconcile, !.state = state, !.sources = sources,
                  !.error = error, !.due = due]
  BY <1>1 DEF PlacementIntent, Intent
<1>3. r.reconcile /\ r.error # "missing_locator" => reconcile /\ error # "missing_locator"
  OBVIOUS
<1>4. /\ changed \subseteq Aspects
      /\ \A a \in Aspects \ {Placement} : a \in changed <=> a \in r.changed
  BY <1>1 DEF Intent
<1>5. \/ Placement \in changed /\ b = base /\ w = to
      \/ Placement \notin changed /\ to = base /\ Placement \notin r.dispatched
  OBVIOUS
<1>6. /\ r.base \in [Aspects -> Value] /\ r.want \in [Aspects -> Value]
      /\ x[Placement] = b /\ y[Placement] = w
      /\ \A a \in Aspects \ {Placement} : x[a] = r.base[a] /\ y[a] = r.want[a]
  BY <1>1 DEF Intent
<1> HIDE DEF changed, sources, missing, request, mark, cancel, others, lapse, reconcile, b,
             w, state, error, due, x, y, v
<1>7. /\ PlacementIntent(m, to, eligible).changed = changed
      /\ PlacementIntent(m, to, eligible).base = x
      /\ PlacementIntent(m, to, eligible).want = y
      /\ PlacementIntent(m, to, eligible).reconcile = reconcile
      /\ PlacementIntent(m, to, eligible).error = error
      /\ PlacementIntent(m, to, eligible).deleting = r.deleting
  BY <1>1, <1>2 DEF Intent
<1> QED
  BY <1>1, <1>3, <1>4, <1>5, <1>6, <1>7 DEF Edits

LEMMA SetFlagSafe ==
  ASSUME SafetyInv, NEW m \in Messages, NEW f \in Flags, SetFlag(m, f), UNCHANGED workVars
  PROVE  SafetyInv'
<1>1. /\ TypeInv /\ mail[m].alive /\ CanOpen(m) /\ Store(m, FlagIntent(m, f))
      /\ mail \in [Messages -> Mail] /\ mail[m] \in Mail /\ f \in Aspects
  BY DEF SetFlag, SafetyInv, TypeInv, TypeOK, JournalTypeOK, Aspects
<1>2. mail' = [mail EXCEPT ![m].value[f] = Toggled(mail[m].value[f])]
  BY DEF SetFlag
<1>3. mail'[m] = [mail[m] EXCEPT !.value[f] = Toggled(mail[m].value[f])]
  BY <1>1, <1>2
<1>4. /\ mail'[m].alive
      /\ \A a \in Aspects : mail'[m].value[a] = IF a = f THEN Toggled(mail[m].value[f])
                                                ELSE mail[m].value[a]
  BY <1>1, <1>3 DEF Mail
<1>5. \A n \in Messages \ {m} : mail'[n] = mail[n]
  BY <1>1, <1>2
<1>6. Folds(m, FlagIntent(m, f)) /\ Edits(m, f, FlagIntent(m, f), Toggled(mail[m].value[f]))
  BY <1>1, FlagFolds, FlagEdits
<1>7. /\ \A n \in Messages : MessageSafe(n)'
      /\ OneLease' /\ ClaimsDiffer'
  BY <1>1, <1>4, <1>5, <1>6, EditSafe
<1> QED
  BY <1>1, <1>7, SetFlagTyped DEF SafetyInv

LEMMA MoveSafe ==
  ASSUME SafetyInv, NEW m \in Messages, mail[m].alive, NEW left \in SUBSET Folders,
         NEW entered \in SUBSET Folders, NEW eligible \in Int,
         Move(m, left, entered, eligible), UNCHANGED workVars, undo' \in Undo
  PROVE  SafetyInv'
<1> DEFINE to == (mail[m].value[Placement] \ left) \cup entered
           row == PlacementIntent(m, to, eligible)
<1>1. /\ TypeInv /\ CanOpen(m) /\ Store(m, row)
      /\ mail \in [Messages -> Mail] /\ mail[m] \in Mail /\ Placement \in Aspects
  BY DEF Move, SafetyInv, TypeInv, TypeOK, JournalTypeOK, Aspects
<1>2. mail' = [mail EXCEPT ![m].value[Placement] = to, ![m].locs = mail[m].locs \ left]
  BY DEF Move
<1>3. to \in SUBSET Folders
  BY <1>1 DEF TypeInv, PlacesSound
<1> HIDE DEF to
<1>4. mail'[m] = [mail[m] EXCEPT !.value[Placement] = to, !.locs = mail[m].locs \ left]
  BY <1>1, <1>2
<1>5. /\ mail'[m].alive
      /\ \A a \in Aspects : mail'[m].value[a] = IF a = Placement THEN to
                                                ELSE mail[m].value[a]
  BY <1>1, <1>4 DEF Mail
<1>6. \A n \in Messages \ {m} : mail'[n] = mail[n]
  BY <1>1, <1>2
<1>7. Folds(m, row) /\ Edits(m, Placement, row, to)
  BY <1>1, <1>3, PlacementFolds, PlacementEdits
<1> HIDE DEF row
<1>8. /\ \A n \in Messages : MessageSafe(n)'
      /\ OneLease' /\ ClaimsDiffer'
  BY <1>1, <1>5, <1>6, <1>7, EditSafe
<1> QED
  BY <1>1, <1>8, MoveTyped DEF SafetyInv

LEMMA DeleteSafe ==
  ASSUME SafetyInv, NEW m \in Messages, DeletePermanently(m), UNCHANGED workVars
  PROVE  SafetyInv'
<1> DEFINE o == Opened(m)
           r == TerminalIntent(m)
<1>1. /\ TypeInv /\ mail[m].alive /\ CanOpen(m) /\ Store(m, r)
      /\ mail \in [Messages -> Mail] /\ intent \in [Messages -> Intent] /\ lastId \in Int
      /\ \A c \in held : c \in Claim /\ (c.msg = m => Leases(c) /\ Given(c))
      /\ Live(m)
  BY DEF DeletePermanently, SafetyInv, MessageSafe, TypeInv, TypeOK, JournalTypeOK
<1>2. Folds(m, r)
  BY <1>1, TerminalFolds
<1>3. o \in Intent /\ (Present(m) => o = intent[m])
      /\ (~Present(m) => o.id = lastId + 1 /\ o.state = "ready")
  BY <1>1, OpenedTyped, OpenedFields
<1>4. r.deleting /\ r.changed = {}
  BY <1>3 DEF TerminalIntent, Intent
<1>5. /\ r.id = o.id /\ r.version = o.version + 1 /\ r.leased = o.leased
      /\ r.epoch = o.epoch /\ r.dispatched = o.dispatched
      /\ r.state = "in_flight" <=> o.state = "in_flight"
      /\ r.state # "absent"
  BY <1>2 DEF Folds
<1> HIDE DEF o, r
<1>6. /\ intent' = [intent EXCEPT ![m] = r]
      /\ lastId <= lastId' /\ lastId' \in Int
      /\ ~Present(m) => lastId' = lastId + 1
  BY <1>1, <1>4 DEF Store, IsEmpty
<1>7. /\ held' = held /\ server' = server /\ outside' = outside /\ known' = known
      /\ doubt' = doubt
  BY DEF workVars
<1>8. intent'[m] = r
  BY <1>1, <1>6
<1>9. /\ mail'[m] = [alive |-> FALSE, value |-> Blank, locs |-> {}]
      /\ \A n \in Messages \ {m} : mail'[n] = mail[n]
  BY <1>1 DEF DeletePermanently
<1>10. ~mail'[m].alive /\ mail'[m].value[Placement] = {}
  BY <1>9 DEF Blank, Aspects
<1>11. Live(m)' /\ Dead(m)'
  BY <1>4, <1>5, <1>8, <1>10 DEF Live, Dead
<1>12. ASSUME NEW c \in held, c.msg = m
       PROVE  Leases(c)' /\ Given(c)'
  <2>1. Leases(c) /\ Given(c) /\ c \in Claim
    BY <1>1, <1>12
  <2>2. CASE Present(m)
    <3>1. o = intent[m]
      BY <1>3, <2>2
    <3>2. HoldsLease(c)' => HoldsLease(c)
      BY <1>5, <1>8, <1>12, <3>1 DEF HoldsLease
    <3>3. HoldsLease(c)' => ~c.deleting
      BY <1>1, <1>12, <2>1, <3>2 DEF Leases, Live
    <3>4. Leases(c)'
      BY <1>5, <1>7, <1>8, <1>10, <1>12, <2>1, <3>1, <3>2, <3>3 DEF Leases
    <3>5. Given(c)'
      BY <1>1, <1>5, <1>6, <1>8, <1>12, <2>1, <3>1 DEF Given, Claim
    <3> QED
      BY <3>4, <3>5
  <2>3. CASE ~Present(m)
    <3>1. ~HoldsLease(c)'
      BY <1>3, <1>5, <1>8, <1>12, <2>3 DEF HoldsLease
    <3>2. Given(c)'
      BY <1>1, <1>3, <1>5, <1>6, <1>8, <1>12, <2>1, <2>3 DEF Given, Claim
    <3> QED
      BY <3>1, <3>2 DEF Leases
  <2> QED
    BY <2>2, <2>3
<1>13. MessageSafe(m)'
  BY <1>7, <1>11, <1>12 DEF MessageSafe
<1>14. \A n \in Messages \ {m} : MessageSafe(n)'
  BY <1>6, <1>7, <1>9, OthersRest
<1>15. OneLease' /\ ClaimsDiffer'
  <2>1. intent'[m].state = "in_flight" => intent[m].state = "in_flight"
    BY <1>3, <1>5, <1>8
  <2>2. \A n \in Messages : intent'[n].state = "in_flight" => intent[n].state = "in_flight"
    BY <1>1, <1>6, <2>1
  <2> QED
    BY <1>7, <2>2, LeasesOnlyEnd
<1> QED
  BY <1>1, <1>13, <1>14, <1>15, DeleteTyped DEF SafetyInv

LEMMA UserSafe ==
  ASSUME SafetyInv, NEW m \in Messages, Edit(m), UNCHANGED workVars
  PROVE  SafetyInv'
<1>1. TypeInv /\ Dead(m) /\ undo \in Undo
  BY DEF SafetyInv, MessageSafe, TypeInv, TypeOK, JournalTypeOK
<1>2. ASSUME NEW f \in Flags, SetFlag(m, f)
      PROVE  SafetyInv'
  BY <1>2, SetFlagSafe
<1>3. CASE MoveToArchive(m)
  <2>1. undo' \in Undo
    BY <1>1, <1>3 DEF MoveToArchive
  <2> QED
    BY <1>3, <2>1, MoveSafe, MailboxAssumption DEF MoveToArchive
<1>4. CASE MoveToTrash(m)
  <2>1. undo' \in Undo
    BY <1>1, <1>4, JournalLimitsAssumption DEF MoveToTrash, Undo, TypeInv, PlacesSound
  <2> QED
    BY <1>4, <2>1, MoveSafe, MailboxAssumption, JournalLimitsAssumption
    DEF MoveToTrash
<1>5. CASE UndoTrash(m)
  <2>1. undo' \in Undo /\ undo.folders \in SUBSET Folders
    BY <1>1, <1>5 DEF UndoTrash, Undo, NoUndo
  <2>2. mail[m].alive
    BY <1>1, <1>5 DEF UndoTrash, Dead
  <2> QED
    BY <1>5, <2>1, <2>2, MoveSafe DEF UndoTrash
<1>6. CASE DeletePermanently(m)
  BY <1>6, DeleteSafe
<1> QED
  BY <1>2, <1>3, <1>4, <1>5, <1>6 DEF Edit

LEMMA ReportsSafe ==
  ASSUME SafetyInv, NEW c \in held, Reports(c)
  PROVE  SafetyInv'
<1>1. TypeInv
  BY DEF SafetyInv
<1>2. ASSUME NEW found \in Checkpoints(c),
             ReportConfirmed(c, found) \/ ReportSatisfied(c, found)
      PROVE  SafetyInv'
  BY <1>1, <1>2, FoundTyped, AcknowledgeSafe DEF ReportConfirmed, ReportSatisfied
<1>3. ASSUME NEW found \in Checkpoints(c), ReportProgress(c, found)
      PROVE  SafetyInv'
  BY <1>1, <1>3, FoundTyped, ProgressSafe
<1> QED
  BY <1>2, <1>3, FailuresSafe DEF Reports

(* Nothing of the journal's concern changes.                               *)
LEMMA IdleSafe ==
  ASSUME SafetyInv, TypeInv',
         UNCHANGED <<mail, intent, lastId, held, server, outside, known, doubt>>
  PROVE  SafetyInv'
<1>1. lastId \in Int
  BY DEF SafetyInv, TypeInv, TypeOK, JournalTypeOK
<1>2. \A n \in Messages : Rests(n)
  BY <1>1, SameRowRests DEF Rests
<1>3. OneLease' /\ ClaimsDiffer'
  BY LeasesOnlyEnd
<1> QED
  BY <1>2, <1>3, RestsKeeps DEF SafetyInv

LEMMA NextSafe ==
  ASSUME SafetyInv, [Next]_vars
  PROVE  SafetyInv'
<1>1. TypeInv'
  BY NextTyped DEF SafetyInv
<1>2. CASE User
  <2>1. CASE UndoExpired /\ UNCHANGED workVars
    BY <1>1, <2>1, IdleSafe DEF UndoExpired, workVars
  <2> QED
    BY <1>2, <2>1, UserSafe DEF User
<1>3. CASE Claims
  BY <1>3, RecoverSafe, ClaimRemoteSafe, ClaimIdleSafe DEF Claims
<1>4. ASSUME NEW c \in held, Reports(c) \/ ServerWrite(c) \/ Forget(c)
      PROVE  SafetyInv'
  BY <1>4, ReportsSafe, ServerSafe
<1>5. CASE Outside
  BY <1>5, OutsideSafe DEF Outside
<1>6. CASE Tick
  BY <1>6, TickSafe
<1>7. CASE UNCHANGED vars
  BY <1>1, <1>7, IdleSafe DEF vars
<1> QED
  BY <1>2, <1>3, <1>4, <1>5, <1>6, <1>7 DEF Next

-----------------------------------------------------------------------------

(* The inductive invariant holds throughout: for any number of messages,   *)
(* accounts and folders, whatever edits, claims, expiries, reports and     *)
(* other clients do, and in whatever order.                                *)
THEOREM SafetyInvariant == Spec => []SafetyInv
<1>1. Init => SafetyInv
  BY InitSafe
<1>2. SafetyInv /\ [Next]_vars => SafetyInv'
  BY NextSafe
<1> QED
  BY <1>1, <1>2, PTL DEF Spec

(* The user's edits are kept: folding an edit into an intent, dropping a   *)
(* reversed one, rebasing what a report leaves over and recovering a lost  *)
(* lease never lose a wish, its base or a write that may have happened.    *)
THEOREM NoEditIsLost == Spec => []EditsAreKept
<1>1. ASSUME SafetyInv
      PROVE  EditsAreKept
  <2>1. TypeOK /\ \A m \in Messages : Live(m) /\ intent[m] \in Intent
    BY <1>1 DEF SafetyInv, MessageSafe, TypeInv, TypeOK, JournalTypeOK
  <2>2. BaseIsLastKnown
    BY <2>1 DEF Live, BaseIsLastKnown, Wants
  <2>3. WishIsRecorded
    BY <2>1 DEF Live, WishIsRecorded
  <2>4. NothingForgotten
    BY <2>1 DEF Live, NothingForgotten, Wants
  <2> QED
    BY <2>1, <2>2, <2>3, <2>4 DEF EditsAreKept
<1>2. SafetyInv => EditsAreKept
  BY <1>1
<1> QED
  BY <1>2, SafetyInvariant, PTL

(* A deletion for good is on record until the server has no such message:  *)
(* the report of an older claim, a lost lease or a refusal never ends it.  *)
THEOREM DeletionIsKept == Spec => []DeletionSticks
<1>1. SafetyInv => DeletionSticks
  BY DEF SafetyInv, MessageSafe, Dead, DeletionSticks, Present
<1> QED
  BY <1>1, SafetyInvariant, PTL

(* No report under a lease conflicts with the row: whatever was edited     *)
(* since the claim, acknowledge_flag, acknowledge_placement and            *)
(* acknowledge_delete find the bases they expect.                          *)
THEOREM ReportsAreAccepted == Spec => []AcksAreAccepted
<1>1. ASSUME SafetyInv, NEW c \in held, HoldsLease(c)
      PROVE  ~AckConflict(c)
  <2> DEFINE m == c.msg
             r == intent[m]
  <2>1. /\ Live(m) /\ Dead(m) /\ Leases(c) /\ c \in Claim /\ r \in Intent
    BY <1>1 DEF SafetyInv, MessageSafe, TypeInv, TypeOK, JournalTypeOK, Claim
  <2>2. CASE c.deleting
    BY <1>1, <2>1, <2>2 DEF AckConflict, Leases
  <2>3. CASE ~c.deleting /\ r.deleting
    BY <2>3 DEF AckConflict
  <2>4. CASE ~c.deleting /\ ~r.deleting
    <3>1. mail[m].alive
      BY <1>1, <2>1, <2>4 DEF Dead, HoldsLease
    <3>2. ASSUME NEW a \in c.changed
          PROVE  ~(IF a \in r.changed THEN r.base[a] # c.base[a]
                   ELSE c.mode # "reconcile" \/ r.version <= c.version)
      <4>1. /\ c.base[a] = known[m][a] /\ a \in Aspects
            /\ a \in r.changed \/ r.version > c.version
        BY <1>1, <2>1, <3>1, <3>2 DEF Leases, Claim
      <4>2. CASE a \in r.changed
        BY <2>1, <3>1, <4>1, <4>2 DEF Live
      <4>3. CASE a \notin r.changed
        <5>1. a \notin r.dispatched
          BY <2>1, <3>1, <4>3 DEF Live
        <5>2. c.mode = "reconcile"
          BY <1>1, <2>1, <5>1, <3>2 DEF Leases, Claim, Modes
        <5>3. r.version \in Int /\ c.version \in Int
          BY <2>1 DEF Intent, Claim
        <5> QED
          BY <4>1, <4>3, <5>2, <5>3
      <4> QED
        BY <4>2, <4>3
    <3> QED
      BY <2>4, <3>2 DEF AckConflict
  <2> QED
    BY <2>2, <2>3, <2>4
<1>2. SafetyInv => AcksAreAccepted
  BY <1>1 DEF AcksAreAccepted
<1> QED
  BY <1>2, SafetyInvariant, PTL

(* At most one claim can be reported, over all messages and accounts,      *)
(* however many the provider remembers.                                    *)
THEOREM OneWriter == Spec => []SingleWriter
<1>1. ASSUME SafetyInv, NEW c \in held, NEW d \in held, HoldsLease(c), HoldsLease(d)
      PROVE  c = d
  <2>1. c.msg \in Messages /\ d.msg \in Messages
    BY <1>1 DEF SafetyInv, TypeInv, TypeOK, Claim
  <2>2. c.msg = d.msg
    BY <1>1, <2>1 DEF SafetyInv, OneLease, HoldsLease
  <2> QED
    BY <1>1, <2>2 DEF SafetyInv, ClaimsDiffer, HoldsLease
<1>2. SafetyInv => SingleWriter
  BY <1>1 DEF SingleWriter
<1> QED
  BY <1>2, SafetyInvariant, PTL

(* A move on an IMAP server that may or may not have happened is not       *)
(* handed out again as a write before a report vouched for the server.     *)
THEOREM DoubtIsSettled == Spec => []DoubtfulMoveIsReconciled
<1>1. SafetyInv => DoubtfulMoveIsReconciled
  BY DEF SafetyInv, MessageSafe, TypeInv, TypeOK, Claim, Leases, DoubtfulMoveIsReconciled
<1> QED
  BY <1>1, SafetyInvariant, PTL
=============================================================================
