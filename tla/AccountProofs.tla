---------------------------- MODULE AccountProofs ----------------------------
(***************************************************************************)
(* What AccountWorkflows promises about secrets and answers, for any set   *)
(* of accounts, locators and secrets and any bound.                        *)
(*                                                                         *)
(* The argument: a secret is written to the keyring only for a request     *)
(* whose locator an active row already names, and no second request that   *)
(* changes the keyring is ever behind it.  So the row the task works on    *)
(* stays as the task saw it (TaskInv), and what waits in the queue is the  *)
(* task's own request or, after a shutdown, the last one (QueueInv).       *)
(***************************************************************************)
EXTENDS AccountWorkflows, TLAPS, FiniteSetTheorems, SequenceTheorems,
        WellFoundedInduction

(* The rows: no two have one locator, a removal deletes a secret only of a *)
(* row with a connection, and the accounts to synchronise have one.        *)
RowsInv ==
    /\ rows \in [Ids -> Row \cup {Absent}]
    /\ \A a, b \in Existing : Configured(a) /\ rows[a].key = rows[b].key => a = b
    /\ \A a \in Existing : rows[a].state = "removing_credentials" => Configured(a)
    /\ \A t \in targets : Exists(t[1]) => Configured(t[1])

(* The task's fence is the row's, and so is its locator.                   *)
OwnsRow == Fenced(task.id, task.gen) /\ task.key = rows[task.id].key

(* What a stage knows of the row it works on.                              *)
TaskInv ==
    /\ task.stage = "idle" => task = Idle
    /\ task.stage \notin {"idle", "persist"} => task.id \in Ids
    /\ task.stage = "persist" =>
          task.key \in Locators /\ \A a \in Existing : rows[a].key # task.key
    /\ task.stage \in {"begin_diagnostic", "load_secret", "background"} =>
          task.key \in Locators
    /\ task.stage \in {"begin_removal", "store", "delete", "confirm", "purge"} =>
          OwnsRow
    /\ task.stage = "store" =>
          /\ rows[task.id].state = "active" /\ task.key \in Locators
          /\ task.reply = "done" => keyring[task.key] = task.secret
    /\ task.stage \in {"delete", "confirm"} =>
          rows[task.id].state = "removing_credentials"
    /\ task.stage = "confirm" \/ (task.stage = "delete" /\ task.reply = "done") =>
          keyring[task.key] = NoSecret
    /\ task.stage = "purge" => rows[task.id].state = "removing_cache"

(* A request that changes the keyring or that somebody waits for.          *)
Busy(r) == r.op # "load" \/ r.live

(* Whose request it is: the task's, or that of a task a shutdown dropped.  *)
Explained(r) ==
    \/ /\ r.live /\ task.reply = "none"
       /\ \/ r.op = "load" /\ task.stage \in {"load_secret", "background"}
          \/ /\ r.op = task.stage /\ r.op \in {"store", "delete"}
             /\ r.key = task.key
             /\ r.op = "store" => r.secret = task.secret
    \/ ~r.live /\ phase = "draining" /\ task = Idle

QueueInv ==
    /\ \A i, j \in DOMAIN queue : Busy(queue[i]) /\ Busy(queue[j]) => i = j
    /\ \A i \in DOMAIN queue : Busy(queue[i]) => Explained(queue[i])
    /\ \A i \in DOMAIN queue : queue[i].op = "store" =>
          \E a \in Existing : rows[a].key = queue[i].key /\ rows[a].state = "active"

TicketStage == [delete |-> "removing_credentials", purge |-> "removing_cache"]

(* The recovery works alone, on rows that stay as its scans found them.    *)
RecoveryInv ==
    /\ recovery \in {"scan_credentials", "scan_cache"} => task = Idle
    /\ recovery = "queued" => task.stage \in {"idle", "delete", "confirm", "purge"}
    /\ recovery = "complete" => todo = {}
    /\ \A t \in todo :
          /\ Fenced(t.id, t.gen) /\ rows[t.id].state = TicketStage[t.stage]
          /\ t.id # task.id

DrainInv == phase = "draining" => task.stage \in DatabaseStages \cup {"idle"}

AccountInv ==
    /\ TypeOK /\ RowsInv /\ TaskInv /\ QueueInv /\ RecoveryInv /\ DrainInv
    /\ NoOrphanSecret

-----------------------------------------------------------------------------
(* The id of a new account                                                 *)

(* Max is what it says for a finite set of numbers.                        *)
LEMMA HasLargest ==
  ASSUME NEW S \in SUBSET Nat, IsFiniteSet(S), S # {}
  PROVE  Max(S) \in S /\ \A v \in S : Max(S) >= v
<1> DEFINE from(u) == {v \in S : v >= u}
           family == {from(u) : u \in S}
<1>1. family \subseteq FiniteSubsetsOf(S) /\ family # {}
  <2>1. \A u \in S : from(u) \in SUBSET S /\ IsFiniteSet(from(u))
    BY FS_Subset
  <2> HIDE DEF from
  <2> QED
    BY <2>1 DEF FiniteSubsetsOf
<1>2. PICK X \in family : \A Y \in family : <<Y, X>> \notin StrictSubsetOrdering(S)
  <2>1. IsWellFoundedOn(StrictSubsetOrdering(S), FiniteSubsetsOf(S))
    BY FS_StrictSubsetOrderingWellFounded
  <2> HIDE DEF family
  <2> QED
    BY <1>1, <2>1, WFMin
<1>3. PICK u \in S : X = from(u)
  BY <1>2
<1>4. ASSUME NEW v \in S, v > u
      PROVE  FALSE
  <2>1. u \in Nat /\ v \in Nat /\ ~(u >= v) /\ u >= u
    BY <1>4
  <2>2. ASSUME NEW w \in from(v)
        PROVE  w \in from(u)
    <3>1. w \in S /\ w \in Nat /\ w >= v
      OBVIOUS
    <3>2. w >= u
      BY <1>4, <2>1, <3>1
    <3> QED
      BY <3>1, <3>2
  <2>3. u \in from(u) /\ u \notin from(v)
    BY <2>1
  <2> HIDE DEF from
  <2>4. <<from(v), X>> \in StrictSubsetOrdering(S)
    <3>1. from(v) \subseteq X /\ from(v) # X
      BY <1>3, <2>2, <2>3
    <3>2. X \subseteq S
      BY <1>3 DEF from
    <3> QED
      BY <3>1, <3>2 DEF StrictSubsetOrdering
  <2> QED
    BY <1>2, <2>4
<1>5. ASSUME NEW v \in S
      PROVE  u >= v
  <2>1. u \in Nat /\ v \in Nat
    OBVIOUS
  <2>2. ~(v > u)
    BY <1>4
  <2> QED
    BY <2>1, <2>2
<1> QED
  BY <1>5 DEF Max

(* A new account never takes the row of one that exists.                   *)
LEMMA NewIdIsNew ==
  ASSUME rows \in [Ids -> Row \cup {Absent}]
  PROVE  NewId \notin Existing
<1>1. Existing \in SUBSET Nat /\ IsFiniteSet(Existing)
  BY StoreAssumption, FS_Subset DEF Existing
<1>2. CASE Existing = {}
  BY <1>2
<1>3. CASE Existing # {}
  <2>1. Max(Existing) \in Existing /\ \A v \in Existing : Max(Existing) >= v
    BY <1>1, <1>3, HasLargest
  <2>2. NewId = Max(Existing) + 1 /\ Max(Existing) \in Nat
    BY <1>1, <1>3, <2>1 DEF NewId
  <2> QED
    BY <2>1, <2>2
<1> QED
  BY <1>2, <1>3
-----------------------------------------------------------------------------
(* A step on one row                                                       *)

LEMMA RowIsTyped ==
  ASSUME RowsInv, NEW a \in Existing
  PROVE  a \in Ids /\ rows[a] \in Row
BY DEF RowsInv, Existing, Exists, Absent

(* What a step may make of row a: a locator nobody else has, one if a      *)
(* secret is to be deleted or mail fetched, and the same one as before as  *)
(* long as a secret is stored under it.                                    *)
LEMMA RowChanges ==
  ASSUME AccountInv, NEW a \in Ids, NEW r \in Row \cup {Absent},
         rows' = [rows EXCEPT ![a] = r], UNCHANGED <<keyring, targets>>,
         r.state # "absent" /\ r.key # NoKey =>
             \A b \in Existing : b # a => rows[b].key # r.key,
         r.state = "removing_credentials" => r.key # NoKey,
         r.state # "absent" => \A t \in targets : t[1] = a => r.key # NoKey,
         Exists(a) /\ Configured(a) /\ rows[a].state # "removing_cache"
           /\ keyring[rows[a].key] # NoSecret =>
             /\ r.state \notin {"absent", "removing_cache"}
             /\ r.key = rows[a].key
  PROVE  RowsInv' /\ NoOrphanSecret'
<1>1. rows \in [Ids -> Row \cup {Absent}]
  BY DEF AccountInv, RowsInv
<1>2. rows' \in [Ids -> Row \cup {Absent}] /\ rows'[a] = r
      /\ \A b \in Ids : b # a => rows'[b] = rows[b]
  BY <1>1
<1>3. \A b \in Ids : b # a => (b \in Existing' <=> b \in Existing)
  BY <1>1, <1>2 DEF Existing, Exists
<1>4. a \in Existing' <=> r.state # "absent"
  BY <1>1, <1>2 DEF Existing, Exists
<1>5. Existing \subseteq Ids /\ Existing' \subseteq Ids
  BY <1>1, <1>2 DEF Existing
<1>6. ASSUME NEW b \in Existing', NEW c \in Existing', Configured(b)',
             rows'[b].key = rows'[c].key
      PROVE  b = c
  <2>1. \A x, y \in Existing : Configured(x) /\ rows[x].key = rows[y].key => x = y
    BY DEF AccountInv, RowsInv
  <2> QED
    BY <1>2, <1>3, <1>4, <1>5, <1>6, <2>1 DEF Configured
<1>7. ASSUME NEW b \in Existing', rows'[b].state = "removing_credentials"
      PROVE  Configured(b)'
  <2>1. \A x \in Existing : rows[x].state = "removing_credentials" => Configured(x)
    BY DEF AccountInv, RowsInv
  <2> QED
    BY <1>2, <1>3, <1>4, <1>5, <1>7, <2>1 DEF Configured
<1>8. ASSUME NEW t \in targets', Exists(t[1])'
      PROVE  Configured(t[1])'
  <2>1. t \in targets /\ t[1] \in Ids
    BY DEF AccountInv, TypeOK
  <2>2. Exists(t[1]) => Configured(t[1])
    BY <2>1 DEF AccountInv, RowsInv
  <2> QED
    BY <1>2, <1>8, <2>1, <2>2 DEF Exists, Configured
<1>9. ASSUME NEW k \in Locators, keyring'[k] # NoSecret
      PROVE  \E b \in Existing' : rows'[b].key = k /\ rows'[b].state # "removing_cache"
  <2>1. PICK b \in Existing : rows[b].key = k /\ rows[b].state # "removing_cache"
    BY <1>9 DEF AccountInv, NoOrphanSecret
  <2>2. CASE b = a
    <3>1. Exists(a) /\ Configured(a) /\ keyring[rows[a].key] # NoSecret
      BY <1>9, <2>1, <2>2, StoreAssumption DEF Existing, Configured
    <3>2. r.state \notin {"absent", "removing_cache"} /\ r.key = k
      BY <2>1, <2>2, <3>1
    <3> QED
      BY <1>2, <1>4, <3>2
  <2>3. CASE b # a
    BY <1>2, <1>3, <1>5, <2>1, <2>3
  <2> QED
    BY <2>2, <2>3
<1>10. RowsInv'
  BY <1>2, <1>6, <1>7, <1>8 DEF RowsInv
<1>11. NoOrphanSecret'
  BY <1>9 DEF NoOrphanSecret
<1> QED
  BY <1>10, <1>11
-----------------------------------------------------------------------------
(* A step of the task                                                      *)

(* Nothing in the queue is the task's or changes the keyring.              *)
Quiet == \A i \in DOMAIN queue : ~Busy(queue[i])

(* The task waits for no reply.                                            *)
Heard ==
    /\ task.stage \in {"store", "delete", "load_secret", "background"} =>
          task.reply # "none"
    /\ phase = "draining" => task # Idle

LEMMA HeardIsQuiet ==
  ASSUME AccountInv, Heard
  PROVE  Quiet
<1> SUFFICES ASSUME NEW i \in DOMAIN queue, Busy(queue[i])
             PROVE  FALSE
  BY DEF Quiet
<1>1. Explained(queue[i])
  BY DEF AccountInv, QueueInv
<1> QED
  BY <1>1 DEF Explained, Heard

(* Where the recovery is, with another task and other rows.                *)
TodoKept ==
    /\ todo' \subseteq todo /\ UNCHANGED <<recovery, phase>>
    /\ \A t \in todo' : rows'[t.id] = rows[t.id] /\ t.id # task'.id
    /\ recovery \in {"scan_credentials", "scan_cache"} => task' = Idle
    /\ recovery = "queued" => task'.stage \in {"idle", "delete", "confirm", "purge"}
    /\ phase = "draining" => task'.stage \in DatabaseStages \cup {"idle"}

LEMMA RecoveryGoesOn ==
  ASSUME AccountInv, TodoKept
  PROVE  RecoveryInv' /\ DrainInv'
<1>1. RecoveryInv
  BY DEF AccountInv
<1>2. ASSUME NEW t \in todo'
      PROVE  /\ Fenced(t.id, t.gen)' /\ rows'[t.id].state = TicketStage[t.stage]
             /\ t.id # task'.id
  BY <1>1, <1>2 DEF TodoKept, RecoveryInv, Fenced, Exists
<1>3. RecoveryInv'
  BY <1>1, <1>2 DEF TodoKept, RecoveryInv
<1>4. DrainInv'
  BY DEF TodoKept, DrainInv
<1> QED
  BY <1>3, <1>4

(* Nothing is asked of the credential actor.                               *)
LEMMA QueueStays ==
  ASSUME AccountInv, Quiet, queue' = queue
  PROVE  QueueInv'
BY DEF Quiet, QueueInv, Busy

(* One request is.                                                         *)
LEMMA QueueGrows ==
  ASSUME AccountInv, Quiet, NEW r \in Request, queue' = Append(queue, r),
         Explained(r)',
         r.op = "store" =>
            \E a \in Existing' : rows'[a].key = r.key /\ rows'[a].state = "active"
  PROVE  QueueInv'
<1> DEFINE n == Len(queue)
<1>1. queue \in Seq(Request) /\ n \in Nat
  BY DEF AccountInv, TypeOK
<1>2. DOMAIN queue' = 1..(n + 1) /\ DOMAIN queue = 1..n
  BY <1>1
<1>3. \A i \in 1..n : queue'[i] = queue[i]
  BY <1>1
<1>4. queue'[n + 1] = r
  BY <1>1
<1>5. ASSUME NEW i \in DOMAIN queue', i # n + 1
      PROVE  i \in DOMAIN queue /\ queue'[i] = queue[i]
  BY <1>1, <1>2, <1>3, <1>5
<1> HIDE DEF n
<1>6. ASSUME NEW i \in DOMAIN queue', Busy(queue'[i])
      PROVE  i = n + 1
  BY <1>5, <1>6 DEF Quiet
<1>7. \A i \in DOMAIN queue' : queue'[i].op = "store" => i = n + 1
  BY <1>6 DEF Busy
<1>8. \A i, j \in DOMAIN queue' : Busy(queue'[i]) /\ Busy(queue'[j]) => i = j
  BY <1>6
<1>9. ASSUME NEW i \in DOMAIN queue', Busy(queue'[i])
      PROVE  Explained(queue[i])'
  <2>1. queue'[i] = r
    BY <1>4, <1>6, <1>9
  <2> QED
    BY <2>1 DEF Explained
<1>10. ASSUME NEW i \in DOMAIN queue', queue'[i].op = "store"
       PROVE  \E a \in Existing' : rows'[a].key = queue'[i].key
                                   /\ rows'[a].state = "active"
  BY <1>4, <1>7, <1>10
<1>11. \A i \in DOMAIN queue' : Busy(queue[i])' => Explained(queue[i])'
  BY <1>9 DEF Busy
<1> QED
  BY <1>8, <1>10, <1>11 DEF QueueInv, Busy
(* What is left alone, and the count of the faults.                        *)
Besides ==
    /\ UNCHANGED <<keyring, open, targets>>
    /\ NoFault \/ Fault
    /\ reload' \in BOOLEAN

LEMMA FaultsAreCounted ==
  ASSUME TypeOK, NoFault \/ Fault
  PROVE  faults' \in 0..MaxFaults /\ clean' \in BOOLEAN
<1>1. MaxFaults \in Nat /\ faults \in 0..MaxFaults /\ clean \in BOOLEAN
  BY WorkflowAssumption DEF TypeOK
<1>2. CASE NoFault
  BY <1>1, <1>2 DEF NoFault
<1>3. CASE Fault
  <2>1. faults < MaxFaults /\ faults' = faults + 1 /\ clean' = FALSE
    BY <1>3 DEF Fault
  <2>2. faults' \in 0..MaxFaults
    BY <1>1, <2>1
  <2> QED
    BY <2>1, <2>2
<1> QED
  BY <1>2, <1>3

LEMMA TypesStay ==
  ASSUME AccountInv, Besides, RowsInv', TodoKept, task' \in Task,
         queue' \in Seq(Request), Len(queue') <= Capacity
  PROVE  TypeOK'
<1>1. TypeOK
  BY DEF AccountInv
<1>2. StoreTypeOK'
  BY DEF RowsInv, StoreTypeOK
<1>3. faults' \in 0..MaxFaults /\ clean' \in BOOLEAN
  BY <1>1, FaultsAreCounted DEF Besides
<1> QED
  BY <1>1, <1>2, <1>3 DEF TypeOK, Besides, TodoKept

(* The task goes on, or ends, and asks for nothing.                        *)
LEMMA TaskMoves ==
  ASSUME AccountInv, Quiet, Besides, TodoKept, RowsInv', NoOrphanSecret',
         task' \in Task, TaskInv', queue' = queue
  PROVE  AccountInv'
<1>1. QueueInv'
  BY QueueStays
<1>2. RecoveryInv' /\ DrainInv'
  BY RecoveryGoesOn
<1>3. queue' \in Seq(Request) /\ Len(queue') <= Capacity
  BY DEF AccountInv, TypeOK
<1>4. TypeOK'
  BY <1>3, TypesStay
<1> QED
  BY <1>1, <1>2, <1>4 DEF AccountInv

(* The task ends.                                                          *)
LEMMA IdleIsFine == ASSUME task' = Idle PROVE task' \in Task /\ TaskInv'
BY StoreAssumption DEF Idle, Task, TaskInv, Stages, Replies, DatabaseStages,
   LoadStages, CredentialStages

LEMMA TaskEnds ==
  ASSUME AccountInv, Quiet, Besides, RowsInv', NoOrphanSecret',
         task' = Idle, queue' = queue, todo' \subseteq todo,
         UNCHANGED <<recovery, phase>>, \A t \in todo' : rows'[t.id] = rows[t.id]
  PROVE  AccountInv'
<1>1. TodoKept
  <2>1. \A t \in todo' : t.id # task'.id
    BY WorkflowAssumption DEF AccountInv, TypeOK, Ticket, Idle
  <2> QED
    BY <2>1 DEF TodoKept, Idle
<1> QED
  BY <1>1, IdleIsFine, TaskMoves

(* The task asks the credential actor for what its new stage needs.        *)
LEMMA TaskAsks ==
  ASSUME AccountInv, Quiet, Besides, TodoKept, RowsInv', NoOrphanSecret',
         NEW op, NEW t \in Task,
         \/ op = "load" /\ t.stage \in {"load_secret", "background"}
         \/ op = t.stage /\ op \in {"store", "delete"},
         t.key \in Locators, phase = "up",
         open, Len(queue) < Capacity,
         task' = [t EXCEPT !.reply = "none"],
         queue' = Append(queue, SecretRequest(op, t)), TaskInv'
  PROVE  AccountInv'
<1>1. PICK r : r = SecretRequest(op, t)
  OBVIOUS
<1>2. r \in Request /\ r.op = op /\ r.key = t.key /\ r.live
      /\ (op = "store" => r.secret = t.secret)
  BY <1>1 DEF SecretRequest, Request, Task
<1>3. /\ task' \in Task /\ task'.stage = t.stage /\ task'.reply = "none"
      /\ task'.key = t.key /\ task'.secret = t.secret
      /\ task'.id = t.id /\ task'.gen = t.gen
  BY DEF Task, Replies
<1>4. Explained(r)'
  BY <1>2, <1>3 DEF Explained
<1>5. ASSUME op = "store"
      PROVE  \E a \in Existing' : rows'[a].key = t.key /\ rows'[a].state = "active"
  <2>1. OwnsRow' /\ rows'[task'.id].state = "active" /\ task'.id \in Ids
    BY <1>3, <1>5 DEF TaskInv
  <2> QED
    BY <1>3, <2>1 DEF OwnsRow, Fenced, Existing, Exists, RowsInv
<1>6. QueueInv'
  BY <1>1, <1>2, <1>4, <1>5, QueueGrows
<1>7. RecoveryInv' /\ DrainInv'
  BY RecoveryGoesOn
<1>8. queue' \in Seq(Request) /\ Len(queue') <= Capacity
  BY <1>1, <1>2, WorkflowAssumption DEF AccountInv, TypeOK
<1>9. TypeOK'
  BY <1>3, <1>8, TypesStay
<1> QED
  BY <1>6, <1>7, <1>9 DEF AccountInv

(* Rows and keyring stay.                                                  *)
LEMMA RowsStay ==
  ASSUME AccountInv, UNCHANGED <<rows, keyring, targets>>
  PROVE  RowsInv' /\ NoOrphanSecret'
BY DEF AccountInv, RowsInv, NoOrphanSecret, Existing, Exists, Configured
-----------------------------------------------------------------------------
(* What the user is told                                                   *)

LEMMA SilenceIsTrue ==
  ASSUME answer' = NoAnswer
  PROVE  UserIsToldTheTruth'
BY DEF UserIsToldTheTruth, AnswersAreTrue, FailureNamesFence, NoAnswer

LEMMA FailureIsTrue ==
  ASSUME NEW t, answer' = Answer("failed", t),
         t.stage \in {"store", "delete", "confirm", "purge"} => Fenced(t.id, t.gen)'
  PROVE  UserIsToldTheTruth'
<1>1. CASE t.user
  BY <1>1 DEF UserIsToldTheTruth, AnswersAreTrue, FailureNamesFence, Answer
<1>2. CASE ~t.user
  BY <1>2, SilenceIsTrue DEF Answer
<1> QED
  BY <1>1, <1>2

(* A task that ends because it failed.                                     *)
LEMMA TaskFails ==
  ASSUME AccountInv, Heard, NEW c \in BOOLEAN, Finish("failed", task, c),
         NoFault \/ Fault,
         UNCHANGED <<rows, keyring, open, todo, recovery, targets, phase>>
  PROVE  AccountInv' /\ UserIsToldTheTruth'
<1>1. task' = Idle /\ queue' = queue /\ answer' = Answer("failed", task)
  BY DEF Finish
<1>2. Quiet
  BY HeardIsQuiet
<1>3. Besides
  BY DEF Besides, Finish, AccountInv, TypeOK
<1>4. AccountInv'
  <2>1. RowsInv' /\ NoOrphanSecret'
    BY RowsStay
  <2> QED
    BY <1>1, <1>2, <1>3, <2>1, TaskEnds
<1>5. UserIsToldTheTruth'
  <2>1. PICK t : t = task
    OBVIOUS
  <2>2. t.stage \in {"store", "delete", "confirm", "purge"} => Fenced(t.id, t.gen)'
    BY <2>1 DEF AccountInv, TaskInv, OwnsRow, Fenced, Exists
  <2> QED
    BY <1>1, <2>1, <2>2, FailureIsTrue
<1> QED
  BY <1>4, <1>5

(* A write that is refused or fails, or whose reply nobody hears.          *)
LEMMA WriteFails ==
  ASSUME AccountInv, task.stage \in DatabaseStages, NEW c \in BOOLEAN,
         WhenUp(Finish("failed", task, c)), NoFault \/ Fault,
         UNCHANGED <<rows, keyring, open, todo, recovery, targets, phase>>
  PROVE  AccountInv' /\ UserIsToldTheTruth'
<1>1. Heard
  BY DEF Heard, DatabaseStages, Idle
<1>2. CASE phase = "up"
  BY <1>1, <1>2, TaskFails DEF WhenUp
<1>3. CASE phase # "up"
  <2>1. task' = Idle /\ answer' = NoAnswer /\ UNCHANGED <<queue, reload>>
    BY <1>3 DEF WhenUp
  <2>2. Quiet
    BY <1>1, HeardIsQuiet
  <2>3. RowsInv' /\ NoOrphanSecret'
    BY RowsStay
  <2>4. Besides
    BY <2>1 DEF Besides, AccountInv, TypeOK
  <2> QED
    BY <2>1, <2>2, <2>3, <2>4, TaskEnds, SilenceIsTrue
<1> QED
  BY <1>2, <1>3

(* Submit: the request is taken, or the task ends as failed.  Of a secret  *)
(* to store or delete the row already tells.                               *)
LEMMA SubmitIsSafe ==
  ASSUME AccountInv, Quiet, RowsInv', NoOrphanSecret', NoFault,
         UNCHANGED <<keyring, open, targets, recovery, phase>>,
         todo' \subseteq todo, phase = "up",
         NEW op, NEW t \in Task, Submit(op, t),
         \/ op = "load" /\ t.stage \in {"load_secret", "background"}
         \/ op = t.stage /\ op \in {"store", "delete"},
         t.id \in Ids, t.key \in Locators,
         \A u \in todo' : rows'[u.id] = rows[u.id] /\ u.id # t.id,
         recovery \in {"queued", "complete"},
         recovery = "queued" => t.stage = "delete",
         t.stage \in {"store", "delete"} =>
            Fenced(t.id, t.gen)' /\ rows'[t.id].key = t.key,
         t.stage = "store" => rows'[t.id].state = "active",
         t.stage = "delete" => rows'[t.id].state = "removing_credentials"
  PROVE  AccountInv' /\ UserIsToldTheTruth'
<1>1. CASE open /\ Len(queue) < Capacity
  <2>1. /\ task' = [t EXCEPT !.reply = "none"]
        /\ queue' = Append(queue, SecretRequest(op, t))
        /\ answer' = NoAnswer /\ reload' = reload
    BY <1>1 DEF Submit
  <2>2. Besides
    BY <2>1 DEF Besides, AccountInv, TypeOK
  <2>3. /\ task'.stage = t.stage /\ task'.reply = "none" /\ task'.key = t.key
        /\ task'.id = t.id /\ task'.gen = t.gen
    BY <2>1 DEF Task
  <2>4. TodoKept
    BY <2>3 DEF TodoKept
  <2>5. TaskInv'
    BY <2>3 DEF TaskInv, OwnsRow, Fenced, Exists
  <2> QED
    BY <1>1, <2>1, <2>2, <2>4, <2>5, TaskAsks, SilenceIsTrue
<1>2. CASE ~(open /\ Len(queue) < Capacity)
  <2>1. /\ task' = Idle /\ queue' = queue /\ answer' = Answer("failed", t)
        /\ reload' = (reload \/ FALSE)
    BY <1>2 DEF Submit, Failed, Finish
  <2>2. Besides
    BY <2>1 DEF Besides, AccountInv, TypeOK
  <2>3. UserIsToldTheTruth'
    <3>1. t.stage \in {"store", "delete", "confirm", "purge"} => Fenced(t.id, t.gen)'
      OBVIOUS
    <3> QED
      BY <2>1, <3>1, FailureIsTrue
  <2> QED
    BY <2>1, <2>2, <2>3, TaskEnds
<1> QED
  BY <1>1, <1>2
-----------------------------------------------------------------------------
(* The steps of the task                                                   *)

(* The recovery only removes.                                              *)
LEMMA RecoveryIsOver ==
  ASSUME AccountInv, task.stage \notin {"idle", "delete", "confirm", "purge"}
  PROVE  recovery = "complete" /\ todo = {}
BY DEF AccountInv, RecoveryInv, TypeOK, Idle

LEMMA KeyedTask ==
  ASSUME AccountInv, task.id \in Ids, Exists(task.id), NEW s \in Stages,
         NEW t, t = [Keyed EXCEPT !.stage = s]
  PROVE  /\ t \in Task /\ t.stage = s /\ t.id = task.id /\ t.gen = task.gen
         /\ t.key = rows[task.id].key
<1>1. rows[task.id] \in Row
  BY RowIsTyped DEF AccountInv, RowsInv, Existing
<1>2. task \in Task
  BY DEF AccountInv, TypeOK
<1> QED
  BY <1>1, <1>2 DEF Keyed, Task, Row

LEMMA ConfiguredKey ==
  ASSUME RowsInv, NEW a \in Ids, Exists(a), Configured(a)
  PROVE  rows[a].key \in Locators
<1>1. rows[a] \in Row
  BY RowIsTyped DEF RowsInv, Existing
<1> QED
  BY <1>1 DEF Row, Configured

(* Repair of the credential: the row was read, the secret is to be stored. *)
LEMMA LoadRetryIsSafe ==
  ASSUME AccountInv, LoadRetry
  PROVE  AccountInv' /\ UserIsToldTheTruth'
<1>1. /\ phase = "up" /\ task.stage = "load_retry" /\ NoFault
      /\ UNCHANGED <<rows, keyring, open, todo, recovery, targets, phase>>
  BY DEF LoadRetry, Loaded
<1>2. Heard /\ Quiet
  BY <1>1, HeardIsQuiet DEF Heard
<1>3. CASE /\ Fenced(task.id, task.gen) /\ Configured(task.id)
           /\ rows[task.id].state = "active"
  <2>1. PICK t : t = [Keyed EXCEPT !.stage = "store"]
    OBVIOUS
  <2>2. Submit("store", t)
    BY <1>3, <2>1 DEF LoadRetry, Loaded
  <2>3. task.id \in Ids /\ Exists(task.id)
    BY <1>1, <1>3 DEF AccountInv, TaskInv, Fenced
  <2>4. /\ t \in Task /\ t.stage = "store" /\ t.id = task.id /\ t.gen = task.gen
        /\ t.key = rows[task.id].key
    BY <2>1, <2>3, KeyedTask DEF Stages, CredentialStages
  <2>5. t.key \in Locators
    BY <1>3, <2>3, <2>4, ConfiguredKey DEF AccountInv
  <2>6. RowsInv' /\ NoOrphanSecret'
    BY <1>1, RowsStay
  <2>7. recovery = "complete" /\ todo = {}
    BY <1>1, RecoveryIsOver
  <2>8. Fenced(t.id, t.gen)' /\ rows'[t.id].key = t.key /\ rows'[t.id].state = "active"
    BY <1>1, <1>3, <2>4 DEF Fenced, Exists
  <2> QED
    BY <1>1, <1>2, <2>2, <2>3, <2>4, <2>5, <2>6, <2>7, <2>8, SubmitIsSafe
<1>4. CASE ~(/\ Fenced(task.id, task.gen) /\ Configured(task.id)
             /\ rows[task.id].state = "active")
  BY <1>1, <1>2, <1>4, TaskFails DEF LoadRetry, Loaded, Failed
<1> QED
  BY <1>3, <1>4

(* Diagnosis: the row was read.                                            *)
LEMMA LoadDiagnosticIsSafe ==
  ASSUME AccountInv, LoadDiagnostic
  PROVE  AccountInv' /\ UserIsToldTheTruth'
<1>1. /\ phase = "up" /\ task.stage = "load_diagnostic" /\ NoFault
      /\ UNCHANGED <<rows, keyring, open, todo, recovery, targets, phase>>
  BY DEF LoadDiagnostic, Loaded
<1>2. Heard /\ Quiet
  BY <1>1, HeardIsQuiet DEF Heard
<1>3. CASE /\ Fenced(task.id, task.gen) /\ Configured(task.id)
           /\ rows[task.id].state = "active"
  <2>1. /\ task' = [Keyed EXCEPT !.stage = "begin_diagnostic"]
        /\ answer' = NoAnswer /\ UNCHANGED <<queue, reload>>
    BY <1>3 DEF LoadDiagnostic, Loaded, Continue
  <2>2. task.id \in Ids /\ Exists(task.id)
    BY <1>1, <1>3 DEF AccountInv, TaskInv, Fenced
  <2>3. /\ task' \in Task /\ task'.stage = "begin_diagnostic"
        /\ task'.id = task.id /\ task'.key = rows[task.id].key
    <3>1. PICK t : t = [Keyed EXCEPT !.stage = "begin_diagnostic"]
      OBVIOUS
    <3>2. /\ t \in Task /\ t.stage = "begin_diagnostic" /\ t.id = task.id
          /\ t.key = rows[task.id].key
      BY <2>2, <3>1, KeyedTask DEF Stages, DatabaseStages
    <3> QED
      BY <2>1, <3>1, <3>2
  <2>4. rows[task.id].key \in Locators
    BY <1>3, <2>2, ConfiguredKey DEF AccountInv
  <2>5. recovery = "complete" /\ todo = {}
    BY <1>1, RecoveryIsOver
  <2>6. RowsInv' /\ NoOrphanSecret'
    BY <1>1, RowsStay
  <2>7. TaskInv'
    BY <2>2, <2>3, <2>4 DEF TaskInv
  <2>8. TodoKept
    BY <1>1, <2>5 DEF TodoKept
  <2>9. Besides
    BY <1>1, <2>1 DEF Besides, AccountInv, TypeOK
  <2> QED
    BY <1>2, <2>1, <2>3, <2>6, <2>7, <2>8, <2>9, TaskMoves, SilenceIsTrue
<1>4. CASE ~(/\ Fenced(task.id, task.gen) /\ Configured(task.id)
             /\ rows[task.id].state = "active")
  BY <1>1, <1>2, <1>4, TaskFails DEF LoadDiagnostic, Loaded, Failed
<1> QED
  BY <1>3, <1>4
(* Removal: the row was read; the state it is in says where to go on.      *)
LEMMA LoadRemovalIsSafe ==
  ASSUME AccountInv, LoadRemoval
  PROVE  AccountInv' /\ UserIsToldTheTruth'
<1>1. /\ phase = "up" /\ task.stage = "load_removal" /\ NoFault
      /\ UNCHANGED <<rows, keyring, open, todo, recovery, targets, phase>>
  BY DEF LoadRemoval, Loaded
<1>2. Heard /\ Quiet
  BY <1>1, HeardIsQuiet DEF Heard
<1>3. recovery = "complete" /\ todo = {}
  BY <1>1, RecoveryIsOver
<1>4. RowsInv' /\ NoOrphanSecret'
  BY <1>1, RowsStay
<1>5. CASE Fenced(task.id, task.gen)
  <2> DEFINE keyed(s) == [Keyed EXCEPT !.stage = s]
  <2>1. task.id \in Ids /\ Exists(task.id)
    BY <1>1, <1>5 DEF AccountInv, TaskInv, Fenced
  <2>2. rows[task.id] \in Row
    BY <2>1, RowIsTyped DEF AccountInv, RowsInv, Existing
  <2>3. ASSUME NEW s \in Stages
        PROVE  /\ keyed(s) \in Task /\ keyed(s).stage = s
               /\ keyed(s).id = task.id /\ keyed(s).gen = task.gen
               /\ keyed(s).key = rows[task.id].key
    BY <2>1, KeyedTask
  <2>4. ASSUME NEW s \in Stages, s \in {"begin_removal", "purge"},
               rows[task.id].state = IF s = "purge" THEN "removing_cache"
                                     ELSE "active",
               Continue(keyed(s))
        PROVE  AccountInv' /\ UserIsToldTheTruth'
    <3>1. task' = keyed(s) /\ answer' = NoAnswer /\ UNCHANGED <<queue, reload>>
      BY <2>4 DEF Continue
    <3> HIDE DEF keyed
    <3>2. /\ task' \in Task /\ task'.stage = s /\ task'.id = task.id
          /\ task'.gen = task.gen /\ task'.key = rows[task.id].key
      BY <2>3, <3>1
    <3>3. TaskInv'
      BY <1>1, <1>5, <2>1, <2>4, <3>2 DEF TaskInv, OwnsRow, Fenced, Exists
    <3>4. TodoKept
      BY <1>1, <1>3 DEF TodoKept
    <3>5. Besides
      BY <1>1, <3>1 DEF Besides, AccountInv, TypeOK
    <3> QED
      BY <1>2, <1>4, <3>1, <3>2, <3>3, <3>4, <3>5, TaskMoves, SilenceIsTrue
  <2>5. CASE rows[task.id].state = "active"
    <3>1. Continue(keyed("begin_removal"))
      BY <1>5, <2>5 DEF LoadRemoval, Loaded
    <3> HIDE DEF keyed
    <3> QED
      BY <2>4, <2>5, <3>1 DEF Stages, DatabaseStages
  <2>6. CASE rows[task.id].state = "removing_credentials"
    <3>1. Submit("delete", keyed("delete"))
      BY <1>5, <2>6 DEF LoadRemoval, Loaded
    <3>2. PICK t : t = keyed("delete")
      OBVIOUS
    <3>3. Submit("delete", t)
      BY <3>1, <3>2
    <3> HIDE DEF keyed
    <3>4. /\ t \in Task /\ t.stage = "delete" /\ t.id = task.id
          /\ t.gen = task.gen /\ t.key = rows[task.id].key
      BY <2>3, <3>2 DEF Stages, CredentialStages
    <3>5. t.key \in Locators
      BY <2>1, <2>6, <3>4, ConfiguredKey DEF AccountInv, RowsInv, Existing
    <3>6. Fenced(t.id, t.gen)' /\ rows'[t.id].key = t.key
          /\ rows'[t.id].state = "removing_credentials"
      BY <1>1, <1>5, <2>6, <3>4 DEF Fenced, Exists
    <3> QED
      BY <1>1, <1>2, <1>3, <1>4, <2>1, <3>3, <3>4, <3>5, <3>6, SubmitIsSafe
  <2>7. CASE rows[task.id].state = "removing_cache"
    <3>1. Continue(keyed("purge"))
      BY <1>5, <2>7 DEF LoadRemoval, Loaded
    <3> HIDE DEF keyed
    <3> QED
      BY <2>4, <2>7, <3>1 DEF Stages, DatabaseStages
  <2> QED
    BY <2>2, <2>5, <2>6, <2>7 DEF Row, Lifecycles
<1>6. CASE ~Fenced(task.id, task.gen)
  BY <1>1, <1>2, <1>6, TaskFails DEF LoadRemoval, Loaded, Failed
<1> QED
  BY <1>5, <1>6

(* A row that cannot be read, and a writer whose queue is full.            *)
LEMMA LoadFailsIsSafe ==
  ASSUME AccountInv, LoadFails \/ WriteBusy
  PROVE  AccountInv' /\ UserIsToldTheTruth'
<1>1. /\ phase = "up" /\ task.stage \in LoadStages \cup DatabaseStages
      /\ Finish("failed", task, FALSE) /\ Fault
      /\ UNCHANGED <<rows, keyring, open, todo, recovery, targets, phase>>
  BY DEF LoadFails, WriteBusy, Failed
<1>2. Heard
  BY <1>1 DEF Heard, LoadStages, DatabaseStages
<1> QED
  BY <1>1, <1>2, TaskFails
(* The reply to a store: with "done" the secret is in the keyring.         *)
LEMMA StoreRepliedIsSafe ==
  ASSUME AccountInv, StoreReplied
  PROVE  AccountInv' /\ UserIsToldTheTruth'
<1>1. /\ phase = "up" /\ task.stage = "store" /\ task.reply # "none" /\ NoFault
      /\ UNCHANGED <<rows, keyring, open, todo, recovery, targets, phase>>
  BY DEF StoreReplied, TakeReply, Replied
<1>2. Heard /\ Quiet
  BY <1>1, HeardIsQuiet DEF Heard
<1>3. CASE task.reply = "done"
  <2>1. Finish("configured", task, TRUE)
    BY <1>3 DEF StoreReplied, TakeReply
  <2>2. task' = Idle /\ queue' = queue /\ answer' = Answer("configured", task)
    BY <2>1 DEF Finish
  <2>3. Besides
    BY <1>1, <2>1 DEF Besides, Finish, AccountInv, TypeOK
  <2>4. RowsInv' /\ NoOrphanSecret'
    BY <1>1, RowsStay
  <2>5. AccountInv'
    BY <1>1, <1>2, <2>2, <2>3, <2>4, TaskEnds
  <2>6. UserIsToldTheTruth'
    <3>1. Fenced(task.id, task.gen) /\ rows[task.id].key = task.key
          /\ keyring[task.key] = task.secret
      BY <1>1, <1>3 DEF AccountInv, TaskInv, OwnsRow
    <3>2. CASE task.user
      <4>1. /\ answer'.kind = "configured" /\ answer'.id = task.id
            /\ answer'.gen = task.gen /\ answer'.key = task.key
            /\ answer'.secret = task.secret
        BY <2>2, <3>2 DEF Answer
      <4> QED
        BY <1>1, <3>1, <4>1 DEF UserIsToldTheTruth, AnswersAreTrue,
           FailureNamesFence, Fenced, Exists
    <3>3. CASE ~task.user
      BY <2>2, <3>3, SilenceIsTrue DEF Answer
    <3> QED
      BY <3>2, <3>3
  <2> QED
    BY <2>5, <2>6
<1>4. CASE task.reply # "done"
  BY <1>1, <1>2, <1>4, TaskFails DEF StoreReplied, TakeReply, LeftPending
<1> QED
  BY <1>3, <1>4

(* The reply to a delete: the keyring holds nothing under the locator.     *)
LEMMA DeleteRepliedIsSafe ==
  ASSUME AccountInv, DeleteReplied
  PROVE  AccountInv' /\ UserIsToldTheTruth'
<1>1. /\ phase = "up" /\ task.stage = "delete" /\ task.reply # "none" /\ NoFault
      /\ UNCHANGED <<rows, keyring, open, todo, recovery, targets, phase>>
  BY DEF DeleteReplied, TakeReply, Replied
<1>2. Heard /\ Quiet
  BY <1>1, HeardIsQuiet DEF Heard
<1>3. CASE task.reply = "done"
  <2>1. task' = [task EXCEPT !.stage = "confirm"] /\ answer' = NoAnswer
        /\ UNCHANGED <<queue, reload>>
    BY <1>3 DEF DeleteReplied, TakeReply, Continue
  <2>2. /\ task' \in Task /\ task'.stage = "confirm" /\ task'.id = task.id
        /\ task'.gen = task.gen /\ task'.key = task.key
    BY <2>1 DEF AccountInv, TypeOK, Task, Stages, DatabaseStages
  <2>3. Besides
    BY <1>1, <2>1 DEF Besides, AccountInv, TypeOK
  <2>4. RowsInv' /\ NoOrphanSecret'
    BY <1>1, RowsStay
  <2>5. OwnsRow /\ rows[task.id].state = "removing_credentials"
        /\ keyring[task.key] = NoSecret /\ task.id \in Ids
    BY <1>1, <1>3 DEF AccountInv, TaskInv
  <2>6. TaskInv'
    BY <1>1, <2>2, <2>5 DEF TaskInv, OwnsRow, Fenced, Exists
  <2>7. TodoKept
    BY <1>1, <2>2 DEF TodoKept, AccountInv, RecoveryInv, Idle
  <2> QED
    BY <1>2, <2>1, <2>2, <2>3, <2>4, <2>6, <2>7, TaskMoves, SilenceIsTrue
<1>4. CASE task.reply # "done"
  BY <1>1, <1>2, <1>4, TaskFails DEF DeleteReplied, TakeReply, LeftPending
<1> QED
  BY <1>3, <1>4

(* A task that goes on or gives up without a word, in a stage that asks    *)
(* nothing of its row.                                                     *)
LEMMA TaskPasses ==
  ASSUME AccountInv, Heard, phase = "up",
         task.stage \notin {"idle", "delete", "confirm", "purge"},
         NEW s \in {"probe", "record"}, NEW t \in {Idle, [task EXCEPT !.stage = s]},
         t = Idle \/ task.id \in Ids, Continue(t), NoFault,
         UNCHANGED <<rows, keyring, open, todo, recovery, targets, phase>>
  PROVE  AccountInv' /\ UserIsToldTheTruth'
<1>1. task' = t /\ answer' = NoAnswer /\ UNCHANGED <<queue, reload>>
  BY DEF Continue
<1>2. Quiet
  BY HeardIsQuiet
<1>3. Besides
  BY <1>1 DEF Besides, AccountInv, TypeOK
<1>4. RowsInv' /\ NoOrphanSecret'
  BY RowsStay
<1>5. CASE t = Idle
  BY <1>1, <1>2, <1>3, <1>4, <1>5, TaskEnds, SilenceIsTrue
<1>6. CASE t # Idle
  <2>1. task' = [task EXCEPT !.stage = s]
    BY <1>1, <1>6
  <2>2. task' \in Task /\ task'.stage = s /\ task'.id = task.id
    BY <2>1 DEF AccountInv, TypeOK, Task, Stages, DatabaseStages
  <2>3. TaskInv'
    BY <1>6, <2>2 DEF TaskInv
  <2>4. recovery = "complete" /\ todo = {}
    BY RecoveryIsOver
  <2>5. TodoKept
    BY <2>4 DEF TodoKept
  <2> QED
    BY <1>1, <1>2, <1>3, <1>4, <2>2, <2>3, <2>5, TaskMoves, SilenceIsTrue
<1> QED
  BY <1>5, <1>6

(* A diagnosis that has its secret or the server's answer, and the end of  *)
(* a background sync.                                                      *)
LEMMA DiagnosisGoesOn ==
  ASSUME AccountInv, SecretLoaded \/ Probed \/ BackgroundEnds
  PROVE  AccountInv' /\ UserIsToldTheTruth'
<1>1. CASE SecretLoaded /\ task.reply = "done"
  <2>1. /\ phase = "up" /\ task.stage = "load_secret" /\ NoFault
        /\ Continue([task EXCEPT !.stage = "probe"])
        /\ UNCHANGED <<rows, keyring, open, todo, recovery, targets, phase>>
    BY <1>1 DEF SecretLoaded, TakeReply, Replied
  <2>2. Heard /\ task.id \in Ids
    BY <1>1, <2>1 DEF Heard, AccountInv, TaskInv
  <2>3. PICK t : t = [task EXCEPT !.stage = "probe"]
    OBVIOUS
  <2>4. Continue(t)
    BY <2>1, <2>3
  <2> QED
    BY <2>1, <2>2, <2>3, <2>4, TaskPasses
<1>2. CASE SecretLoaded /\ task.reply # "done"
  <2>1. /\ phase = "up" /\ task.stage = "load_secret" /\ NoFault
        /\ task.reply # "none" /\ Finish("failed", task, FALSE)
        /\ UNCHANGED <<rows, keyring, open, todo, recovery, targets, phase>>
    BY <1>2 DEF SecretLoaded, TakeReply, Replied, Failed
  <2>2. Heard
    BY <2>1 DEF Heard
  <2> QED
    BY <2>1, <2>2, TaskFails
<1>3. CASE Probed
  <2>1. /\ phase = "up" /\ task.stage = "probe" /\ NoFault
        /\ Continue([task EXCEPT !.stage = "record"]) \/ Continue(Idle)
        /\ UNCHANGED <<rows, keyring, open, todo, recovery, targets, phase>>
    BY <1>3 DEF Probed
  <2>2. Heard /\ task.id \in Ids
    BY <2>1 DEF Heard, AccountInv, TaskInv
  <2>3. PICK t : t \in {Idle, [task EXCEPT !.stage = "record"]} /\ Continue(t)
    BY <2>1
  <2> QED
    BY <2>1, <2>2, <2>3, TaskPasses
<1>4. CASE BackgroundEnds
  <2>1. /\ phase = "up" /\ task.stage = "background" /\ NoFault
        /\ task.reply # "none" /\ Continue(Idle)
        /\ UNCHANGED <<rows, keyring, open, todo, recovery, targets, phase>>
    BY <1>4 DEF BackgroundEnds, Replied
  <2>2. Heard
    BY <2>1 DEF Heard
  <2>3. PICK t : t = Idle
    OBVIOUS
  <2>4. Continue(t)
    BY <2>1, <2>3
  <2> QED
    BY <2>1, <2>2, <2>3, <2>4, TaskPasses
<1> QED
  BY <1>1, <1>2, <1>3, <1>4
-----------------------------------------------------------------------------
(* The writes                                                              *)

(* What the recovery found is about other rows.                            *)
LEMMA OthersStay ==
  ASSUME AccountInv, NEW a, todo = {} \/ a = task.id, NEW r,
         rows' = [rows EXCEPT ![a] = r]
  PROVE  \A t \in todo : rows'[t.id] = rows[t.id]
BY DEF AccountInv, RowsInv, RecoveryInv

(* A write that was committed after the shutdown.                          *)
LEMMA Unheard ==
  ASSUME AccountInv, task.stage \in DatabaseStages, RowsInv', NoOrphanSecret',
         NoFault, UNCHANGED <<keyring, open, todo, recovery, targets, phase>>,
         \A t \in todo : rows'[t.id] = rows[t.id],
         task' = Idle, answer' = NoAnswer, UNCHANGED <<queue, reload>>
  PROVE  AccountInv' /\ UserIsToldTheTruth'
<1>1. Quiet
  BY HeardIsQuiet DEF Heard, DatabaseStages, Idle
<1>2. Besides
  BY DEF Besides, AccountInv, TypeOK
<1> QED
  BY <1>1, <1>2, TaskEnds, SilenceIsTrue

(* The result of a probe is recorded, or no longer wanted.                 *)
LEMMA RecordIsSafe ==
  ASSUME AccountInv, RecordDiagnosticStage
  PROVE  AccountInv' /\ UserIsToldTheTruth'
<1>1. task.stage = "record"
      /\ UNCHANGED <<rows, keyring, open, todo, recovery, targets, phase>>
  BY DEF RecordDiagnosticStage, Write
<1>2. CASE NoFault /\ WhenUp(Finish("diagnosed", task, FALSE))
  <2>1. RowsInv' /\ NoOrphanSecret'
    BY <1>1, RowsStay
  <2>2. CASE phase = "up"
    <3>1. Finish("diagnosed", task, FALSE)
      BY <1>2, <2>2 DEF WhenUp
    <3>2. /\ task' = Idle /\ queue' = queue /\ answer' = Answer("diagnosed", task)
      BY <3>1 DEF Finish
    <3>3. Besides
      BY <1>1, <1>2, <3>1 DEF Besides, Finish, AccountInv, TypeOK
    <3>4. Quiet
      BY <1>1, <2>2, HeardIsQuiet DEF Heard
    <3>5. UserIsToldTheTruth'
      BY <3>2 DEF UserIsToldTheTruth, AnswersAreTrue, FailureNamesFence, Answer, NoAnswer
    <3> QED
      BY <1>1, <2>1, <3>2, <3>3, <3>4, <3>5, TaskEnds
  <2>3. CASE phase # "up"
    <3>1. task' = Idle /\ answer' = NoAnswer /\ UNCHANGED <<queue, reload>>
      BY <1>2, <2>3 DEF WhenUp
    <3> QED
      BY <1>1, <1>2, <2>1, <3>1, Unheard DEF DatabaseStages
  <2> QED
    BY <2>2, <2>3
<1>3. CASE (NoFault \/ Fault) /\ WhenUp(Finish("failed", task, FALSE))
  BY <1>1, <1>3, WriteFails DEF DatabaseStages
<1> QED
  BY <1>1, <1>2, <1>3 DEF RecordDiagnosticStage, Write, Failed

(* A diagnosis begins: the row takes an epoch, and the secret is asked for. *)
LEMMA BeginDiagnosticIsSafe ==
  ASSUME AccountInv, BeginDiagnosticStage
  PROVE  AccountInv' /\ UserIsToldTheTruth'
<1>1. task.stage = "begin_diagnostic" /\ task.id \in Ids /\ task.key \in Locators
      /\ UNCHANGED <<keyring, open, todo, recovery, targets, phase>>
  BY DEF BeginDiagnosticStage, Write, AccountInv, TaskInv
<1>2. recovery = "complete" /\ todo = {}
  BY <1>1, RecoveryIsOver
<1>3. CASE /\ MayBeginDiagnostic(task.id, task.gen) /\ BeginDiagnostic(task.id)
           /\ NoFault
           /\ WhenUp(Submit("load", [task EXCEPT !.stage = "load_secret"]))
  <2>1. task.id \in Existing /\ rows[task.id] \in Row
        /\ rows[task.id].epoch < MaxEpoch /\ rows[task.id].state = "active"
        /\ Configured(task.id)
    BY <1>1, <1>3, RowIsTyped DEF MayBeginDiagnostic, Fenced, AccountInv, RowsInv,
       Existing
  <2>2. PICK r : r = [rows[task.id] EXCEPT !.epoch = @ + 1]
    OBVIOUS
  <2>3. rows' = [rows EXCEPT ![task.id] = r]
    BY <1>3, <2>2 DEF BeginDiagnostic
  <2>4. rows[task.id].epoch + 1 \in 0..MaxEpoch
    BY <2>1, StoreAssumption DEF Row
  <2>5. /\ r \in Row /\ r.state = "active" /\ r.key = rows[task.id].key
        /\ r.key # NoKey
    BY <2>1, <2>2, <2>4 DEF Row, Configured
  <2>6. \A b \in Existing : b # task.id => rows[b].key # r.key
    BY <2>1, <2>5 DEF AccountInv, RowsInv
  <2>7. RowsInv' /\ NoOrphanSecret'
    BY <1>1, <2>3, <2>5, <2>6, RowChanges
  <2>8. CASE phase = "up"
    <3>1. PICK t : t = [task EXCEPT !.stage = "load_secret"]
      OBVIOUS
    <3>2. Submit("load", t)
      BY <1>3, <2>8, <3>1 DEF WhenUp
    <3>3. /\ t \in Task /\ t.stage = "load_secret" /\ t.id = task.id
          /\ t.key = task.key
      BY <3>1 DEF AccountInv, TypeOK, Task, Stages, CredentialStages
    <3>4. Quiet
      BY <1>1, <2>8, HeardIsQuiet DEF Heard
    <3>5. NoFault /\ t.id \in Ids /\ t.key \in Locators /\ todo' = {}
      BY <1>1, <1>2, <1>3, <3>3
    <3> QED
      BY <1>1, <1>2, <2>7, <2>8, <3>2, <3>3, <3>4, <3>5, SubmitIsSafe
  <2>9. CASE phase # "up"
    <3>1. task' = Idle /\ answer' = NoAnswer /\ UNCHANGED <<queue, reload>>
      BY <1>3, <2>9 DEF WhenUp
    <3> QED
      BY <1>1, <1>2, <1>3, <2>7, <3>1, Unheard DEF DatabaseStages
  <2> QED
    BY <2>8, <2>9
<1>4. CASE /\ NoFault \/ Fault
           /\ UNCHANGED rows /\ WhenUp(Finish("failed", task, FALSE))
  BY <1>1, <1>4, WriteFails DEF DatabaseStages
<1> QED
  BY <1>3, <1>4 DEF BeginDiagnosticStage, Write, Failed
(* A step of the task that leaves the recovery complete.                   *)
LEMMA TaskContinues ==
  ASSUME AccountInv, Quiet, RowsInv', NoOrphanSecret', NoFault, phase = "up",
         UNCHANGED <<keyring, open, todo, recovery, targets, phase>>,
         \A u \in todo : rows'[u.id] = rows[u.id] /\ u.id # task'.id,
         recovery \in {"queued", "complete"},
         recovery = "queued" => task'.stage \in {"delete", "confirm", "purge"},
         task' \in Task, TaskInv', answer' = NoAnswer, UNCHANGED <<queue, reload>>
  PROVE  AccountInv' /\ UserIsToldTheTruth'
<1>1. Besides
  BY DEF Besides, AccountInv, TypeOK
<1>2. TodoKept
  BY DEF TodoKept
<1> QED
  BY <1>1, <1>2, TaskMoves, SilenceIsTrue

(* The row is marked for removal under the next generation; its secret is  *)
(* to be deleted if it has a connection.                                   *)
LEMMA BeginRemovalIsSafe ==
  ASSUME AccountInv, BeginRemovalStage
  PROVE  AccountInv' /\ UserIsToldTheTruth'
<1>1. task.stage = "begin_removal" /\ task.id \in Ids
      /\ UNCHANGED <<keyring, open, todo, recovery, targets, phase>>
  BY DEF BeginRemovalStage, Write, AccountInv, TaskInv
<1>2. recovery = "complete" /\ todo = {}
  BY <1>1, RecoveryIsOver
<1>3. ASSUME NEW n, n = task.gen + 1,
             MayBeginRemoval(task.id, task.gen), BeginRemoval(task.id), NoFault,
             WhenUp(IF task.key = NoKey
                    THEN Continue([[task EXCEPT !.gen = n] EXCEPT !.stage = "purge"])
                    ELSE Submit("delete",
                                [[task EXCEPT !.gen = n] EXCEPT !.stage = "delete"]))
      PROVE  AccountInv' /\ UserIsToldTheTruth'
  <2>1. /\ task.id \in Existing /\ rows[task.id] \in Row
        /\ rows[task.id].gen = task.gen /\ rows[task.id].gen < MaxGen
        /\ rows[task.id].state = "active" /\ rows[task.id].key = task.key
    BY <1>1, <1>3, RowIsTyped DEF MayBeginRemoval, Fenced, CanAdvance, AccountInv,
       RowsInv, Existing, TaskInv, OwnsRow
  <2> DEFINE s == IF task.key # NoKey THEN "removing_credentials" ELSE "removing_cache"
  <2>2. PICK r : r = [[rows[task.id] EXCEPT !.gen = n] EXCEPT !.state = s]
    OBVIOUS
  <2>3. rows' = [rows EXCEPT ![task.id] = r]
    BY <1>3, <2>1, <2>2 DEF BeginRemoval, Advanced, Configured
  <2>4. n \in 1..MaxGen /\ s \in Lifecycles
    BY <1>3, <2>1, StoreAssumption DEF Row, Lifecycles
  <2>5. /\ r \in Row /\ r.state = s /\ r.key = task.key /\ r.gen = n
    BY <2>1, <2>2, <2>4 DEF Row
  <2>6. rows'[task.id] = r
    BY <1>1, <2>3 DEF AccountInv, RowsInv
  <2>7. r.key # NoKey => \A b \in Existing : b # task.id => rows[b].key # r.key
    BY <2>1, <2>5 DEF AccountInv, RowsInv, Configured
  <2>8. \A u \in targets : u[1] = task.id => r.key # NoKey
    BY <2>1, <2>5 DEF AccountInv, RowsInv, Configured, Existing
  <2>9. Configured(task.id) => r.state \notin {"absent", "removing_cache"}
                               /\ r.key = rows[task.id].key
    BY <2>1, <2>5 DEF Configured
  <2>10. r.state = "removing_credentials" => r.key # NoKey
    BY <2>5
  <2>11. RowsInv' /\ NoOrphanSecret'
    BY <1>1, <2>3, <2>5, <2>7, <2>8, <2>9, <2>10, RowChanges
  <2>12. ASSUME NEW x \in {"purge", "delete"}, NEW t,
                t = [[task EXCEPT !.gen = n] EXCEPT !.stage = x]
         PROVE  /\ t \in Task /\ t.stage = x /\ t.id = task.id /\ t.gen = n
                /\ t.key = task.key
    <3>1. n \in 0..MaxGen
      BY <2>4, StoreAssumption
    <3>2. task \in Task /\ x \in Stages
      BY <2>12 DEF AccountInv, TypeOK, Stages, DatabaseStages, CredentialStages
    <3> QED
      BY <2>12, <3>1, <3>2 DEF Task
  <2>13. CASE phase # "up"
    <3>1. task' = Idle /\ answer' = NoAnswer /\ UNCHANGED <<queue, reload>>
      BY <1>3, <2>13 DEF WhenUp
    <3> QED
      BY <1>1, <1>2, <1>3, <2>11, <3>1, Unheard DEF DatabaseStages
  <2>14. CASE phase = "up" /\ task.key = NoKey
    <3>1. /\ task' = [[task EXCEPT !.gen = n] EXCEPT !.stage = "purge"]
          /\ answer' = NoAnswer /\ UNCHANGED <<queue, reload>>
      BY <1>3, <2>14 DEF WhenUp, Continue
    <3>2. PICK t : t = [[task EXCEPT !.gen = n] EXCEPT !.stage = "purge"]
      OBVIOUS
    <3>3. /\ task' \in Task /\ task'.stage = "purge" /\ task'.id = task.id
          /\ task'.gen = n /\ task'.key = NoKey
      BY <2>12, <2>14, <3>1, <3>2
    <3>4. TaskInv'
      BY <1>1, <2>5, <2>6, <2>14, <3>3 DEF TaskInv, OwnsRow, Fenced, Exists
    <3>5. Quiet
      BY <1>1, <2>14, HeardIsQuiet DEF Heard
    <3> QED
      BY <1>1, <1>2, <1>3, <2>11, <2>14, <3>1, <3>3, <3>4, <3>5, TaskContinues
  <2>15. CASE phase = "up" /\ task.key # NoKey
    <3>1. PICK t : t = [[task EXCEPT !.gen = n] EXCEPT !.stage = "delete"]
      OBVIOUS
    <3>2. Submit("delete", t)
      BY <1>3, <2>15, <3>1 DEF WhenUp
    <3>3. /\ t \in Task /\ t.stage = "delete" /\ t.id = task.id /\ t.gen = n
          /\ t.key = task.key
      BY <2>12, <3>1
    <3>4. t.key \in Locators
      BY <2>1, <2>15, <3>3 DEF Row
    <3>5. Fenced(t.id, t.gen)' /\ rows'[t.id].key = t.key
          /\ rows'[t.id].state = "removing_credentials"
      BY <2>5, <2>6, <2>15, <3>3 DEF Fenced, Exists
    <3>6. Quiet
      BY <1>1, <2>15, HeardIsQuiet DEF Heard
    <3> QED
      BY <1>1, <1>2, <1>3, <2>11, <2>15, <3>2, <3>3, <3>4, <3>5, <3>6, SubmitIsSafe
  <2> QED
    BY <2>13, <2>14, <2>15
<1>4. CASE /\ NoFault \/ Fault
           /\ UNCHANGED rows /\ WhenUp(Finish("failed", task, FALSE))
  BY <1>1, <1>4, WriteFails DEF DatabaseStages
<1>5. PICK n : n = task.gen + 1
  OBVIOUS
<1> QED
  BY <1>3, <1>4, <1>5 DEF BeginRemovalStage, Write, Failed
(* The secret is gone from the keyring, so the row may forget it.          *)
LEMMA ConfirmIsSafe ==
  ASSUME AccountInv, ConfirmRemoval
  PROVE  AccountInv' /\ UserIsToldTheTruth'
<1>1. task.stage = "confirm" /\ task.id \in Ids
      /\ UNCHANGED <<keyring, open, todo, recovery, targets, phase>>
  BY DEF ConfirmRemoval, Write, AccountInv, TaskInv
<1>2. \A u \in todo : u.id # task.id
  BY DEF AccountInv, RecoveryInv
<1>3. ASSUME NEW n, n = task.gen + 1,
             MayConfirmRemoved(task.id, task.gen), ConfirmRemoved(task.id), NoFault,
             WhenUp(Continue([[task EXCEPT !.stage = "purge"] EXCEPT !.gen = n]))
      PROVE  AccountInv' /\ UserIsToldTheTruth'
  <2>1. /\ task.id \in Existing /\ rows[task.id] \in Row
        /\ rows[task.id].gen = task.gen /\ rows[task.id].gen < MaxGen
        /\ rows[task.id].key = task.key /\ keyring[task.key] = NoSecret
    BY <1>1, <1>3, RowIsTyped DEF MayConfirmRemoved, Fenced, CanAdvance, AccountInv,
       RowsInv, Existing, TaskInv, OwnsRow
  <2>2. PICK r : r = [[rows[task.id] EXCEPT !.gen = n] EXCEPT !.state = "removing_cache"]
    OBVIOUS
  <2>3. rows' = [rows EXCEPT ![task.id] = r]
    BY <1>3, <2>1, <2>2 DEF ConfirmRemoved, Advanced
  <2>4. n \in 1..MaxGen /\ n \in 0..MaxGen
    BY <1>3, <2>1, StoreAssumption DEF Row
  <2>5. /\ r \in Row /\ r.state = "removing_cache" /\ r.key = task.key /\ r.gen = n
    BY <2>1, <2>2, <2>4 DEF Row, Lifecycles
  <2>6. rows'[task.id] = r
    BY <1>1, <2>3 DEF AccountInv, RowsInv
  <2>7. r.key # NoKey => \A b \in Existing : b # task.id => rows[b].key # r.key
    BY <2>1, <2>5 DEF AccountInv, RowsInv, Configured
  <2>8. \A u \in targets : u[1] = task.id => r.key # NoKey
    BY <2>1, <2>5 DEF AccountInv, RowsInv, Configured, Existing
  <2>9. RowsInv' /\ NoOrphanSecret'
    BY <1>1, <2>1, <2>3, <2>5, <2>7, <2>8, RowChanges
  <2>10. \A u \in todo : rows'[u.id] = rows[u.id]
    BY <2>3, OthersStay
  <2>11. CASE phase # "up"
    <3>1. task' = Idle /\ answer' = NoAnswer /\ UNCHANGED <<queue, reload>>
      BY <1>3, <2>11 DEF WhenUp
    <3> QED
      BY <1>1, <1>3, <2>9, <2>10, <3>1, Unheard DEF DatabaseStages
  <2>12. CASE phase = "up"
    <3>1. /\ task' = [[task EXCEPT !.stage = "purge"] EXCEPT !.gen = n]
          /\ answer' = NoAnswer /\ UNCHANGED <<queue, reload>>
      BY <1>3, <2>12 DEF WhenUp, Continue
    <3>2. task \in Task
      BY DEF AccountInv, TypeOK
    <3>3. /\ task' \in Task /\ task'.stage = "purge" /\ task'.id = task.id
          /\ task'.gen = n /\ task'.key = task.key
      BY <2>4, <3>1, <3>2 DEF Task, Stages, DatabaseStages
    <3>4. TaskInv'
      BY <1>1, <2>5, <2>6, <3>3 DEF TaskInv, OwnsRow, Fenced, Exists
    <3>5. Quiet
      BY <1>1, <2>12, HeardIsQuiet DEF Heard
    <3>6. recovery \in {"queued", "complete"}
      BY <1>1 DEF AccountInv, RecoveryInv, TypeOK, Idle
    <3> QED
      BY <1>1, <1>2, <1>3, <2>9, <2>10, <2>12, <3>1, <3>3, <3>4, <3>5, <3>6,
         TaskContinues
  <2> QED
    BY <2>11, <2>12
<1>4. CASE /\ NoFault \/ Fault
           /\ UNCHANGED rows /\ WhenUp(Finish("failed", task, TRUE))
  BY <1>1, <1>4, WriteFails DEF DatabaseStages
<1>5. PICK n : n = task.gen + 1
  OBVIOUS
<1> QED
  BY <1>3, <1>4, <1>5 DEF ConfirmRemoval, Write, LeftPending

(* A batch of the cache goes, or the row: then its secret went before.     *)
LEMMA PurgeIsSafe ==
  ASSUME AccountInv, PurgeRemoval
  PROVE  AccountInv' /\ UserIsToldTheTruth'
<1>1. task.stage = "purge" /\ task.id \in Ids
      /\ UNCHANGED <<keyring, open, todo, recovery, targets, phase>>
  BY DEF PurgeRemoval, Write, AccountInv, TaskInv
<1>2. \A u \in todo : u.id # task.id
  BY DEF AccountInv, RecoveryInv
<1>3. recovery \in {"queued", "complete"}
  BY <1>1 DEF AccountInv, RecoveryInv, TypeOK, Idle
<1>4. /\ task.id \in Existing /\ rows[task.id] \in Row /\ OwnsRow
      /\ rows[task.id].state = "removing_cache" /\ rows[task.id].key = task.key
  BY <1>1, RowIsTyped DEF AccountInv, RowsInv, TaskInv, OwnsRow, Fenced, Existing
<1>5. phase = "up" => Quiet
  BY <1>1, HeardIsQuiet DEF Heard
<1>6. ASSUME PurgeBatch(task.id), NoFault, rows[task.id].cache # 0,
             WhenUp(Continue(task))
      PROVE  AccountInv' /\ UserIsToldTheTruth'
  <2>1. PICK r : r = [rows[task.id] EXCEPT !.cache = @ - 1]
    OBVIOUS
  <2>2. rows' = [rows EXCEPT ![task.id] = r]
    BY <1>6, <2>1 DEF PurgeBatch
  <2>3. rows[task.id].cache - 1 \in 0..MaxCache
    BY <1>4, <1>6, StoreAssumption DEF Row
  <2>4. /\ r \in Row /\ r.state = "removing_cache" /\ r.key = task.key
        /\ r.gen = rows[task.id].gen
    BY <1>4, <2>1, <2>3 DEF Row
  <2>5. rows'[task.id] = r
    BY <1>1, <2>2 DEF AccountInv, RowsInv
  <2>6. r.key # NoKey => \A b \in Existing : b # task.id => rows[b].key # r.key
    BY <1>4, <2>4 DEF AccountInv, RowsInv, Configured
  <2>7. \A u \in targets : u[1] = task.id => r.key # NoKey
    BY <1>4, <2>4 DEF AccountInv, RowsInv, Configured, Existing
  <2>8. RowsInv' /\ NoOrphanSecret'
    BY <1>1, <1>4, <2>2, <2>4, <2>6, <2>7, RowChanges
  <2>9. \A u \in todo : rows'[u.id] = rows[u.id]
    BY <2>2, OthersStay
  <2>10. CASE phase # "up"
    <3>1. task' = Idle /\ answer' = NoAnswer /\ UNCHANGED <<queue, reload>>
      BY <1>6, <2>10 DEF WhenUp
    <3> QED
      BY <1>1, <1>6, <2>8, <2>9, <3>1, Unheard DEF DatabaseStages
  <2>11. CASE phase = "up"
    <3>1. task' = task /\ answer' = NoAnswer /\ UNCHANGED <<queue, reload>>
      BY <1>6, <2>11 DEF WhenUp, Continue
    <3>2. task' \in Task
      BY <3>1 DEF AccountInv, TypeOK
    <3>3. TaskInv'
      BY <1>1, <1>4, <2>4, <2>5, <3>1 DEF TaskInv, OwnsRow, Fenced, Exists
    <3> QED
      BY <1>1, <1>2, <1>3, <1>5, <1>6, <2>8, <2>9, <2>11, <3>1, <3>2, <3>3,
         TaskContinues
  <2> QED
    BY <2>10, <2>11
<1>7. ASSUME PurgeBatch(task.id), NoFault, rows[task.id].cache = 0,
             WhenUp(Finish("removed", task, TRUE))
      PROVE  AccountInv' /\ UserIsToldTheTruth'
  <2>1. rows' = [rows EXCEPT ![task.id] = Absent]
    BY <1>7 DEF PurgeBatch
  <2>2. rows'[task.id] = Absent
    BY <1>1, <2>1 DEF AccountInv, RowsInv
  <2>3. PICK r : r = Absent
    OBVIOUS
  <2>4. r.state = "absent" /\ r \in Row \cup {Absent}
    BY <2>3 DEF Absent
  <2>5. RowsInv' /\ NoOrphanSecret'
    BY <1>1, <1>4, <2>1, <2>3, <2>4, RowChanges
  <2>6. \A u \in todo : rows'[u.id] = rows[u.id]
    BY <2>1, OthersStay
  <2>7. CASE phase # "up"
    <3>1. task' = Idle /\ answer' = NoAnswer /\ UNCHANGED <<queue, reload>>
      BY <1>7, <2>7 DEF WhenUp
    <3> QED
      BY <1>1, <1>7, <2>5, <2>6, <3>1, Unheard DEF DatabaseStages
  <2>8. CASE phase = "up"
    <3>1. Finish("removed", task, TRUE)
      BY <1>7, <2>8 DEF WhenUp
    <3>2. task' = Idle /\ queue' = queue /\ answer' = Answer("removed", task)
      BY <3>1 DEF Finish
    <3>3. Besides
      BY <1>1, <1>7, <3>1 DEF Besides, Finish, AccountInv, TypeOK
    <3>4. AccountInv'
      BY <1>1, <1>5, <2>5, <2>6, <2>8, <3>2, <3>3, TaskEnds
    <3>5. ASSUME task.key # NoKey
          PROVE  keyring'[task.key] = NoSecret
      <4>1. task.key \in Locators
        BY <1>4, <3>5 DEF Row
      <4>2. \A b \in Existing : rows[b].key = task.key => b = task.id
        BY <1>4, <3>5 DEF AccountInv, RowsInv, Configured
      <4> QED
        BY <1>1, <1>4, <4>1, <4>2 DEF AccountInv, NoOrphanSecret
    <3>6. UserIsToldTheTruth'
      <4>1. CASE task.user
        <5>1. /\ answer'.kind = "removed" /\ answer'.id = task.id
              /\ answer'.key = task.key
          BY <3>2, <4>1 DEF Answer
        <5> QED
          BY <2>2, <3>5, <5>1 DEF UserIsToldTheTruth, AnswersAreTrue,
             FailureNamesFence, Exists, Absent
      <4>2. CASE ~task.user
        BY <3>2, <4>2, SilenceIsTrue DEF Answer
      <4> QED
        BY <4>1, <4>2
    <3> QED
      BY <3>4, <3>6
  <2> QED
    BY <2>7, <2>8
<1>8. CASE /\ NoFault \/ Fault
           /\ UNCHANGED rows /\ WhenUp(Finish("failed", task, TRUE))
  BY <1>1, <1>8, WriteFails DEF DatabaseStages
<1>9. WhenUp(IF rows[task.id].cache = 0 THEN Finish("removed", task, TRUE)
             ELSE Continue(task))
      => IF rows[task.id].cache = 0 THEN WhenUp(Finish("removed", task, TRUE))
         ELSE WhenUp(Continue(task))
  BY DEF WhenUp
<1> QED
  BY <1>6, <1>7, <1>8, <1>9 DEF PurgeRemoval, Write, LeftPending
(* Setup: the row names a locator that no other row names; only then is    *)
(* the secret sent.                                                        *)
LEMMA LocatorIsSafe ==
  ASSUME AccountInv, task.stage = "persist", NoFault, NEW a \in Ids, NEW r \in Row,
         UNCHANGED <<keyring, open, todo, recovery, targets, phase>>,
         rows' = [rows EXCEPT ![a] = r],
         Exists(a) => ~Configured(a), r.key = task.key, r.state = "active",
         NEW t, t = [task EXCEPT !.stage = "store", !.id = a, !.gen = r.gen],
         WhenUp(Submit("store", t))
  PROVE  AccountInv' /\ UserIsToldTheTruth'
<1>1. recovery = "complete" /\ todo = {}
  BY RecoveryIsOver
<1>2. task.key \in Locators /\ \A b \in Existing : rows[b].key # task.key
  BY DEF AccountInv, TaskInv
<1>3. r.key # NoKey /\ r.state \notin {"absent", "removing_credentials"}
      /\ r \in Row \cup {Absent}
  BY <1>2, StoreAssumption
<1>4. RowsInv' /\ NoOrphanSecret'
  BY <1>2, <1>3, RowChanges
<1>5. CASE phase # "up"
  <2>1. task' = Idle /\ answer' = NoAnswer /\ UNCHANGED <<queue, reload>>
    BY <1>5 DEF WhenUp
  <2> QED
    BY <1>1, <1>4, <2>1, Unheard DEF DatabaseStages
<1>6. CASE phase = "up"
  <2>1. Submit("store", t)
    BY <1>6 DEF WhenUp
  <2>2. task \in Task /\ r.gen \in 0..MaxGen
    BY StoreAssumption DEF AccountInv, TypeOK, Row
  <2>3. /\ t \in Task /\ t.stage = "store" /\ t.id = a /\ t.gen = r.gen
        /\ t.key = task.key
    BY <2>2 DEF Task, Stages, CredentialStages
  <2>4. rows'[a] = r
    BY DEF AccountInv, RowsInv
  <2>5. Fenced(t.id, t.gen)' /\ rows'[t.id].key = t.key /\ rows'[t.id].state = "active"
    BY <2>3, <2>4 DEF Fenced, Exists
  <2>6. Quiet
    BY <1>6, HeardIsQuiet DEF Heard
  <2> QED
    BY <1>1, <1>2, <1>4, <1>6, <2>1, <2>3, <2>5, <2>6, SubmitIsSafe
<1> QED
  BY <1>5, <1>6

LEMMA PersistIsSafe ==
  ASSUME AccountInv, PersistLocator
  PROVE  AccountInv' /\ UserIsToldTheTruth'
<1>1. task.stage = "persist" /\ task.key \in Locators /\ task \in Task
      /\ UNCHANGED <<keyring, open, todo, recovery, targets, phase>>
  BY DEF PersistLocator, Write, AccountInv, TaskInv, TypeOK
<1>2. ASSUME task.id = NoAccount, NewId \in Ids, CreateAccount(task.key), NoFault,
             WhenUp(Submit("store", [task EXCEPT !.stage = "store", !.id = NewId,
                                                 !.gen = 1]))
      PROVE  AccountInv' /\ UserIsToldTheTruth'
  <2>1. PICK a \in Ids : a = NewId
    BY <1>2
  <2>2. PICK r : r = NewRow(task.key)
    OBVIOUS
  <2>3. r \in Row /\ r.key = task.key /\ r.state = "active" /\ r.gen = 1
    BY <1>1, <2>2, StoreAssumption DEF NewRow, Row, Lifecycles
  <2>4. rows' = [rows EXCEPT ![a] = r]
    BY <1>2, <2>1, <2>2 DEF CreateAccount
  <2>5. ~Exists(a)
    BY <2>1, NewIdIsNew DEF AccountInv, RowsInv, Existing
  <2>6. PICK t : t = [task EXCEPT !.stage = "store", !.id = a, !.gen = r.gen]
    OBVIOUS
  <2>7. WhenUp(Submit("store", t))
    BY <1>2, <2>1, <2>3, <2>6
  <2> QED
    BY <1>1, <1>2, <2>3, <2>4, <2>5, <2>6, <2>7, LocatorIsSafe
<1>3. ASSUME task.id # NoAccount, MayConfigure(task.id, task.gen),
             ConfigureExisting(task.id, task.key), NoFault, NEW n, n = task.gen + 1,
             WhenUp(Submit("store", [task EXCEPT !.stage = "store", !.id = task.id,
                                                 !.gen = n]))
      PROVE  AccountInv' /\ UserIsToldTheTruth'
  <2>1. PICK a \in Ids : a = task.id
    BY <1>1, <1>3 DEF Task
  <2>2. /\ a \in Existing /\ rows[a] \in Row /\ rows[a].gen = task.gen
        /\ rows[a].gen < MaxGen /\ rows[a].state = "active" /\ ~Configured(a)
    BY <1>3, <2>1, RowIsTyped DEF MayConfigure, Fenced, CanAdvance, AccountInv,
       RowsInv, Existing
  <2>3. PICK r : r = [[rows[a] EXCEPT !.gen = n] EXCEPT !.key = task.key]
    OBVIOUS
  <2>4. n \in 1..MaxGen
    BY <1>3, <2>2, StoreAssumption DEF Row
  <2>5. r \in Row /\ r.key = task.key /\ r.state = "active" /\ r.gen = n
    BY <1>1, <2>2, <2>3, <2>4 DEF Row
  <2>6. rows' = [rows EXCEPT ![a] = r]
    BY <1>3, <2>1, <2>2, <2>3 DEF ConfigureExisting, Advanced
  <2>7. PICK t : t = [task EXCEPT !.stage = "store", !.id = a, !.gen = r.gen]
    OBVIOUS
  <2>8. WhenUp(Submit("store", t))
    BY <1>3, <2>1, <2>5, <2>7
  <2> QED
    BY <1>1, <1>3, <2>2, <2>5, <2>6, <2>7, <2>8, LocatorIsSafe
<1>4. CASE /\ NoFault \/ Fault
           /\ UNCHANGED rows /\ WhenUp(Finish("failed", task, FALSE))
  BY <1>1, <1>4, WriteFails DEF DatabaseStages
<1>5. PICK n : n = task.gen + 1
  OBVIOUS
<1> QED
  BY <1>2, <1>3, <1>4, <1>5 DEF PersistLocator, Write, Failed
-----------------------------------------------------------------------------
(* The user, the scheduler and the recovery start tasks                    *)

(* A background sync that gives way leaves only requests nobody waits for. *)
LEMMA AbandonedIsQuiet ==
  ASSUME AccountInv, CanStartUserOperation, queue' = Abandoned
  PROVE  queue' \in Seq(Request) /\ Len(queue') <= Capacity /\ QueueInv'
<1>1. queue \in Seq(Request) /\ Len(queue) \in Nat /\ Len(queue) <= Capacity
      /\ DOMAIN queue = 1..Len(queue) /\ phase = "up"
  BY DEF AccountInv, TypeOK, CanStartUserOperation
<1>2. ASSUME NEW i \in DOMAIN queue
      PROVE  /\ queue'[i] \in Request /\ queue'[i].op = "load"
             /\ ~queue'[i].live
  <2>1. queue[i] \in Request
    BY <1>1
  <2>2. queue[i].op = "load"
    <3>1. ASSUME queue[i].op # "load"
          PROVE  FALSE
      <4>1. Explained(queue[i])
        BY <3>1 DEF AccountInv, QueueInv, Busy
      <4> QED
        BY <1>1, <3>1, <4>1 DEF Explained, CanStartUserOperation
    <3> QED
      BY <3>1
  <2>3. queue'[i] = [queue[i] EXCEPT !.live = queue[i].live /\ queue[i].op # "load"]
    BY DEF Abandoned
  <2>4. (queue[i].live /\ queue[i].op # "load") = FALSE
    BY <2>2
  <2>5. queue'[i] = [queue[i] EXCEPT !.live = FALSE]
    BY <2>3, <2>4
  <2> QED
    BY <2>1, <2>2, <2>5 DEF Request
<1>3. DOMAIN queue' = 1..Len(queue)
  BY <1>1 DEF Abandoned
<1>4. queue' = [i \in 1..Len(queue) |-> queue'[i]]
  BY <1>1 DEF Abandoned
<1>5. queue' \in [1..Len(queue) -> Request]
  BY <1>1, <1>2, <1>4
<1>6. queue' \in Seq(Request) /\ Len(queue') = Len(queue)
  BY <1>1, <1>3, <1>5
<1>7. \A i \in DOMAIN queue' : ~Busy(queue'[i]) /\ queue'[i].op # "store"
  BY <1>1, <1>2, <1>3 DEF Busy
<1> QED
  BY <1>1, <1>6, <1>7 DEF QueueInv, Busy

LEMMA BeginIsSafe ==
  ASSUME AccountInv, NEW t \in Task, Begin(t),
         t.stage \in {"persist", "load_retry", "load_diagnostic", "load_removal"},
         t.stage = "persist" =>
             t.key \in Locators /\ \A a \in Existing : rows[a].key # t.key,
         t.stage # "persist" => t.id \in Ids
  PROVE  AccountInv' /\ UserIsToldTheTruth'
<1>1. /\ task' = t /\ queue' = Abandoned /\ answer' = NoAnswer /\ NoFault
      /\ UNCHANGED <<rows, keyring, open, todo, recovery, targets, reload, phase>>
      /\ phase = "up" /\ recovery = "complete" /\ todo = {}
  BY DEF Begin, CanStartUserOperation, AccountInv, RecoveryInv
<1>2. queue' \in Seq(Request) /\ Len(queue') <= Capacity /\ QueueInv'
  BY <1>1, AbandonedIsQuiet DEF Begin
<1>3. RowsInv' /\ NoOrphanSecret'
  BY <1>1, RowsStay
<1>4. TodoKept
  BY <1>1 DEF TodoKept
<1>5. Besides
  BY <1>1 DEF Besides, AccountInv, TypeOK
<1>6. TaskInv'
  BY <1>1 DEF TaskInv, Existing, Exists
<1>7. TypeOK'
  BY <1>1, <1>2, <1>3, <1>4, <1>5, TypesStay
<1>8. RecoveryInv' /\ DrainInv'
  BY <1>4, RecoveryGoesOn
<1> QED
  BY <1>1, <1>2, <1>3, <1>6, <1>7, <1>8, SilenceIsTrue DEF AccountInv

(* Setup, repair, diagnosis and removal.                                   *)
LEMMA UserRequestIsSafe ==
  ASSUME AccountInv, UserRequest
  PROVE  AccountInv' /\ UserIsToldTheTruth'
<1>1. Idle \in Task /\ 0 \in 0..MaxGen /\ 1..MaxGen \subseteq 0..MaxGen
  BY StoreAssumption DEF Idle, Task, Stages, Replies
<1>2. ASSUME NEW a \in Ids \cup {NoAccount}, NEW g \in 0..MaxGen, NEW k \in Locators,
             NEW s \in Secrets, Setup(a, g, k, s)
      PROVE  AccountInv' /\ UserIsToldTheTruth'
  <2>1. PICK t : t = [UserTask("persist", a, g) EXCEPT !.key = k, !.secret = s]
    OBVIOUS
  <2>2. k \in FreshLocators /\ Begin(t)
    BY <1>2, <2>1 DEF Setup
  <2>3. t \in Task /\ t.stage = "persist" /\ t.key = k
    BY <1>1, <2>1 DEF UserTask, Idle, Task, Stages, DatabaseStages
  <2> QED
    BY <2>2, <2>3, BeginIsSafe DEF FreshLocators
<1>3. ASSUME NEW a \in Ids, NEW g \in 1..MaxGen, NEW s \in Secrets,
             RetryCredential(a, g, s)
      PROVE  AccountInv' /\ UserIsToldTheTruth'
  <2>1. PICK t : t = [UserTask("load_retry", a, g) EXCEPT !.secret = s]
    OBVIOUS
  <2>2. Begin(t)
    BY <1>3, <2>1 DEF RetryCredential
  <2>3. t \in Task /\ t.stage = "load_retry" /\ t.id = a
    BY <1>1, <2>1 DEF UserTask, Idle, Task, Stages, LoadStages
  <2> QED
    BY <2>2, <2>3, BeginIsSafe
<1>4. ASSUME NEW a \in Ids, NEW g \in 1..MaxGen, Diagnose(a, g) \/ RemoveAccount(a, g)
      PROVE  AccountInv' /\ UserIsToldTheTruth'
  <2>1. PICK s \in {"load_diagnostic", "load_removal"} : Begin(UserTask(s, a, g))
    BY <1>4 DEF Diagnose, RemoveAccount
  <2>2. PICK t : t = UserTask(s, a, g)
    OBVIOUS
  <2>3. Begin(t)
    BY <2>1, <2>2
  <2>4. t \in Task /\ t.stage = s /\ t.id = a
    BY <1>1, <2>2 DEF UserTask, Idle, Task, Stages, LoadStages
  <2> QED
    BY <2>1, <2>3, <2>4, BeginIsSafe
<1> QED
  BY <1>1, <1>2, <1>3, <1>4 DEF UserRequest
(* A background sync asks for the secret of an account that has one.       *)
LEMMA StartBackgroundIsSafe ==
  ASSUME AccountInv, NEW a \in Ids, NEW g \in 1..MaxGen, StartBackground(a, g)
  PROVE  AccountInv' /\ UserIsToldTheTruth'
<1>1. /\ phase = "up" /\ recovery = "complete" /\ task = Idle /\ NoFault
      /\ <<a, g>> \in targets
      /\ UNCHANGED <<rows, keyring, open, todo, recovery, targets, phase>>
  BY DEF StartBackground
<1>2. todo = {}
  BY <1>1 DEF AccountInv, RecoveryInv
<1>3. Quiet
  BY <1>1, HeardIsQuiet DEF Heard, Idle
<1>4. RowsInv' /\ NoOrphanSecret'
  BY <1>1, RowsStay
<1>5. CASE Fenced(a, g)
  <2>1. PICK t : t = [Idle EXCEPT !.stage = "background", !.id = a, !.gen = g,
                                  !.key = rows[a].key]
    OBVIOUS
  <2>2. Submit("load", t)
    BY <1>5, <2>1 DEF StartBackground
  <2>3. Exists(a) /\ Configured(a)
    BY <1>1, <1>5 DEF AccountInv, RowsInv, Fenced
  <2>4. rows[a].key \in Locators
    BY <2>3, ConfiguredKey DEF AccountInv
  <2>5. g \in 0..MaxGen
    BY StoreAssumption
  <2>6. /\ t \in Task /\ t.stage = "background" /\ t.id = a /\ t.key = rows[a].key
    BY <2>1, <2>4, <2>5 DEF Idle, Task, Stages, CredentialStages, Replies
  <2> QED
    BY <1>1, <1>2, <1>3, <1>4, <2>2, <2>4, <2>6, SubmitIsSafe
<1>6. CASE ~Fenced(a, g)
  <2>1. task' = Idle /\ answer' = NoAnswer /\ UNCHANGED <<queue, reload>>
    BY <1>6 DEF StartBackground, Continue
  <2>2. Besides
    BY <1>1, <2>1 DEF Besides, AccountInv, TypeOK
  <2> QED
    BY <1>1, <1>2, <1>3, <1>4, <2>1, <2>2, TaskEnds, SilenceIsTrue
<1> QED
  BY <1>5, <1>6

(* The candidates of the scheduler all have a connection.                  *)
LEMMA LoadTargetsIsSafe ==
  ASSUME AccountInv, LoadTargets
  PROVE  AccountInv' /\ UserIsToldTheTruth'
<1>1. /\ targets' = SyncTargets /\ reload' = FALSE /\ answer' = NoAnswer
      /\ UNCHANGED <<rows, keyring, queue, open, task, todo, recovery, phase>>
      /\ UNCHANGED <<faults, clean>>
  BY DEF LoadTargets, NoFault
<1>2. rows \in [Ids -> Row \cup {Absent}]
  BY DEF AccountInv, RowsInv
<1>3. ASSUME NEW t \in SyncTargets
      PROVE  t \in Ids \X (1..MaxGen) /\ Configured(t[1])
  <2>1. PICK a \in Pending("active") : Configured(a) /\ t = <<a, rows[a].gen>>
    BY <1>3 DEF SyncTargets
  <2>2. a \in Existing
    BY <2>1 DEF Pending, Existing, Exists
  <2>3. a \in Ids /\ rows[a] \in Row
    BY <2>2, RowIsTyped DEF AccountInv
  <2> QED
    BY <2>1, <2>3 DEF Row
<1>4. TypeOK'
  <2>1. SyncTargets \subseteq Ids \X (1..MaxGen)
    BY <1>3
  <2>2. reload' \in BOOLEAN
    BY <1>1
  <2> QED
    BY <1>1, <2>1, <2>2 DEF AccountInv, TypeOK, StoreTypeOK
<1>5. RowsInv'
  <2>1. \A t \in targets' : Configured(t[1])'
    BY <1>1, <1>3 DEF Configured
  <2> QED
    BY <1>1, <2>1 DEF AccountInv, RowsInv, Existing, Exists, Configured
<1>6. TaskInv'
  BY <1>1 DEF AccountInv, TaskInv, OwnsRow, Fenced, Existing, Exists
<1>7. QueueInv'
  BY <1>1 DEF AccountInv, QueueInv, Explained, Existing, Exists, Busy
<1>8. RecoveryInv' /\ DrainInv'
  BY <1>1 DEF AccountInv, RecoveryInv, DrainInv, Fenced, Exists
<1>9. NoOrphanSecret'
  BY <1>1 DEF AccountInv, NoOrphanSecret, Existing, Exists
<1> QED
  BY <1>1, <1>4, <1>5, <1>6, <1>7, <1>8, <1>9, SilenceIsTrue DEF AccountInv

(* What a scan finds is as the ticket says.                                *)
LEMMA ScanIsSafe ==
  ASSUME AccountInv, NEW from, NEW state, NEW stage, NEW to,
         Scan(from, state, stage, to),
         stage \in {"delete", "purge"}, state = TicketStage[stage],
         to \in {"scan_cache", "queued"}
  PROVE  AccountInv' /\ UserIsToldTheTruth'
<1>1. /\ task = Idle /\ phase = "up" /\ answer' = NoAnswer
      /\ todo' = todo \cup Tickets(state, stage) /\ recovery' = to
      /\ UNCHANGED <<rows, keyring, queue, open, task, targets, reload, phase>>
      /\ UNCHANGED <<faults, clean>>
  BY DEF Scan, NoFault
<1>2. ASSUME NEW t \in Tickets(state, stage)
      PROVE  /\ t \in Ticket /\ Fenced(t.id, t.gen)
             /\ rows[t.id].state = TicketStage[t.stage]
  <2>1. PICK a \in Pending(state) : t = [id |-> a, gen |-> rows[a].gen, stage |-> stage]
    BY <1>2 DEF Tickets
  <2>2. a \in Existing /\ rows[a].state = state
    BY <2>1 DEF Pending, Existing, Exists, TicketStage
  <2>3. a \in Ids /\ rows[a] \in Row
    BY <2>2, RowIsTyped DEF AccountInv
  <2>4. t \in Ticket /\ t.id = a /\ t.gen = rows[a].gen /\ t.stage = stage
    BY <2>1, <2>3 DEF Ticket, Row
  <2> QED
    BY <2>2, <2>4 DEF Fenced, Existing
<1>3. TypeOK'
  BY <1>1, <1>2 DEF AccountInv, TypeOK, StoreTypeOK
<1>4. RowsInv' /\ NoOrphanSecret'
  BY <1>1, RowsStay
<1>5. TaskInv'
  BY <1>1 DEF AccountInv, TaskInv, OwnsRow, Fenced, Existing, Exists
<1>6. QueueInv'
  BY <1>1 DEF AccountInv, QueueInv, Explained, Existing, Exists, Busy
<1>7. RecoveryInv'
  <2>1. ASSUME NEW t \in todo'
        PROVE  /\ Fenced(t.id, t.gen)' /\ rows'[t.id].state = TicketStage[t.stage]
               /\ t.id # task'.id
    <3>1. Fenced(t.id, t.gen) /\ rows[t.id].state = TicketStage[t.stage]
      BY <1>1, <1>2 DEF AccountInv, RecoveryInv
    <3>2. t.id \in Ids
      BY <1>3 DEF TypeOK, Ticket
    <3>3. t.id # task.id
      BY <1>1, <3>2, WorkflowAssumption DEF Idle
    <3> QED
      BY <1>1, <3>1, <3>3 DEF Fenced, Exists
  <2> QED
    BY <1>1, <2>1 DEF RecoveryInv, Idle
<1>8. DrainInv'
  BY <1>1 DEF AccountInv, DrainInv
<1> QED
  BY <1>1, <1>3, <1>4, <1>5, <1>6, <1>7, <1>8, SilenceIsTrue DEF AccountInv

(* The recovery takes up a removal, or ends.                               *)
LEMMA ResumeIsSafe ==
  ASSUME AccountInv, Resume
  PROVE  AccountInv' /\ UserIsToldTheTruth'
<1>1. /\ phase = "up" /\ recovery = "queued" /\ task = Idle /\ NoFault
      /\ UNCHANGED <<rows, keyring, open, targets, phase>>
  BY DEF Resume
<1>2. Quiet
  BY <1>1, HeardIsQuiet DEF Heard, Idle
<1>3. RowsInv' /\ NoOrphanSecret'
  BY <1>1, RowsStay
<1>4. CASE RecoveryDone
  <2>1. /\ todo = {} /\ todo' = {} /\ recovery' = "complete" /\ task' = Idle
        /\ answer' = NoAnswer /\ UNCHANGED <<queue, reload>>
    BY <1>4 DEF RecoveryDone, Continue
  <2>2. TypeOK'
    BY <1>1, <2>1 DEF AccountInv, TypeOK, StoreTypeOK, NoFault
  <2>3. TaskInv'
    BY <2>1, IdleIsFine
  <2>4. QueueInv'
    BY <1>2, <2>1, QueueStays
  <2>5. RecoveryInv' /\ DrainInv'
    BY <1>1, <2>1 DEF RecoveryInv, DrainInv
  <2> QED
    BY <1>3, <2>1, <2>2, <2>3, <2>4, <2>5, SilenceIsTrue DEF AccountInv
<1>5. ASSUME NEW u \in todo, ResumeRemoval(u)
      PROVE  AccountInv' /\ UserIsToldTheTruth'
  <2>1. PICK t : t = [Idle EXCEPT !.stage = u.stage, !.id = u.id, !.gen = u.gen,
                                  !.key = rows[u.id].key]
    OBVIOUS
  <2>2. /\ todo' = todo \ {u} /\ recovery' = recovery
        /\ IF u.stage = "delete" THEN Submit("delete", t) ELSE Continue(t)
    BY <1>5, <2>1 DEF ResumeRemoval
  <2>3. u \in Ticket /\ Fenced(u.id, u.gen) /\ rows[u.id].state = TicketStage[u.stage]
    BY DEF AccountInv, TypeOK, RecoveryInv
  <2>4. u.id \in Existing /\ rows[u.id] \in Row
    BY <2>3, RowIsTyped DEF Ticket, Fenced, Existing, AccountInv, RowsInv
  <2>5. u.gen \in 0..MaxGen /\ u.stage \in Stages /\ u.id \in Ids
    BY <2>3, StoreAssumption DEF Ticket, Stages, CredentialStages, DatabaseStages
  <2>6. Idle \in Task
    BY StoreAssumption DEF Idle, Task, Stages, Replies
  <2>7. /\ t \in Task /\ t.stage = u.stage /\ t.id = u.id /\ t.gen = u.gen
        /\ t.key = rows[u.id].key
    BY <2>1, <2>4, <2>5, <2>6 DEF Task, Row
  <2>8. ASSUME NEW v \in todo'
        PROVE  rows'[v.id] = rows[v.id] /\ v.id # t.id
    <3>1. v \in todo /\ v # u /\ v \in Ticket
      BY <2>2 DEF AccountInv, TypeOK
    <3>2. Fenced(v.id, v.gen) /\ rows[v.id].state = TicketStage[v.stage]
      BY <3>1 DEF AccountInv, RecoveryInv
    <3>3. ASSUME v.id = u.id
          PROVE  FALSE
      <4>1. v.gen = u.gen
        BY <2>3, <3>2, <3>3 DEF Fenced
      <4>2. v.stage = u.stage
        BY <2>3, <3>1, <3>2, <3>3 DEF Ticket, TicketStage
      <4> QED
        BY <2>3, <3>1, <3>3, <4>1, <4>2 DEF Ticket
    <3> QED
      BY <1>1, <2>7, <3>3
  <2>9. CASE u.stage = "delete"
    <3>1. rows[u.id].state = "removing_credentials"
      BY <2>3, <2>9 DEF TicketStage
    <3>2. t.key \in Locators
      BY <2>4, <2>5, <2>7, <3>1, ConfiguredKey DEF AccountInv, RowsInv, Existing
    <3>3. Fenced(t.id, t.gen)' /\ rows'[t.id].key = t.key
          /\ rows'[t.id].state = "removing_credentials"
      BY <1>1, <2>3, <2>7, <3>1 DEF Fenced, Exists
    <3>4. Submit("delete", t)
      BY <2>2, <2>9
    <3> QED
      BY <1>1, <1>2, <1>3, <2>2, <2>5, <2>7, <2>8, <2>9, <3>2, <3>3, <3>4, SubmitIsSafe
  <2>10. CASE u.stage # "delete"
    <3>1. u.stage = "purge" /\ rows[u.id].state = "removing_cache"
      BY <2>3, <2>10 DEF Ticket, TicketStage
    <3>2. task' = t /\ answer' = NoAnswer /\ UNCHANGED <<queue, reload>>
      BY <2>2, <2>10 DEF Continue
    <3>3. TaskInv'
      BY <1>1, <2>3, <2>5, <2>7, <3>1, <3>2 DEF TaskInv, OwnsRow, Fenced, Exists
    <3>4. TodoKept
      BY <1>1, <2>2, <2>7, <2>8, <3>1, <3>2 DEF TodoKept
    <3>5. Besides
      BY <1>1, <3>2 DEF Besides, AccountInv, TypeOK
    <3> QED
      BY <1>2, <1>3, <2>7, <3>2, <3>3, <3>4, <3>5, TaskMoves, SilenceIsTrue
  <2> QED
    BY <2>9, <2>10
<1> QED
  BY <1>4, <1>5 DEF Resume
-----------------------------------------------------------------------------
(* The credential worker                                                   *)

(* The worker takes the first request: it does what it says or fails, with *)
(* or without having done it, and a reply of "done" is never a lie.        *)
LEMMA HeadIsServed ==
  ASSUME AccountInv, queue # <<>>, queue' = Tail(queue), NEW r, r = Head(queue),
         NEW result \in {"done", "failed"}, Reply(r, result),
         UNCHANGED <<rows, open, todo, recovery, targets, reload, phase>>,
         answer' = NoAnswer, NoFault \/ Fault,
         \/ UNCHANGED keyring /\ (result = "done" => r.op = "load")
         \/ /\ r.op \in {"store", "delete"}
            /\ keyring' = [keyring EXCEPT ![r.key] = IF r.op = "store" THEN r.secret
                                                     ELSE NoSecret]
  PROVE  AccountInv' /\ UserIsToldTheTruth'
<1> DEFINE n == Len(queue)
<1>1. queue \in Seq(Request) /\ n \in Nat /\ n > 0 /\ n <= Capacity
  BY DEF AccountInv, TypeOK
<1>2. /\ queue' \in Seq(Request) /\ Len(queue') = n - 1
      /\ \A i \in 1..(n - 1) : queue'[i] = queue[i + 1]
  BY <1>1
<1>3. r \in Request /\ r = queue[1] /\ 1 \in DOMAIN queue
  BY <1>1
<1>4. ASSUME NEW i \in DOMAIN queue'
      PROVE  i + 1 \in DOMAIN queue /\ queue'[i] = queue[i + 1] /\ i + 1 # 1 /\ i \in Nat
  BY <1>1, <1>2
<1>5. Len(queue') <= Capacity
  BY <1>1, <1>2, WorkflowAssumption
<1> HIDE DEF n
<1>6. /\ task \in Task /\ TaskInv /\ QueueInv /\ RowsInv /\ RecoveryInv /\ DrainInv
      /\ NoOrphanSecret /\ keyring \in [Locators -> Secrets \cup {NoSecret}]
  BY DEF AccountInv, TypeOK
<1>7. \/ task' = task
      \/ task' = [task EXCEPT !.reply = result] /\ r.live
         /\ task.stage \in CredentialStages
  BY DEF Reply, Awaited
<1>8. /\ task' \in Task /\ task'.stage = task.stage /\ task'.id = task.id
      /\ task'.gen = task.gen /\ task'.key = task.key /\ task'.secret = task.secret
  BY <1>6, <1>7 DEF Task, Replies
<1>9. keyring' \in [Locators -> Secrets \cup {NoSecret}]
  BY <1>3, <1>6 DEF Request
<1>10. TypeOK'
  <2>1. faults' \in 0..MaxFaults /\ clean' \in BOOLEAN
    BY FaultsAreCounted DEF AccountInv
  <2> QED
    BY <1>2, <1>5, <1>8, <1>9, <2>1 DEF AccountInv, TypeOK, StoreTypeOK
<1>11. RowsInv'
  BY <1>6 DEF RowsInv, Existing, Exists, Configured
<1>12. NoOrphanSecret'
  <2>1. ASSUME NEW k \in Locators, keyring'[k] # NoSecret
        PROVE  \E a \in Existing : rows[a].key = k /\ rows[a].state # "removing_cache"
    <3>1. CASE keyring[k] # NoSecret
      BY <1>6, <3>1 DEF NoOrphanSecret
    <3>2. CASE keyring[k] = NoSecret
      <4>1. r.op = "store" /\ r.key = k
        BY <1>3, <1>6, <2>1, <3>2 DEF Request
      <4> QED
        BY <1>3, <1>6, <4>1 DEF QueueInv
    <3> QED
      BY <3>1, <3>2
  <2> QED
    BY <2>1 DEF NoOrphanSecret, Existing, Exists
<1>13. RecoveryInv' /\ DrainInv'
  <2>1. task = Idle => task' = Idle
    BY <1>7 DEF Idle, CredentialStages
  <2> QED
    BY <1>6, <1>8, <2>1 DEF RecoveryInv, DrainInv, Fenced, Exists
<1>14. CASE Busy(r)
  <2>1. Explained(r)
    BY <1>3, <1>6, <1>14 DEF QueueInv
  <2>2. ASSUME NEW i \in DOMAIN queue'
        PROVE  ~Busy(queue'[i]) /\ queue'[i].op # "store"
    <3>1. ~Busy(queue[i + 1])
      BY <1>3, <1>4, <1>6, <1>14 DEF QueueInv
    <3> QED
      BY <1>4, <3>1 DEF Busy
  <2>3. QueueInv'
    BY <2>2 DEF QueueInv, Busy
  <2>4. CASE r.live
    <3>1. /\ task.reply = "none"
          /\ \/ r.op = "load" /\ task.stage \in {"load_secret", "background"}
             \/ /\ r.op = task.stage /\ r.op \in {"store", "delete"}
                /\ r.key = task.key
                /\ r.op = "store" => r.secret = task.secret
      BY <2>1, <2>4 DEF Explained
    <3>2. task' = [task EXCEPT !.reply = result]
      BY <2>4, <3>1 DEF Reply, Awaited, CredentialStages
    <3>3. task'.reply = result
      BY <1>6, <3>2 DEF Task
    <3>4. r.key \in Locators
      BY <1>3 DEF Request
    <3>5. task.stage = "store" /\ result = "done" => keyring'[task.key] = task.secret
      BY <1>6, <3>1, <3>4
    <3>6. task.stage = "delete" /\ result = "done" => keyring'[task.key] = NoSecret
      BY <1>6, <3>1, <3>4
    <3>7. TaskInv'
      BY <1>6, <1>8, <3>1, <3>3, <3>5, <3>6 DEF TaskInv, OwnsRow, Fenced, Existing,
         Exists
    <3> QED
      BY <1>10, <1>11, <1>12, <1>13, <2>3, <3>7, SilenceIsTrue DEF AccountInv
  <2>5. CASE ~r.live
    <3>1. task' = Idle
      BY <2>1, <2>5 DEF Explained, Reply, Awaited
    <3>2. TaskInv'
      BY <3>1, IdleIsFine
    <3> QED
      BY <1>10, <1>11, <1>12, <1>13, <2>3, <3>2, SilenceIsTrue DEF AccountInv
  <2> QED
    BY <2>4, <2>5
<1>15. CASE ~Busy(r)
  <2>1. r.op = "load" /\ ~r.live
    BY <1>3, <1>15 DEF Busy
  <2>2. task' = task /\ keyring' = keyring
    BY <2>1 DEF Reply, Awaited
  <2>3. TaskInv'
    BY <1>6, <2>2 DEF TaskInv, OwnsRow, Fenced, Existing, Exists
  <2>4. QueueInv'
    <3>1. \A i \in DOMAIN queue' : Busy(queue'[i]) => Explained(queue'[i])
      BY <1>4, <1>6 DEF QueueInv
    <3>2. \A i, j \in DOMAIN queue' : Busy(queue'[i]) /\ Busy(queue'[j]) => i = j
      <4>1. ASSUME NEW i \in DOMAIN queue', NEW j \in DOMAIN queue',
                   Busy(queue'[i]), Busy(queue'[j])
            PROVE  i = j
        <5>1. i + 1 = j + 1
          BY <1>4, <1>6, <4>1 DEF QueueInv
        <5> QED
          BY <1>4, <5>1
      <4> QED
        BY <4>1
    <3>3. \A i \in DOMAIN queue' : queue'[i].op = "store" =>
             \E a \in Existing : rows[a].key = queue'[i].key /\ rows[a].state = "active"
      BY <1>4, <1>6 DEF QueueInv
    <3> QED
      BY <2>2, <3>1, <3>2, <3>3 DEF QueueInv, Explained, Busy, Existing, Exists
  <2> QED
    BY <1>10, <1>11, <1>12, <1>13, <2>3, <2>4, SilenceIsTrue DEF AccountInv
<1> QED
  BY <1>14, <1>15

LEMMA WorkerIsSafe ==
  ASSUME AccountInv, Worker \/ WorkerFails
  PROVE  AccountInv' /\ UserIsToldTheTruth'
<1>1. PICK r : r = Head(queue)
  OBVIOUS
<1>2. /\ queue # <<>> /\ queue' = Tail(queue) /\ answer' = NoAnswer
      /\ UNCHANGED <<rows, open, todo, recovery, targets, reload, phase>>
      /\ NoFault \/ Fault
  BY DEF Worker, WorkerFails
<1>3. r.op \in {"store", "load", "delete"}
  <2>1. queue \in Seq(Request)
    BY DEF AccountInv, TypeOK
  <2>2. r \in Request
    BY <1>1, <1>2, <2>1
  <2> QED
    BY <2>2 DEF Request
<1>4. CASE Worker
  <2>1. CASE r.op = "load" /\ ~r.live
    <3>1. UNCHANGED <<keyring, task>>
      BY <1>1, <1>4, <2>1 DEF Worker
    <3>2. Reply(r, "failed")
      BY <2>1, <3>1 DEF Reply, Awaited
    <3> QED
      BY <1>1, <1>2, <3>1, <3>2, HeadIsServed
  <2>2. CASE ~(r.op = "load" /\ ~r.live)
    <3>1. PICK ok \in BOOLEAN :
             Executed(r, ok) /\ Reply(r, IF ok THEN "done" ELSE "failed")
      BY <1>1, <1>4, <2>2 DEF Worker
    <3>2. CASE r.op = "load"
      <4>1. UNCHANGED keyring
        BY <3>1, <3>2 DEF Executed
      <4>2. PICK result \in {"done", "failed"} : Reply(r, result)
        BY <3>1
      <4> QED
        BY <1>1, <1>2, <3>2, <4>1, <4>2, HeadIsServed
    <3>3. CASE r.op # "load"
      <4>1. /\ keyring' = [keyring EXCEPT ![r.key] = IF r.op = "store" THEN r.secret
                                                     ELSE NoSecret]
            /\ Reply(r, "done")
        BY <1>3, <3>1, <3>3 DEF Executed
      <4> QED
        BY <1>1, <1>2, <1>3, <3>3, <4>1, HeadIsServed
    <3> QED
      BY <3>2, <3>3
  <2> QED
    BY <2>1, <2>2
<1>5. CASE WorkerFails
  <2>1. Reply(r, "failed")
        /\ (UNCHANGED keyring \/ (r.op # "load" /\ Executed(r, TRUE)))
    BY <1>1, <1>5 DEF WorkerFails
  <2>2. CASE UNCHANGED keyring
    BY <1>1, <1>2, <2>1, <2>2, HeadIsServed
  <2>3. CASE r.op # "load" /\ Executed(r, TRUE)
    <3>1. keyring' = [keyring EXCEPT ![r.key] = IF r.op = "store" THEN r.secret
                                                ELSE NoSecret]
      BY <1>3, <2>3 DEF Executed
    <3> QED
      BY <1>1, <1>2, <1>3, <2>1, <2>3, <3>1, HeadIsServed
  <2> QED
    BY <2>1, <2>2, <2>3
<1> QED
  BY <1>4, <1>5
(* A panic closes the actor: nothing is queued, and nobody hears "done".   *)
LEMMA PanicIsSafe ==
  ASSUME AccountInv, WorkerPanics
  PROVE  AccountInv' /\ UserIsToldTheTruth'
<1>1. /\ open' = FALSE /\ queue' = <<>> /\ answer' = NoAnswer /\ Fault
      /\ UNCHANGED <<rows, keyring, todo, recovery, targets, reload, phase>>
      /\ \/ task' = task
         \/ task' = [task EXCEPT !.reply = "closed"]
            /\ task.stage \in CredentialStages
  BY DEF WorkerPanics
<1>2. task \in Task /\ TaskInv /\ RecoveryInv /\ DrainInv
  BY DEF AccountInv, TypeOK
<1>3. /\ task' \in Task /\ task'.stage = task.stage /\ task'.id = task.id
      /\ task'.gen = task.gen /\ task'.key = task.key /\ task'.secret = task.secret
      /\ task'.reply = "done" => task.reply = "done"
      /\ task = Idle => task' = Idle
  BY <1>1, <1>2 DEF Task, Replies, Idle, CredentialStages
<1>4. RowsInv' /\ NoOrphanSecret'
  BY <1>1, RowsStay
<1>5. TaskInv'
  BY <1>1, <1>2, <1>3 DEF TaskInv, OwnsRow, Fenced, Existing, Exists
<1>6. QueueInv'
  BY <1>1 DEF QueueInv
<1>7. RecoveryInv' /\ DrainInv'
  BY <1>1, <1>2, <1>3 DEF RecoveryInv, DrainInv, Fenced, Exists
<1>8. TypeOK'
  <2>1. faults' \in 0..MaxFaults /\ clean' \in BOOLEAN
    BY <1>1, FaultsAreCounted DEF AccountInv
  <2>2. queue' \in Seq(Request) /\ Len(queue') = 0 /\ Capacity \in Nat
    BY <1>1, WorkflowAssumption
  <2>3. Len(queue') <= Capacity
    BY <2>2
  <2>4. reload \in BOOLEAN /\ reload' = reload /\ open' = FALSE
    BY <1>1 DEF AccountInv, TypeOK
  <2>5. {open', reload', clean'} \subseteq BOOLEAN
    BY <2>1, <2>4
  <2> QED
    BY <1>1, <1>3, <2>1, <2>2, <2>3, <2>5 DEF AccountInv, TypeOK, StoreTypeOK
<1> QED
  BY <1>1, <1>4, <1>5, <1>6, <1>7, <1>8, SilenceIsTrue DEF AccountInv

-----------------------------------------------------------------------------
(* The rest of the program                                                 *)

(* Mail is queued or settled, the cache grows: the workflows do not look   *)
(* at what changes.                                                        *)
LEMMA OtherColumnsAreFree ==
  ASSUME AccountInv, NEW a \in Existing, NEW r \in Row,
         rows' = [rows EXCEPT ![a] = r], r.gen = rows[a].gen,
         r.state = rows[a].state, r.key = rows[a].key,
         UNCHANGED <<keyring, queue, open, task, todo, recovery, targets, reload,
                     phase, faults, clean>>,
         answer' = NoAnswer
  PROVE  AccountInv' /\ UserIsToldTheTruth'
<1>1. a \in Ids /\ rows[a] \in Row
  BY RowIsTyped DEF AccountInv
<1>2. r.state # "absent" /\ r \in Row \cup {Absent}
  BY DEF Row, Lifecycles
<1>3. RowsInv' /\ NoOrphanSecret'
  <2>1. r.key # NoKey => \A b \in Existing : b # a => rows[b].key # r.key
    BY DEF AccountInv, RowsInv, Configured
  <2>2. r.state = "removing_credentials" => r.key # NoKey
    BY DEF AccountInv, RowsInv, Configured
  <2>3. \A t \in targets : t[1] = a => r.key # NoKey
    BY DEF AccountInv, RowsInv, Configured, Existing
  <2> QED
    BY <1>1, <1>2, <2>1, <2>2, <2>3, RowChanges
<1>4. rows \in [Ids -> Row \cup {Absent}]
  BY DEF AccountInv, RowsInv
<1>5. \A b \in Ids : /\ Exists(b)' <=> Exists(b)
                     /\ Exists(b) => /\ rows'[b].gen = rows[b].gen
                                     /\ rows'[b].state = rows[b].state
                                     /\ rows'[b].key = rows[b].key
  BY <1>1, <1>2, <1>4 DEF Exists, Existing
<1>6. Existing' = Existing /\ Existing \subseteq Ids
  BY <1>3, <1>4, <1>5 DEF Existing, RowsInv
<1>7. \A b \in Existing : rows'[b].key = rows[b].key /\ rows'[b].state = rows[b].state
  BY <1>5, <1>6 DEF Existing
<1>8. TaskInv'
  <2>1. TaskInv
    BY DEF AccountInv
  <2>2. OwnsRow /\ task.id \in Ids => OwnsRow' /\ rows'[task.id].state = rows[task.id].state
    BY <1>5 DEF OwnsRow, Fenced
  <2>3. task.stage = "persist" => \A b \in Existing' : rows'[b].key # task'.key
    BY <1>6, <1>7, <2>1 DEF TaskInv
  <2> QED
    BY <2>1, <2>2, <2>3 DEF TaskInv
<1>9. QueueInv'
  <2>1. QueueInv
    BY DEF AccountInv
  <2>2. \A i \in DOMAIN queue : queue[i].op = "store" =>
           \E b \in Existing' : rows'[b].key = queue[i].key /\ rows'[b].state = "active"
    BY <1>6, <1>7, <2>1 DEF QueueInv
  <2> QED
    BY <2>1, <2>2 DEF QueueInv, Explained, Busy
<1>10. RecoveryInv' /\ DrainInv'
  <2>1. RecoveryInv /\ DrainInv /\ todo \subseteq Ticket
    BY DEF AccountInv, TypeOK
  <2>2. ASSUME NEW t \in todo
        PROVE  Fenced(t.id, t.gen)' /\ rows'[t.id].state = TicketStage[t.stage]
    <3>1. t.id \in Ids /\ Fenced(t.id, t.gen) /\ rows[t.id].state = TicketStage[t.stage]
      BY <2>1 DEF RecoveryInv, Ticket
    <3> QED
      BY <1>5, <3>1 DEF Fenced
  <2> QED
    BY <2>1, <2>2 DEF RecoveryInv, DrainInv
<1>11. TypeOK'
  BY <1>3 DEF AccountInv, TypeOK, StoreTypeOK, RowsInv
<1> QED
  BY <1>3, <1>8, <1>9, <1>10, <1>11, SilenceIsTrue DEF AccountInv

LEMMA MailAndCacheAreFree ==
  ASSUME AccountInv, NEW a \in Ids, QueueOrSettleMail(a) \/ GrowCache(a)
  PROVE  AccountInv' /\ UserIsToldTheTruth'
<1>1. /\ UNCHANGED <<keyring, queue, open, task, todo, recovery, targets, reload,
                     phase, faults, clean>>
      /\ answer' = NoAnswer /\ a \in Existing
  BY DEF QueueOrSettleMail, GrowCache, NoFault, Existing, AccountInv, RowsInv
<1>2. rows[a] \in Row
  BY <1>1, RowIsTyped DEF AccountInv
<1>3. PICK r \in Row : /\ rows' = [rows EXCEPT ![a] = r]
                       /\ r.gen = rows[a].gen /\ r.state = rows[a].state
                       /\ r.key = rows[a].key
  <2>1. CASE QueueOrSettleMail(a)
    <3>1. PICK r : r = [rows[a] EXCEPT !.undelivered = ~rows[a].undelivered]
      OBVIOUS
    <3>2. r \in Row /\ r.gen = rows[a].gen /\ r.state = rows[a].state
          /\ r.key = rows[a].key
      BY <1>2, <3>1 DEF Row
    <3>3. rows' = [rows EXCEPT ![a] = r]
      BY <2>1, <3>1 DEF QueueOrSettleMail
    <3> QED
      BY <3>2, <3>3
  <2>2. CASE GrowCache(a)
    <3>1. PICK r : r = [rows[a] EXCEPT !.cache = rows[a].cache + 1]
      OBVIOUS
    <3>2. rows[a].cache + 1 \in 0..MaxCache
      BY <1>2, <2>2, StoreAssumption DEF GrowCache, Row
    <3>3. r \in Row /\ r.gen = rows[a].gen /\ r.state = rows[a].state
          /\ r.key = rows[a].key
      BY <1>2, <3>1, <3>2 DEF Row
    <3>4. rows' = [rows EXCEPT ![a] = r]
      BY <2>2, <3>1 DEF GrowCache
    <3> QED
      BY <3>3, <3>4
  <2> QED
    BY <2>1, <2>2
<1> QED
  BY <1>1, <1>3, OtherColumnsAreFree

(* A shutdown drops the task and leaves its requests to nobody.            *)
LEMMA ShutdownIsSafe ==
  ASSUME AccountInv, Shutdown
  PROVE  AccountInv' /\ UserIsToldTheTruth'
<1>1. /\ phase = "up" /\ phase' = "draining" /\ answer' = NoAnswer /\ Fault
      /\ task' = IF task.stage \in DatabaseStages THEN task ELSE Idle
      /\ queue' = [i \in DOMAIN queue |-> [queue[i] EXCEPT !.live = FALSE]]
      /\ UNCHANGED <<rows, keyring, open, todo, recovery, targets, reload>>
  BY DEF Shutdown
<1>2. /\ queue \in Seq(Request) /\ Len(queue) \in Nat /\ Len(queue) <= Capacity
      /\ DOMAIN queue = 1..Len(queue) /\ task \in Task
      /\ TaskInv /\ QueueInv /\ RecoveryInv
  BY DEF AccountInv, TypeOK
<1>3. ASSUME NEW i \in DOMAIN queue
      PROVE  /\ queue'[i] \in Request /\ queue'[i].op = queue[i].op
             /\ queue'[i].key = queue[i].key /\ ~queue'[i].live
  <2>1. queue[i] \in Request
    BY <1>2
  <2>2. queue'[i] = [queue[i] EXCEPT !.live = FALSE]
    BY <1>1
  <2> QED
    BY <2>1, <2>2 DEF Request
<1>4. queue' \in Seq(Request) /\ Len(queue') = Len(queue) /\ DOMAIN queue' = DOMAIN queue
  <2>1. queue' \in [1..Len(queue) -> Request]
    BY <1>1, <1>2, <1>3
  <2> QED
    BY <1>2, <2>1
<1>5. RowsInv' /\ NoOrphanSecret'
  BY <1>1, RowsStay
<1>6. task' \in Task /\ TaskInv'
  <2>1. CASE task.stage \in DatabaseStages
    BY <1>1, <1>2, <2>1 DEF TaskInv, OwnsRow, Fenced, Existing, Exists
  <2>2. CASE task.stage \notin DatabaseStages
    BY <1>1, <2>2, IdleIsFine
  <2> QED
    BY <2>1, <2>2
<1>7. ASSUME NEW i \in DOMAIN queue, queue[i].op # "load"
      PROVE  task' = Idle
  <2>1. Explained(queue[i])
    BY <1>2, <1>7 DEF QueueInv, Busy
  <2> QED
    BY <1>1, <1>7, <2>1 DEF Explained, DatabaseStages
<1>8. QueueInv'
  <2>1. \A i, j \in DOMAIN queue' : Busy(queue'[i]) /\ Busy(queue'[j]) => i = j
    BY <1>2, <1>3, <1>4 DEF QueueInv, Busy
  <2>2. \A i \in DOMAIN queue' : Busy(queue'[i]) => ~queue'[i].live /\ task' = Idle
    BY <1>3, <1>4, <1>7 DEF Busy
  <2>3. ASSUME NEW i \in DOMAIN queue', queue'[i].op = "store"
        PROVE  \E a \in Existing' : rows'[a].key = queue'[i].key
                                    /\ rows'[a].state = "active"
    BY <1>1, <1>2, <1>3, <1>4, <2>3 DEF QueueInv, Existing, Exists
  <2> QED
    BY <1>1, <2>1, <2>2, <2>3 DEF QueueInv, Explained, Busy
<1>9. TypeOK'
  <2>1. faults' \in 0..MaxFaults /\ clean' \in BOOLEAN
    BY <1>1, FaultsAreCounted DEF AccountInv
  <2> QED
    BY <1>1, <1>2, <1>4, <1>6, <2>1 DEF AccountInv, TypeOK, StoreTypeOK
<1>10. RecoveryInv'
  <2>1. \A t \in todo : t.id # task'.id
    BY <1>1, <1>2, WorkflowAssumption DEF RecoveryInv, AccountInv, TypeOK, Ticket, Idle
  <2> QED
    BY <1>1, <1>2, <2>1 DEF RecoveryInv, Fenced, Exists, Idle
<1>11. DrainInv'
  BY <1>1 DEF DrainInv, Idle
<1> QED
  BY <1>1, <1>5, <1>6, <1>8, <1>9, <1>10, <1>11, SilenceIsTrue DEF AccountInv

(* The client starts again with what is in the database and the keyring.   *)
LEMMA StartedIsSafe ==
  ASSUME TypeOK, RowsInv, NoOrphanSecret, Started, UNCHANGED <<rows, keyring>>,
         faults' \in 0..MaxFaults
  PROVE  AccountInv' /\ UserIsToldTheTruth'
<1>1. /\ queue' = <<>> /\ open' = TRUE /\ task' = Idle /\ todo' = {}
      /\ recovery' = "scan_credentials" /\ targets' = {} /\ reload' = TRUE
      /\ phase' = "up" /\ answer' = NoAnswer /\ clean' = TRUE
  BY DEF Started
<1>2. task' \in Task /\ TaskInv'
  BY <1>1, IdleIsFine
<1>3. RowsInv' /\ NoOrphanSecret'
  BY <1>1 DEF RowsInv, NoOrphanSecret, Existing, Exists, Configured
<1>4. QueueInv' /\ RecoveryInv' /\ DrainInv'
  BY <1>1 DEF QueueInv, RecoveryInv, DrainInv
<1>5. TypeOK'
  BY <1>1, <1>2, WorkflowAssumption DEF TypeOK, StoreTypeOK
<1> QED
  BY <1>1, <1>2, <1>3, <1>4, <1>5, SilenceIsTrue DEF AccountInv
-----------------------------------------------------------------------------
(* The invariant, and what follows from it                                 *)

LEMMA InitIsSafe == Init => AccountInv /\ UserIsToldTheTruth
<1> SUFFICES ASSUME Init
             PROVE  AccountInv /\ UserIsToldTheTruth
  OBVIOUS
<1>1. /\ rows \in [Ids -> {Absent, NewRow(NoKey)}]
      /\ keyring = [k \in Locators |-> NoSecret]
      /\ queue = <<>> /\ open = TRUE
      /\ task = Idle /\ todo = {} /\ recovery = "scan_credentials"
      /\ targets = {} /\ reload = TRUE
      /\ phase = "up" /\ answer = NoAnswer /\ clean = TRUE /\ faults = 0
  BY DEF Init
<1>2. NewRow(NoKey) \in Row
  BY StoreAssumption DEF NewRow, Row, Lifecycles
<1>3. RowsInv
  <2>1. rows \in [Ids -> Row \cup {Absent}]
    BY <1>1, <1>2
  <2>2. ASSUME NEW a \in Existing
        PROVE  ~Configured(a) /\ rows[a].state = "active"
    BY <1>1, <2>2 DEF Existing, Exists, Absent, Configured, NewRow
  <2> QED
    BY <1>1, <2>1, <2>2 DEF RowsInv
<1>4. TaskInv /\ task \in Task
  BY <1>1, StoreAssumption DEF TaskInv, Idle, Task, Stages, Replies
<1>5. QueueInv /\ RecoveryInv /\ DrainInv
  BY <1>1 DEF QueueInv, RecoveryInv, DrainInv
<1>6. NoOrphanSecret
  BY <1>1 DEF NoOrphanSecret
<1>7. TypeOK
  <2>1. faults \in 0..MaxFaults /\ Len(queue) <= Capacity /\ queue \in Seq(Request)
    BY <1>1, WorkflowAssumption
  <2>2. StoreTypeOK
    BY <1>3 DEF RowsInv, StoreTypeOK
  <2> QED
    BY <1>1, <1>4, <2>1, <2>2 DEF TypeOK
<1>8. UserIsToldTheTruth
  BY <1>1 DEF UserIsToldTheTruth, AnswersAreTrue, FailureNamesFence, NoAnswer
<1> QED
  BY <1>3, <1>4, <1>5, <1>6, <1>7, <1>8 DEF AccountInv

LEMMA NextIsSafe ==
  ASSUME AccountInv, Next
  PROVE  AccountInv' /\ UserIsToldTheTruth'
<1>1. CASE UserRequest
  BY <1>1, UserRequestIsSafe
<1>2. CASE TaskStep
  BY <1>2, LoadRetryIsSafe, LoadDiagnosticIsSafe, LoadRemovalIsSafe, PersistIsSafe,
     BeginRemovalIsSafe, ConfirmIsSafe, PurgeIsSafe, StoreRepliedIsSafe,
     DeleteRepliedIsSafe, BeginDiagnosticIsSafe, DiagnosisGoesOn, RecordIsSafe
     DEF TaskStep
<1>3. CASE RecoveryStep
  <2>1. CASE ScanCredentials
    BY <2>1, ScanIsSafe DEF ScanCredentials, TicketStage
  <2>2. CASE ScanCache
    BY <2>2, ScanIsSafe DEF ScanCache, TicketStage
  <2>3. CASE Resume
    BY <2>3, ResumeIsSafe
  <2> QED
    BY <1>3, <2>1, <2>2, <2>3 DEF RecoveryStep
<1>4. CASE LoadTargets
  BY <1>4, LoadTargetsIsSafe
<1>5. CASE Worker \/ WorkerFails
  BY <1>5, WorkerIsSafe
<1>6. CASE WorkerPanics
  BY <1>6, PanicIsSafe
<1>7. ASSUME NEW a \in Ids, QueueOrSettleMail(a) \/ GrowCache(a)
      PROVE  AccountInv' /\ UserIsToldTheTruth'
  BY <1>7, MailAndCacheAreFree
<1>8. ASSUME NEW a \in Ids, NEW g \in 1..MaxGen, StartBackground(a, g)
      PROVE  AccountInv' /\ UserIsToldTheTruth'
  BY <1>8, StartBackgroundIsSafe
<1>9. CASE LoadFails \/ WriteBusy
  BY <1>9, LoadFailsIsSafe
<1>10. CASE Shutdown
  BY <1>10, ShutdownIsSafe
<1>11. CASE Restart \/ Crash
  <2>1. Started /\ UNCHANGED <<rows, keyring>>
    BY <1>11 DEF Restart, Crash
  <2>2. faults \in 0..MaxFaults /\ MaxFaults \in Nat
    BY WorkflowAssumption DEF AccountInv, TypeOK
  <2>3. faults' \in 0..MaxFaults
    <3>1. CASE faults' = faults
      BY <2>2, <3>1
    <3>2. CASE faults < MaxFaults /\ faults' = faults + 1
      BY <2>2, <3>2
    <3> QED
      BY <1>11, <3>1, <3>2 DEF Restart, Crash
  <2> QED
    BY <2>1, <2>3, StartedIsSafe DEF AccountInv
<1> QED
  BY <1>1, <1>2, <1>3, <1>4, <1>5, <1>6, <1>7, <1>8, <1>9, <1>10, <1>11 DEF Next

LEMMA StutteringIsSafe ==
  ASSUME AccountInv, UserIsToldTheTruth, UNCHANGED accountVars
  PROVE  AccountInv' /\ UserIsToldTheTruth'
<1> USE DEF accountVars
<1>1. RowsInv' /\ NoOrphanSecret'
  BY RowsStay
<1>2. TypeOK'
  BY DEF AccountInv, TypeOK, StoreTypeOK
<1>3. TaskInv'
  BY DEF AccountInv, TaskInv, OwnsRow, Fenced, Existing, Exists
<1>4. QueueInv'
  BY DEF AccountInv, QueueInv, Explained, Busy, Existing, Exists
<1>5. RecoveryInv' /\ DrainInv'
  BY DEF AccountInv, RecoveryInv, DrainInv, Fenced, Exists
<1>6. UserIsToldTheTruth'
  BY DEF UserIsToldTheTruth, AnswersAreTrue, FailureNamesFence, Fenced, Exists
<1> QED
  BY <1>1, <1>2, <1>3, <1>4, <1>5, <1>6 DEF AccountInv

THEOREM AccountIsSafe == Spec => [](AccountInv /\ UserIsToldTheTruth)
<1>1. AccountInv /\ UserIsToldTheTruth /\ [Next]_accountVars
         => AccountInv' /\ UserIsToldTheTruth'
  BY NextIsSafe, StutteringIsSafe
<1> QED
  BY InitIsSafe, <1>1, PTL DEF Spec

(* For any accounts, locators, secrets and bounds, and with a lost reply,  *)
(* a refusal, a panic, a shutdown or a crash at any step of setup, repair, *)
(* removal and recovery: a secret in the keyring always has a row that     *)
(* names its locator and has not passed its deletion.                      *)
THEOREM SecretsAreOwned == Spec => []SecretsHaveOwners
<1>1. AccountInv => SecretsHaveOwners
  BY DEF AccountInv, SecretsHaveOwners
<1> QED
  BY <1>1, AccountIsSafe, PTL

(* What a workflow tells the user is so when it is told: a configured      *)
(* account has the secret that was typed, a removed one left neither a row *)
(* nor a secret, and a failure after the first commit names the fence that *)
(* a retry needs.                                                          *)
THEOREM AnswersAreHonest == Spec => []UserIsToldTheTruth
BY AccountIsSafe, PTL
=============================================================================
