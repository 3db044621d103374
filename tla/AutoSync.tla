------------------------------ MODULE AutoSync ------------------------------
(***************************************************************************)
(* How mail/src/core/account.rs drives the scheduler: one slot for every   *)
(* kind of work, automatic syncs between the user's operations, the two    *)
(* queues of background fetches, and the IDLE watches that promote an      *)
(* account when its server reports a change.  Recovery is over.            *)
(***************************************************************************)
EXTENDS SyncScheduler

CONSTANTS
    MaxGen,     \* bound on account generations
    MaxQueue,   \* MAX_IDLE_WATCHES: of watches, previews and histories
    Reconnect,  \* IDLE_RECONNECT_DELAY
    MaxOps      \* bound on the user's operations

ASSUME AutoSyncAssumption ==
    /\ {MaxGen, MaxQueue} \subseteq Nat \ {0} /\ MaxOps \in Nat
    /\ Reconnect \in Deadlines

VARIABLES
    current,   \* database: the generation of each active account, 0 if none
    deque,     \* SyncScheduler.targets
    auto,      \* AutoSyncState with its timer and what was loaded
    task,      \* ActiveTask
    previews,  \* preview_queue
    histories, \* history_queue
    watches,   \* idle_watches
    ops,       \* operations the user has started
    passed     \* history: automatic turns of others since an account's own

vars == <<current, deque, auto, task, previews, histories, watches, ops, passed>>

-----------------------------------------------------------------------------

Target == [acct : Accounts, gen : 1..MaxGen, failures : 0..MaxFailures,
           due : Deadlines, nonce : {0} \cup Nonces]

AutoStates == {"submit", "loading", "deadline", "paused", "ready"}

Kinds == {"sync", "history", "preview", "content", "account"}

Ids == Accounts \X (1..MaxGen)

NoTask == [kind |-> "none", user |-> FALSE]

Task(kind, user, id, n) ==
    [kind |-> kind, user |-> user, acct |-> id[1], gen |-> id[2], nonce |-> n]

Watch(id) == [acct |-> id[1], gen |-> id[2], cancelled |-> FALSE]

SmallQueue(q) == q \in Seq(Ids) /\ Len(q) <= MaxQueue /\ IsInjective(q)

TypeOK ==
    /\ \A a \in DOMAIN current : current[a] \in 0..MaxGen
    /\ deque \in Seq(Target) /\ Len(deque) <= MaxTargets
    /\ auto.state \in AutoStates /\ auto.timer \in Deadlines
    /\ auto.loaded \in Seq(Ids)
    /\ task = NoTask \/ /\ task.kind \in Kinds /\ <<task.acct, task.gen>> \in Ids
                        /\ (task.kind = "sync") = (task.nonce # 0)
    /\ SmallQueue(previews) /\ SmallQueue(histories)
    /\ watches \subseteq [acct : Accounts, gen : 1..MaxGen, cancelled : BOOLEAN]
    /\ Cardinality(watches) <= MaxQueue

AutoState(state) == [state |-> state, timer |-> 0, loaded |-> <<>>]

Init ==
    /\ current \in [Accounts -> 0..1]
    /\ deque = <<>> /\ auto = AutoState("submit") /\ task = NoTask
    /\ previews = <<>> /\ histories = <<>> /\ watches = {}
    /\ ops = 0 /\ passed = [a \in Accounts |-> 0]

(* The order of load_sync_targets, by sort order and id, never changes.    *)
SyncTargets ==
    LET active == {a \in Accounts : current[a] > 0}
        order  == SetToSeq(active)
    IN  [i \in DOMAIN order |-> <<order[i], current[order[i]]>>]

Enqueued_Unbounded(q, id) ==
    IF Contains(q, id) THEN q ELSE Append(q, id)

Enqueued(q, id) ==
    IF Contains(q, id) THEN q
    ELSE Append(IF Len(q) = MaxQueue THEN Front(q) ELSE q, id)

(* A cancelled watch has to give its connection back first.                *)
Handoff == \E w \in watches : w.cancelled

SlotFree == task = NoTask /\ ~Handoff

WatchesOf(id) == {w \in watches : <<w.acct, w.gen>> = id}

-----------------------------------------------------------------------------
(* poll_auto_sync                                                          *)

(* The reader takes its snapshot; Busy tries again in 10 ms.               *)
SubmitTargets ==
    /\ SlotFree /\ auto.state = "submit"
    /\ auto' = [AutoState("loading") EXCEPT !.loaded = SyncTargets]
    /\ UNCHANGED <<current, deque, task, previews, histories, watches, ops, passed>>

LoadTargets ==
    /\ SlotFree /\ auto.state = "loading"
    /\ IF Len(auto.loaded) > MaxTargets
       THEN auto' = AutoState("paused") /\ UNCHANGED <<deque, watches, passed>>
       ELSE LET wanted == ToSet(auto.loaded) IN
            /\ auto' = AutoState("ready")
            /\ deque' \in ReplaceTargets(deque, auto.loaded)
            /\ watches' = {w \in watches : <<w.acct, w.gen>> \in wanted}
            /\ passed' = [a \in Accounts |->
                 IF \E i \in DOMAIN deque : /\ deque[i].acct = a
                                            /\ Identity(deque[i]) \in wanted
                 THEN passed[a] ELSE 0]
    /\ UNCHANGED <<current, task, previews, histories, ops>>

TakeTurn ==
    /\ SlotFree /\ auto.state = "ready" /\ SomeDue(deque)
    /\ LET t == deque[FirstDue(deque)] IN
       /\ task' = Task("sync", FALSE, Identity(t), FreshNonce(deque))
       /\ passed' = [a \in Accounts |->
            IF a = t.acct THEN 0
            ELSE passed[a] + (IF \E i \in DOMAIN deque :
                                   deque[i].acct = a /\ Due(deque[i])
                              THEN 1 ELSE 0)]
    /\ deque' = TakeNext(deque)
    /\ UNCHANGED <<current, auto, previews, histories, watches, ops>>

AwaitDeadline ==
    /\ SlotFree /\ auto.state = "ready" /\ ~SomeDue(deque)
    /\ WakeDeadlines(deque) # {}
    /\ auto' = [AutoState("deadline") EXCEPT !.timer = Min(WakeDeadlines(deque))]
    /\ UNCHANGED <<current, deque, task, previews, histories, watches, ops, passed>>

TimerFires_StaysAsleep ==
    /\ SlotFree /\ auto.state = "deadline" /\ auto.timer = 0
    /\ auto' = AutoState("deadline")
    /\ UNCHANGED <<current, deque, task, previews, histories, watches, ops, passed>>

TimerFires ==
    /\ SlotFree /\ auto.state = "deadline" /\ auto.timer = 0
    /\ auto' = AutoState("ready")
    /\ UNCHANGED <<current, deque, task, previews, histories, watches, ops, passed>>

(* Only when the scheduler has nothing to do: previews, then histories.    *)
AutoPending ==
    \/ auto.state \in {"loading", "paused"}
    \/ auto.state = "deadline" /\ auto.timer > 0
    \/ auto.state = "ready" /\ WakeDeadlines(deque) = {}

StartFetch(kind, queue) ==
    /\ SlotFree /\ AutoPending /\ queue # <<>>
    /\ task' = Task(kind, FALSE, Head(queue), 0)

StartPreview ==
    /\ StartFetch("preview", previews)
    /\ previews' = Tail(previews)
    /\ UNCHANGED <<current, deque, auto, histories, watches, ops, passed>>

StartHistory ==
    /\ previews = <<>>
    /\ StartFetch("history", histories)
    /\ histories' = Tail(histories)
    /\ UNCHANGED <<current, deque, auto, previews, watches, ops, passed>>

-----------------------------------------------------------------------------
(* The user                                                                *)

Preemptible == ~task.user /\ task.kind \in {"sync", "history", "preview"}

CanStartUserOperation == task = NoTask \/ Preemptible

(* What an interrupted background task leaves behind.                      *)
Interrupted ==
    /\ previews' = IF task.kind = "preview"
                   THEN Enqueued(previews, Identity(task)) ELSE previews
    /\ histories' = IF task.kind = "history"
                    THEN Enqueued(histories, Identity(task)) ELSE histories

Released_Forgotten == deque

Released == IF task.kind = "sync" THEN Complete(deque, task, FALSE) ELSE deque

CancelWatch(id) == watches' = (watches \ WatchesOf(id)) \cup
                       {[w EXCEPT !.cancelled = TRUE] : w \in WatchesOf(id)}

StartUser ==
    /\ ops < MaxOps /\ ops' = ops + 1
    /\ CanStartUserOperation
    /\ Interrupted
    /\ UNCHANGED <<current, auto>>

SyncInbox(id) ==
    /\ StartUser /\ CancelWatch(id)
    /\ IF ManualBusy(Released, id[1], id[2]) \/ ManualTooMany(Released, id[1])
       THEN task' = NoTask /\ deque' = Released /\ UNCHANGED passed
       ELSE /\ task' = Task("sync", TRUE, id, FreshNonce(Released))
            /\ deque' = TakeManual(Released, id[1], id[2])
            /\ passed' = [passed EXCEPT ![id[1]] = 0]

FetchContent(id) ==
    /\ StartUser /\ CancelWatch(id)
    /\ task' = Task("content", TRUE, id, 0)
    /\ deque' = Released /\ UNCHANGED passed

(* Setup, removal and the rest of AccountWorkflows.                        *)
StartAccountOperation(id) ==
    /\ StartUser
    /\ task' = Task("account", TRUE, id, 0)
    /\ deque' = Released /\ UNCHANGED <<watches, passed>>

AccountOperationEnds ==
    /\ task.kind = "account" /\ ~Handoff
    /\ task' = NoTask
    /\ \/ \E g \in {0, current[task.acct] + 1} \cap (0..MaxGen) :
            current' = [current EXCEPT ![task.acct] = g]
          /\ auto' = AutoState("submit")
       \/ UNCHANGED <<current, auto>>
    /\ UNCHANGED <<deque, previews, histories, watches, ops, passed>>

-----------------------------------------------------------------------------
(* The end of a fetch                                                      *)

(* Only one watch for an identity, and none beyond the limit.              *)
Registered(id) ==
    LET others == watches \ WatchesOf(id)
    IN  IF Cardinality(others) = MaxQueue THEN others
        ELSE others \cup {Watch(id)}

SyncSucceeds(more, historical) ==
    /\ task.kind \in {"sync", "history"} /\ ~Handoff
    /\ current[task.acct] = task.gen
    /\ historical => task.kind = "history" \/ task.user
    /\ task' = NoTask
    /\ deque' = IF task.kind = "sync" THEN Complete(deque, task, TRUE) ELSE deque
    /\ previews' = Enqueued(previews, Identity(task))
    /\ histories' = IF more THEN Enqueued(histories, Identity(task)) ELSE histories
    /\ watches' = IF historical /\ more THEN watches ELSE Registered(Identity(task))
    /\ UNCHANGED <<current, auto, ops, passed>>

PreviewsFetched(more) ==
    /\ task.kind = "preview" /\ ~Handoff
    /\ current[task.acct] = task.gen
    /\ task' = NoTask
    /\ previews' = IF more THEN Enqueued(previews, Identity(task)) ELSE previews
    /\ UNCHANGED <<current, deque, auto, histories, watches, ops, passed>>

(* A failure, or a user who does not wait for the reply any more.          *)
FetchFails ==
    /\ task.kind \in {"sync", "history", "preview", "content"} /\ ~Handoff
    /\ task' = NoTask /\ deque' = Released
    /\ UNCHANGED <<current, auto, previews, histories, watches, ops, passed>>

ContentFetched ==
    /\ task.kind = "content" /\ ~Handoff
    /\ task' = NoTask
    /\ UNCHANGED <<current, deque, auto, previews, histories, watches, ops, passed>>

-----------------------------------------------------------------------------
(* poll_idle_watches and time                                              *)

WatchEnds(w) == w \in watches /\ watches' = watches \ {w}

WatchGone(w) ==
    /\ WatchEnds(w)
    /\ UNCHANGED <<current, deque, auto, task, previews, histories, ops, passed>>

WatchPromotes(w, delay) ==
    LET id == <<w.acct, w.gen>> IN
    /\ WatchEnds(w)
    /\ deque' = Promote(deque, id, delay)
    /\ auto' = IF MayPromote(deque, id) /\ auto.state = "deadline"
               THEN IF delay = 0 THEN AutoState("ready")
                    ELSE [auto EXCEPT !.timer = delay]
               ELSE auto
    /\ UNCHANGED <<current, task, previews, histories, ops, passed>>

WatchChanged(w) == ~w.cancelled /\ WatchPromotes(w, 0)

WatchDisconnected(w) == WatchPromotes(w, Reconnect)

Tick ==
    /\ auto.timer > 0 \/ \E i \in DOMAIN deque : deque[i].due > 0
    /\ deque' = Elapse(deque)
    /\ auto' = [auto EXCEPT !.timer = IF @ = 0 THEN 0 ELSE @ - 1]
    /\ UNCHANGED <<current, task, previews, histories, watches, ops, passed>>

-----------------------------------------------------------------------------

Scheduling == \/ SubmitTargets \/ LoadTargets \/ TakeTurn \/ AwaitDeadline
              \/ TimerFires

TaskEnds ==
    \/ \E more, historical \in BOOLEAN : SyncSucceeds(more, historical)
    \/ \E more \in BOOLEAN : PreviewsFetched(more)
    \/ FetchFails \/ ContentFetched \/ AccountOperationEnds

Next ==
    \/ Scheduling \/ StartPreview \/ StartHistory \/ TaskEnds \/ Tick
    \/ \E id \in Ids : SyncInbox(id) \/ FetchContent(id) \/ StartAccountOperation(id)
    \/ \E w \in watches : WatchGone(w) \/ WatchChanged(w) \/ WatchDisconnected(w)

Spec == Init /\ [][Next]_vars

(* Every future is polled to its end, cancelled watches included, and time *)
(* passes.  The reader answers whatever the slot does, and its answer is   *)
(* looked at before a fetch is taken from a queue: hence SF.  The history  *)
(* of a mailbox has a last page.                                           *)
LastPage == task.kind = "history" /\ \E h \in BOOLEAN : SyncSucceeds(FALSE, h)

Fairness ==
    /\ SF_vars(LoadTargets) /\ SF_vars(LastPage)
    /\ WF_vars(Scheduling) /\ WF_vars(TaskEnds) /\ WF_vars(Tick)
    /\ WF_vars(\E w \in watches : w.cancelled /\ WatchGone(w))

FairSpec == Spec /\ Fairness

-----------------------------------------------------------------------------

(* A target is in flight exactly while the slot holds its token, so a      *)
(* token that comes back is always the current one, as the assertions      *)
(* "finished sync token must still be current" say, and no target is left  *)
(* in flight for ever.                                                     *)
FlightIsTheTask ==
    /\ task.kind = "sync" => Holds(deque, task)
    /\ \A i \in DOMAIN deque : ~Waiting(deque[i]) =>
          task.kind = "sync" /\ deque[i].nonce = task.nonce

(* An account has one place in the queue, whatever generations are asked   *)
(* for.                                                                    *)
OneTargetPerAccount ==
    \A i, j \in DOMAIN deque : deque[i].acct = deque[j].acct => i = j

(* The turn in flight is that of the running task, every account of the    *)
(* candidates is in one place of the queue, and no queue grows beyond its  *)
(* limit.                                                                  *)
TurnsAreAccounted == TypeOK /\ FlightIsTheTask /\ OneTargetPerAccount

(* No account that is due is passed over more often than there are others. *)
ServiceIsFair == \A a \in DOMAIN passed : passed[a] < MaxTargets

(* The timer never sleeps past the scheduler's wake deadline.              *)
TimerNotLate ==
    auto.state = "deadline" =>
        \A d \in WakeDeadlines(deque) : auto.timer <= d

(* While scheduling is not paused, every target gets its turn: the slot    *)
(* synchronises it, as its turn or as a history page.  A watch that breaks *)
(* can put off a turn that was due, but only one that such a sync began.   *)
EveryTargetIsServed ==
    \A a \in Accounts : \A g \in 1..MaxGen :
        []<>(
            \/ ~Has(deque, <<a, g>>)
            \/ task.kind \in {"sync", "history"} /\ Identity(task) = <<a, g>>
            \/ auto.state = "paused")
=============================================================================
