----------------------------- MODULE CoreRuntime -----------------------------
(***************************************************************************)
(* The core's event loop, mail/src/core/runtime.rs, with the channels of   *)
(* mail/src/core/message.rs between it and the interface: which input is   *)
(* served next, the latest-value schedules of the queries, mutations that  *)
(* must not get lost, events under back-pressure, and the shutdown that    *)
(* finishes what was accepted.  Account workflows, the outbox driver and   *)
(* the janitor are callers of Writes that run on the same thread.          *)
(***************************************************************************)
EXTENDS DatabaseActor

CONSTANTS
    Composes,        \* the Writes that composer commands make
    CommandCapacity, \* COMMAND_CAPACITY
    EventCapacity,   \* EVENT_CAPACITY
    Burst,           \* COMMAND_BURST_LIMIT
    InFlight,        \* mutations the interface keeps unanswered
    MaxStatus        \* bound on status events of the other inputs

ASSUME RuntimeAssumption ==
    /\ {CommandCapacity, EventCapacity, Burst, InFlight} \subseteq Nat \ {0}
    /\ MaxStatus \in Nat /\ Composes \subseteq Writes
    /\ Plain \cap {"mutate", "rejected", "committed", "failed", "status"} = {}

VARIABLES
    commands, composes, \* the channels from the interface
    events, slots,      \* the channel to it and the latest-value slots
    shutdown,           \* CoreRuntime.shutdown has been called
    core,               \* where the loop is
    schedule,           \* per kind: the query in the database, the one after it
    active,             \* active_mutations
    streak,             \* command_streak
    called,             \* Writes that have been accepted, in order
    statuses,           \* status events sent
    sent,               \* history: mutations accepted from the interface
    told,               \* history: what was delivered for a mutation
    asked, seen,        \* history: the last query sent, the last one answered
    waited              \* history: commands taken while a reply was ready

coreVars == <<commands, composes, events, slots, shutdown, core, schedule, active,
              streak, called, statuses, sent, told, asked, seen, waited>>

vars == <<dbVars, coreVars>>

Kinds == Plain \cup {"mailbox"}

Queries == Kinds \X (1..MaxAsk)

None == 0

Loop == [pc |-> "loop"]

Others == Writes \ Composes

Event(kind, id) == [kind |-> kind, id |-> id]

Init ==
    /\ DbInit
    /\ commands = <<>> /\ composes = <<>> /\ events = <<>>
    /\ slots = [k \in Kinds |-> [latest |-> None, queued |-> FALSE]]
    /\ shutdown = FALSE /\ core = Loop
    /\ schedule = [k \in Kinds |-> [active |-> None, pending |-> None]]
    /\ active = 0 /\ streak = 0 /\ called = <<>> /\ statuses = 0
    /\ sent = <<>> /\ told = [m \in Mutations |-> "none"]
    /\ asked = [k \in Kinds |-> 0] /\ seen = [k \in Kinds |-> 0] /\ waited = 0

-----------------------------------------------------------------------------
(* The interface                                                           *)

uiVars == <<core, schedule, active, streak, called, statuses, told, waited>>

CommandsOpen ==
    /\ core.pc \in {"loop", "gate", "send", "compose"}
    /\ core.pc = "compose" => ~core.last

UiAsks(k) ==
    /\ CommandsOpen /\ Len(commands) < CommandCapacity /\ asked[k] < MaxAsk
    /\ asked' = [asked EXCEPT ![k] = @ + 1]
    /\ commands' = Append(commands, <<k, asked'[k]>>)
    /\ UNCHANGED <<dbVars, uiVars, composes, events, slots, shutdown, sent, seen>>

UiMutates(m) ==
    /\ CommandsOpen /\ Len(commands) < CommandCapacity
    /\ m \notin ToSet(sent)
    /\ Cardinality({x \in ToSet(sent) : told[x] = "none"}) < InFlight
    /\ sent' = Append(sent, m)
    /\ commands' = Append(commands, <<"mutate", m>>)
    /\ UNCHANGED <<dbVars, uiVars, composes, events, slots, shutdown, asked, seen>>

UiComposes(w) ==
    /\ core.pc \in {"loop", "gate", "send", "compose", "finish"}
    /\ core.pc = "compose" => ~core.last
    /\ composes = <<>> /\ answers[w] = "none"
    /\ core.pc = "compose" => core.id # w
    /\ composes' = <<w>>
    /\ UNCHANGED <<dbVars, uiVars, commands, events, slots, shutdown, sent, asked, seen>>

UiReceives ==
    /\ events # <<>> /\ events' = Tail(events)
    /\ LET k == Head(events).kind IN
       IF k \in Kinds
       THEN /\ seen' = [seen EXCEPT ![k] = slots[k].latest]
            /\ slots' = [slots EXCEPT ![k] = [latest |-> None, queued |-> FALSE]]
       ELSE UNCHANGED <<seen, slots>>
    /\ UNCHANGED <<dbVars, uiVars, commands, composes, shutdown, sent, asked>>

UiShutsDown ==
    /\ ~shutdown /\ shutdown' = TRUE
    /\ UNCHANGED <<dbVars, uiVars, commands, composes, events, slots, sent, asked, seen>>

-----------------------------------------------------------------------------
(* next_input                                                              *)

loopVars == <<shutdown, called, statuses, sent, told, asked, seen>>

Serving == core = Loop /\ ~shutdown

CommandsFirst == streak < Burst

CommandReady == commands # <<>> /\ (CommandsFirst \/ (replies = <<>> /\ composes = <<>>))

ReplyReady == replies # <<>> /\ ~(CommandsFirst /\ commands # <<>>)

OthersReady == replies = <<>> /\ ~(CommandsFirst /\ commands # <<>>)

TookCommand_NoStreak ==
    /\ streak' = streak
    /\ waited' = IF replies = <<>> THEN waited ELSE waited + 1

TookCommand ==
    /\ streak' = Min({streak + 1, Burst})
    /\ waited' = IF replies = <<>> THEN waited ELSE waited + 1

TookOther == streak' = 0

Dispatch_KeepsActive(k, n) ==
    /\ schedule' = [schedule EXCEPT ![k] = [active |-> n, pending |-> None]]
    /\ IF QueryVerdict = "ok" THEN queries' = Append(queries, <<k, n>>) /\ core' = Loop
       ELSE core' = [pc |-> "send", event |-> Event(k, n)] /\ UNCHANGED queries

(* Nothing of this kind is in the database, so it may go there now; a full *)
(* queue gives the query back as rejected.                                 *)
Dispatch(k, n) ==
    IF QueryVerdict = "ok"
    THEN /\ queries' = Append(queries, <<k, n>>)
         /\ schedule' = [schedule EXCEPT ![k] = [active |-> n, pending |-> None]]
         /\ core' = Loop
    ELSE /\ schedule' = [schedule EXCEPT ![k] = [active |-> None, pending |-> None]]
         /\ core' = [pc |-> "send", event |-> Event(k, n)]
         /\ UNCHANGED queries

QueryCommand(k, n) ==
    /\ Serving /\ CommandReady /\ Head(commands) = <<k, n>>
    /\ commands' = Tail(commands) /\ TookCommand
    /\ IF schedule[k].active = None
       THEN Dispatch(k, n) /\ UNCHANGED <<mailbox, interrupt>>
       ELSE /\ schedule' = [schedule EXCEPT ![k].pending = n]
            /\ IF k = "mailbox"
               THEN /\ Supersede(<<k, schedule[k].active>>)
                    /\ core' = IF interrupt' /\ ~interrupt THEN [pc |-> "gate"] ELSE Loop
               ELSE UNCHANGED <<mailbox, interrupt, core>>
            /\ UNCHANGED queries
    /\ UNCHANGED <<requests, replies, open, admission, writer, reader, stopping, backfill,
                   log, answers, cut, loopVars, composes, events, slots, active>>

(* The thread waits here, with the state of the mailbox query locked.      *)
InterruptsReader ==
    /\ core.pc = "gate" /\ GateFree
    /\ core' = Loop /\ reader' = Cut(reader)
    /\ UNCHANGED <<requests, queries, replies, open, admission, writer, mailbox,
                   interrupt, stopping, backfill, log, answers, cut,
                   commands, composes, events, slots, shutdown, schedule, active,
                   streak, called, statuses, sent, told, asked, seen, waited>>

dbSubmit == <<replies, open, admission, writer, reader, mailbox, interrupt, stopping,
              backfill, log, answers, cut, queries>>

MutateCommand(m) ==
    /\ Serving /\ CommandReady /\ Head(commands) = <<"mutate", m>>
    /\ commands' = Tail(commands) /\ TookCommand
    /\ IF WriteVerdict = "ok"
       THEN requests' = Append(requests, m) /\ active' = active + 1 /\ core' = Loop
       ELSE /\ core' = [pc |-> "send", event |-> Event("rejected", m)]
            /\ UNCHANGED <<requests, active>>
    /\ UNCHANGED <<dbSubmit, loopVars, composes, events, slots, schedule>>

(* A reply that is not for the query in the database is ignored, one that  *)
(* a later query follows is replaced by it.                                *)
DatabaseReply ==
    /\ Serving /\ ReplyReady
    /\ replies' = Tail(replies) /\ TookOther /\ waited' = 0
    /\ LET r == Head(replies) IN
       IF r.what = "mutation"
       THEN /\ active' = active - 1
            /\ core' = [pc |-> "send",
                        event |-> Event(IF r.ok THEN "committed" ELSE "failed", r.id)]
            /\ UNCHANGED <<schedule, queries>>
       ELSE LET k == r.id[1] IN
            /\ UNCHANGED active
            /\ IF schedule[k].active # r.id[2]
               THEN core' = Loop /\ UNCHANGED <<schedule, queries>>
               ELSE IF schedule[k].pending # None
               THEN Dispatch(k, schedule[k].pending)
               ELSE /\ schedule' = [schedule EXCEPT ![k].active = None]
                    /\ core' = IF r.what = "superseded" THEN Loop
                               ELSE [pc |-> "send", event |-> Event(k, r.id[2])]
                    /\ UNCHANGED queries
    /\ UNCHANGED <<requests, open, admission, writer, reader, mailbox, interrupt, stopping,
                   backfill, log, answers, cut, loopVars, commands, composes, events, slots>>

(* Account progress and outbox hints, with or without something to tell.   *)
OtherInput ==
    /\ Serving /\ OthersReady /\ statuses < MaxStatus
    /\ statuses' = statuses + 1 /\ TookOther
    /\ core' = [pc |-> "send", event |-> Event("status", None)]
    /\ UNCHANGED <<dbVars, commands, composes, events, slots, shutdown, schedule, active,
                   called, sent, told, asked, seen, waited>>

ComposeCommand ==
    /\ Serving /\ OthersReady /\ composes # <<>>
    /\ composes' = <<>> /\ TookOther
    /\ core' = [pc |-> "compose", id |-> Head(composes), last |-> FALSE]
    /\ UNCHANGED <<dbVars, loopVars, commands, events, slots, schedule, active, waited>>

-----------------------------------------------------------------------------
(* send_event                                                              *)

sendVars == <<commands, composes, shutdown, schedule, active, streak, called, statuses,
              sent, asked, seen, waited>>

SendDelivers_LostWake ==
    LET e == core.event IN
    /\ core.pc = "send" /\ ~shutdown /\ e.kind \in Kinds
    /\ slots' = [slots EXCEPT ![e.kind] = [latest |-> e.id, queued |-> TRUE]]
    /\ events' = IF slots[e.kind].queued \/ Len(events) = EventCapacity THEN events
                 ELSE Append(events, e)
    /\ core' = Loop
    /\ UNCHANGED <<dbVars, sendVars, told>>

SendDelivers ==
    LET e == core.event IN
    /\ core.pc = "send" /\ ~shutdown
    /\ IF e.kind \in Kinds
       THEN /\ slots' = [slots EXCEPT ![e.kind] = [latest |-> e.id, queued |-> TRUE]]
            /\ IF slots[e.kind].queued THEN UNCHANGED events
               ELSE Len(events) < EventCapacity /\ events' = Append(events, e)
            /\ UNCHANGED told
       ELSE /\ Len(events) < EventCapacity /\ events' = Append(events, e)
            /\ told' = IF e.kind = "status" THEN told ELSE [told EXCEPT ![e.id] = e.kind]
            /\ UNCHANGED slots
    /\ core' = Loop
    /\ UNCHANGED <<dbVars, sendVars>>

(* The mutations among the commands, in their order.                       *)
AcceptedMutations ==
    LET places  == {i \in DOMAIN commands : commands[i][1] = "mutate"}
        inOrder == {f \in [1..Cardinality(places) -> places] :
                        \A i, j \in DOMAIN f : i < j => f[i] < f[j]}
    IN  {[i \in DOMAIN f |-> commands[f[i]][2]] : f \in inOrder}

Finish_InitialLast(initial, failed) ==
    /\ \E accepted \in AcceptedMutations :
          core' = [pc |-> "finish", failed |-> failed, pending |-> accepted \o initial]
    /\ commands' = <<>>
    /\ UNCHANGED <<dbVars, composes, events, slots, shutdown, schedule, active, streak,
                   called, statuses, sent, told, asked, seen, waited>>

(* A mutation whose rejection nobody heard counts as accepted.             *)
Finish(initial, failed) ==
    /\ \E accepted \in AcceptedMutations :
          core' = [pc |-> "finish", failed |-> failed, pending |-> initial \o accepted]
    /\ commands' = <<>>
    /\ UNCHANGED <<dbVars, composes, events, slots, shutdown, schedule, active, streak,
                   called, statuses, sent, told, asked, seen, waited>>

SendAborts_Forgets ==
    /\ core.pc = "send" /\ shutdown
    /\ Finish(<<>>, core.event.kind = "failed")

SendAborts_Waits ==
    /\ core.pc = "send" /\ shutdown /\ Len(events) < EventCapacity
    /\ Finish(<<>>, core.event.kind = "failed")

SendAborts ==
    /\ core.pc = "send" /\ shutdown
    /\ Finish(IF core.event.kind = "rejected" THEN <<core.event.id>> ELSE <<>>,
              core.event.kind = "failed")

Shutdown == core = Loop /\ shutdown /\ Finish(<<>>, FALSE)

-----------------------------------------------------------------------------
(* finish_accepted_work                                                    *)

finishVars == <<commands, composes, events, slots, shutdown, schedule, streak, called,
                statuses, sent, told, asked, seen, waited>>

Compose(ok) == [pc |-> "last", ok |-> ok]

FinishSubmits ==
    /\ core.pc = "finish" /\ core.pending # <<>> /\ WriteVerdict # "busy"
    /\ IF WriteVerdict = "closed"
       THEN core' = Compose(FALSE) /\ UNCHANGED <<requests, active>>
       ELSE /\ requests' = Append(requests, Head(core.pending))
            /\ core' = [core EXCEPT !.pending = Tail(@)]
            /\ active' = active + 1
    /\ UNCHANGED <<dbSubmit, finishVars>>

FinishReplies ==
    /\ core.pc = "finish" /\ active > 0 /\ replies # <<>>
    /\ core.pending = <<>> \/ WriteVerdict = "busy"
    /\ replies' = Tail(replies)
    /\ IF Head(replies).what = "mutation"
       THEN /\ active' = active - 1
            /\ core' = [core EXCEPT !.failed = @ \/ ~Head(replies).ok]
       ELSE UNCHANGED <<active, core>>
    /\ UNCHANGED <<requests, queries, open, admission, writer, reader, mailbox, interrupt,
                   stopping, backfill, log, answers, cut, finishVars>>

FinishInterrupts ==
    /\ core.pc = "finish" /\ (core.pending # <<>> \/ active > 0)
    /\ GateFree /\ reader' = Cut(reader) /\ reader' # reader
    /\ UNCHANGED <<requests, queries, replies, open, admission, writer, mailbox, interrupt,
                   stopping, backfill, log, answers, cut, finishVars, core, active>>

FinishEnds ==
    /\ core.pc = "finish" /\ core.pending = <<>> /\ active = 0
    /\ core' = Compose(~core.failed)
    /\ UNCHANGED <<dbVars, finishVars, active>>

(* The composer's channel is closed and emptied; then run_core returns and *)
(* drops the replies.                                                      *)
LastCompose ==
    /\ core.pc = "last" /\ composes # <<>>
    /\ core' = [pc |-> "compose", id |-> Head(composes), last |-> TRUE, ok |-> core.ok]
    /\ composes' = <<>>
    /\ UNCHANGED <<dbVars, loopVars, commands, events, slots, schedule, active, streak,
                   waited>>

Returns(ok) ==
    /\ core' = [pc |-> "grace", ok |-> ok]
    /\ open' = FALSE /\ replies' = <<>>
    /\ UNCHANGED <<requests, queries, admission, writer, reader, mailbox, interrupt,
                   stopping, backfill, log, answers, cut, finishVars, active>>

CoreReturns_DropsCompose == core.pc = "last" /\ Returns(core.ok)

CoreReturns == core.pc = "last" /\ composes = <<>> /\ Returns(core.ok)

(* A workflow that finds the database closed ends the loop as it is.       *)
AccountFailure ==
    /\ core = Loop /\ \E w \in Others : answers[w] = "closed"
    /\ Returns(FALSE)

-----------------------------------------------------------------------------
(* Calls of the composer, inside its command, and of the other tasks.      *)

callVars == <<commands, composes, events, slots, shutdown, schedule, active, streak,
              statuses, sent, told, asked, seen, waited>>

Call(w) ==
    /\ w \notin ToSet(called) /\ answers[w] = "none" /\ WriteVerdict # "busy"
    /\ IF WriteVerdict = "closed"
       THEN answers' = [answers EXCEPT ![w] = "closed"] /\ UNCHANGED <<requests, called>>
       ELSE /\ requests' = Append(requests, w) /\ called' = Append(called, w)
            /\ UNCHANGED answers
    /\ UNCHANGED <<queries, replies, open, admission, writer, reader, mailbox, interrupt,
                   stopping, backfill, log, cut, callVars, core>>

ComposeCalls == core.pc = "compose" /\ Call(core.id)

ComposeEnds ==
    /\ core.pc = "compose" /\ answers[core.id] # "none"
    /\ core' = IF core.last THEN Compose(core.ok) ELSE Loop
    /\ UNCHANGED <<dbVars, callVars, called>>

OtherCalls(w) == core.pc \notin {"gate", "closing", "done"} /\ w \in Others /\ Call(w)

-----------------------------------------------------------------------------
(* DatabaseRuntime::stop_and_join, after the grace of the other tasks      *)

ClosesDatabase ==
    /\ core.pc = "grace"
    /\ core' = [core EXCEPT !.pc = "closing"]
    /\ admission' = FALSE /\ stopping' = {"writer", "reader"}
    /\ UNCHANGED <<requests, queries, replies, open, writer, reader, mailbox, interrupt,
                   backfill, log, answers, cut, finishVars, active>>

ClosingInterrupts ==
    /\ core.pc = "closing" /\ reader' = Cut(reader) /\ reader' # reader
    /\ UNCHANGED <<requests, queries, replies, open, admission, writer, mailbox, interrupt,
                   stopping, backfill, log, answers, cut, coreVars>>

Joins ==
    /\ core.pc = "closing" /\ ~WriterRuns /\ reader.pc = "stopped"
    /\ core' = [pc |-> "done", ok |-> core.ok /\ writer.ok]
    /\ UNCHANGED <<dbVars, finishVars, active>>

-----------------------------------------------------------------------------

Held == core.pc = "gate"

Database == (WriterStep \/ ReaderStep(Held)) /\ UNCHANGED coreVars

Faults == BackfillFails /\ backfill <= MaxFaults /\ UNCHANGED coreVars

Ui == \/ \E k \in Kinds : UiAsks(k)
      \/ \E m \in Mutations : UiMutates(m)
      \/ \E w \in Composes : UiComposes(w)
      \/ UiShutsDown

Inputs ==
    \/ \E k \in Kinds, n \in 1..MaxAsk : QueryCommand(k, n)
    \/ \E m \in Mutations : MutateCommand(m)
    \/ DatabaseReply \/ OtherInput \/ ComposeCommand

Core == \/ Inputs \/ InterruptsReader \/ SendDelivers \/ SendAborts \/ Shutdown
        \/ FinishSubmits \/ FinishReplies \/ FinishEnds \/ LastCompose \/ CoreReturns
        \/ ComposeCalls \/ ComposeEnds \/ ClosesDatabase \/ Joins

Next ==
    \/ Database \/ Faults \/ Ui \/ UiReceives \/ Core \/ AccountFailure
    \/ FinishInterrupts \/ ClosingInterrupts
    \/ \E w \in Others : OtherCalls(w)

Spec == Init /\ [][Next]_vars

(* Threads run, and the interface takes its events until it shuts down.    *)
Fairness ==
    /\ WF_vars(WriterStep /\ UNCHANGED coreVars)
    /\ WF_vars(ReaderStep(Held) /\ UNCHANGED coreVars)
    /\ WF_vars(Core) /\ WF_vars(UiReceives /\ ~shutdown)

FairSpec == Spec /\ Fairness

-----------------------------------------------------------------------------
(* Properties                                                              *)

Ran1(x, ok) == <<x, ok>> \in ToSet(log)

Replied(q) == \E i \in DOMAIN replies : replies[i].what # "mutation" /\ replies[i].id = q

(* Every queue respects its capacity and every thread is at a place of its *)
(* code.                                                                   *)
TypeOK ==
    /\ requests \in Seq(Mutations \cup Writes) /\ Len(requests) <= RequestCapacity
    /\ queries \in Seq(Queries) /\ Len(queries) <= QueryCapacity
    /\ Len(replies) <= ReplyCapacity /\ Len(events) <= EventCapacity
    /\ Len(commands) <= CommandCapacity /\ Len(composes) <= 1
    /\ writer.pc \in {"idle", "write", "send", "drain", "backfill", "dead", "stopped"}
    /\ reader.pc \in {"idle", "query", "send", "stopped"}
    /\ mailbox.state \in {"idle", "active", "superseded", "activeSuperseded"}
    /\ active \in 0..Len(sent) /\ streak \in 0..Burst
    /\ \A k \in DOMAIN schedule :
          {schedule[k].active, schedule[k].pending} \subseteq 0..MaxAsk

(* The interface's mutations, in the order in which it sent them.          *)
SentBefore(m, n) == \E i, j \in DOMAIN sent : i < j /\ sent[i] = m /\ sent[j] = n

(* Mutations run in the order in which the interface sent them, each one   *)
(* at most once, also when a full database queue gave one back and the     *)
(* shutdown submitted it again.                                            *)
MutationsInOrder ==
    \A i, j \in DOMAIN log :
        i < j /\ {log[i][1], log[j][1]} \subseteq DOMAIN told
            => SentBefore(log[i][1], log[j][1])

(* What the interface is told of a mutation is what became of it; one that *)
(* was rejected is never run later.                                        *)
ToldTheTruth ==
    \A m \in DOMAIN told :
        /\ told[m] = "committed" => Ran1(m, TRUE) /\ ~Ran1(m, FALSE)
        /\ told[m] = "failed" => Ran1(m, FALSE) /\ ~Ran1(m, TRUE)
        /\ told[m] = "rejected" => ~Ran1(m, TRUE) /\ ~Ran1(m, FALSE)

(* A core that ends well has lost no mutation it accepted: each is         *)
(* committed or the interface heard that it is not.                        *)
HonestEnd ==
    core.pc = "done" /\ core.ok =>
        \A m \in ToSet(sent) : told[m] \in {"failed", "rejected"} \/ Ran1(m, TRUE)

(* When the database has stopped, every write that it admitted has run     *)
(* once and its caller has the result.                                     *)
WritesDrain ==
    core.pc = "done" /\ writer.pc = "stopped" =>
        \A w \in ToSet(called) :
            /\ answers[w] \in {"done", "failed"}
            /\ Cardinality({i \in DOMAIN log : log[i][1] = w}) = 1

(* A burst of commands holds a reply of the database back for at most      *)
(* Burst commands.                                                         *)
ReplyWaits == waited <= Burst

(* Mutations run in the order in which the interface sent them, each at    *)
(* most once; what it is told of one is what became of it; a core that     *)
(* ends well has lost none; and when the database has stopped, every write *)
(* it admitted has run once and its caller has the result.  Every queue    *)
(* stays within its capacity, and a burst of commands holds a reply of the *)
(* database back for at most Burst commands.                               *)
WritesAreHonest ==
    TypeOK /\ MutationsInOrder /\ ToldTheTruth /\ HonestEnd /\ WritesDrain /\ ReplyWaits

(* The core never waits for a query nobody executes: the one it holds as   *)
(* active is in the queue, with the reader or among the replies.           *)
QueriesAreKept ==
    CommandsOpen =>
        \A k \in DOMAIN schedule :
            LET q == <<k, schedule[k].active>> IN
            q[2] # None =>
                \/ q \in ToSet(queries) \/ Replied(q)
                \/ reader.pc = "query" /\ reader.id = q
                \/ reader.pc = "send" /\ reader.reply.id = q

(* Only obsolete mailbox work is interrupted or skipped: while the core is *)
(* not shutting down, a query is cut short or answered without a result    *)
(* only if it is a mailbox query that a later one waits to replace.        *)
Obsolete(q) ==
    /\ q[1] = "mailbox"
    /\ schedule["mailbox"].active = q[2] /\ schedule["mailbox"].pending # None

ObsoleteOnly ==
    CommandsOpen =>
        /\ reader.pc = "query" /\ reader.cut => Obsolete(reader.id)
        /\ reader.pc = "send" /\ reader.reply.what = "superseded" => Obsolete(reader.reply.id)
        /\ \A i \in DOMAIN replies : replies[i].what = "superseded" => Obsolete(replies[i].id)

(* The core never waits for a query nobody executes, and only a mailbox    *)
(* query that a later one waits to replace is interrupted or answered      *)
(* without a result.                                                       *)
OnlyObsoleteIsCut == QueriesAreKept /\ ObsoleteOnly

(* "A fixed request-key fence interrupts or skips only obsolete mailbox    *)
(* work on the query actor": no write fails for an interruption.           *)
WritesAreNotInterrupted == cut = {}

(* The interface gets the answer to the last query of every kind, or a     *)
(* rejection of it, unless the core stops.                                 *)
LatestAnswered ==
    []<>((\A k \in Kinds : seen[k] >= asked[k]) \/ shutdown \/ core.pc \in {"closing", "done"})

(* A composer command executes inside the loop, which takes no replies     *)
(* meanwhile: it ends nevertheless, as does one that came with the end.    *)
ComposeIsAnswered == \A w \in Composes : composes = <<w>> ~> answers[w] # "none"

(* A shutdown ends.                                                        *)
ShutdownTerminates == []<>(shutdown => core.pc = "done")
=============================================================================
