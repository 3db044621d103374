---------------------------- MODULE DatabaseActor ----------------------------
(***************************************************************************)
(* The two SQLite threads of mail/src/store/sqlite/actor.rs and the client *)
(* that the core shares: bounded queues, one channel of replies, the key   *)
(* of the mailbox query that may be interrupted, the write gate, admission *)
(* and the drain of accepted writes.  What a write does is modelled        *)
(* elsewhere; here it has an identity and runs or does not.                *)
(***************************************************************************)
EXTENDS Integers, SequencesExt

CONSTANTS
    Mutations,       \* writes whose reply goes to the channel
    Writes,          \* writes with a reply of their own
    Plain,           \* kinds of queries that nobody interrupts
    MaxAsk,          \* bound on the queries of a kind
    RequestCapacity, \* REQUEST_CAPACITY
    QueryCapacity,   \* QUERY_REQUEST_CAPACITY
    ReplyCapacity,   \* REPLY_CAPACITY
    MaxBackfill,     \* batches until the search index is complete
    MaxFaults        \* bound on backfill batches that fail

ASSUME DatabaseAssumption ==
    /\ {RequestCapacity, QueryCapacity, ReplyCapacity} \subseteq Nat \ {0}
    /\ {MaxAsk, MaxBackfill, MaxFaults} \subseteq Nat
    /\ Mutations \cap Writes = {} /\ "mailbox" \notin Plain

VARIABLES
    requests,  \* DatabaseClient.requests
    queries,   \* DatabaseClient.query_requests
    replies,   \* DatabaseReplies
    open,      \* the core still holds the receiver of the replies
    admission,
    writer,    \* run_actor
    reader,    \* run_query_actor
    mailbox,   \* MailboxQueryState
    interrupt, \* interrupt_requested
    stopping,  \* the threads that have a shutdown signal waiting
    backfill,  \* batches of the search index that are missing
    log,       \* history: writes that ran, in order, and whether they committed
    answers,   \* history: what the clients of Writes were told
    cut        \* history: writes that failed for an interruption

dbVars == <<requests, queries, replies, open, admission, writer, reader, mailbox,
            interrupt, stopping, backfill, log, answers, cut>>

Reply(what, id, ok) == [what |-> what, id |-> id, ok |-> ok]

Idle == [pc |-> "idle"]

Stopped == [pc |-> "stopped", ok |-> TRUE]

NoKey == [state |-> "idle"]

WriterRuns == writer.pc \notin {"stopped", "dead"}

DbInit ==
    /\ requests = <<>> /\ queries = <<>> /\ replies = <<>>
    /\ open = TRUE /\ admission = TRUE
    /\ writer = Idle /\ reader = Idle /\ mailbox = NoKey /\ interrupt = FALSE
    /\ stopping = {} /\ backfill \in 0..MaxBackfill
    /\ log = <<>> /\ answers = [w \in Writes |-> "none"] /\ cut = {}

-----------------------------------------------------------------------------
(* DatabaseClient: what a try_ call answers.                               *)

Verdict_NoLimit(queue, capacity, alive) ==
    IF ~admission \/ ~alive THEN "closed" ELSE "ok"

Verdict(queue, capacity, alive) ==
    IF ~admission \/ ~alive THEN "closed"
    ELSE IF Len(queue) = capacity THEN "busy" ELSE "ok"

WriteVerdict == Verdict(requests, RequestCapacity, WriterRuns)

QueryVerdict == Verdict(queries, QueryCapacity, reader.pc # "stopped")

(* supersede_mailbox_query up to the write gate, which its caller takes    *)
(* while it holds the state.                                               *)
Interruptible(id) == mailbox = [state |-> "active", key |-> id]

Supersede(id) ==
    /\ mailbox' = CASE mailbox.state = "idle" -> [state |-> "superseded", key |-> id]
                    [] Interruptible(id) -> [state |-> "activeSuperseded", key |-> id]
                    [] OTHER -> mailbox
    /\ interrupt' = (interrupt \/ Interruptible(id))

GateFree == writer.pc \notin {"write", "backfill"}

Cut(thread) == IF thread.pc = "query" THEN [thread EXCEPT !.cut = TRUE] ELSE thread

-----------------------------------------------------------------------------
(* The writer                                                              *)

WriterVars == <<queries, open, reader, mailbox, interrupt>>

WriterTakes ==
    /\ writer.pc = "idle" /\ "writer" \notin stopping /\ requests # <<>>
    /\ writer' = [pc |-> "write", id |-> Head(requests)]
    /\ requests' = Tail(requests)
    /\ UNCHANGED <<WriterVars, replies, admission, stopping, backfill, log, answers, cut>>

(* The progress handler of this connection reads the flag that is meant    *)
(* for the mailbox query.                                                  *)
Ran(id, ok) ==
    /\ log' = Append(log, <<id, ok>>)
    /\ answers' = IF id \in Writes
                  THEN [answers EXCEPT ![id] = IF ok THEN "done" ELSE "failed"]
                  ELSE answers
    /\ cut' = IF ~ok /\ interrupt THEN cut \cup {id} ELSE cut

WriterRan_BeforeCommit(ok) ==
    /\ writer.pc = "write"
    /\ Ran(writer.id, ok)
    /\ writer' = IF writer.id \in Mutations
                 THEN [pc |-> "send", reply |-> Reply("mutation", writer.id, TRUE)]
                 ELSE Idle
    /\ UNCHANGED <<WriterVars, requests, replies, admission, stopping, backfill>>

WriterRan(ok) ==
    /\ writer.pc = "write"
    /\ Ran(writer.id, ok)
    /\ writer' = IF writer.id \in Mutations
                 THEN [pc |-> "send", reply |-> Reply("mutation", writer.id, ok)]
                 ELSE Idle
    /\ UNCHANGED <<WriterVars, requests, replies, admission, stopping, backfill>>

(* A full channel is tried again every millisecond, until a shutdown.      *)
WriterSends ==
    /\ writer.pc = "send" /\ open /\ Len(replies) < ReplyCapacity
    /\ replies' = Append(replies, writer.reply)
    /\ writer' = Idle
    /\ UNCHANGED <<WriterVars, requests, admission, stopping, backfill, log, answers, cut>>

WriterShuts ==
    /\ \/ /\ writer.pc = "idle" /\ "writer" \in stopping
          /\ writer' = [pc |-> "drain", ok |-> TRUE]
       \/ /\ writer.pc = "send"
          /\ ~open \/ (Len(replies) = ReplyCapacity /\ "writer" \in stopping)
          /\ writer' = [pc |-> "drain", ok |-> writer.reply.ok]
    /\ admission' = FALSE /\ stopping' = stopping \ {"writer"}
    /\ UNCHANGED <<WriterVars, requests, replies, backfill, log, answers, cut>>

WriterDrains_Drops(ok) ==
    /\ writer.pc = "drain"
    /\ writer' = [pc |-> "stopped", ok |-> writer.ok] /\ requests' = <<>>
    /\ UNCHANGED <<WriterVars, replies, admission, stopping, backfill, log, answers, cut>>

WriterDrains(ok) ==
    /\ writer.pc = "drain"
    /\ IF requests = <<>>
       THEN /\ writer' = [pc |-> "stopped", ok |-> writer.ok]
            /\ UNCHANGED <<requests, log, answers, cut>>
       ELSE /\ Ran(Head(requests), ok)
            /\ requests' = Tail(requests)
            /\ writer' = [writer EXCEPT !.ok = @ /\ ok]
    /\ UNCHANGED <<WriterVars, replies, admission, stopping, backfill>>

BackfillStarts ==
    /\ writer.pc = "idle" /\ "writer" \notin stopping /\ requests = <<>>
    /\ backfill > 0
    /\ writer' = [pc |-> "backfill"]
    /\ UNCHANGED <<WriterVars, requests, replies, admission, stopping, backfill, log,
                   answers, cut>>

BackfillEnds ==
    /\ writer.pc = "backfill"
    /\ writer' = Idle /\ backfill' = backfill - 1
    /\ UNCHANGED <<WriterVars, requests, replies, admission, stopping, log, answers, cut>>

(* An error ends the thread, and what waits in its queue is dropped.       *)
BackfillFails ==
    /\ writer.pc = "backfill"
    /\ writer' = [pc |-> "dead", ok |-> FALSE] /\ requests' = <<>>
    /\ answers' = [w \in Writes |-> IF w \in ToSet(requests) THEN "closed" ELSE answers[w]]
    /\ UNCHANGED <<WriterVars, replies, admission, stopping, backfill, log, cut>>

-----------------------------------------------------------------------------
(* The query thread.  A caller that waits for the gate holds the state.    *)

ReaderVars == <<requests, open, writer, backfill, log, answers, cut>>

Skipped_AnyKey(id) == mailbox.state = "superseded"

(* A query is skipped only by its own key; another key is stale.           *)
Skipped(id) == mailbox = [state |-> "superseded", key |-> id]

ReaderTakes(held) ==
    /\ reader.pc = "idle" /\ "reader" \notin stopping /\ queries # <<>>
    /\ LET id == Head(queries) IN
       IF id[1] # "mailbox"
       THEN /\ reader' = [pc |-> "query", id |-> id, cut |-> FALSE]
            /\ UNCHANGED <<mailbox, interrupt>>
       ELSE /\ ~held
            /\ reader' = IF Skipped(id)
                         THEN [pc |-> "send", reply |-> Reply("superseded", id, TRUE)]
                         ELSE [pc |-> "query", id |-> id, cut |-> FALSE]
            /\ mailbox' = IF Skipped(id) THEN NoKey ELSE [state |-> "active", key |-> id]
            /\ interrupt' = FALSE
    /\ queries' = Tail(queries)
    /\ UNCHANGED <<ReaderVars, replies, admission, stopping>>

ReaderRan(held) ==
    /\ reader.pc = "query"
    /\ LET id == reader.id IN
       /\ id[1] = "mailbox" => ~held
       /\ reader' = [pc |-> "send",
                     reply |-> IF id[1] = "mailbox" /\ mailbox.state = "activeSuperseded"
                               THEN Reply("superseded", id, TRUE)
                               ELSE Reply("loaded", id, ~reader.cut)]
       /\ IF id[1] = "mailbox" THEN mailbox' = NoKey /\ interrupt' = FALSE
          ELSE UNCHANGED <<mailbox, interrupt>>
    /\ UNCHANGED <<ReaderVars, queries, replies, admission, stopping>>

ReaderSends ==
    /\ reader.pc = "send" /\ open /\ Len(replies) < ReplyCapacity
    /\ replies' = Append(replies, reader.reply)
    /\ reader' = Idle
    /\ UNCHANGED <<ReaderVars, queries, mailbox, interrupt, admission, stopping>>

ReaderShuts ==
    /\ \/ reader.pc = "idle" /\ "reader" \in stopping /\ UNCHANGED admission
       \/ /\ reader.pc = "send"
          /\ ~open \/ (Len(replies) = ReplyCapacity /\ "reader" \in stopping)
          /\ admission' = FALSE
    /\ reader' = Stopped /\ queries' = <<>>
    /\ stopping' = stopping \ {"reader"}
    /\ UNCHANGED <<ReaderVars, replies, mailbox, interrupt>>

WriterStep ==
    \/ WriterTakes \/ WriterSends \/ WriterShuts \/ BackfillStarts \/ BackfillEnds
    \/ \E ok \in BOOLEAN : WriterRan(ok) \/ WriterDrains(ok)

ReaderStep(held) ==
    ReaderTakes(held) \/ ReaderRan(held) \/ ReaderSends \/ ReaderShuts
=============================================================================
