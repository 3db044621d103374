----------------------------- MODULE MailboxStore -----------------------------
(* The mailbox as the interface reads it: messages in folders, the seven    *)
(* counters of each account that every transaction has to carry along       *)
(* (store/sqlite/stats.rs), the search documents that triggers and a        *)
(* backfill keep beside the messages (migration 0015, search.rs), and the   *)
(* pages of a listing (query.rs).  An action of the first part is one       *)
(* transaction of the writer with the triggers it fires; a page is a query  *)
(* of the reader.  A folder is its role; only what decides counters,        *)
(* documents and pages is kept of a message (for revisions and intents see  *)
(* Journal, for the outbox OutboxStore, for bodies ContentFiles).           *)
EXTENDS Integers, FiniteSets, SequencesExt

CONSTANTS
    Messages,   \* message ids, numbers
    Accounts,
    AccountOf,  \* [Messages -> Accounts]
    Born,       \* messages that were here before the search documents
    Composed,   \* messages the composer may create; the others arrive
    Provided,   \* folders every account has from the start
    Kinds,      \* what happens
    Times,      \* received_at_ms a message can have
    MaxText,    \* bound: texts a message has in turn
    MaxOps,     \* bound: transactions
    Batch,      \* BACKFILL_BATCH
    Limit       \* rows of a page

VARIABLES
    mail,       \* messages
    accounts,   \* "active", "removing" or "gone"
    folders,    \* the folders of each account
    stats,      \* account_mailbox_stats
    docs,       \* message_search_documents
    backfill,   \* message_search_backfill
    undo,       \* trash_undo
    walk,       \* a listing that is read page by page
    ops

world == <<accounts, folders, undo>>
vars == <<mail, world, stats, docs, backfill, walk, ops>>

Counters == {"inbox", "unread", "starred", "sent", "drafts", "archive", "trash"}

Gone == [here |-> FALSE, unread |-> FALSE, starred |-> FALSE, roles |-> {}, at |-> 0,
         text |-> 0, body |-> 0, draft |-> FALSE, out |-> FALSE, tomb |-> FALSE]

NoDoc == [text |-> 0, body |-> 0]
NoUndo == [msg |-> 0, roles |-> {}, token |-> 0]
NoWalk == [scope |-> <<>>, next |-> <<>>, open |-> FALSE, seen |-> {}, still |-> {}, twice |-> {}]

Owner(m) == AccountOf[m]
Mine(a) == {m \in Messages : Owner(m) = a}

-----------------------------------------------------------------------------
(* What counts where                                                       *)

Counted_ShowsTrash(r, k) ==
    CASE k = "unread" -> r.unread /\ "inbox" \in r.roles
      [] k = "starred" -> r.starred /\ r.roles # {}
      [] OTHER -> k \in r.roles

(* classify_row, and the aggregates of rebuild_account: Trash hides a      *)
(* message from every other counter.                                       *)
Counted(r, k) ==
    IF "trash" \in r.roles
    THEN k = "trash"
    ELSE CASE k = "unread" -> r.unread /\ "inbox" \in r.roles
           [] k = "starred" -> r.starred /\ r.roles # {}
           [] OTHER -> k \in r.roles

Classified(r) == [k \in Counters |-> IF r.here /\ Counted(r, k) THEN 1 ELSE 0]

Recount(rows, a) == [k \in Counters |-> Cardinality({m \in Mine(a) : rows[m].here /\ Counted(rows[m], k)})]

(* mailbox_query: the folder predicate of a page                           *)
Listed(r, k) ==
    /\ r.here
    /\ CASE k = "unread" -> r.unread /\ "inbox" \in r.roles
         [] k = "starred" -> r.starred /\ r.roles # {}
         [] OTHER -> k \in r.roles
    /\ k = "trash" \/ "trash" \notin r.roles

(* The rows of a scope, an account (or <<>> for all) and a folder          *)
Shown(rows, states, scope) ==
    {m \in Messages : /\ scope.account \in {<<>>, Owner(m)}
                      /\ states[Owner(m)] = "active"
                      /\ Listed(rows[m], scope.folder)}

-----------------------------------------------------------------------------
(* Triggers and counters                                                   *)

Indexed_LosesBody(m, row) ==
    IF ~row.here THEN NoDoc
    ELSE IF ~mail[m].here THEN [text |-> row.text, body |-> row.body]
    ELSE IF docs[m] = NoDoc THEN NoDoc ELSE [docs[m] EXCEPT !.text = row.text]

(* sync_message_search_*: a new message has a document at once, an old one *)
(* when the backfill has come by; the document goes with the message.      *)
Indexed(m, row) ==
    IF ~row.here THEN NoDoc
    ELSE IF ~mail[m].here THEN [text |-> row.text, body |-> row.body]
    ELSE IF docs[m] = NoDoc THEN NoDoc ELSE [text |-> row.text, body |-> row.body]

(* The position of a row in a listing                                      *)
Unmoved(m, row) == row.here /\ row.at = mail[m].at

(* The rows of a transaction, with what a reader of pages can rely on      *)
Writes(rows, states) ==
    /\ mail' = rows
    /\ docs' = [m \in Messages |-> Indexed(m, rows[m])]
    /\ walk' = IF walk.scope = <<>> THEN walk
               ELSE [walk EXCEPT !.still = {m \in @ : /\ m \in Shown(rows, states, walk.scope)
                                                     /\ Unmoved(m, rows[m])}]

WritesRow(m, row) == Writes([mail EXCEPT ![m] = row], accounts)

(* mark_mailbox_stats_dirty_*: what a write of m makes stale               *)
Dirties(m, row) ==
    \/ row.here # mail[m].here \/ row.roles # mail[m].roles
    \/ row.unread # mail[m].unread \/ row.starred # mail[m].starred

(* apply_transition and apply_delta: a row leaves its counters and enters  *)
(* others, unless they are stale or would be impossible.                   *)
Transition(m, row) ==
    LET a == Owner(m)
        n == [k \in Counters |-> stats[a].count[k] + Classified(row)[k] - Classified(mail[m])[k]]
    IN  /\ ~stats[a].dirty
        /\ (\A k \in Counters : n[k] >= 0) /\ n["unread"] =< n["inbox"]
        /\ stats' = [stats EXCEPT ![a].count = n]

DraftCreated_Sent(a) == stats' = [stats EXCEPT ![a].count["sent"] = @ + 1]

(* record_draft_created: the triggers have marked the counters; the one of *)
(* the drafts is advanced.                                                 *)
DraftCreated(a) == stats' = [stats EXCEPT ![a].count["drafts"] = @ + 1]

Rebuild(a, rows) == stats' = [stats EXCEPT ![a] = [count |-> Recount(rows, a), dirty |-> FALSE]]

Op(kind) == kind \in Kinds /\ ops > 0 /\ ops' = ops - 1

-----------------------------------------------------------------------------

(* Migration 0015 starts with the messages of older versions, all of them  *)
(* in the inbox and without documents.                                     *)
Init ==
    /\ mail \in [Messages -> {Gone} \cup {[Gone EXCEPT !.here = TRUE, !.unread = TRUE, !.at = t,
                                                       !.text = 1, !.roles = {"inbox"}] : t \in Times}]
    /\ \A m \in Messages : mail[m].here <=> m \in Born
    /\ accounts = [a \in Accounts |-> "active"]
    /\ folders = [a \in Accounts |-> Provided]
    /\ stats = [a \in Accounts |-> [count |-> Recount(mail, a), dirty |-> FALSE]]
    /\ docs = [m \in Messages |-> NoDoc]
    /\ backfill = [next |-> 1, complete |-> FALSE]
    /\ undo = NoUndo /\ walk = NoWalk /\ ops = MaxOps

-----------------------------------------------------------------------------
(* mutate_message                                                          *)

Mutates(m, row) == WritesRow(m, row) /\ Transition(m, row)

Untouched == UNCHANGED <<accounts, folders, backfill>>

SetUnread(m) ==
    /\ Op("unread") /\ mail[m].here
    /\ Mutates(m, [mail[m] EXCEPT !.unread = ~@])
    /\ UNCHANGED undo /\ Untouched

SetStarred(m) ==
    /\ Op("starred") /\ mail[m].here
    /\ Mutates(m, [mail[m] EXCEPT !.starred = ~@])
    /\ UNCHANGED undo /\ Untouched

Archive(m) ==
    /\ Op("archive") /\ mail[m].here /\ "archive" \in folders[Owner(m)]
    /\ mail[m].roles \cap {"trash", "sent", "drafts"} = {} /\ mail[m].roles # {"archive"}
    /\ Mutates(m, [mail[m] EXCEPT !.roles = (@ \ {"inbox"}) \cup {"archive"}])
    /\ UNCHANGED undo /\ Untouched

(* The one undo slot keeps the folders of the message that was trashed     *)
(* last.                                                                   *)
MoveToTrash(m) ==
    /\ Op("trash") /\ mail[m].here /\ ~mail[m].out
    /\ mail[m].roles # {} /\ "trash" \notin mail[m].roles /\ "trash" \in folders[Owner(m)]
    /\ undo' = [msg |-> m, roles |-> mail[m].roles, token |-> undo.token + 1]
    /\ Mutates(m, [mail[m] EXCEPT !.roles = {"trash"}])
    /\ Untouched

Cleared(u) == [u EXCEPT !.msg = 0, !.roles = {}]

UndoTrash(token) ==
    LET m == undo.msg IN
    /\ Op("undo") /\ m # 0 /\ undo.token = token
    /\ undo' = Cleared(undo)
    /\ Untouched
    /\ \/ /\ mail[m].roles = {"trash"} /\ undo.roles \subseteq folders[Owner(m)]
          /\ Mutates(m, [mail[m] EXCEPT !.roles = undo.roles])
       \/ UNCHANGED <<mail, docs, walk, stats>>    \* the undo period has expired

(* clear_trash_undo_before_message_delete                                  *)
Forgets(m) == undo' = IF undo.msg = m THEN Cleared(undo) ELSE undo

DeletePermanently_KeepsUndo(m) ==
    /\ Op("delete") /\ mail[m].here /\ ~mail[m].out /\ "trash" \in mail[m].roles
    /\ Mutates(m, [Gone EXCEPT !.tomb = TRUE])
    /\ UNCHANGED undo /\ Untouched

(* What was deleted is remembered: a page does not bring it back.          *)
DeletePermanently(m) ==
    /\ Op("delete") /\ mail[m].here /\ ~mail[m].out /\ "trash" \in mail[m].roles
    /\ Mutates(m, [Gone EXCEPT !.tomb = TRUE])
    /\ Forgets(m) /\ Untouched

-----------------------------------------------------------------------------
(* Synchronization and content                                             *)

(* upsert_message: a row of a page. What is here keeps its flags, and once *)
(* its content has been read also its text and its place.                  *)
Upserts(m) ==
    LET r == mail[m] IN
    IF ~r.here
    THEN {[Gone EXCEPT !.here = TRUE, !.unread = u, !.starred = s, !.roles = {"inbox"}, !.at = t,
                       !.text = 1] : u \in BOOLEAN, s \in BOOLEAN, t \in Times}
    ELSE {[r EXCEPT !.roles = @ \cup {"inbox"}, !.text = IF r.body = 0 THEN x ELSE @,
                    !.at = IF r.body = 0 THEN t ELSE @] : x \in r.text..MaxText, t \in Times}

StagePage_Unbuilt(a, S) ==
    /\ Op("stage") /\ accounts[a] = "active" /\ S # {}
    /\ \E rows \in [S -> UNION {Upserts(m) : m \in S}] :
          LET new == [m \in Messages |-> IF m \in S THEN rows[m] ELSE mail[m]] IN
          /\ \A m \in S : rows[m] \in Upserts(m)
          /\ Writes(new, accounts)
          /\ stats' = [stats EXCEPT ![a].dirty = @ \/ \E m \in S : Dirties(m, new[m])]
    /\ folders' = [folders EXCEPT ![a] = @ \cup {"inbox"}]
    /\ UNCHANGED <<accounts, backfill, undo>>

(* stage_inbox_page ends with rebuild_account.                             *)
StagePage(a, S) ==
    /\ Op("stage") /\ accounts[a] = "active" /\ S # {}
    /\ \E rows \in [S -> UNION {Upserts(m) : m \in S}] :
          LET new == [m \in Messages |-> IF m \in S THEN rows[m] ELSE mail[m]] IN
          /\ \A m \in S : rows[m] \in Upserts(m)
          /\ Writes(new, accounts) /\ Rebuild(a, new)
    /\ folders' = [folders EXCEPT ![a] = @ \cup {"inbox"}]
    /\ UNCHANGED <<accounts, backfill, undo>>

(* apply_imap_preview_batch                                                *)
Preview(m) ==
    /\ Op("preview") /\ mail[m].here /\ ~mail[m].draft /\ accounts[Owner(m)] = "active"
    /\ mail[m].text < MaxText /\ mail[m].body = 0
    /\ WritesRow(m, [mail[m] EXCEPT !.text = @ + 1])
    /\ UNCHANGED <<stats, undo>> /\ Untouched

(* finalize_content: the body, and the text and time of its header         *)
FinalizeContent(m) ==
    /\ Op("content") /\ mail[m].here /\ ~mail[m].draft /\ accounts[Owner(m)] = "active"
    /\ mail[m].body < MaxText
    /\ \E t \in Times, x \in mail[m].text..MaxText :
          WritesRow(m, [mail[m] EXCEPT !.body = @ + 1, !.text = x, !.at = t])
    /\ UNCHANGED <<stats, undo>> /\ Untouched

-----------------------------------------------------------------------------
(* Drafts                                                                  *)

CreateDraft(m) ==
    LET a == Owner(m) IN
    /\ Op("draft") /\ m \in Composed /\ ~mail[m].here /\ ~mail[m].tomb /\ accounts[a] = "active"
    /\ ~stats[a].dirty
    /\ \E t \in Times : WritesRow(m, [Gone EXCEPT !.here = TRUE, !.roles = {"drafts"}, !.at = t,
                                                  !.text = 1, !.body = 1, !.draft = TRUE])
    /\ DraftCreated(a)
    /\ folders' = [folders EXCEPT ![a] = @ \cup {"drafts"}]
    /\ UNCHANGED <<accounts, undo, backfill>>

UpdateDraft(m) ==
    /\ Op("edit") /\ mail[m].draft /\ ~mail[m].out /\ accounts[Owner(m)] = "active"
    /\ mail[m].text < MaxText
    /\ \E t \in Times : WritesRow(m, [mail[m] EXCEPT !.text = @ + 1, !.body = @ + 1, !.at = t])
    /\ UNCHANGED <<stats, undo>> /\ Untouched

(* reserve_outbox and what ends it without a delivery: nothing here but    *)
(* the row that protects the message.                                      *)
Queue(m) ==
    /\ Op("queue") /\ mail[m].draft /\ accounts[Owner(m)] = "active"
    /\ mail' = [mail EXCEPT ![m].out = ~@]
    /\ UNCHANGED <<docs, walk, stats, undo>> /\ Untouched

(* complete_delivered_message                                              *)
Deliver(m) ==
    /\ Op("queue") /\ mail[m].out
    /\ Mutates(m, [mail[m] EXCEPT !.roles = (@ \ {"drafts"}) \cup {"sent"}, !.draft = FALSE,
                                  !.out = FALSE])
    /\ folders' = [folders EXCEPT ![Owner(m)] = @ \cup {"sent"}]
    /\ UNCHANGED <<accounts, undo, backfill>>

-----------------------------------------------------------------------------
(* Accounts                                                                *)

BeginRemoval(a) ==
    /\ Op("remove") /\ accounts[a] = "active" /\ \A m \in Mine(a) : ~mail[m].out
    /\ accounts' = [accounts EXCEPT ![a] = "removing"]
    /\ Writes(mail, accounts')
    /\ UNCHANGED <<folders, stats, undo, backfill>>

(* purge_removed_account, the newest message first: nobody counts in an     *)
(* account that is going.                                                  *)
Purge(a) ==
    LET left == {m \in Mine(a) : mail[m].here} IN
    /\ accounts[a] = "removing" /\ UNCHANGED <<ops, backfill>>
    /\ \/ \E m \in left :
             /\ \A n \in left : mail[n].at < mail[m].at \/ (mail[n].at = mail[m].at /\ n =< m)
             /\ WritesRow(m, Gone) /\ Forgets(m)
             /\ stats' = [stats EXCEPT ![a].dirty = TRUE]
             /\ UNCHANGED <<accounts, folders>>
       \/ /\ left = {}
          /\ accounts' = [accounts EXCEPT ![a] = "gone"]
          /\ folders' = [folders EXCEPT ![a] = {}]
          /\ UNCHANGED <<mail, docs, stats, undo, walk>>

-----------------------------------------------------------------------------
(* backfill_next_batch                                                     *)

Candidates_Skips(from) == {m \in Messages : mail[m].here /\ m > from}

(* The next messages in the order of their ids                             *)
Candidates(from) == {m \in Messages : mail[m].here /\ m >= from}

FirstOf(S, n) == {m \in S : Cardinality({k \in S : k < m}) < n}

Backfill ==
    LET some == FirstOf(Candidates(backfill.next), Batch) IN
    /\ ~backfill.complete
    /\ docs' = [m \in Messages |-> IF m \in some /\ docs[m] = NoDoc
                                   THEN [text |-> mail[m].text, body |-> mail[m].body] ELSE docs[m]]
    /\ backfill' = [next |-> IF some = {} THEN backfill.next
                             ELSE 1 + CHOOSE m \in some : \A k \in some : k =< m,
                    complete |-> Cardinality(some) < Batch]
    /\ UNCHANGED <<mail, world, stats, walk, ops>>

-----------------------------------------------------------------------------
(* Pages                                                                   *)

Key(m) == [at |-> mail[m].at, id |-> m]

Precedes_TimeOnly(x, y) == x.at < y.at

(* (received_at_ms, id) < (?, ?)                                           *)
Precedes(x, y) == x.at < y.at \/ (x.at = y.at /\ x.id < y.id)

(* Rows after a cursor, the newest first                                   *)
Ordered(S) == SetToSortSeq(S, LAMBDA m, n : Precedes(Key(n), Key(m)))

After(scope, cursor) ==
    {m \in Shown(mail, accounts, scope) : cursor = <<>> \/ Precedes(Key(m), cursor)}

(* One row more than a page is asked for.                                  *)
HasMore(S) == Cardinality(S) > Limit

Page(scope, cursor) ==
    LET S == After(scope, cursor)
        rows == SubSeq(Ordered(S), 1, IF HasMore(S) THEN Limit ELSE Cardinality(S))
    IN  [rows |-> {rows[i] : i \in DOMAIN rows},
         next |-> IF HasMore(S) THEN Key(rows[Len(rows)]) ELSE <<>>]

Answered(scope, cursor, from) ==
    LET p == Page(scope, cursor) IN
    /\ walk' = [from EXCEPT !.scope = scope, !.next = p.next, !.open = (p.next # <<>>),
                            !.seen = @ \cup p.rows,
                            !.twice = @ \cup (p.rows \cap from.seen \cap from.still)]
    /\ UNCHANGED <<mail, world, stats, docs, backfill, ops>>

(* query_mailbox, and query_mailbox_stats first: no account may be stale.  *)
Readable == \A a \in Accounts : accounts[a] = "active" => ~stats[a].dirty

FirstPage(scope) ==
    /\ "read" \in Kinds /\ walk = NoWalk /\ Readable
    /\ Answered(scope, <<>>, [NoWalk EXCEPT !.still = Shown(mail, accounts, scope)])

NextPage ==
    /\ walk.open /\ Readable
    /\ Answered(walk.scope, walk.next, walk)

-----------------------------------------------------------------------------

Scopes == [account : Accounts \cup {<<>>}, folder : Counters]

Next ==
    \/ \E m \in Messages :
          \/ SetUnread(m) \/ SetStarred(m) \/ Archive(m) \/ MoveToTrash(m) \/ DeletePermanently(m)
          \/ Preview(m) \/ FinalizeContent(m)
          \/ CreateDraft(m) \/ UpdateDraft(m) \/ Queue(m) \/ Deliver(m)
    \/ UndoTrash(undo.token)
    \/ \E a \in Accounts :
          \/ \E S \in SUBSET {m \in Mine(a) \ Composed : ~mail[m].tomb} : StagePage(a, S)
          \/ BeginRemoval(a) \/ Purge(a)
    \/ Backfill
    \/ \E scope \in Scopes : FirstPage(scope)
    \/ NextPage

Spec == Init /\ [][Next]_vars

(* Nothing is left half done: the interface may stop asking at any time.   *)
Rests ==
    /\ backfill.complete /\ ~walk.open /\ \A a \in Accounts : accounts[a] # "removing"
    /\ UNCHANGED vars

-----------------------------------------------------------------------------

TypeOK ==
    /\ \A m \in Messages : /\ mail[m].roles \subseteq folders[Owner(m)] \cup {"inbox"}
                           /\ mail[m].at \in Times \cup {0}
    /\ \A a \in Accounts : \A k \in Counters : stats[a].count[k] \in 0..Cardinality(Messages)
    /\ backfill.next \in 1..(Cardinality(Messages) + 1)

(* Between transactions the counters of an account in use are current and  *)
(* equal to a recount, however they were carried along, so that nothing    *)
(* that relies on them is refused for good ("mailbox statistics must be    *)
(* rebuilt", stats.rs:61).                                                 *)
CountsAreExact ==
    \A a \in Accounts : accounts[a] = "active" =>
        ~stats[a].dirty /\ stats[a].count = Recount(mail, a)

(* The total above a listing is the number of its rows, in every folder of *)
(* every account and of all of them.                                       *)
TotalsMatchRows ==
    \A k \in Counters :
        LET active == {a \in Accounts : accounts[a] = "active"}
            Total[S \in SUBSET Accounts] ==
                IF S = {} THEN 0
                ELSE LET a == CHOOSE b \in S : TRUE IN stats[a].count[k] + Total[S \ {a}]
        IN  /\ \A a \in active :
                  stats[a].count[k] = Cardinality(Shown(mail, accounts, [account |-> a, folder |-> k]))
            /\ Total[active] = Cardinality(Shown(mail, accounts, [account |-> <<>>, folder |-> k]))

(* A search document says what its message says, and no message that the   *)
(* backfill has passed is without one.                                     *)
IndexIsCurrent ==
    \A m \in Messages :
        /\ docs[m] # NoDoc =>
              mail[m].here /\ docs[m] = [text |-> mail[m].text, body |-> mail[m].body]
        /\ mail[m].here /\ (backfill.complete \/ m < backfill.next) => docs[m] # NoDoc

(* Pages read one after the other while others write: a message that       *)
(* matched all along and kept its place is shown, and only once.           *)
WalkIsWhole ==
    /\ walk.twice = {}
    /\ walk.scope # <<>> /\ ~walk.open => walk.still \subseteq walk.seen

(* An undo restores a message that is here, to folders that are not Trash. *)
UndoIsOfAMessage ==
    undo.msg # 0 => mail[undo.msg].here /\ undo.roles # {} /\ "trash" \notin undo.roles
=============================================================================
