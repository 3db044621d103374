------------------------------ MODULE MailboxView ------------------------------
(***************************************************************************)
(* The read side of the user interface: the session that issues requests   *)
(* and accepts replies (mail/src/controller/session.rs) and the controller *)
(* that keeps the list on screen, the reader and the single mutation       *)
(* (mail/src/controller.rs).  All of it is one thread: an action is one    *)
(* callback run to its end.  The core behind it (see CoreRuntime) keeps    *)
(* the latest request of a kind and the latest reply of a kind; the cache  *)
(* changes while requests are under way.                                   *)
(*                                                                         *)
(* A message is a number, the newest the greatest.  A scope is an account, *)
(* a folder and a search; the two scopes here share no message.  Stamps    *)
(* are told apart as long as something refers to them.  First and Refresh  *)
(* ask for page one, so page numbers are left out; a generation changes    *)
(* with the scope, and a request of an older one is not the latest.        *)
(***************************************************************************)
EXTENDS Integers, SequencesExt

CONSTANTS
    Inbox,      \* messages of the inbox of an account
    Home,       \* messages of the scope that is always there
    Late,       \* those that others may add
    PageSize,   \* PAGE_SIZE
    Rough,      \* subset of BadTimes: what may happen at a bad time
    MaxChanges, \* bound on changes of the cache by others
    MaxFaults,  \* bound on requests refused or failed
    MaxMoves,   \* bound on what the user does besides reading
    MaxEvents   \* bound on events of synchronization and delivery

None == 0

(* A reload while a request is under way; a directory of accounts that     *)
(* cannot be read; a refresh instead of a page that waits for the          *)
(* accounts, or of the first page that must follow a write.                *)
BadTimes == {"reload", "blind", "drop"}

ASSUME ViewAssumption ==
    /\ Inbox \cup Home \subseteq Nat \ {None} /\ Inbox \cap Home = {}
    /\ Late \subseteq Inbox \cup Home
    /\ PageSize \in Nat \ {0} /\ Rough \subseteq BadTimes
    /\ {MaxChanges, MaxFaults, MaxMoves, MaxEvents} \subseteq Nat

VARIABLES
    c,       \* the session, the controller and its slots to and from the core
    cache,   \* messages in SQLite
    fetched, \* those whose body is there
    trashed, \* the message an undo would restore
    account, \* whether the account of the inbox exists
    removed, \* history: what the user removed, once that was confirmed
    changes, faults, moves, events

db == <<cache, fetched, trashed, account>>
bounds == <<changes, faults, moves, events>>
vars == <<c, db, removed, bounds>>

Messages(scope) == IF scope = "inbox" THEN Inbox ELSE Home

NoQuery == [id |-> None, intent |-> "none", refresh |-> None]
NoPage == [id |-> None, intent |-> "none", refresh |-> None, ids |-> <<>>, next |-> None]
NoDetail == [id |-> None, msg |-> None]
NoMutation == [id |-> None, kind |-> "none", msg |-> None, current |-> TRUE]
NoAsk == [id |-> None, scope |-> "home", after |-> None]
NoReply == [id |-> None, end |-> "none"]

-----------------------------------------------------------------------------
(* Stamps and submissions.  A request that the core has no room for is     *)
(* taken back at once.                                                     *)

Fresh(used) == Min(1..6 \ used)

MailboxStamp(s) == Fresh({s.latest, s.mailbox.id, s.parked.id, s.askMailbox.id, s.gotMailbox.id})

MutationStamp(s) == Fresh({s.mutation.id, s.refresh, s.mailbox.refresh, s.parked.refresh,
                           s.askMutation.id, s.gotMutation.id})

Issue_Unmarked(s, intent) ==
    LET id == MailboxStamp(s) IN
    [s EXCEPT !.mailbox = [id |-> id, intent |-> intent, refresh |-> None],
              !.latest = id,
              !.askMailbox = [id |-> id, scope |-> s.scope,
                              after |-> IF intent = "append" THEN s.next ELSE None]]

Issue(s, intent) ==
    LET id == MailboxStamp(s) IN
    [s EXCEPT !.mailbox = [id |-> id, intent |-> intent,
                           refresh |-> IF intent = "first" THEN s.refresh ELSE None],
              !.latest = id,
              !.askMailbox = [id |-> id, scope |-> s.scope,
                              after |-> IF intent = "append" THEN s.next ELSE None]]

FailMailbox_KeepsLoading(s) == [s EXCEPT !.hasMore = FALSE, !.more = FALSE, !.error = TRUE]

FailMailbox(s) ==
    [s EXCEPT !.loading = FALSE, !.hasMore = FALSE, !.more = FALSE, !.error = TRUE]

FailNavigation_KeepsMore(s) == IF s.refresh # None THEN FailMailbox(s) ELSE s

FailNavigation(s) == IF s.refresh # None THEN FailMailbox(s) ELSE [s EXCEPT !.more = FALSE]

FailRequest(s, intent) ==
    IF intent # "first" \/ s.more THEN FailNavigation(s) ELSE FailMailbox(s)

ClearReader_KeepsDetail(s) ==
    [s EXCEPT !.selected = None, !.content = None,
              !.reader = None, !.shown = None, !.open = FALSE]

ClearReader(s) ==
    [s EXCEPT !.selected = None, !.detail = NoDetail, !.content = None,
              !.reader = None, !.shown = None, !.open = FALSE]

(* submit_mailbox_navigation: the list stays while the request is on its   *)
(* way, and another request that is pending wins.                          *)
Navigate(s, intent, busy) ==
    IF s.mailbox # NoQuery \/ (intent = "append" /\ s.next = None) THEN s
    ELSE LET t == [s EXCEPT !.more = (intent = "append"), !.error = FALSE] IN
         IF busy THEN FailNavigation([t EXCEPT !.latest = None]) ELSE Issue(t, intent)

(* reload_mailbox: the list goes first; a pending request fails it.        *)
Reload(s, busy) ==
    LET t == [ClearReader(s) EXCEPT !.rows = <<>>, !.parked = NoPage, !.loading = TRUE,
                                    !.hasMore = FALSE, !.more = FALSE, !.error = FALSE]
    IN  IF t.mailbox # NoQuery THEN FailMailbox(t)
        ELSE IF busy THEN FailMailbox([t EXCEPT !.latest = None]) ELSE Issue(t, "first")

RefreshInPlace(s, busy) == Navigate([s EXCEPT !.parked = NoPage], "refresh", busy)

(* A scope keeps nothing of the one before, except the parked page that    *)
(* the reload after it drops.                                              *)
Invalidate(s) ==
    [s EXCEPT !.visible = <<>>, !.selected = None, !.tail = None, !.next = None,
              !.mailbox = NoQuery, !.latest = None, !.detail = NoDetail]

SetScope_KeepsCursor(s, scope) ==
    [s EXCEPT !.scope = scope, !.visible = <<>>, !.selected = None, !.mutation.current = FALSE]

SetScope(s, scope) ==
    [Invalidate(s) EXCEPT !.scope = scope, !.mutation.current = FALSE]

RemoteHistory(s) == s.scope = "inbox"

ResetHistory(s) == [s EXCEPT !.history = FALSE, !.historyMore = RemoteHistory(s), !.more = FALSE]

FailAccounts(s) == FailMailbox(ResetHistory([s EXCEPT !.catalog = FALSE, !.parked = NoPage]))

Unread(bad) == bad /\ "blind" \in Rough

IssueAccounts(s, busy) ==
    LET id == Fresh({s.accounts, s.askAccounts, s.gotAccounts.id}) IN
    IF Unread(busy) THEN FailAccounts([s EXCEPT !.accounts = None])
    ELSE [s EXCEPT !.accounts = id, !.askAccounts = id]

(* select_message of the session                                           *)
OpenDetail(s, m, busy) ==
    LET id == Fresh({s.detail.id, s.askDetail.id, s.gotDetail.id}) IN
    IF busy THEN [s EXCEPT !.selected = m, !.detail = NoDetail]
    ELSE [s EXCEPT !.selected = m, !.detail = [id |-> id, msg |-> m],
                   !.askDetail = [id |-> id, msg |-> m]]

Select_KeepsContent(s, m, busy) ==
    LET t == [s EXCEPT !.content = None] IN
    IF m \notin ToSet(s.visible) THEN [t EXCEPT !.open = FALSE]
    ELSE OpenDetail([t EXCEPT !.reader = m], m, busy)

Select(s, m, busy) ==
    LET t == [s EXCEPT !.content = None] IN
    IF m \notin ToSet(s.visible) THEN [t EXCEPT !.open = FALSE]
    ELSE OpenDetail([t EXCEPT !.reader = m, !.shown = None], m, busy)

TailNavigation(s) == IF s.next = None THEN [s EXCEPT !.next = s.tail] ELSE s

-----------------------------------------------------------------------------
(* Committing a page                                                       *)

Rest(seq, n) == SubSeq(seq, n + 1, Len(seq))

(* refresh_alignment: the first place where the rest of the new page and   *)
(* the rest of the list agree as far as both go.                           *)
Agrees(new, old, i, j) ==
    LET n == Min({Len(new) - i, Len(old) - j})
    IN  n > 0 /\ SubSeq(new, i + 1, i + n) = SubSeq(old, j + 1, j + n)

Alignments(new, old) ==
    {<<i, j>> \in (0..Len(new)) \X (0..Len(old)) : Agrees(new, old, i, j)}

Alignment(new, old) ==
    CHOOSE a \in Alignments(new, old) : \A b \in Alignments(new, old) :
        a[1] < b[1] \/ (a[1] = b[1] /\ a[2] <= b[2])

Takes_KeepsTail(s, p) ==
    [s EXCEPT !.visible = p.ids, !.next = p.next]

Takes(s, p) ==
    [s EXCEPT !.visible = p.ids, !.next = p.next,
              !.tail = IF p.ids = <<>> THEN None ELSE Last(p.ids)]

Effect(s, p) ==
    IF p.intent = "append" THEN "append"
    ELSE IF p.intent = "first" THEN "replace"
    ELSE IF IsStrictPrefix(s.visible, p.ids) THEN "extend"
    ELSE IF IsPrefix(p.ids, s.visible) THEN "preserve"
    ELSE IF Alignments(p.ids, s.visible) # {} THEN "reconcile"
    ELSE IF Len(s.visible) > PageSize THEN "preserve"
    ELSE "replace"

Replaces(s, p) == [ClearReader(Takes(s, p)) EXCEPT !.rows = p.ids]

Reconciles_OffByOne(s, p) ==
    LET a == Alignment(p.ids, s.visible)
        splice(seq) == SubSeq(p.ids, 1, a[1]) \o Rest(seq, Min({a[2] + 1, Len(seq)}))
        kept == s.selected \in ToSet(splice(s.visible))
    IN  [s EXCEPT !.visible = splice(s.visible), !.rows = splice(s.rows),
                  !.selected = IF kept THEN s.selected ELSE None,
                  !.detail = IF kept THEN s.detail ELSE NoDetail]

Reconciles_KeepsRows(s, p) ==
    LET a == Alignment(p.ids, s.visible)
        splice(seq) == SubSeq(p.ids, 1, a[1]) \o Rest(seq, Min({a[2], Len(seq)}))
        kept == s.selected \in ToSet(splice(s.visible))
    IN  [s EXCEPT !.visible = splice(s.visible), !.rows = p.ids,
                  !.selected = IF kept THEN s.selected ELSE None,
                  !.detail = IF kept THEN s.detail ELSE NoDetail]

Reconciles(s, p) ==
    LET a == Alignment(p.ids, s.visible)
        splice(seq) == SubSeq(p.ids, 1, a[1]) \o Rest(seq, Min({a[2], Len(seq)}))
        kept == s.selected \in ToSet(splice(s.visible))
    IN  [s EXCEPT !.visible = splice(s.visible), !.rows = splice(s.rows),
                  !.selected = IF kept THEN s.selected ELSE None,
                  !.detail = IF kept THEN s.detail ELSE NoDetail]

Commit(s, p) ==
    LET e == Effect(s, p) IN
    CASE e = "append" -> [Takes(s, p) EXCEPT !.visible = s.visible \o p.ids,
                                             !.rows = s.rows \o p.ids]
      [] e = "replace" -> Replaces(s, p)
      [] e = "extend" -> [Takes(s, p) EXCEPT !.rows = s.rows \o Rest(p.ids, Len(s.visible))]
      [] e = "reconcile" -> Reconciles(s, p)
      [] e = "preserve" -> IF IsPrefix(s.visible, p.ids) THEN Takes(s, p) ELSE s

(* The assertion after a commit; the reader is opened again.               *)
Settles(s, p, t, busy) ==
    LET e == Effect(s, p)
        short == e \notin {"preserve", "reconcile"} \/ Len(s.rows) <= PageSize
        u == [t EXCEPT !.latest = None, !.loading = FALSE, !.more = FALSE, !.error = FALSE,
                       !.hasMore = t.next # None \/ (RemoteHistory(t) /\ t.historyMore),
                       !.refresh = IF p.refresh # None /\ p.refresh = s.refresh
                                   THEN None ELSE s.refresh,
                       !.asserted = s.asserted /\ (short => p.next = t.next)]
    IN  IF e \in {"replace", "preserve"} /\ s.open /\ s.reader \in ToSet(u.rows)
        THEN Select([u EXCEPT !.open = TRUE], s.reader, busy) ELSE u

(* apply_mailbox: an empty further page means that the list has changed; a *)
(* page that is not the latest is dropped.                                 *)
Apply(s, p, busy) ==
    IF p.intent = "append" /\ p.ids = <<>> THEN Navigate(s, "first", busy)
    ELSE IF s.mailbox # NoQuery THEN s
    ELSE IF s.latest # p.id THEN FailRequest(s, p.intent)
    ELSE IF p.intent = "append" /\ ToSet(p.ids) \cap ToSet(s.visible) # {}
         THEN FailRequest([s EXCEPT !.latest = None], p.intent)
    ELSE Settles(s, p, Commit(s, p), busy)

-----------------------------------------------------------------------------
(* The cache and the core                                                  *)

List(scope) == SetToSortSeq(cache \cap Messages(scope), >)

Page(scope, after) ==
    LET below == SelectSeq(List(scope), LAMBDA m : after = None \/ m < after)
        ids == SubSeq(below, 1, Min({PageSize, Len(below)}))
    IN  [ids |-> ids, next |-> IF Len(below) > PageSize THEN Last(ids) ELSE None]

MayFail == IF faults < MaxFaults THEN BOOLEAN ELSE {FALSE}

Counts(bad) == faults' = faults + IF bad THEN 1 ELSE 0

(* A reply, an error of SQLite, or a refusal by its queue                  *)
AnswerMailbox ==
    /\ c.askMailbox # NoAsk
    /\ \E bad \in MayFail, end \in {"failed", "rejected"} :
           /\ Counts(bad)
           /\ c' = [c EXCEPT !.askMailbox = NoAsk,
                             !.gotMailbox = [id |-> c.askMailbox.id,
                                             end |-> IF bad THEN end ELSE "page"]
                                            @@ Page(c.askMailbox.scope, c.askMailbox.after)]
    /\ UNCHANGED <<db, removed, changes, moves, events>>

AnswerAccounts ==
    /\ c.askAccounts # None
    /\ \E bad \in MayFail :
           /\ Counts(bad)
           /\ c' = [c EXCEPT !.askAccounts = None,
                             !.gotAccounts = [id |-> c.askAccounts, has |-> account,
                                              end |-> IF Unread(bad) THEN "failed" ELSE "loaded"]]
    /\ UNCHANGED <<db, removed, changes, moves, events>>

AnswerDetail ==
    /\ c.askDetail # NoDetail
    /\ \E bad \in MayFail :
           /\ Counts(bad)
           /\ LET m == c.askDetail.msg IN
              c' = [c EXCEPT !.askDetail = NoDetail,
                             !.gotDetail = [id |-> c.askDetail.id, msg |-> m,
                                            body |-> m \in fetched,
                                            end |-> IF bad THEN "failed"
                                                    ELSE IF m \in cache THEN "found" ELSE "gone"]]
    /\ UNCHANGED <<db, removed, changes, moves, events>>

(* One local write: flags, removal (archive, permanent deletion), trash    *)
(* with an undo that supersedes the one before, undo.                      *)
Mutate ==
    /\ c.askMutation # NoMutation
    /\ LET k == c.askMutation.kind
           m == c.askMutation.msg
           there == IF k = "undo" THEN trashed = m ELSE m \in cache
       IN \E bad \in MayFail :
           /\ Counts(bad)
           /\ cache' = IF bad \/ ~there \/ k = "flag" THEN cache
                       ELSE IF k = "undo" THEN cache \cup {m} ELSE cache \ {m}
           /\ trashed' = IF bad \/ ~there \/ k = "flag" THEN trashed
                         ELSE IF k = "trash" THEN m
                         ELSE IF m = trashed THEN None ELSE trashed
           /\ c' = [c EXCEPT !.askMutation = NoMutation,
                             !.gotMutation = [id |-> c.askMutation.id,
                                              end |-> IF bad THEN "rejected"
                                                      ELSE IF there THEN "applied" ELSE "gone"]]
    /\ UNCHANGED <<fetched, account, removed, changes, moves, events>>

(* Other clients and synchronization; an undo expires.                     *)
CacheChanges ==
    /\ changes < MaxChanges /\ changes' = changes + 1
    /\ \/ \E m \in Late \ (cache \cup removed \cup {trashed, c.mutation.msg}) :
              /\ (m \in Inbox => account) /\ cache' = cache \cup {m}
              /\ UNCHANGED <<trashed, account>>
       \/ \E m \in cache : cache' = cache \ {m} /\ UNCHANGED <<trashed, account>>
       \/ trashed # None /\ trashed' = None /\ UNCHANGED <<cache, account>>
       \/ account /\ account' = FALSE /\ cache' = cache \ Inbox /\ UNCHANGED trashed
    /\ UNCHANGED <<c, fetched, removed, faults, moves, events>>

-----------------------------------------------------------------------------
(* Events of the core                                                      *)

Does(f(_)) ==
    \E busy \in MayFail : Counts(busy) /\ c' = f(busy)

HandleMailbox ==
    /\ c.gotMailbox.id # None
    /\ LET r == c.gotMailbox
           s == [c EXCEPT !.gotMailbox = NoReply]
           q == s.mailbox
           t == [s EXCEPT !.mailbox = NoQuery]
           p == [id |-> q.id, intent |-> q.intent, refresh |-> q.refresh,
                 ids |-> r.ids, next |-> r.next]
           handled(busy) ==
               IF r.id # q.id THEN s
               ELSE IF r.end = "rejected" THEN FailRequest([t EXCEPT !.latest = None], q.intent)
               ELSE IF r.end = "failed" THEN FailRequest(t, q.intent)
               ELSE IF ~t.catalog \/ t.accounts # None THEN [t EXCEPT !.parked = p]
               ELSE Apply(t, p, busy)
       IN Does(handled)
    /\ UNCHANGED <<db, removed, changes, moves, events>>

(* A page that waited for the accounts is applied after them, unless the   *)
(* account of the scope is gone, or one just added is selected.            *)
HandleAccounts_KeepsParked ==
    /\ c.gotAccounts.id # None
    /\ LET r == c.gotAccounts
           s == [c EXCEPT !.gotAccounts = NoReply]
           t == [s EXCEPT !.accounts = None, !.catalog = TRUE, !.wanted = FALSE, !.parked = NoPage]
           scope == IF s.wanted /\ r.has THEN "inbox" ELSE IF r.has THEN s.scope ELSE "home"
           handled(busy) ==
               IF r.id # s.accounts THEN s
               ELSE IF r.end = "failed" THEN FailAccounts([s EXCEPT !.accounts = None])
               ELSE IF s.parked # NoPage THEN Apply(SetScope(t, scope), s.parked, busy)
               ELSE IF scope # s.scope THEN Reload(ResetHistory(SetScope(t, scope)), busy)
               ELSE t
       IN Does(handled)
    /\ UNCHANGED <<db, removed, changes, moves, events>>

HandleAccounts ==
    /\ c.gotAccounts.id # None
    /\ LET r == c.gotAccounts
           s == [c EXCEPT !.gotAccounts = NoReply]
           t == [s EXCEPT !.accounts = None, !.catalog = TRUE, !.wanted = FALSE, !.parked = NoPage]
           scope == IF s.wanted /\ r.has THEN "inbox" ELSE IF r.has THEN s.scope ELSE "home"
           handled(busy) ==
               IF r.id # s.accounts THEN s
               ELSE IF r.end = "failed" THEN FailAccounts([s EXCEPT !.accounts = None])
               ELSE IF scope # s.scope THEN Reload(ResetHistory(SetScope(t, scope)), busy)
               ELSE IF s.parked # NoPage THEN Apply(t, s.parked, busy) ELSE t
       IN Does(handled)
    /\ UNCHANGED <<db, removed, changes, moves, events>>

(* Points at which a reload finds no request under way                     *)
Calm == "reload" \in Rough \/ c.mailbox = NoQuery

(* A message without body is fetched at once, before any history.          *)
FetchContent(s, m, busy) ==
    LET t == IF s.history THEN [s EXCEPT !.history = FALSE, !.more = FALSE] ELSE s
    IN  IF busy \/ t.content # None THEN t ELSE [t EXCEPT !.content = m]

Obsolete(s, r) == r.id # s.detail.id \/ s.selected # s.detail.msg
                  \/ s.detail.msg \notin ToSet(s.visible)

HandleDetail ==
    /\ c.gotDetail.id # None /\ (c.gotDetail.end = "gone" => Calm)
    /\ LET r == c.gotDetail
           s == [c EXCEPT !.gotDetail = NoReply]
           t == [s EXCEPT !.detail = NoDetail]
           handled(busy) ==
               IF Obsolete(s, r) THEN s
               ELSE IF r.end = "failed" THEN t
               ELSE IF r.end = "gone" THEN Reload(t, busy)
               ELSE IF r.body THEN [t EXCEPT !.shown = r.msg, !.content = None]
               ELSE FetchContent([t EXCEPT !.shown = r.msg], r.msg, busy)
       IN Does(handled)
    /\ UNCHANGED <<db, removed, changes, moves, events>>

ClearUndo(s, m) == IF s.undo = m THEN [s EXCEPT !.undo = None] ELSE s

(* A write makes everything read before it obsolete, and further writes    *)
(* wait for a first page read after it.                                    *)
RequireRefresh_KeepsQuery(s, id) == [s EXCEPT !.accounts = None, !.refresh = id]

RequireRefresh(s, id) == [Invalidate(s) EXCEPT !.accounts = None, !.refresh = id]

Applied(s, q) ==
    LET t == CASE q.kind = "trash" -> [s EXCEPT !.undo = q.msg]
               [] q.kind \in {"undo", "remove"} -> ClearUndo(s, q.msg)
               [] OTHER -> s
        u == RequireRefresh(t, q.id)
    IN  [u EXCEPT !.parked = NoPage,
                  !.open = u.open /\ ~(q.kind \in {"trash", "remove"} /\ q.current)]

HandleMutation ==
    /\ c.gotMutation.id # None /\ (c.gotMutation.end = "gone" => Calm)
    /\ LET r == c.gotMutation
           q == c.mutation
           s == [c EXCEPT !.gotMutation = NoReply, !.mutation = NoMutation]
           handled(busy) ==
               CASE r.end = "rejected" -> s
                 [] r.end = "gone" -> Reload(ClearUndo(s, q.msg), busy)
                 [] r.end = "applied" -> Navigate(Applied(s, q), "first", busy)
       IN /\ Does(handled)
          /\ removed' = IF r.end # "applied" THEN removed
                        ELSE IF q.kind \in {"trash", "remove"} THEN removed \cup {q.msg}
                        ELSE removed \ {q.msg}
    /\ UNCHANGED <<db, changes, moves, events>>

-----------------------------------------------------------------------------
(* Synchronization, delivery, tasks and timers                             *)

Happens == events < MaxEvents /\ events' = events + 1

(* A page came in, in either direction, or previews did.                   *)
Synced ==
    /\ Happens
    /\ \E historical, more \in BOOLEAN :
       LET marks(s) ==
               IF s.scope # "inbox" THEN s
               ELSE LET t == [s EXCEPT !.historyMore = more] IN
                    IF historical /\ TailNavigation(t).next # None
                    THEN [TailNavigation(t) EXCEPT !.hasMore = TRUE] ELSE t
           handled(busy) ==
               LET t == marks(IssueAccounts(c, busy)) IN
               [t EXCEPT !.timer = t.timer \/ (~historical /\ ~t.loading /\ ~t.more)]
       IN  Does(handled)
    /\ UNCHANGED <<db, removed, changes, moves>>

PreviewsUpdated ==
    /\ Happens /\ ~c.loading /\ ~c.more
    /\ c' = [c EXCEPT !.timer = TRUE]
    /\ UNCHANGED <<db, removed, changes, faults, moves>>

(* Points at which a refresh takes the place of no other request           *)
DropsNothing == \/ "drop" \in Rough
                \/ c.parked = NoPage /\ (c.refresh = None \/ c.mailbox # NoQuery)

TimerFires ==
    /\ c.timer /\ ~c.loading /\ ~c.more /\ DropsNothing
    /\ Does(LAMBDA busy : RefreshInPlace([c EXCEPT !.timer = FALSE], busy))
    /\ UNCHANGED <<db, removed, changes, moves, events>>

(* A message was delivered: its row moves to another folder.               *)
Delivered ==
    /\ Happens /\ DropsNothing
    /\ Does(LAMBDA busy : RefreshInPlace(IssueAccounts(c, busy), busy))
    /\ UNCHANGED <<db, removed, changes, moves>>

(* The composer has queued a message.                                      *)
Queued ==
    /\ Happens /\ Calm
    /\ Does(LAMBDA busy : Reload(c, busy))
    /\ UNCHANGED <<db, removed, changes, moves>>

AccountAdded ==
    /\ Happens /\ ~account /\ account' = TRUE
    /\ Does(LAMBDA busy : IssueAccounts([c EXCEPT !.wanted = TRUE], busy))
    /\ UNCHANGED <<cache, fetched, trashed, removed, changes, moves>>

(* The end of a page of history that the user asked for: older mail goes   *)
(* below the list, newer mail is merged in place.                          *)
FinishHistory(s) == [s EXCEPT !.more = FALSE, !.hasMore = s.next # None \/ s.historyMore]

HistoryEnds ==
    /\ c.history /\ DropsNothing
    /\ \E how \in {"older", "newer", "nothing", "failed"}, more \in BOOLEAN :
       LET s == [c EXCEPT !.history = FALSE]
           t(busy) == IssueAccounts([s EXCEPT !.historyMore = more], busy)
           handled(busy) ==
               CASE how = "failed" -> [s EXCEPT !.more = FALSE]
                 [] how = "older" ->
                      LET u == TailNavigation(t(busy)) IN
                      IF u.next # None THEN Navigate(u, "append", busy) ELSE FinishHistory(u)
                 [] how = "newer" -> RefreshInPlace(t(busy), busy)
                 [] how = "nothing" -> FinishHistory(t(busy))
       IN  Does(handled)
    /\ UNCHANGED <<db, removed, changes, moves, events>>

(* The body has come: the reader asks the cache again.                     *)
ContentEnds ==
    /\ c.content # None
    /\ LET m == c.content
           s == [c EXCEPT !.content = None]
           again == s.reader = m /\ m \in ToSet(s.visible)
       IN \/ fetched' = fetched \cup {m}
             /\ Does(LAMBDA busy : IF again THEN OpenDetail(s, m, busy) ELSE s)
          \/ c' = s /\ UNCHANGED <<fetched, faults>>
    /\ UNCHANGED <<cache, trashed, account, removed, changes, moves, events>>

-----------------------------------------------------------------------------
(* The user                                                                *)

Moves == moves < MaxMoves /\ moves' = moves + 1

(* change_folder, change_search, change_account                            *)
ChangeScope ==
    /\ Moves
    /\ \E scope \in {"inbox", "home"} \ {c.scope} :
           Does(LAMBDA busy : Reload(ResetHistory([SetScope(c, scope) EXCEPT !.open = FALSE]), busy))
    /\ UNCHANGED <<db, removed, changes, events>>

(* The list is there, without an indicator or an error instead of it.      *)
Listed == c.catalog /\ ~c.loading /\ ~c.error

LoadMore ==
    /\ c.hasMore /\ ~c.more /\ Listed /\ c.rows # <<>>
    /\ Does(LAMBDA busy :
           IF c.next # None THEN Navigate(c, "append", busy)
           ELSE IF ~RemoteHistory(c) \/ ~c.historyMore \/ c.history THEN c
           ELSE IF busy THEN c ELSE [c EXCEPT !.history = TRUE, !.more = TRUE])
    /\ UNCHANGED <<db, removed, changes, moves, events>>

SelectMessage(m) ==
    /\ Moves /\ Listed /\ m \in ToSet(c.rows)
    /\ Does(LAMBDA busy : Select([c EXCEPT !.open = TRUE], m, busy))
    /\ UNCHANGED <<db, removed, changes, events>>

Submits(kind, m) ==
    LET id == MutationStamp(c)
        q == [id |-> id, kind |-> kind, msg |-> m, current |-> TRUE]
    IN  Does(LAMBDA busy : IF busy THEN c
                           ELSE [c EXCEPT !.mutation = q, !.askMutation = q])

Act(kind, m) ==
    /\ Moves /\ Listed /\ m \in ToSet(c.rows)
    /\ c.mutation = NoMutation /\ c.refresh = None /\ m \in ToSet(c.visible)
    /\ Submits(kind, m)
    /\ UNCHANGED <<db, removed, changes, events>>

(* An undo need not wait for the refresh.                                  *)
Undo ==
    /\ Moves /\ c.undo # None /\ c.mutation = NoMutation
    /\ IF trashed # c.undo THEN c' = [c EXCEPT !.undo = None] /\ UNCHANGED faults
       ELSE Submits("undo", c.undo)
    /\ UNCHANGED <<db, removed, changes, events>>

RetryMailbox ==
    /\ c.error
    /\ Does(LAMBDA busy :
           IF c.refresh # None THEN Navigate([c EXCEPT !.parked = NoPage], "first", busy)
           ELSE IssueAccounts(Reload(c, busy), busy))
    /\ UNCHANGED <<db, removed, changes, moves, events>>

-----------------------------------------------------------------------------

Empty ==
    [scope |-> "home", visible |-> <<>>, selected |-> None, tail |-> None, next |-> None,
     accounts |-> None, mailbox |-> NoQuery, latest |-> None, detail |-> NoDetail,
     mutation |-> NoMutation, refresh |-> None, undo |-> None,
     rows |-> <<>>, parked |-> NoPage, catalog |-> FALSE, wanted |-> FALSE, timer |-> FALSE,
     loading |-> TRUE, more |-> FALSE, hasMore |-> FALSE, error |-> FALSE,
     reader |-> None, shown |-> None, open |-> FALSE, content |-> None,
     history |-> FALSE, historyMore |-> FALSE, asserted |-> TRUE,
     askMailbox |-> NoAsk, gotMailbox |-> NoReply, askAccounts |-> None, gotAccounts |-> NoReply,
     askDetail |-> NoDetail, gotDetail |-> NoReply,
     askMutation |-> NoMutation, gotMutation |-> NoReply]

Init ==
    /\ c = IssueAccounts(Reload(Empty, FALSE), FALSE)
    /\ cache = (Inbox \cup Home) \ Late /\ fetched = {}
    /\ trashed = None /\ account = TRUE /\ removed = {}
    /\ changes = 0 /\ faults = 0 /\ moves = 0 /\ events = 0

Answers == AnswerMailbox \/ AnswerAccounts \/ AnswerDetail \/ Mutate

Handles == HandleMailbox \/ HandleAccounts \/ HandleDetail \/ HandleMutation

World == CacheChanges \/ Synced \/ PreviewsUpdated \/ Delivered \/ Queued \/ AccountAdded

User ==
    \/ ChangeScope \/ LoadMore \/ Undo \/ RetryMailbox
    \/ \E m \in Inbox \cup Home :
           SelectMessage(m) \/ \E kind \in {"flag", "remove", "trash"} : Act(kind, m)

Next == Answers \/ Handles \/ TimerFires \/ HistoryEnds \/ ContentEnds \/ World \/ User

Spec == Init /\ [][Next]_vars

(* The core answers, the event loop handles, tasks end.                    *)
Fairness ==
    /\ WF_vars(AnswerMailbox) /\ WF_vars(AnswerAccounts) /\ WF_vars(AnswerDetail)
    /\ WF_vars(Mutate) /\ WF_vars(HandleMailbox) /\ WF_vars(HandleAccounts)
    /\ WF_vars(HandleDetail) /\ WF_vars(HandleMutation) /\ WF_vars(TimerFires)
    /\ WF_vars(HistoryEnds) /\ WF_vars(ContentEnds)

FairSpec == Spec /\ Fairness

-----------------------------------------------------------------------------
(* Properties                                                              *)

Stamps == 0..6
Ids == Inbox \cup Home \cup {None}

(* The shape of the state; a message asked for is the selected one, and a  *)
(* body is fetched for the message the reader is opened for.               *)
TypeOK ==
    /\ c.detail = NoDetail \/ c.detail.msg = c.selected
    /\ c.content \in {None, c.reader}
    /\ c.scope \in {"inbox", "home"} /\ {c.accounts, c.latest, c.refresh} \subseteq Stamps
    /\ {c.mailbox.intent, c.parked.intent} \subseteq {"none", "first", "append", "refresh"}
    /\ c.mutation.kind \in {"none", "flag", "remove", "trash", "undo"}
    /\ {c.selected, c.tail, c.next, c.undo, c.reader, c.shown, c.content} \subseteq Ids
    /\ cache \cup fetched \cup removed \subseteq Inbox \cup Home /\ trashed \in Ids
    /\ changes <= MaxChanges /\ faults <= MaxFaults /\ moves <= MaxMoves /\ events <= MaxEvents

(* What is on screen, and what waits to be, belongs to the account, folder *)
(* and search that are selected, however late a reply comes: replies and   *)
(* parked pages of another scope are dropped.                              *)
ScopeIsShown ==
    ToSet(c.rows) \cup ToSet(c.visible) \cup ToSet(c.parked.ids)
        \cup ({c.selected, c.reader, c.shown, c.detail.msg} \ {None}) \subseteq Messages(c.scope)

(* Pages are joined without a hole or a repetition: no message that was    *)
(* there all the time is missing above the last one of the list, and the   *)
(* list is in order.                                                       *)
NoGaps ==
    /\ \A i, j \in DOMAIN c.visible : i < j => c.visible[i] > c.visible[j]
    /\ c.visible # <<>> =>
           \A m \in (cache \cap Messages(c.scope)) \ (Late \cup {c.mutation.msg}) :
               m > Last(c.visible) => m \in ToSet(c.visible)

(* The place from which the next page is asked is the end of the list.     *)
CursorIsTail ==
    /\ c.tail = IF c.visible = <<>> THEN None ELSE Last(c.visible)
    /\ c.next \in {None, c.tail}

(* The list on screen is the list of the session, whenever no request, no  *)
(* waiting page and no refresh after a write explains a difference.        *)
RowsMatchSession ==
    (~c.error /\ ~c.loading /\ c.mailbox = NoQuery /\ c.parked = NoPage /\ c.refresh = None)
        => c.rows = c.visible

(* What the user removed does not come back from a page that was read      *)
(* before the write, nor from one that waited: a write empties the list    *)
(* of the session and fences what was read before it.                      *)
RemovedStaysOut == ToSet(c.visible) \cap (removed \ {c.mutation.msg}) = {}

(* The reader shows the content of the message it is opened for, never     *)
(* that of one selected before.                                            *)
ReaderMatches == c.shown \in {None, c.reader}

(* The list view is laid out by the same cursor as the session's: the      *)
(* assertion after a page has been applied.                                *)
CursorAsserted == c.asserted

(* After a write, either the first page is committed and actions are       *)
(* possible again, or the user sees an error with a button to try again.   *)
RefreshEnds == []<>(c.refresh = None \/ c.error)

(* Neither the list nor its further page is shown as loading for ever.     *)
LoadingEnds == []<>~c.loading
MoreEnds == []<>~c.more
===============================================================================
