----------------------------- MODULE ImapSessions -----------------------------
(* The IMAP connections of network/imap/fast.rs and the cache of selected   *)
(* sessions of network/imap.rs.  A session is pipelined: a command is sent   *)
(* behind the DONE of an IDLE whose completion nobody waited for, and a      *)
(* session that served one operation serves the next of the same account.    *)
(* Of a response only what decides how it is read is modelled; the server    *)
(* answers commands in order and may announce news between two answers.      *)
EXTENDS Naturals, Sequences, FiniteSets, SequencesExt

CONSTANTS
    Accounts,       \* (host, port, login) of the sessions
    Slots,          \* operations that can be under way at once
    Conns,          \* TLS connections that can exist at once
    PerAccount,     \* MAX_CACHED_INBOX_SESSIONS_PER_ACCOUNT
    Capacity,       \* MAX_CACHED_INBOX_SESSIONS
    MaxTag,         \* MAX_TAG
    Pools,          \* whether snapshots are long enough for pools and lanes
    Kinds,          \* the operations that are asked for
    MaxValidity,    \* bound: UIDVALIDITYs an inbox has in turn
    MaxOps,         \* bound: operations
    MaxFaults,      \* bound: refusals, lost connections, timeouts, aborts
    MaxNews         \* bound: messages announced, flags changed elsewhere

VARIABLES
    conns,      \* the sessions with the two ends of their connections
    cache,      \* CACHED_INBOX_SESSIONS, in the order of the vector
    recency,    \* the cached connections by cached_at, the oldest first
    futures,        \* the futures of the operations
    validity,   \* the server's UIDVALIDITY of each inbox
    budget,     \* what is left of MaxOps, MaxFaults and MaxNews
    verdicts    \* what operations ended with that they should not

vars == <<conns, cache, recency, futures, validity, budget, verdicts>>

Nobody == [account |-> <<>>, val |-> 0, tag |-> 1, pending |-> 0, in |-> <<>>, out |-> <<>>,
           idling |-> 0, up |-> FALSE, fault |-> FALSE]

Resting == [kind |-> "none", account |-> <<>>, expect |-> 0, uid |-> 0, pc |-> "over",
            conn |-> <<>>, want |-> {}, val |-> 0, got |-> FALSE, heard |-> FALSE,
            cancel |-> FALSE, reused |-> FALSE, light |-> FALSE, child |-> <<>>]

Init ==
    /\ conns = [c \in Conns |-> Nobody]
    /\ cache = <<>> /\ recency = <<>>
    /\ futures = [o \in Slots |-> Resting]
    /\ validity = [a \in Accounts |-> 1]
    /\ budget = [ops |-> MaxOps, faults |-> MaxFaults, news |-> MaxNews]
    /\ verdicts = {}

Free(c) == conns[c].account = <<>>

(* Which place is taken does not matter.                                   *)
NextConn == CHOOSE c \in Conns : Free(c)
NextSlot == CHOOSE o \in Slots : futures[o] = Resting
HasRoom == \E o \in Slots : futures[o] = Resting

Operation(kind, a, v, u) ==
    [Resting EXCEPT !.kind = kind, !.account = a, !.expect = v, !.uid = u]

Response(kind, tag, ok, uid, val) ==
    [kind |-> kind, tag |-> tag, ok |-> ok, uid |-> uid, val |-> val]

Tagged(tag, ok) == Response("tagged", tag, ok, 0, 0)

-----------------------------------------------------------------------------
(* Writing to a connection, and the cache                                  *)

(* A session with the commands sent under the next tags; DONE has no tag.  *)
Sent(s, commands) ==
    [s EXCEPT !.in = @ \o [i \in DOMAIN commands |->
                             [cmd |-> commands[i].cmd, uid |-> commands[i].uid, tag |-> s.tag + i - 1]],
              !.tag = @ + Len(commands)]

Finishing(s) == [s EXCEPT !.in = Append(@, [cmd |-> "done", uid |-> 0, tag |-> 0])]

Command(cmd, uid) == <<[cmd |-> cmd, uid |-> uid]>>

HasTags(s, n) == s.tag + n =< MaxTag

Without(i) == ReplaceAt(SubSeq(cache, 1, Len(cache) - 1), i, cache[Len(cache)])

(* Vec::swap_remove                                                        *)
SwapRemove(i) == IF i = Len(cache) THEN SubSeq(cache, 1, i - 1) ELSE Without(i)

Fits(a, v) == {i \in DOMAIN cache : cache[i].account = a /\ cache[i].val = v}

(* What take_cached_inbox_session and take_most_recent_... give: the first *)
(* or the last of the vector.                                              *)
Earliest(a, v) == CHOOSE i \in Fits(a, v) : \A j \in Fits(a, v) : i =< j
Newest(a, v) == CHOOSE i \in Fits(a, v) : \A j \in Fits(a, v) : j =< i

Took(i) ==
    /\ cache' = SwapRemove(i)
    /\ recency' = SelectSeq(recency, LAMBDA c : c # cache[i].conn)

Age(i) == CHOOSE n \in DOMAIN recency : recency[n] = cache[i].conn

OldestOf(is) == CHOOSE i \in is : \A j \in is : Age(i) =< Age(j)

Evicted_OffByOne(a, v) ==
    IF Cardinality(Fits(a, v)) > PerAccount THEN {OldestOf(Fits(a, v))}
    ELSE IF Len(cache) > Capacity THEN {OldestOf(DOMAIN cache)} ELSE {}

(* The session that is dropped for a new one, if any                       *)
Evicted(a, v) ==
    IF Cardinality(Fits(a, v)) >= PerAccount THEN {OldestOf(Fits(a, v))}
    ELSE IF Len(cache) >= Capacity THEN {OldestOf(DOMAIN cache)} ELSE {}

(* cache_inbox_session, the caller's other sessions in cs                  *)
Keep(c, a, v, cs) ==
    LET out == Evicted(a, v)
        gone == {cache[i].conn : i \in out}
        rest == IF out = {} THEN cache ELSE SwapRemove(CHOOSE i \in out : TRUE)
    IN  /\ cache' = Append(rest, [account |-> a, val |-> v, conn |-> c])
        /\ recency' = Append(SelectSeq(recency, LAMBDA d : d \notin gone), c)
        /\ conns' = [d \in Conns |-> IF d \in gone THEN Nobody
                                     ELSE IF d = c THEN [cs[c] EXCEPT !.fault = FALSE] ELSE cs[d]]

(* CACHED_INBOX_SESSION_TTL passed for the oldest.                         *)
Expire ==
    /\ recency # <<>>
    /\ \E i \in DOMAIN cache : cache[i].conn = Head(recency) /\ Took(i)
    /\ conns' = [conns EXCEPT ![Head(recency)] = Nobody]
    /\ UNCHANGED <<futures, validity, budget, verdicts>>

-----------------------------------------------------------------------------
(* How an operation ends, and what it does instead                         *)

(* recoverable_cached_session_failure: an operation that reused a session  *)
(* opens its own; the light fetch of a body first asks for the credential. *)
(* A sync that opens a pool waits for the rest of it, and so do its lanes. *)
AfterFailure(p, why) ==
    LET again == [p EXCEPT !.reused = FALSE, !.conn = <<>>, !.got = FALSE, !.val = 0, !.want = {}]
        retried == p.reused /\ why # "refused"
    IN  IF retried /\ p.kind = "body"
        THEN [again EXCEPT !.pc = IF p.light THEN "credential" ELSE "connect"]
        ELSE IF retried /\ p.pc = "probe" THEN [again EXCEPT !.pc = "connect"]
        ELSE CASE p.kind \in {"spare", "lane"} ->
                    [Operation(p.kind, p.account, 0, 0) EXCEPT !.pc = "failed"]
               [] p.kind = "sync" /\ p.child # <<>> ->
                    [again EXCEPT !.pc = IF p.pc = "meta" THEN "lost" ELSE "promote"]
               [] OTHER -> Resting

(* The session had answered everything as it should.                       *)
Blameless(p) ==
    p.reused /\ ~conns[p.conn].fault /\ conns[p.conn].up /\ HasTags(conns[p.conn], 1)

Fail(o, why) ==
    LET p == futures[o] IN
    /\ futures' = [futures EXCEPT ![o] = AfterFailure(p, why)]
    /\ conns' = IF p.conn = <<>> THEN conns ELSE [conns EXCEPT ![p.conn] = Nobody]
    /\ verdicts' = verdicts \cup
          (IF p.conn # <<>> /\ why = "broken" /\ Blameless(p) THEN {"blamed"} ELSE {})
    /\ UNCHANGED <<cache, recency, validity>>

(* Sends one command on the session of p, which may have no tag left.      *)
Asks(o, p, cs, cmd, pc) ==
    IF HasTags(cs[p.conn], 1)
    THEN /\ futures' = [futures EXCEPT ![o] = [p EXCEPT !.pc = pc, !.want = {cs[p.conn].tag}, !.got = FALSE]]
         /\ conns' = [cs EXCEPT ![p.conn] = Sent(@, Command(cmd, p.uid))]
    ELSE /\ futures' = [futures EXCEPT ![o] = AfterFailure([p EXCEPT !.pc = pc], "broken")]
         /\ conns' = [cs EXCEPT ![p.conn] = Nobody]

(* A cached session is moved out of the cache while it is used.            *)
Reuse(o, p, i, cmd, pc) ==
    /\ Took(i)
    /\ Asks(o, [p EXCEPT !.conn = cache[i].conn, !.reused = TRUE], conns, cmd, pc)

Waits(o, p) ==
    /\ futures' = [futures EXCEPT ![o] = p]
    /\ UNCHANGED <<conns, cache, recency>>

-----------------------------------------------------------------------------
(* Operations begin                                                        *)

Begin(o) ==
    /\ HasRoom /\ o = NextSlot /\ budget.ops > 0
    /\ budget' = [budget EXCEPT !.ops = @ - 1]
    /\ UNCHANGED <<validity, verdicts>>

(* fetch_cached_imap_message_content: without a credential                 *)
OpenMessage(o, a, v, u) ==
    LET p == [Operation("body", a, v, u) EXCEPT !.light = TRUE] IN
    /\ Begin(o)
    /\ IF Fits(a, v) # {} THEN Reuse(o, p, Newest(a, v), "fetch", "fetch")
       ELSE Waits(o, [p EXCEPT !.pc = "credential"])

(* fetch_imap_message_content, fetch_imap_message_previews: by now another *)
(* operation may have left a session.                                      *)
HasCredential(o) ==
    LET p == [futures[o] EXCEPT !.light = FALSE] IN
    /\ p.pc = "credential"
    /\ IF Fits(p.account, p.expect) # {}
       THEN Reuse(o, p, Newest(p.account, p.expect), "fetch", "fetch")
       ELSE Waits(o, [p EXCEPT !.pc = "connect"])
    /\ UNCHANGED <<validity, budget, verdicts>>

(* wait_for_cached_inbox_change: Unavailable without a session             *)
Watch(o, a, v) ==
    /\ Begin(o) /\ Fits(a, v) # {}
    /\ Reuse(o, Operation("watch", a, v, 0), Earliest(a, v), "idle", "handshake")

(* fetch_canonical_inbox_inner: a cached session is probed with STATUS.    *)
Sync(o, a, v) ==
    LET p == Operation("sync", a, v, 1) IN
    /\ Begin(o)
    /\ IF v # 0 /\ Fits(a, v) # {} THEN Reuse(o, p, Earliest(a, v), "status", "probe")
       ELSE Waits(o, [p EXCEPT !.pc = "connect"])

(* fetch_metadata_on_new_session: a lane of a large page                   *)
LaneBegins(o) ==
    LET p == futures[o] IN
    /\ p.pc = "lane"
    /\ IF Fits(p.account, p.expect) # {}
       THEN Reuse(o, p, Earliest(p.account, p.expect), "meta", "meta")
       ELSE Waits(o, [p EXCEPT !.pc = "connect"])
    /\ UNCHANGED <<validity, budget, verdicts>>

(* open_protocol_inbox_session: after the greeting the whole preamble is   *)
(* written at once. The first snapshot opens a pool beside it.             *)
Connect(o) ==
    LET c == NextConn
        p == [futures[o] EXCEPT !.pc = "opening", !.conn = c, !.want = {1, 2}]
        s == [Nobody EXCEPT !.account = p.account, !.up = TRUE]
    IN  /\ futures[o].pc = "connect" /\ \E d \in Conns : Free(d)
        /\ conns' = [conns EXCEPT ![c] = Sent(s, Command("login", 0) \o Command("examine", 0))]
        /\ \/ futures' = [futures EXCEPT ![o] = p]
           \/ /\ p.kind = "sync" /\ Pools /\ HasRoom
              /\ futures' = [futures EXCEPT ![o] = [p EXCEPT !.child = NextSlot],
                    ![NextSlot] = [Operation("spare", p.account, 0, 0) EXCEPT !.pc = "connect"]]
        /\ UNCHANGED <<cache, recency, validity, budget, verdicts>>

Fault == budget.faults > 0 /\ budget' = [budget EXCEPT !.faults = @ - 1]

(* Resolution, TCP, TLS or the greeting fails.                             *)
ConnectFails(o) == futures[o].pc = "connect" /\ Fault /\ Fail(o, "refused")

-----------------------------------------------------------------------------
(* The server and the network                                              *)

Answer(s, m, a) ==
    LET v == validity[a] IN
    CASE m.cmd = "examine" -> {<<Response("validity", m.tag, TRUE, 0, v)>>}
      [] m.cmd = "status" -> {<<Response("status", m.tag, TRUE, 0, v)>>}
      [] m.cmd = "fetch" -> {<<Response("body", m.tag, TRUE, u, v)>> : u \in {0, m.uid}}
      [] m.cmd = "meta" -> {<<Response("meta", m.tag, TRUE, m.uid, v)>>}
      [] OTHER -> {<<>>}

Serve(c) ==
    LET s == conns[c]
        m == Head(s.in)
        rest == [s EXCEPT !.in = Tail(@)]
        Says(q) == conns' = [conns EXCEPT ![c] = q]
    IN  /\ s.up /\ s.in # <<>>
        /\ \/ /\ m.cmd = "done" /\ s.idling # 0
              /\ Says([rest EXCEPT !.out = Append(@, Tagged(s.idling, TRUE)), !.idling = 0])
              /\ UNCHANGED budget
           \/ /\ m.cmd = "idle" /\ s.idling = 0
              /\ Says([rest EXCEPT !.out = Append(@, Response("continue", 0, TRUE, 0, 0)),
                                   !.idling = m.tag])
              /\ UNCHANGED budget
           \/ /\ m.cmd \notin {"done", "idle"} /\ s.idling = 0
              /\ \E data \in Answer(s, m, s.account) :
                    Says([rest EXCEPT !.out = @ \o data \o <<Tagged(m.tag, TRUE)>>,
                                      !.val = IF m.cmd = "examine" THEN validity[s.account] ELSE @])
              /\ UNCHANGED budget
           \/ /\ m.cmd # "done" <=> s.idling = 0
              /\ Fault
              /\ LET tag == IF m.cmd = "done" THEN s.idling ELSE m.tag IN
                    Says([rest EXCEPT !.out = Append(@, Tagged(tag, FALSE)), !.idling = 0,
                                      !.fault = TRUE])
        /\ UNCHANGED <<cache, recency, futures, validity, verdicts>>

(* Mail arrives, or another client changes flags.                          *)
Announce(c, kind) ==
    /\ conns[c].up /\ budget.news > 0
    /\ budget' = [budget EXCEPT !.news = @ - 1]
    /\ conns' = [conns EXCEPT ![c].out = Append(@, Response(kind, 0, TRUE, 0, 0))]
    /\ UNCHANGED <<cache, recency, futures, validity, verdicts>>

Disconnect(c) ==
    /\ conns[c].up /\ Fault
    /\ conns' = [conns EXCEPT ![c].up = FALSE]
    /\ UNCHANGED <<cache, recency, futures, validity, verdicts>>

(* The inbox is made anew, and its sessions end.                           *)
Renumber(a) ==
    /\ validity[a] < MaxValidity
    /\ validity' = [validity EXCEPT ![a] = @ + 1]
    /\ conns' = [c \in Conns |-> IF conns[c].account = a THEN [conns[c] EXCEPT !.up = FALSE]
                                 ELSE conns[c]]
    /\ UNCHANGED <<cache, recency, futures, budget, verdicts>>

-----------------------------------------------------------------------------
(* Reading                                                                 *)

News == {"exists", "flags"}

InIdle(p) == p.pc \in {"handshake", "idle", "finish"}

(* The data of a command, as its loop takes it                             *)
TakesData(p, r) ==
    \/ p.pc = "opening" /\ r.kind = "validity"
    \/ p.pc = "probe" /\ r.kind = "status"
    \/ p.pc = "fetch" /\ r.kind = "body" /\ r.uid \in {0, p.uid} /\ ~p.got
    \/ p.pc = "meta" /\ r.kind = "meta" /\ r.uid = p.uid /\ ~p.got

(* What ends the session instead: another's completion, data of another    *)
(* message, data without a UID where it is needed, a second continuation.  *)
Breaks(p, r) ==
    \/ r.kind = "tagged" /\ (r.tag \notin p.want \/ p.pc \in {"handshake", "idle"})
    \/ r.kind = "tagged" /\ r.ok /\ p.pc \in {"probe", "fetch", "meta"} /\ ~p.got
    \/ r.kind = "tagged" /\ ~r.ok /\ InIdle(p)
    \/ r.kind = "continue" /\ p.pc \in {"idle", "finish"}
    \/ r.kind \in {"body", "meta"} /\ p.pc \in {"fetch", "meta"} /\ ~TakesData(p, r)
    \/ r.kind = "flags" /\ p.pc = "meta"

Ends(p, r) == r.kind = "tagged" /\ r.ok /\ p.want = {r.tag}

Advance(p, r) ==
    [p EXCEPT !.want = IF r.kind = "tagged" THEN @ \ {r.tag} ELSE @,
              !.got = @ \/ TakesData(p, r),
              !.val = IF TakesData(p, r) THEN r.val ELSE @,
              !.heard = @ \/ (InIdle(p) /\ r.kind \in News)]

(* The loop of the operation is waiting for the server; a cancelled watch  *)
(* looks at its cancellation before it looks at the server.                *)
Reading(o) ==
    /\ futures[o].pc \in {"opening", "probe", "fetch", "meta", "handshake", "idle", "finish"}
    /\ ~(futures[o].pc = "idle" /\ futures[o].cancel)

(* The body or the listing accepted is another's, or of another inbox.     *)
Strays(p, r) ==
    TakesData(p, r) /\ (r.tag \notin p.want \/ (p.pc = "fetch" /\ r.val # p.expect))

(* read_response swallows the one completion it knows to be outstanding.   *)
Swallows(s, r) == s.pending # 0 /\ r.kind = "tagged" /\ r.tag = s.pending

(* A watch that heard of something ends IDLE with DONE and waits.          *)
LeavesIdle(p, r) ==
    \/ p.pc = "idle" /\ r.kind \in News
    \/ p.pc = "handshake" /\ r.kind = "continue" /\ p.heard

(* The session goes back to the cache, and nothing else does that.         *)
Returns(o, p, s) ==
    /\ Keep(p.conn, p.account, p.expect, [conns EXCEPT ![p.conn] = s])
    /\ futures' = [futures EXCEPT ![o] = IF p.kind = "lane" THEN [Operation("lane", p.account, 0, 0) EXCEPT !.pc = "ready"]
                                 ELSE Resting]
    /\ UNCHANGED <<validity, verdicts>>

WrongInbox_Never(p) == FALSE

(* MissingUidValidity or UidValidityChanged, in a session just opened      *)
WrongInbox(p) == p.val # p.expect

(* The command has its answer.                                             *)
Completed(o, p, s) ==
    LET cs == [conns EXCEPT ![p.conn] = s]
        Turns(pc) == /\ futures' = [futures EXCEPT ![o] = [p EXCEPT !.pc = pc]]
                     /\ conns' = cs
                     /\ UNCHANGED <<cache, recency, validity, verdicts>>
    IN  \/ /\ p.pc = "opening" /\ p.kind \in {"body", "lane"}
           /\ IF WrongInbox(p) THEN Fail(o, "refused")
              ELSE /\ IF p.kind = "body" THEN Asks(o, p, cs, "fetch", "fetch")
                      ELSE Asks(o, p, cs, "meta", "meta")
                   /\ UNCHANGED <<cache, recency, validity, verdicts>>
        \/ p.pc = "opening" /\ p.kind = "spare" /\ Turns("ready")
        \/ p.pc \in {"opening", "probe"} /\ p.kind = "sync" /\ Turns("selected")
        \/ p.pc = "meta" /\ p.kind = "sync" /\ Turns("joined")
        \/ p.pc \in {"fetch", "finish"} /\ Returns(o, p, s)
        \/ p.pc = "meta" /\ p.kind = "lane" /\ Returns(o, p, s)

Read(o) ==
    LET p == futures[o]
        s == conns[p.conn]
        r == Head(s.out)
        rest == [s EXCEPT !.out = Tail(@)]
    IN  /\ Reading(o) /\ s.out # <<>>
        /\ UNCHANGED budget
        /\ \/ /\ Swallows(s, r) /\ r.ok
              /\ conns' = [conns EXCEPT ![p.conn] = [rest EXCEPT !.pending = 0]]
              /\ UNCHANGED <<cache, recency, futures, validity, verdicts>>
           \/ Swallows(s, r) /\ ~r.ok /\ Fail(o, "broken")
           \/ ~Swallows(s, r) /\ Breaks(p, r) /\ Fail(o, IF r.kind = "flags" THEN "noise" ELSE "broken")
           \/ ~Swallows(s, r) /\ ~Breaks(p, r) /\ r.kind = "tagged" /\ ~r.ok /\ Fail(o, "refused")
           \/ /\ ~Swallows(s, r) /\ ~Breaks(p, r) /\ ~(r.kind = "tagged" /\ ~r.ok) /\ ~Ends(p, r)
              /\ futures' = [futures EXCEPT ![o] =
                    IF LeavesIdle(p, r) THEN [Advance(p, r) EXCEPT !.pc = "finish"]
                    ELSE IF r.kind = "continue" /\ p.pc = "handshake" THEN [p EXCEPT !.pc = "idle"]
                    ELSE Advance(p, r)]
              /\ conns' = [conns EXCEPT ![p.conn] = IF LeavesIdle(p, r) THEN Finishing(rest) ELSE rest]
              /\ verdicts' = verdicts \cup (IF Strays(p, r) THEN {"stray"} ELSE {})
              /\ UNCHANGED <<cache, recency, validity>>
           \/ ~Swallows(s, r) /\ ~Breaks(p, r) /\ Ends(p, r) /\ Completed(o, Advance(p, r), rest)

(* The server closed the connection and all it said has been read.         *)
EndOfStream(o) ==
    /\ Reading(o) /\ conns[futures[o].conn].out = <<>> /\ ~conns[futures[o].conn].up
    /\ Fail(o, "offline") /\ UNCHANGED budget

Deadline(o) ==
    /\ Reading(o) /\ futures[o].pc # "idle" /\ conns[futures[o].conn].out = <<>>
    /\ Fault /\ Fail(o, "late")

-----------------------------------------------------------------------------
(* Watches                                                                 *)

(* A command of the user or a sync of the account wants the session.       *)
Cancel(o) ==
    /\ futures[o].pc \in {"handshake", "idle"} /\ ~futures[o].cancel
    /\ futures' = [futures EXCEPT ![o].cancel = TRUE]
    /\ UNCHANGED <<conns, cache, recency, validity, budget, verdicts>>

Deferred_Forgets(o) ==
    LET p == futures[o] IN
    /\ p.pc = "idle" /\ p.cancel
    /\ Returns(o, p, Finishing(conns[p.conn]))
    /\ UNCHANGED budget

(* defer_idle_finish: DONE is sent and its answer left to the next user.   *)
Deferred(o) ==
    LET p == futures[o]
        s == [Finishing(conns[p.conn]) EXCEPT !.pending = CHOOSE t \in p.want : TRUE]
    IN  /\ p.pc = "idle" /\ p.cancel
        /\ IF conns[p.conn].pending # 0 THEN Fail(o, "broken") ELSE Returns(o, p, s)
        /\ UNCHANGED budget

IdleTimesOut(o) ==
    LET p == futures[o] IN
    /\ Reading(o) /\ p.pc = "idle" /\ conns[p.conn].out = <<>>
    /\ futures' = [futures EXCEPT ![o].pc = "finish"]
    /\ conns' = [conns EXCEPT ![p.conn] = Finishing(@)]
    /\ UNCHANGED <<cache, recency, validity, budget, verdicts>>

-----------------------------------------------------------------------------
(* Pools and lanes of a sync                                               *)

ChildOf(p) == IF p.child = <<>> THEN Resting ELSE futures[p.child]

(* join_pair, join_all_local: the other futures have ended.                *)
ChildEnded(p) == p.child = <<>> \/ ChildOf(p).pc \in {"ready", "failed"}

(* o goes on as p, and its child is forgotten.                             *)
Joins(o, p) ==
    [q \in Slots |-> IF q = o THEN p ELSE IF q = futures[o].child THEN Resting ELSE futures[q]]

SameInbox_Any(q, p) == TRUE

(* A session of the pool that can be kept for this inbox                   *)
SameInbox(q, p) == q.val = p.val

(* The mailbox is known: the rest of the pool is kept if it has the same   *)
(* UIDVALIDITY, and the listing is asked for, in lanes when it is long.    *)
Selected(o) ==
    LET p == [futures[o] EXCEPT !.child = <<>>, !.got = FALSE]
        q == ChildOf(futures[o])
        given == IF q.pc = "ready" THEN {q.conn} ELSE {}
        fits == p.val # 0 /\ p.expect \in {0, p.val}
        lane == {l \in Slots : Joins(o, p)[l] = Resting}
        mine == [p EXCEPT !.expect = p.val, !.pc = "meta", !.want = {conns[p.conn].tag}]
        asked == [conns EXCEPT ![p.conn] = IF HasTags(@, 1) THEN Sent(@, Command("meta", 1))
                                           ELSE Nobody]
    IN  /\ p.pc = "selected" /\ ChildEnded(futures[o])
        /\ IF ~fits
           THEN /\ futures' = Joins(o, Resting)
                /\ conns' = [c \in Conns |-> IF c \in given \cup {p.conn} THEN Nobody ELSE conns[c]]
                /\ UNCHANGED <<cache, recency>>
           ELSE /\ IF given # {} /\ SameInbox(q, p)
                   THEN Keep(q.conn, p.account, p.val, asked)
                   ELSE /\ conns' = [c \in Conns |-> IF c \in given THEN Nobody ELSE asked[c]]
                        /\ UNCHANGED <<cache, recency>>
                /\ IF ~HasTags(conns[p.conn], 1) THEN futures' = Joins(o, Resting)
                   ELSE \/ futures' = Joins(o, mine)
                        \/ /\ Pools /\ lane # {}
                           /\ futures' = [l \in Slots |->
                                 IF l = o THEN [mine EXCEPT !.child = CHOOSE k \in lane : TRUE]
                                 ELSE IF l = CHOOSE k \in lane : TRUE
                                 THEN [Operation("lane", p.account, p.val, 2) EXCEPT !.pc = "lane"]
                                 ELSE Joins(o, p)[l]]
        /\ UNCHANGED <<validity, budget, verdicts>>

(* A server that gave no UIDNEXT with EXAMINE is asked with STATUS.        *)
AsksNext(o) ==
    /\ futures[o].pc = "selected" /\ ~futures[o].reused /\ ChildEnded(futures[o])
    /\ futures[o].child = <<>> /\ ~futures[o].heard
    /\ Asks(o, [futures[o] EXCEPT !.heard = TRUE], conns, "status", "probe")
    /\ UNCHANGED <<cache, recency, validity, budget, verdicts>>

(* resolve_pool_primary: the rest of the pool replaces a failed primary.   *)
Promote(o) ==
    LET q == ChildOf(futures[o]) IN
    /\ futures[o].pc = "promote" /\ ChildEnded(futures[o])
    /\ futures' = Joins(o, IF q.pc = "failed" THEN Resting
                       ELSE [futures[o] EXCEPT !.pc = "selected", !.conn = q.conn, !.val = q.val,
                                           !.child = <<>>])
    /\ UNCHANGED <<conns, cache, recency, validity, budget, verdicts>>

(* The page is whole: the primary goes back, or it fetches what the lane   *)
(* that failed did not.                                                    *)
Joined(o) ==
    LET p == futures[o] IN
    /\ p.pc = "joined" /\ ChildEnded(p)
    /\ IF ChildOf(p).pc # "failed"
       THEN /\ Keep(p.conn, p.account, p.val, conns)
            /\ futures' = Joins(o, Resting)
       ELSE /\ UNCHANGED <<cache, recency>>
            /\ IF HasTags(conns[p.conn], 1)
               THEN /\ futures' = Joins(o, [p EXCEPT !.uid = 2, !.child = <<>>, !.pc = "meta",
                                     !.got = FALSE, !.want = {conns[p.conn].tag}])
                    /\ conns' = [conns EXCEPT ![p.conn] = Sent(@, Command("meta", 2))]
               ELSE /\ futures' = Joins(o, Resting)
                    /\ conns' = [conns EXCEPT ![p.conn] = Nobody]
    /\ UNCHANGED <<validity, budget, verdicts>>

(* The primary failed, and the lanes have ended.                           *)
Lost(o) ==
    /\ futures[o].pc = "lost" /\ ChildEnded(futures[o])
    /\ futures' = Joins(o, Resting)
    /\ UNCHANGED <<conns, cache, recency, validity, budget, verdicts>>

(* The task is dropped with its sessions: preempted, or its time is over.  *)
Abort(o) ==
    /\ futures[o].kind \in {"body", "sync", "watch"} /\ Fault
    /\ futures' = Joins(o, Resting)
    /\ conns' = [c \in Conns |-> IF c \in {futures[o].conn, ChildOf(futures[o]).conn} THEN Nobody
                                 ELSE conns[c]]
    /\ UNCHANGED <<cache, recency, validity, verdicts>>

-----------------------------------------------------------------------------

Operate(o) ==
    \/ \E a \in Accounts, v \in 1..MaxValidity :
          \/ "body" \in Kinds /\ v =< validity[a] /\ \E u \in {1, 2} : OpenMessage(o, a, v, u)
          \/ "watch" \in Kinds /\ Watch(o, a, v)
    \/ "sync" \in Kinds /\ \E a \in Accounts : \E v \in 0..validity[a] : Sync(o, a, v)
    \/ HasCredential(o) \/ LaneBegins(o) \/ Connect(o) \/ ConnectFails(o)
    \/ Read(o) \/ EndOfStream(o) \/ Deadline(o)
    \/ Cancel(o) \/ Deferred(o) \/ IdleTimesOut(o)
    \/ Selected(o) \/ AsksNext(o) \/ Promote(o) \/ Joined(o) \/ Lost(o) \/ Abort(o)

Next ==
    \/ \E o \in Slots : Operate(o)
    \/ \E c \in Conns : Serve(c) \/ Announce(c, "exists") \/ Announce(c, "flags") \/ Disconnect(c)
    \/ Expire
    \/ \E a \in Accounts : Renumber(a)

Spec == Init /\ [][Next]_vars

(* Nothing is asked any more.                                              *)
Rests == budget.ops = 0 /\ (\A o \in Slots : futures[o] = Resting) /\ UNCHANGED vars

-----------------------------------------------------------------------------

Cached == {cache[i].conn : i \in DOMAIN cache}
Used == {futures[o].conn : o \in Slots} \ {<<>>}

(* The completions a session will still give                               *)
Owed(s) ==
    {s.in[i].tag : i \in DOMAIN s.in} \cup {s.out[i].tag : i \in DOMAIN s.out} \cup {s.idling}

TypeOK ==
    /\ \A c \in Conns : conns[c].tag \in 1..MaxTag /\ conns[c].pending \in 0..MaxTag
    /\ Cached = {recency[n] : n \in DOMAIN recency} /\ Len(recency) = Len(cache)
    /\ \A o \in Slots : futures[o].want \subseteq 1..MaxTag /\ futures[o].conn \in Conns \cup {<<>>}

(* A session is in one place: in the cache, under its account, or with one *)
(* operation that selected the inbox it is kept for; none is held by       *)
(* nobody; and the cache keeps its two bounds                              *)
(* (MAX_CACHED_INBOX_SESSIONS and the one per account, imap.rs:82).        *)
OneHolder ==
    /\ \A c \in Conns : ~Free(c) <=> c \in Cached \cup Used
    /\ Cached \cap Used = {} /\ Cardinality(Cached) = Len(cache)
    /\ \A o1, o2 \in Slots : futures[o1].conn = futures[o2].conn => o1 = o2 \/ futures[o1].conn = <<>>
    /\ \A i \in DOMAIN cache : LET s == conns[cache[i].conn] IN
          s.account = cache[i].account /\ s.val = cache[i].val
    /\ Len(cache) =< Capacity
    /\ \A a \in Accounts, v \in 1..MaxValidity : Cardinality(Fits(a, v)) =< PerAccount

(* A cached session owes nothing but news and the completion of one IDLE   *)
(* that it knows of (fast.rs:446): no answer meant for the operation that  *)
(* left it can reach the next one.                                         *)
CachedIsQuiet ==
    \A c \in Cached : Owed(conns[c]) \subseteq {0, conns[c].pending}

(* What an operation takes for its answer is the answer to its own command *)
(* in the inbox it means, also when the server leaves the UID out (imap.rs *)
(* parse_body); and a session that did nothing wrong is never given up.    *)
AnswersBelong == "stray" \notin verdicts
NoneIsBlamed == "blamed" \notin verdicts

(* All of them                                                             *)
Sound == OneHolder /\ CachedIsQuiet /\ AnswersBelong /\ NoneIsBlamed
=============================================================================
