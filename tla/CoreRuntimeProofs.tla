-------------------------- MODULE CoreRuntimeProofs --------------------------
(***************************************************************************)
(* What CoreRuntime promises of writes and queries, for any mutations,     *)
(* writes and kinds of queries, and any capacities of the channels.        *)
(*                                                                         *)
(* The argument: a mutation is at one place of a line, which starts with   *)
(* those that ran and ends with the commands the core has not taken, and   *)
(* the line is in the order of the interface (LineInv).  active counts at  *)
(* least those whose reply the core still expects (AnswerInv).  A query of *)
(* a kind is in the database only while it is the active one of its kind,  *)
(* and the key of the mailbox state names it or one that is older          *)
(* (QueryInv).                                                             *)
(***************************************************************************)
EXTENDS CoreRuntime, TLAPS, FiniteSetTheorems, SequenceTheorems

-----------------------------------------------------------------------------
(* Types                                                                   *)

Ids == Mutations \cup Writes

MutationReplies == [what : {"mutation"}, id : Mutations, ok : BOOLEAN]

QueryReplies == [what : {"superseded", "loaded"}, id : Queries, ok : BOOLEAN]

Verdicts == {"rejected", "committed", "failed"}

Events ==
    [kind : Kinds, id : 1..MaxAsk] \cup [kind : Verdicts, id : Mutations]
        \cup [kind : {"status"}, id : {None}]

Commands == Queries \cup ({"mutate"} \X Mutations)

WriterStates ==
    [pc : {"idle", "backfill"}] \cup [pc : {"write"}, id : Ids]
        \cup [pc : {"send"}, reply : MutationReplies]
        \cup [pc : {"drain", "stopped", "dead"}, ok : BOOLEAN]

ReaderStates ==
    [pc : {"idle"}] \cup [pc : {"query"}, id : Queries, cut : BOOLEAN]
        \cup [pc : {"send"}, reply : QueryReplies] \cup [pc : {"stopped"}, ok : {TRUE}]

MailboxStates ==
    {NoKey} \cup [state : {"active", "superseded", "activeSuperseded"},
                  key : {"mailbox"} \X (1..MaxAsk)]

CoreStates ==
    [pc : {"loop", "gate"}] \cup [pc : {"send"}, event : Events]
        \cup [pc : {"compose"}, id : Composes, last : {FALSE}]
        \cup [pc : {"compose"}, id : Composes, last : {TRUE}, ok : BOOLEAN]
        \cup [pc : {"finish"}, failed : BOOLEAN, pending : Seq(Mutations)]
        \cup [pc : {"last", "grace", "closing", "done"}, ok : BOOLEAN]

DatabaseTyped ==
    /\ requests \in Seq(Ids) /\ Len(requests) <= RequestCapacity
    /\ queries \in Seq(Queries) /\ Len(queries) <= QueryCapacity
    /\ replies \in Seq(MutationReplies \cup QueryReplies)
    /\ Len(replies) <= ReplyCapacity
    /\ {open, admission, interrupt} \subseteq BOOLEAN
    /\ writer \in WriterStates /\ reader \in ReaderStates /\ mailbox \in MailboxStates
    /\ log \in Seq(Ids \X BOOLEAN)
    /\ answers \in [Writes -> {"none", "done", "failed", "closed"}]

CoreTyped ==
    /\ commands \in Seq(Commands) /\ Len(commands) <= CommandCapacity
    /\ composes \in Seq(Composes) /\ Len(composes) <= 1
    /\ Len(events) \in Nat /\ Len(events) <= EventCapacity /\ events \in Seq(Events)
    /\ shutdown \in BOOLEAN /\ core \in CoreStates
    /\ schedule \in [Kinds -> [active : 0..MaxAsk, pending : 0..MaxAsk]]
    /\ active \in 0..Len(sent) /\ streak \in 0..Burst /\ waited \in Nat
    /\ called \in Seq(Writes) /\ sent \in Seq(Mutations)
    /\ told \in [Mutations -> {"none"} \cup Verdicts]
    /\ asked \in [Kinds -> 0..MaxAsk]

TypeInv == DatabaseTyped /\ CoreTyped

-----------------------------------------------------------------------------
(* Where the loop is and what else that says                               *)

Ending == core.pc \in {"last", "grace", "closing", "done"} \/ (core.pc = "compose" /\ core.last)

Left == core.pc \in {"grace", "closing", "done"}

PhaseInv ==
    /\ ~Left => /\ open /\ admission /\ stopping = {}
                /\ reader.pc # "stopped" /\ writer.pc \notin {"drain", "stopped"}
    /\ ~CommandsOpen /\ ~Left => commands = <<>>
    /\ writer.pc = "drain" => ~admission
    /\ writer.pc = "stopped" => ~admission /\ requests = <<>>

WaitInv ==
    /\ waited <= streak
    /\ CommandsOpen /\ replies = <<>> => waited = 0

-----------------------------------------------------------------------------
(* The line of mutations                                                   *)

HasRun(m) == \E i \in DOMAIN log : log[i][1] = m

AtWriter(m) == writer.pc = "write" /\ writer.id = m

InHand ==
    IF core.pc = "finish" THEN core.pending
    ELSE IF core.pc = "send" /\ core.event.kind = "rejected" THEN <<core.event.id>>
    ELSE <<>>

Waits(m) == \E i \in DOMAIN commands : commands[i] = <<"mutate", m>>

Started(m) == HasRun(m) \/ AtWriter(m)

Submitted(m) == Started(m) \/ m \in ToSet(requests)

Taken(m) == Submitted(m) \/ m \in ToSet(InHand)

InLine(m) == Taken(m) \/ Waits(m)

Places ==
    /\ \A i, j \in DOMAIN sent : sent[i] = sent[j] => i = j
    /\ \A m \in Mutations : InLine(m) => m \in ToSet(sent)

(* The mutations in s are in the order of the interface.                   *)
Sorted(s) ==
    \A i, j \in DOMAIN s :
        i < j /\ s[i] \in Mutations /\ s[j] \in Mutations => SentBefore(s[i], s[j])

LogIds == [i \in DOMAIN log |-> log[i][1]]

LineInv ==
    /\ Sorted(LogIds) /\ Sorted(requests) /\ Sorted(InHand)
    /\ \A m, n \in Mutations :
          /\ HasRun(m) /\ AtWriter(n) => SentBefore(m, n)
          /\ Started(m) /\ n \in ToSet(requests) => SentBefore(m, n)
          /\ Submitted(m) /\ n \in ToSet(InHand) => SentBefore(m, n)
          /\ Taken(m) /\ Waits(n) => SentBefore(m, n)
    /\ \A i, j \in DOMAIN commands : \A m, n \in Mutations :
          i < j /\ commands[i] = <<"mutate", m>> /\ commands[j] = <<"mutate", n>>
              => SentBefore(m, n)

-----------------------------------------------------------------------------
(* Replies and what the interface is told                                  *)

IsReply(i, m) == replies[i].what = "mutation" /\ replies[i].id = m

AtSend(m) == writer.pc = "send" /\ writer.reply.id = m

Expected(m) == \E i \in DOMAIN replies : IsReply(i, m)

EventIs(kind, m) == core.pc = "send" /\ core.event = Event(kind, m)

ReplyInv ==
    /\ \A i \in DOMAIN replies : \A m \in Mutations : IsReply(i, m) => Ran1(m, replies[i].ok)
    /\ writer.pc = "send" => Ran1(writer.reply.id, writer.reply.ok)
    /\ \A m \in Mutations : EventIs("committed", m) => Ran1(m, TRUE)
    /\ \A m \in Mutations : EventIs("failed", m) => Ran1(m, FALSE)
    /\ \A m \in Mutations : AtSend(m) => ~Expected(m)
    /\ \A i, j \in DOMAIN replies : \A m \in Mutations : IsReply(i, m) /\ IsReply(j, m) => i = j

ToldInv ==
    \A m \in Mutations :
        /\ told[m] = "committed" => Ran1(m, TRUE)
        /\ told[m] = "failed" => Ran1(m, FALSE)
        /\ told[m] = "rejected" => m \in ToSet(sent) /\ ~InLine(m)

Settled(m) == told[m] \in {"failed", "rejected"} \/ Ran1(m, TRUE)

Pending(m) == Waits(m) \/ m \in ToSet(InHand)

Accounted(m) ==
    \/ Settled(m) \/ Pending(m)
    \/ EventIs("failed", m) \/ (core.pc = "finish" /\ core.failed)

Outstanding(m) == m \in ToSet(requests) \/ AtWriter(m) \/ AtSend(m) \/ Expected(m)

(* The unanswered are those that were submitted and whose reply the core   *)
(* has not taken, also if the writer died; the others are accounted for.   *)
Unanswered(L) ==
    /\ L \subseteq ToSet(sent) /\ IsFiniteSet(L) /\ Cardinality(L) = active
    /\ \A m \in Mutations : Outstanding(m) => m \in L
    /\ \A m \in ToSet(sent) \ L : Accounted(m)
    /\ \A m \in L : ~Pending(m)

AnswerInv ==
    /\ CommandsOpen \/ core.pc = "finish" => \E L \in SUBSET ToSet(sent) : Unanswered(L)
    /\ Ending /\ core.ok => \A m \in ToSet(sent) : Settled(m)

-----------------------------------------------------------------------------
(* Writes with a caller of their own                                       *)

CallInv ==
    /\ \A i, j \in DOMAIN requests :
          requests[i] = requests[j] /\ requests[i] \in Writes => i = j
    /\ \A i, j \in DOMAIN log : log[i][1] = log[j][1] /\ log[i][1] \in Writes => i = j
    /\ \A w \in Writes :
          /\ w \in ToSet(requests) => ~Started(w) /\ w \in ToSet(called)
          /\ AtWriter(w) => ~HasRun(w) /\ w \in ToSet(called)
          /\ HasRun(w) => w \in ToSet(called)
    /\ writer.pc # "dead" => \A w \in ToSet(called) :
          \/ w \in ToSet(requests) \/ AtWriter(w)
          \/ HasRun(w) /\ answers[w] \in {"done", "failed"}

-----------------------------------------------------------------------------
(* Queries                                                                 *)

Reading(q) == reader.pc = "query" /\ reader.id = q

Sending(q) == reader.pc = "send" /\ reader.reply.id = q

AtReader(q) == Reading(q) \/ Sending(q)

IsActive(q) == schedule[q[1]].active = q[2]

(* A query in the database is the active one of its kind, and is there     *)
(* once.                                                                   *)
PlaceInv ==
    /\ \A q \in Queries : q \in ToSet(queries) => IsActive(q) /\ ~AtReader(q) /\ ~Replied(q)
    /\ \A q \in Queries : AtReader(q) => IsActive(q) /\ ~Replied(q)
    /\ \A q \in Queries : Replied(q) => IsActive(q)
    /\ \A i, j \in DOMAIN queries : queries[i] = queries[j] => i = j
    /\ \A i, j \in DOMAIN replies :
          /\ replies[i].what # "mutation" /\ replies[j].what # "mutation"
          /\ replies[i].id = replies[j].id
          => i = j
    /\ \A k \in Kinds :
          LET q == <<k, schedule[k].active>> IN
          q[2] # None => q \in ToSet(queries) \/ AtReader(q) \/ Replied(q)

(* Queries of a kind are numbered as they are asked.                       *)
NumberInv ==
    /\ \A k \in Kinds :
          /\ schedule[k].active <= asked[k] /\ schedule[k].pending <= asked[k]
          /\ schedule[k].pending # None =>
                schedule[k].active # None /\ schedule[k].active < schedule[k].pending
    /\ \A i \in DOMAIN commands : \A k \in Kinds : commands[i][1] = k =>
          /\ schedule[k].active < commands[i][2] /\ schedule[k].pending < commands[i][2]
          /\ commands[i][2] <= asked[k]
    /\ \A i, j \in DOMAIN commands : \A k \in Kinds :
          i < j /\ commands[i][1] = k /\ commands[j][1] = k => commands[i][2] < commands[j][2]

(* The key of the mailbox state is that of the query the thread executes,  *)
(* or of one that is superseded now or was earlier.                        *)
KeyInv ==
    /\ \A q \in Queries : q[1] = "mailbox" =>
          (Reading(q) <=> mailbox.state \in {"active", "activeSuperseded"} /\ mailbox.key = q)
    /\ mailbox.state # "idle" =>
          LET n == mailbox.key[2] IN
          /\ n <= asked["mailbox"]
          /\ schedule["mailbox"].active # None => n <= schedule["mailbox"].active
          /\ schedule["mailbox"].pending # None => n < schedule["mailbox"].pending
          /\ \A i \in DOMAIN commands : commands[i][1] = "mailbox" => n < commands[i][2]
    /\ mailbox.state = "superseded" /\ schedule["mailbox"].active = mailbox.key[2] =>
          schedule["mailbox"].pending # None
    /\ mailbox.state = "activeSuperseded" => Obsolete(mailbox.key)
    /\ core.pc = "gate" => mailbox.state = "activeSuperseded"

QueryInv == CommandsOpen => PlaceInv /\ NumberInv /\ KeyInv /\ ObsoleteOnly

RuntimeInv ==
    /\ TypeInv /\ PhaseInv /\ WaitInv /\ Places /\ LineInv
    /\ ReplyInv /\ ToldInv /\ AnswerInv /\ CallInv /\ QueryInv

-----------------------------------------------------------------------------
(* Sequences                                                               *)

(* What is in a sequence without its first element.                        *)
LEMMA TailIs ==
  ASSUME NEW S, NEW s \in Seq(S), s # <<>>
  PROVE  /\ Tail(s) \in Seq(S) /\ Head(s) \in S /\ Head(s) = s[1]
         /\ Len(s) \in Nat \ {0} /\ Len(Tail(s)) = Len(s) - 1 /\ Len(Tail(s)) \in Nat
         /\ DOMAIN s = 1..Len(s) /\ 1 \in DOMAIN s
         /\ \A i \in DOMAIN Tail(s) : i \in Nat /\ i + 1 \in DOMAIN s /\ Tail(s)[i] = s[i + 1]
         /\ \A i \in DOMAIN s : i # 1 => i - 1 \in DOMAIN Tail(s)
         /\ \A x : x \in ToSet(s) <=> x = Head(s) \/ x \in ToSet(Tail(s))
<1>1. /\ Tail(s) \in Seq(S) /\ Head(s) \in S /\ Head(s) = s[1]
      /\ Len(s) \in Nat \ {0} /\ Len(Tail(s)) = Len(s) - 1 /\ Len(Tail(s)) \in Nat
      /\ DOMAIN s = 1..Len(s) /\ 1 \in DOMAIN s
      /\ DOMAIN Tail(s) = 1..(Len(s) - 1)
      /\ \A i \in 1..(Len(s) - 1) : Tail(s)[i] = s[i + 1]
  BY HeadTailProperties, LenProperties, EmptySeq
<1> DEFINE t == Tail(s)
           n == Len(s)
<1> HIDE DEF t, n
<1>2. \A i \in DOMAIN t : i \in Nat /\ i + 1 \in DOMAIN s /\ t[i] = s[i + 1]
  BY <1>1 DEF t, n
<1>3. \A i \in DOMAIN s : i # 1 => i - 1 \in DOMAIN t /\ t[i - 1] = s[i]
  <2>1. n \in Nat /\ DOMAIN t = 1..(n - 1) /\ DOMAIN s = 1..n
        /\ \A i \in 1..(n - 1) : t[i] = s[i + 1]
    BY <1>1 DEF t, n
  <2>2. TAKE i \in DOMAIN s
  <2>3. i \in Nat /\ i >= 1 /\ i <= n
    BY <2>1
  <2>4. HAVE i # 1
  <2>5. i - 1 \in 1..(n - 1) /\ (i - 1) + 1 = i
    BY <2>1, <2>3, <2>4
  <2> QED
    BY <2>1, <2>5
<1>4. ASSUME NEW x
      PROVE  x \in ToSet(s) <=> x = Head(s) \/ x \in ToSet(t)
  <2>1. x \in ToSet(s) <=> \E i \in DOMAIN s : s[i] = x
    BY DEF ToSet
  <2>2. x \in ToSet(t) <=> \E i \in DOMAIN t : t[i] = x
    BY DEF ToSet
  <2> QED
    BY <1>1, <1>2, <1>3, <2>1, <2>2
<1> QED
  BY <1>1, <1>2, <1>3, <1>4 DEF t

(* What is in a sequence with one more element.                            *)
LEMMA AppendIs ==
  ASSUME NEW S, NEW s \in Seq(S), NEW e \in S
  PROVE  /\ Append(s, e) \in Seq(S)
         /\ Len(s) \in Nat /\ Len(Append(s, e)) = Len(s) + 1
         /\ DOMAIN s = 1..Len(s) /\ DOMAIN Append(s, e) = 1..(Len(s) + 1)
         /\ \A i \in DOMAIN s : i \in Nat /\ i < Len(s) + 1 /\ i # Len(s) + 1
         /\ \A i \in DOMAIN s : i \in DOMAIN Append(s, e) /\ Append(s, e)[i] = s[i]
         /\ Append(s, e)[Len(s) + 1] = e /\ Len(s) + 1 \in DOMAIN Append(s, e)
         /\ \A i \in DOMAIN Append(s, e) : i \in DOMAIN s \/ i = Len(s) + 1
         /\ \A x : x \in ToSet(Append(s, e)) <=> x = e \/ x \in ToSet(s)
<1> DEFINE t == Append(s, e)
           n == Len(s)
<1>1. /\ t \in Seq(S) /\ Len(t) = n + 1 /\ n \in Nat
      /\ \A i \in 1..n : t[i] = s[i]
      /\ t[n + 1] = e
      /\ DOMAIN s = 1..n /\ DOMAIN t = 1..(n + 1)
  BY AppendProperties, LenProperties
<1> HIDE DEF t, n
<1>2. /\ \A i \in DOMAIN s : i \in Nat /\ i < n + 1 /\ i # n + 1 /\ i \in DOMAIN t /\ t[i] = s[i]
      /\ n + 1 \in DOMAIN t
      /\ \A i \in DOMAIN t : i \in DOMAIN s \/ i = n + 1
  BY <1>1
<1>3. \A x : x \in ToSet(t) <=> x = e \/ x \in ToSet(s)
  BY <1>1, <1>2 DEF ToSet
<1> QED
  BY <1>1, <1>2, <1>3 DEF t, n

LEMMA EmptyIs ==
  /\ \A S : <<>> \in Seq(S)
  /\ Len(<<>>) = 0 /\ DOMAIN <<>> = {} /\ ToSet(<<>>) = {}
<1>1. Len(<<>>) = 0 /\ DOMAIN <<>> = {} /\ \A S : <<>> \in Seq(S)
  BY EmptySeq
<1> QED
  BY <1>1 DEF ToSet

LEMMA OneIs ==
  ASSUME NEW S, NEW e \in S
  PROVE  /\ <<e>> \in Seq(S) /\ DOMAIN <<e>> = {1} /\ <<e>>[1] = e /\ Len(<<e>>) = 1
         /\ ToSet(<<e>>) = {e}
<1>1. <<e>> \in Seq(S) /\ DOMAIN <<e>> = {1} /\ <<e>>[1] = e /\ Len(<<e>>) = 1
  OBVIOUS
<1> QED
  BY <1>1 DEF ToSet

-----------------------------------------------------------------------------
(* What the line is made of                                                *)

LEMMA InHandTyped ==
  ASSUME TypeInv
  PROVE  InHand \in Seq(Mutations)
<1>1. core \in CoreStates
  BY DEF TypeInv, CoreTyped
<1>2. CASE core.pc = "finish"
  BY <1>1, <1>2 DEF CoreStates, InHand
<1>3. CASE core.pc = "send" /\ core.event.kind = "rejected"
  <2>1. core.event \in Events
    BY <1>1, <1>3 DEF CoreStates
  <2>2. core.event.id \in Mutations
    BY <1>3, <2>1, RuntimeAssumption DEF Events, Kinds, Verdicts
  <2>3. InHand = <<core.event.id>>
    BY <1>3 DEF InHand
  <2> QED
    BY <2>2, <2>3, OneIs
<1> QED
  BY <1>2, <1>3, EmptyIs DEF InHand

LEMMA IdsAreDistinct ==
  ASSUME NEW m \in Mutations
  PROVE  m \notin Writes
BY DatabaseAssumption

(* No mutation was sent twice, so none comes before itself.                *)
LEMMA NoneBeforeItself ==
  ASSUME TypeInv, Places, NEW m, NEW n, SentBefore(m, n)
  PROVE  m # n
<1>1. DOMAIN sent \subseteq Nat
  <2>1. sent \in Seq(Mutations)
    BY DEF TypeInv, CoreTyped
  <2>2. DOMAIN sent = 1..Len(sent) /\ Len(sent) \in Nat
    BY <2>1, LenProperties
  <2> QED
    BY <2>2
<1>2. PICK i, j \in DOMAIN sent : i < j /\ sent[i] = m /\ sent[j] = n
  BY DEF SentBefore
<1> QED
  BY <1>1, <1>2 DEF Places

(* A mutation is at one place.                                             *)
LEMMA OnePlace ==
  ASSUME TypeInv, Places, LineInv, NEW m \in Mutations
  PROVE  /\ ~(HasRun(m) /\ AtWriter(m))
         /\ ~(Started(m) /\ m \in ToSet(requests))
         /\ ~(Submitted(m) /\ m \in ToSet(InHand))
         /\ ~(Taken(m) /\ Waits(m))
BY NoneBeforeItself DEF LineInv

LEMMA RunOnce ==
  ASSUME TypeInv, Places, LineInv, NEW m \in Mutations
  PROVE  /\ \A i, j \in DOMAIN log : log[i][1] = m /\ log[j][1] = m => i = j
         /\ ~(Ran1(m, TRUE) /\ Ran1(m, FALSE))
<1>1. DOMAIN log \subseteq Nat /\ DOMAIN LogIds = DOMAIN log
  <2>1. log \in Seq(Ids \X BOOLEAN)
    BY DEF TypeInv, DatabaseTyped
  <2>2. DOMAIN log = 1..Len(log) /\ Len(log) \in Nat
    BY <2>1, LenProperties
  <2> QED
    BY <2>2 DEF LogIds
<1>2. ASSUME NEW i \in DOMAIN log, NEW j \in DOMAIN log, log[i][1] = m, log[j][1] = m
      PROVE  ~(i < j)
  <2>1. LogIds[i] = m /\ LogIds[j] = m
    BY <1>2 DEF LogIds
  <2>2. i < j => SentBefore(m, m)
    BY <1>1, <2>1 DEF LineInv, Sorted
  <2> QED
    BY <2>2, NoneBeforeItself
<1>3. \A i, j \in DOMAIN log : log[i][1] = m /\ log[j][1] = m => i = j
  BY <1>1, <1>2
<1>4. ~(Ran1(m, TRUE) /\ Ran1(m, FALSE))
  <2>1. SUFFICES ASSUME Ran1(m, TRUE), Ran1(m, FALSE)
                 PROVE  FALSE
    OBVIOUS
  <2>2. PICK i \in DOMAIN log : log[i] = <<m, TRUE>>
    BY <2>1 DEF Ran1, ToSet
  <2>3. PICK j \in DOMAIN log : log[j] = <<m, FALSE>>
    BY <2>1 DEF Ran1, ToSet
  <2>4. log[i][1] = m /\ log[j][1] = m
    BY <2>2, <2>3
  <2>5. i = j
    BY <1>3, <2>4
  <2>6. log[i][2] = TRUE /\ log[j][2] = FALSE
    BY <2>2, <2>3
  <2>7. log[i][2] = log[j][2]
    BY <2>5
  <2> QED
    BY <2>6, <2>7
<1> QED
  BY <1>3, <1>4

LEMMA RanHasRun ==
  ASSUME NEW m, NEW ok, Ran1(m, ok)
  PROVE  HasRun(m)
BY DEF Ran1, ToSet, HasRun

(* The line when nothing about mutations changes in it.                    *)
LEMMA LineStays ==
  ASSUME Places, LineInv, sent' = sent, requests' = requests, commands' = commands,
         log' = log, InHand' = InHand, \A m \in Mutations : AtWriter(m)' <=> AtWriter(m)
  PROVE  /\ Places' /\ LineInv'
         /\ \A m \in Mutations : InLine(m)' <=> InLine(m)
<1>1. \A m \in Mutations :
         /\ HasRun(m)' <=> HasRun(m)
         /\ Waits(m)' <=> Waits(m)
  BY DEF HasRun, Waits
<1>2. \A m \in Mutations :
         /\ Started(m)' <=> Started(m)
         /\ Submitted(m)' <=> Submitted(m)
         /\ Taken(m)' <=> Taken(m)
         /\ InLine(m)' <=> InLine(m)
  BY <1>1 DEF Started, Submitted, Taken, InLine
<1>3. \A m, n : SentBefore(m, n)' <=> SentBefore(m, n)
  BY DEF SentBefore
<1>4. Places'
  BY <1>2 DEF Places
<1>5. Sorted(LogIds)' /\ Sorted(requests)' /\ Sorted(InHand)'
  BY <1>3 DEF LineInv, Sorted, LogIds
<1>6. LineInv'
  BY <1>1, <1>2, <1>3, <1>5 DEF LineInv
<1> QED
  BY <1>2, <1>4, <1>6

(* A write that runs goes to the end of the log.                           *)
LEMMA LogGrows ==
  ASSUME TypeInv, NEW id \in Ids, NEW ok \in BOOLEAN, log' = Append(log, <<id, ok>>)
  PROVE  /\ log' \in Seq(Ids \X BOOLEAN)
         /\ \A m : HasRun(m)' <=> HasRun(m) \/ m = id
         /\ \A m, o : Ran1(m, o)' <=> Ran1(m, o) \/ (m = id /\ o = ok)
         /\ \A i \in DOMAIN log : i \in DOMAIN log' /\ log'[i] = log[i] /\ i \in Nat
         /\ Len(log) + 1 \in DOMAIN log' /\ log'[Len(log) + 1] = <<id, ok>>
         /\ \A i \in DOMAIN log' : i \in DOMAIN log \/ i = Len(log) + 1
         /\ \A i \in DOMAIN log : i < Len(log) + 1
         /\ DOMAIN log' \subseteq Nat
<1>1. log \in Seq(Ids \X BOOLEAN) /\ <<id, ok>> \in Ids \X BOOLEAN
  BY DEF TypeInv, DatabaseTyped
<1>2. /\ log' \in Seq(Ids \X BOOLEAN)
      /\ Len(log) \in Nat
      /\ \A i \in DOMAIN log : i \in Nat /\ i < Len(log) + 1
      /\ \A i \in DOMAIN log : i \in DOMAIN log' /\ log'[i] = log[i]
      /\ log'[Len(log) + 1] = <<id, ok>> /\ Len(log) + 1 \in DOMAIN log'
      /\ \A i \in DOMAIN log' : i \in DOMAIN log \/ i = Len(log) + 1
      /\ \A x : x \in ToSet(log') <=> x = <<id, ok>> \/ x \in ToSet(log)
      /\ DOMAIN log' = 1..(Len(log) + 1)
  <2> DEFINE e == <<id, ok>>
             S == Ids \X BOOLEAN
  <2> HIDE DEF e, S
  <2>1. log \in Seq(S) /\ e \in S /\ log' = Append(log, e)
    BY <1>1 DEF e, S
  <2>2. /\ Append(log, e) \in Seq(S)
        /\ Len(log) \in Nat
        /\ DOMAIN Append(log, e) = 1..(Len(log) + 1)
        /\ \A i \in DOMAIN log : i \in Nat /\ i < Len(log) + 1
        /\ \A i \in DOMAIN log : i \in DOMAIN Append(log, e) /\ Append(log, e)[i] = log[i]
        /\ Append(log, e)[Len(log) + 1] = e /\ Len(log) + 1 \in DOMAIN Append(log, e)
        /\ \A i \in DOMAIN Append(log, e) : i \in DOMAIN log \/ i = Len(log) + 1
        /\ \A x : x \in ToSet(Append(log, e)) <=> x = e \/ x \in ToSet(log)
    BY <2>1, AppendIs
  <2> QED
    BY <2>1, <2>2 DEF e, S
<1>3. \A m : HasRun(m)' <=> HasRun(m) \/ m = id
  BY <1>2 DEF HasRun
<1>4. \A m, o : Ran1(m, o)' <=> Ran1(m, o) \/ (m = id /\ o = ok)
  BY <1>2 DEF Ran1
<1>5. DOMAIN log' \subseteq Nat
  BY <1>2
<1> QED
  BY <1>2, <1>3, <1>4, <1>5

(* It is sorted if the new one comes after all that ran.                   *)
LEMMA LogSorted ==
  ASSUME TypeInv, NEW id \in Ids, NEW ok \in BOOLEAN, log' = Append(log, <<id, ok>>),
         Sorted(LogIds), sent' = sent,
         id \in Mutations => \A m \in Mutations : HasRun(m) => SentBefore(m, id)
  PROVE  Sorted(LogIds)'
<1>1. /\ \A i \in DOMAIN log : i \in DOMAIN log' /\ log'[i] = log[i] /\ i \in Nat
      /\ log'[Len(log) + 1] = <<id, ok>>
      /\ \A i \in DOMAIN log' : i \in DOMAIN log \/ i = Len(log) + 1
      /\ \A i \in DOMAIN log : i < Len(log) + 1
      /\ DOMAIN log' \subseteq Nat
  BY LogGrows
<1>2. \A m, n : SentBefore(m, n)' <=> SentBefore(m, n)
  BY DEF SentBefore
<1>3. SUFFICES ASSUME NEW i \in DOMAIN log', NEW j \in DOMAIN log', i < j,
                      log'[i][1] \in Mutations, log'[j][1] \in Mutations
               PROVE  SentBefore(log'[i][1], log'[j][1])
  BY <1>2 DEF Sorted, LogIds
<1>4. i \in DOMAIN log
  BY <1>1, <1>3
<1>5. CASE j \in DOMAIN log
  <2>1. i \in DOMAIN LogIds /\ j \in DOMAIN LogIds
        /\ LogIds[i] = log'[i][1] /\ LogIds[j] = log'[j][1]
    BY <1>1, <1>4, <1>5 DEF LogIds
  <2> QED
    BY <1>3, <2>1 DEF Sorted
<1>6. CASE j = Len(log) + 1
  <2>1. log'[j][1] = id /\ HasRun(log'[i][1])
    BY <1>1, <1>4, <1>6 DEF HasRun
  <2> QED
    BY <1>3, <2>1
<1> QED
  BY <1>1, <1>5, <1>6

(* A sequence stays sorted without its first element.                      *)
LEMMA TailSorted ==
  ASSUME NEW S, NEW s \in Seq(S), s # <<>>, Sorted(s)
  PROVE  /\ Sorted(Tail(s))
         /\ Head(s) \in Mutations =>
               \A m \in Mutations : m \in ToSet(Tail(s)) => SentBefore(Head(s), m)
<1>1. /\ Head(s) = s[1] /\ 1 \in DOMAIN s
      /\ \A i \in DOMAIN Tail(s) : i \in Nat /\ i + 1 \in DOMAIN s /\ Tail(s)[i] = s[i + 1]
      /\ DOMAIN Tail(s) = 1..Len(Tail(s)) /\ Len(Tail(s)) \in Nat
  BY TailIs, LenProperties
<1> DEFINE t == Tail(s)
           n == Len(t)
<1> HIDE DEF t, n
<1>2. /\ \A i \in DOMAIN t : i \in Nat /\ i >= 1 /\ i + 1 \in DOMAIN s /\ t[i] = s[i + 1]
  BY <1>1 DEF t, n
<1>3. Sorted(t)
  <2>1. SUFFICES ASSUME NEW i \in DOMAIN t, NEW j \in DOMAIN t, i < j,
                        t[i] \in Mutations, t[j] \in Mutations
                 PROVE  SentBefore(t[i], t[j])
    BY DEF Sorted
  <2>2. i + 1 < j + 1
    BY <1>2, <2>1
  <2> QED
    BY <1>2, <2>1, <2>2 DEF Sorted
<1>4. ASSUME Head(s) \in Mutations, NEW m \in Mutations, m \in ToSet(t)
      PROVE  SentBefore(Head(s), m)
  <2>1. PICK i \in DOMAIN t : t[i] = m
    BY <1>4 DEF ToSet
  <2>2. 1 < i + 1 /\ s[i + 1] = m /\ i + 1 \in DOMAIN s
    BY <1>2, <2>1
  <2> QED
    BY <1>1, <1>4, <2>2 DEF Sorted
<1> QED
  BY <1>3, <1>4 DEF t

(* And with one more at the end, if that comes after all of them.          *)
LEMMA AppendSorted ==
  ASSUME NEW S, NEW s \in Seq(S), NEW e \in S, Sorted(s),
         e \in Mutations => \A m \in Mutations : m \in ToSet(s) => SentBefore(m, e)
  PROVE  Sorted(Append(s, e))
<1> DEFINE t == Append(s, e)
<1>1. /\ \A i \in DOMAIN s : i \in Nat /\ i < Len(s) + 1
      /\ \A i \in DOMAIN s : i \in DOMAIN t /\ t[i] = s[i]
      /\ t[Len(s) + 1] = e
      /\ \A i \in DOMAIN t : i \in DOMAIN s \/ i = Len(s) + 1
      /\ Len(s) \in Nat
  BY AppendIs
<1> HIDE DEF t
<1>2. SUFFICES ASSUME NEW i \in DOMAIN t, NEW j \in DOMAIN t, i < j,
                      t[i] \in Mutations, t[j] \in Mutations
               PROVE  SentBefore(t[i], t[j])
  BY DEF Sorted, t
<1>3. i \in DOMAIN s
  BY <1>1, <1>2
<1>4. CASE j \in DOMAIN s
  BY <1>1, <1>2, <1>3, <1>4 DEF Sorted
<1>5. CASE j = Len(s) + 1
  BY <1>1, <1>2, <1>3, <1>5 DEF ToSet
<1> QED
  BY <1>1, <1>4, <1>5

LEMMA EmptySorted == Sorted(<<>>)
BY EmptyIs DEF Sorted

LEMMA SortedStays ==
  ASSUME NEW s, sent' = sent
  PROVE  /\ Sorted(s)' <=> Sorted(s)
         /\ \A m, n : SentBefore(m, n)' <=> SentBefore(m, n)
BY DEF Sorted, SentBefore

-----------------------------------------------------------------------------
(* Steps along the line                                                    *)

LEMMA WriterTakesLine ==
  ASSUME TypeInv, Places, LineInv, WriterTakes, UNCHANGED <<core, commands, sent>>
  PROVE  /\ Places' /\ LineInv'
         /\ \A m \in Mutations : InLine(m)' <=> InLine(m)
<1> PICK t : t = Tail(requests)
  OBVIOUS
<1> PICK h : h = Head(requests)
  OBVIOUS
<1>1. /\ requests # <<>> /\ requests' = t /\ writer' = [pc |-> "write", id |-> h]
      /\ writer.pc = "idle" /\ log' = log
  BY DEF WriterTakes
<1>2. requests \in Seq(Ids)
  BY DEF TypeInv, DatabaseTyped
<1>3. \A x : x \in ToSet(requests) <=> x = h \/ x \in ToSet(t)
  BY <1>1, <1>2, TailIs
<1>4. /\ \A m \in Mutations : AtWriter(m)' <=> m = h
      /\ \A m \in Mutations : ~AtWriter(m)
      /\ \A m \in Mutations : HasRun(m)' <=> HasRun(m)
      /\ \A m \in Mutations : Waits(m)' <=> Waits(m)
      /\ InHand' = InHand /\ LogIds' = LogIds
      /\ \A m, n : SentBefore(m, n)' <=> SentBefore(m, n)
      /\ \A x : (x \in ToSet(requests))' <=> x \in ToSet(t)
  <2>1. \A m, n : SentBefore(m, n)' <=> SentBefore(m, n)
    BY DEF SentBefore
  <2>2. InHand' = InHand /\ LogIds' = LogIds
    BY <1>1 DEF InHand, LogIds
  <2>3. \A m \in Mutations : Waits(m)' <=> Waits(m)
    BY DEF Waits
  <2>4. \A m \in Mutations : HasRun(m)' <=> HasRun(m)
    BY <1>1 DEF HasRun
  <2> QED
    BY <1>1, <2>1, <2>2, <2>3, <2>4 DEF AtWriter
<1>5. \A m \in Mutations :
         /\ Started(m)' <=> HasRun(m) \/ m = h
         /\ Started(m) <=> HasRun(m)
         /\ Submitted(m)' <=> Submitted(m)
  BY <1>3, <1>4 DEF Started, Submitted
<1>6. \A m \in Mutations : (Taken(m)' <=> Taken(m)) /\ (InLine(m)' <=> InLine(m))
  BY <1>4, <1>5 DEF Taken, InLine
<1>7. Places'
  BY <1>6 DEF Places
<1>8. Sorted(t) /\ (h \in Mutations => \A m \in Mutations : m \in ToSet(t) => SentBefore(h, m))
  BY <1>1, <1>2, TailSorted DEF LineInv
<1>9. Sorted(requests)' /\ Sorted(LogIds)' /\ Sorted(InHand)'
  BY <1>1, <1>4, <1>8 DEF LineInv, Sorted
<1>10. LineInv'
  BY <1>3, <1>4, <1>5, <1>6, <1>8, <1>9 DEF LineInv
<1> QED
  BY <1>6, <1>7, <1>10

(* The write that runs leaves the writer for the log.                      *)
LEMMA WriterRanLine ==
  ASSUME TypeInv, Places, LineInv, NEW ok \in BOOLEAN, WriterRan(ok),
         UNCHANGED <<core, commands, sent>>
  PROVE  /\ Places' /\ LineInv'
         /\ \A m \in Mutations : InLine(m)' <=> InLine(m)
<1> PICK h : h = writer.id
  OBVIOUS
<1>1. /\ writer.pc = "write" /\ log' = Append(log, <<h, ok>>) /\ writer'.pc # "write"
      /\ requests' = requests
  BY DEF WriterRan, Ran, Idle
<1>2. h \in Ids
  BY <1>1 DEF TypeInv, DatabaseTyped, WriterStates
<1>3. \A m : HasRun(m)' <=> HasRun(m) \/ m = h
  BY <1>1, <1>2, LogGrows
<1>4. /\ \A m \in Mutations : AtWriter(m) <=> m = h
      /\ \A m \in Mutations : ~AtWriter(m)'
      /\ \A m \in Mutations : Waits(m)' <=> Waits(m)
      /\ InHand' = InHand
      /\ \A m, n : SentBefore(m, n)' <=> SentBefore(m, n)
  <2>1. \A m, n : SentBefore(m, n)' <=> SentBefore(m, n)
    BY DEF SentBefore
  <2>2. InHand' = InHand
    BY <1>1 DEF InHand
  <2>3. \A m \in Mutations : Waits(m)' <=> Waits(m)
    BY DEF Waits
  <2> QED
    BY <1>1, <2>1, <2>2, <2>3 DEF AtWriter
<1>5. \A m \in Mutations :
         /\ Started(m)' <=> Started(m) /\ (Submitted(m)' <=> Submitted(m))
         /\ Started(m) <=> HasRun(m) \/ m = h
  BY <1>1, <1>3, <1>4 DEF Started, Submitted
<1>6. \A m \in Mutations : (Taken(m)' <=> Taken(m)) /\ (InLine(m)' <=> InLine(m))
  BY <1>1, <1>3, <1>4 DEF Started, Submitted, Taken, InLine
<1>7. Places'
  BY <1>6 DEF Places
<1>8. Sorted(LogIds)'
  <2>1. h \in Mutations => \A m \in Mutations : HasRun(m) => SentBefore(m, h)
    BY <1>4 DEF LineInv
  <2> QED
    BY <1>1, <1>2, <2>1, LogSorted DEF LineInv
<1>9. Sorted(requests)' /\ Sorted(InHand)'
  BY <1>1, <1>4 DEF LineInv, Sorted
<1>10. LineInv'
  <2>1. \A m \in Mutations : (Started(m)' <=> Started(m)) /\ (Submitted(m)' <=> Submitted(m))
    BY <1>1, <1>3, <1>4 DEF Started, Submitted
  <2> QED
    BY <1>1, <1>4, <1>6, <1>8, <1>9, <2>1 DEF LineInv
<1> QED
  BY <1>6, <1>7, <1>10

(* During the drain one goes from the queue to the log.                    *)
LEMMA WriterDrainsLine ==
  ASSUME TypeInv, Places, LineInv, NEW ok \in BOOLEAN, WriterDrains(ok),
         UNCHANGED <<core, commands, sent>>
  PROVE  /\ Places' /\ LineInv'
         /\ \A m \in Mutations : InLine(m)' <=> InLine(m)
<1>0. writer.pc = "drain" /\ writer'.pc # "write"
  <2>1. writer \in WriterStates /\ writer.pc = "drain"
    BY DEF WriterDrains, TypeInv, DatabaseTyped
  <2>2. writer \in [pc : {"drain", "stopped", "dead"}, ok : BOOLEAN]
    BY <2>1 DEF WriterStates
  <2> QED
    BY <2>1, <2>2 DEF WriterDrains
<1>1. CASE requests = <<>>
  <2>1. requests' = requests /\ log' = log /\ InHand' = InHand
    BY <1>1 DEF WriterDrains, InHand
  <2>2. \A m \in Mutations : AtWriter(m)' <=> AtWriter(m)
    BY <1>0 DEF AtWriter
  <2> QED
    BY <2>1, <2>2, LineStays
<1>2. CASE requests # <<>>
  <2> PICK t : t = Tail(requests)
    OBVIOUS
  <2> PICK h : h = Head(requests)
    OBVIOUS
  <2>1. requests' = t /\ log' = Append(log, <<h, ok>>)
    BY <1>2 DEF WriterDrains, Ran
  <2>2. requests \in Seq(Ids)
    BY DEF TypeInv, DatabaseTyped
  <2>3. h \in Ids /\ \A x : x \in ToSet(requests) <=> x = h \/ x \in ToSet(t)
    BY <1>2, <2>2, TailIs
  <2>4. \A m : HasRun(m)' <=> HasRun(m) \/ m = h
    BY <2>1, <2>3, LogGrows
  <2>5. /\ \A m \in Mutations : ~AtWriter(m) /\ ~AtWriter(m)'
        /\ \A m \in Mutations : Waits(m)' <=> Waits(m)
        /\ InHand' = InHand
        /\ \A m, n : SentBefore(m, n)' <=> SentBefore(m, n)
    <3>1. \A m, n : SentBefore(m, n)' <=> SentBefore(m, n)
      BY DEF SentBefore
    <3>2. InHand' = InHand
      BY DEF InHand
    <3>3. \A m \in Mutations : Waits(m)' <=> Waits(m)
      BY DEF Waits
    <3> QED
      BY <1>0, <3>1, <3>2, <3>3 DEF AtWriter
  <2>6. \A m \in Mutations :
           /\ Started(m)' <=> HasRun(m) \/ m = h
           /\ Started(m) <=> HasRun(m)
    BY <2>4, <2>5 DEF Started
  <2>7. \A m \in Mutations :
           /\ Submitted(m)' <=> Submitted(m)
           /\ Taken(m)' <=> Taken(m)
           /\ InLine(m)' <=> InLine(m)
    BY <2>1, <2>3, <2>5, <2>6 DEF Submitted, Taken, InLine
  <2>8. Places'
    BY <2>7 DEF Places
  <2>9. Sorted(t) /\ (h \in Mutations => \A m \in Mutations : m \in ToSet(t) => SentBefore(h, m))
    BY <1>2, <2>2, TailSorted DEF LineInv
  <2>10. Sorted(LogIds)'
    <3>1. h \in Mutations => \A m \in Mutations : HasRun(m) => SentBefore(m, h)
      BY <2>3, <2>6 DEF LineInv
    <3> QED
      BY <2>1, <2>3, <3>1, LogSorted DEF LineInv
  <2>11. Sorted(requests)' /\ Sorted(InHand)'
    BY <2>1, <2>5, <2>9 DEF LineInv, Sorted
  <2>12. LineInv'
    BY <2>1, <2>3, <2>5, <2>6, <2>7, <2>9, <2>10, <2>11 DEF LineInv
  <2> QED
    BY <2>7, <2>8, <2>12
<1> QED
  BY <1>1, <1>2

(* What waits in the queue of a writer that dies leaves the line.          *)
LEMMA BackfillFailsLine ==
  ASSUME TypeInv, Places, LineInv, BackfillFails, UNCHANGED <<core, commands, sent>>
  PROVE  /\ Places' /\ LineInv'
         /\ \A m \in Mutations : InLine(m)' => InLine(m)
<1>1. /\ requests' = <<>> /\ log' = log /\ writer.pc = "backfill" /\ writer'.pc = "dead"
      /\ InHand' = InHand /\ LogIds' = LogIds
  BY DEF BackfillFails, InHand, LogIds
<1>2. /\ \A m \in Mutations : ~AtWriter(m) /\ ~AtWriter(m)'
      /\ \A m \in Mutations : Waits(m)' <=> Waits(m)
      /\ \A m \in Mutations : HasRun(m)' <=> HasRun(m)
      /\ \A m, n : SentBefore(m, n)' <=> SentBefore(m, n)
      /\ \A x : ~(x \in ToSet(requests))'
  <2>1. \A m, n : SentBefore(m, n)' <=> SentBefore(m, n)
    BY DEF SentBefore
  <2>2. \A m \in Mutations : Waits(m)' <=> Waits(m)
    BY DEF Waits
  <2>3. \A m \in Mutations : HasRun(m)' <=> HasRun(m)
    BY <1>1 DEF HasRun
  <2>4. \A x : ~(x \in ToSet(requests))'
    BY <1>1, EmptyIs
  <2> QED
    BY <1>1, <2>1, <2>2, <2>3, <2>4 DEF AtWriter
<1>3. \A m \in Mutations :
         /\ Started(m)' <=> Started(m)
         /\ Submitted(m)' => Submitted(m)
         /\ Taken(m)' => Taken(m)
         /\ InLine(m)' => InLine(m)
  BY <1>1, <1>2 DEF Started, Submitted, Taken, InLine
<1>4. Places'
  BY <1>3 DEF Places
<1>5. Sorted(LogIds)' /\ Sorted(InHand)' /\ Sorted(requests)'
  <2>1. Sorted(<<>>)
    BY EmptySorted
  <2> QED
    BY <1>1, <1>2, <2>1 DEF LineInv, Sorted
<1>6. LineInv'
  BY <1>1, <1>2, <1>3, <1>5 DEF LineInv
<1> QED
  BY <1>3, <1>4, <1>6

(* A mutation that the interface sends is behind all the others.           *)
LEMMA UiMutatesLine ==
  ASSUME TypeInv, Places, LineInv, NEW c \in Mutations, UiMutates(c)
  PROVE  /\ Places' /\ LineInv'
         /\ \A m \in Mutations : m \in ToSet(sent) => (InLine(m)' => InLine(m))
         /\ \A m : m \in ToSet(sent') <=> m = c \/ m \in ToSet(sent)
<1>1. /\ sent' = Append(sent, c) /\ commands' = Append(commands, <<"mutate", c>>)
      /\ c \notin ToSet(sent) /\ log' = log /\ requests' = requests /\ writer' = writer
      /\ core' = core
  BY DEF UiMutates, uiVars, dbVars
<1>2. /\ sent \in Seq(Mutations) /\ commands \in Seq(Commands)
      /\ <<"mutate", c>> \in Commands
  BY DEF TypeInv, CoreTyped, Commands
<1>3. /\ \A i \in DOMAIN sent : i \in DOMAIN sent' /\ sent'[i] = sent[i] /\ i < Len(sent) + 1
      /\ Len(sent) + 1 \in DOMAIN sent' /\ sent'[Len(sent) + 1] = c
      /\ \A i \in DOMAIN sent' : i \in DOMAIN sent \/ i = Len(sent) + 1
      /\ \A m : m \in ToSet(sent') <=> m = c \/ m \in ToSet(sent)
  BY <1>1, <1>2, AppendIs
<1>4. /\ \A m, n : SentBefore(m, n) => SentBefore(m, n)'
      /\ \A m \in ToSet(sent) : SentBefore(m, c)'
  <2>1. \A m, n : SentBefore(m, n) => SentBefore(m, n)'
    BY <1>3 DEF SentBefore
  <2>2. ASSUME NEW m \in ToSet(sent)
        PROVE  SentBefore(m, c)'
    <3>1. PICK i \in DOMAIN sent : sent[i] = m
      BY DEF ToSet
    <3> QED
      BY <1>3, <3>1 DEF SentBefore
  <2> QED
    BY <2>1, <2>2
<1> PICK e : e = <<"mutate", c>>
  OBVIOUS
<1>5. /\ \A i \in DOMAIN commands : /\ i \in DOMAIN commands' /\ commands'[i] = commands[i]
                                    /\ i < Len(commands) + 1
      /\ Len(commands) + 1 \in DOMAIN commands' /\ commands'[Len(commands) + 1] = e
      /\ \A i \in DOMAIN commands' : i \in DOMAIN commands \/ i = Len(commands) + 1
      /\ \A i \in DOMAIN commands : i \in Nat
      /\ Len(commands) \in Nat
  <2>1. commands' = Append(commands, e) /\ e \in Commands
    BY <1>1, <1>2
  <2> QED
    BY <1>2, <2>1, AppendIs
<1>6. \A m \in Mutations : Waits(m)' <=> Waits(m) \/ m = c
  BY <1>5 DEF Waits
<1>7. /\ \A m \in Mutations : HasRun(m)' <=> HasRun(m)
      /\ \A m \in Mutations : AtWriter(m)' <=> AtWriter(m)
      /\ InHand' = InHand /\ LogIds' = LogIds
  BY <1>1 DEF HasRun, AtWriter, InHand, LogIds
<1>8. \A m \in Mutations :
         /\ Started(m)' <=> Started(m)
         /\ Submitted(m)' <=> Submitted(m)
         /\ Taken(m)' <=> Taken(m)
         /\ InLine(m)' <=> InLine(m) \/ m = c
  BY <1>1, <1>6, <1>7 DEF Started, Submitted, Taken, InLine
<1>9. Places'
  <2>1. \A m \in Mutations : InLine(m)' => m \in ToSet(sent')
    BY <1>3, <1>8 DEF Places
  <2>2. \A i \in DOMAIN sent : sent[i] # c
    BY <1>1 DEF ToSet
  <2>3. \A i, j \in DOMAIN sent' : sent'[i] = sent'[j] => i = j
    BY <1>3, <2>2 DEF Places
  <2> QED
    BY <2>1, <2>3 DEF Places
<1>10. Sorted(LogIds)' /\ Sorted(requests)' /\ Sorted(InHand)'
  BY <1>1, <1>4, <1>7 DEF LineInv, Sorted
<1>11. \A i, j \in DOMAIN commands' : \A m, n \in Mutations :
          i < j /\ commands'[i] = <<"mutate", m>> /\ commands'[j] = <<"mutate", n>>
              => SentBefore(m, n)'
  <2>1. SUFFICES ASSUME NEW i \in DOMAIN commands', NEW j \in DOMAIN commands',
                        NEW m \in Mutations, NEW n \in Mutations, i < j,
                        commands'[i] = <<"mutate", m>>, commands'[j] = <<"mutate", n>>
                 PROVE  SentBefore(m, n)'
    OBVIOUS
  <2>2. i \in DOMAIN commands
    BY <1>5, <2>1
  <2>3. CASE j \in DOMAIN commands
    BY <1>4, <1>5, <2>1, <2>2, <2>3 DEF LineInv
  <2>4. CASE j = Len(commands) + 1
    <3>1. n = c
      BY <1>5, <2>1, <2>4
    <3>2. Waits(m)
      BY <1>5, <2>1, <2>2 DEF Waits
    <3>3. m \in ToSet(sent)
      BY <3>2 DEF Places, InLine
    <3> QED
      BY <1>4, <3>1, <3>3
  <2> QED
    BY <1>5, <2>3, <2>4
<1>12. \A m, n \in Mutations : Taken(m)' /\ Waits(n)' => SentBefore(m, n)'
  <2>1. \A m \in Mutations : Taken(m) => m \in ToSet(sent)
    BY DEF Places, InLine
  <2> QED
    BY <1>4, <1>6, <1>8, <2>1 DEF LineInv
<1>13. LineInv'
  BY <1>1, <1>4, <1>7, <1>8, <1>10, <1>11, <1>12 DEF LineInv
<1> QED
  BY <1>1, <1>3, <1>8, <1>9, <1>13

(* Only queries come to the commands, or go.                               *)
LEMMA QueriesMoveLine ==
  ASSUME TypeInv, Places, LineInv, UNCHANGED <<log, requests, writer, sent>>,
         InHand' = InHand, NEW q \in Queries,
         \/ commands' = Append(commands, q)
         \/ commands # <<>> /\ Head(commands) = q /\ commands' = Tail(commands)
  PROVE  /\ Places' /\ LineInv'
         /\ \A m \in Mutations : InLine(m)' <=> InLine(m)
<1>0. commands \in Seq(Commands) /\ q \in Commands
  BY DEF TypeInv, CoreTyped, Commands
<1>1. \A m : q # <<"mutate", m>>
  BY DatabaseAssumption, RuntimeAssumption DEF Queries, Kinds
<1>2. /\ \A m \in Mutations : Waits(m)' <=> Waits(m)
      /\ \A i, j \in DOMAIN commands' : \A m, n \in Mutations :
            i < j /\ commands'[i] = <<"mutate", m>> /\ commands'[j] = <<"mutate", n>>
                => SentBefore(m, n)
  <2>1. CASE commands' = Append(commands, q)
    <3>1. /\ \A i \in DOMAIN commands : i \in DOMAIN commands' /\ commands'[i] = commands[i]
          /\ Len(commands) + 1 \in DOMAIN commands' /\ commands'[Len(commands) + 1] = q
          /\ \A i \in DOMAIN commands' : i \in DOMAIN commands \/ i = Len(commands) + 1
      BY <1>0, <2>1, AppendIs
    <3>2. \A i \in DOMAIN commands' : \A m :
             commands'[i] = <<"mutate", m>> => i \in DOMAIN commands /\ commands[i] = <<"mutate", m>>
      BY <1>1, <3>1
    <3>3. \A m \in Mutations : Waits(m)' <=> Waits(m)
      BY <3>1, <3>2 DEF Waits
    <3> QED
      BY <3>2, <3>3 DEF LineInv
  <2>2. CASE commands # <<>> /\ Head(commands) = q /\ commands' = Tail(commands)
    <3> PICK t : t = Tail(commands)
      OBVIOUS
    <3>1. /\ commands[1] = q
          /\ \A i \in DOMAIN t : i \in Nat /\ i + 1 \in DOMAIN commands /\ t[i] = commands[i + 1]
          /\ \A i \in DOMAIN commands : i # 1 => i - 1 \in DOMAIN t
          /\ \A i \in DOMAIN commands : i \in Nat
          /\ commands' = t
      BY <1>0, <2>2, TailIs, LenProperties
    <3>2. \A m \in Mutations : Waits(m)' <=> Waits(m)
      <4>1. ASSUME NEW i \in DOMAIN commands, NEW m \in Mutations, commands[i] = <<"mutate", m>>
            PROVE  i - 1 \in DOMAIN t /\ t[i - 1] = <<"mutate", m>>
        <5>1. i # 1
          BY <1>1, <3>1, <4>1
        <5>2. i - 1 \in DOMAIN t /\ i \in Nat
          BY <3>1, <5>1
        <5>3. (i - 1) + 1 = i
          BY <5>2
        <5> QED
          BY <3>1, <4>1, <5>2, <5>3
      <4> QED
        BY <3>1, <4>1 DEF Waits
    <3>3. ASSUME NEW i \in DOMAIN t, NEW j \in DOMAIN t, NEW m \in Mutations,
                 NEW n \in Mutations, i < j, t[i] = <<"mutate", m>>, t[j] = <<"mutate", n>>
          PROVE  SentBefore(m, n)
      <4>1. i + 1 < j + 1
        BY <3>1, <3>3
      <4>2. /\ i + 1 \in DOMAIN commands /\ commands[i + 1] = <<"mutate", m>>
            /\ j + 1 \in DOMAIN commands /\ commands[j + 1] = <<"mutate", n>>
        BY <3>1, <3>3
      <4> QED
        BY <4>1, <4>2 DEF LineInv
    <3>4. \A i, j \in DOMAIN t : \A m, n \in Mutations :
             i < j /\ t[i] = <<"mutate", m>> /\ t[j] = <<"mutate", n>> => SentBefore(m, n)
      BY <3>3
    <3>5. commands' = t
      BY <3>1
    <3> QED
      BY <3>2, <3>4, <3>5
  <2> QED
    BY <2>1, <2>2
<1>3. /\ \A m \in Mutations : HasRun(m)' <=> HasRun(m)
      /\ \A m \in Mutations : AtWriter(m)' <=> AtWriter(m)
      /\ LogIds' = LogIds
      /\ \A m, n : SentBefore(m, n)' <=> SentBefore(m, n)
  BY DEF HasRun, AtWriter, LogIds, SentBefore
<1>4. \A m \in Mutations :
         /\ Started(m)' <=> Started(m)
         /\ Submitted(m)' <=> Submitted(m)
         /\ Taken(m)' <=> Taken(m)
         /\ InLine(m)' <=> InLine(m)
  BY <1>2, <1>3 DEF Started, Submitted, Taken, InLine
<1>5. Places'
  BY <1>4 DEF Places
<1>6. Sorted(LogIds)' /\ Sorted(requests)' /\ Sorted(InHand)'
  BY <1>3 DEF LineInv, Sorted
<1>7. LineInv'
  BY <1>2, <1>3, <1>4, <1>6 DEF LineInv
<1> QED
  BY <1>4, <1>5, <1>7

(* What the core had in hand is dropped.                                   *)
LEMMA DropLine ==
  ASSUME TypeInv, Places, LineInv, UNCHANGED <<log, requests, writer, sent, commands>>,
         InHand' = <<>>
  PROVE  /\ Places' /\ LineInv'
         /\ \A m \in Mutations : InLine(m)' => InLine(m) /\ m \notin ToSet(InHand)
<1>1. /\ \A m \in Mutations : HasRun(m)' <=> HasRun(m)
      /\ \A m \in Mutations : AtWriter(m)' <=> AtWriter(m)
      /\ \A m \in Mutations : Waits(m)' <=> Waits(m)
      /\ LogIds' = LogIds
      /\ \A m, n : SentBefore(m, n)' <=> SentBefore(m, n)
      /\ \A m : m \notin ToSet(InHand')
  BY EmptyIs DEF HasRun, AtWriter, LogIds, SentBefore, Waits
<1>2. \A m \in Mutations :
         /\ Started(m)' <=> Started(m)
         /\ Submitted(m)' <=> Submitted(m)
         /\ Taken(m)' <=> Submitted(m)
         /\ Taken(m)' => Taken(m)
         /\ InLine(m)' => InLine(m)
         /\ InLine(m)' <=> Submitted(m) \/ Waits(m)
  BY <1>1 DEF Started, Submitted, Taken, InLine
<1>3. Places'
  BY <1>2 DEF Places
<1>4. Sorted(LogIds)' /\ Sorted(requests)' /\ Sorted(InHand)'
  <2>1. Sorted(<<>>)
    BY EmptySorted
  <2> QED
    BY <1>1, <2>1 DEF LineInv, Sorted
<1>5. LineInv'
  BY <1>1, <1>2, <1>4 DEF LineInv
<1>6. \A m \in Mutations : InLine(m)' => m \notin ToSet(InHand)
  BY <1>2, OnePlace DEF Taken
<1> QED
  BY <1>2, <1>3, <1>5, <1>6

(* A write without a place in the line is submitted.                       *)
LEMMA CallLine ==
  ASSUME TypeInv, Places, LineInv, UNCHANGED <<log, writer, sent, commands>>,
         InHand' = InHand, NEW w \in Writes, requests' = Append(requests, w)
  PROVE  /\ Places' /\ LineInv'
         /\ \A m \in Mutations : InLine(m)' <=> InLine(m)
<1>1. requests \in Seq(Ids) /\ w \in Ids /\ w \notin Mutations
  BY DatabaseAssumption DEF TypeInv, DatabaseTyped, Ids
<1>2. \A m \in Mutations : m \in ToSet(requests') <=> m \in ToSet(requests)
  BY <1>1, AppendIs
<1>3. /\ \A m \in Mutations : HasRun(m)' <=> HasRun(m)
      /\ \A m \in Mutations : AtWriter(m)' <=> AtWriter(m)
      /\ \A m \in Mutations : Waits(m)' <=> Waits(m)
      /\ LogIds' = LogIds
      /\ \A m, n : SentBefore(m, n)' <=> SentBefore(m, n)
  BY DEF HasRun, AtWriter, LogIds, SentBefore, Waits
<1>4. \A m \in Mutations :
         /\ Started(m)' <=> Started(m)
         /\ Submitted(m)' <=> Submitted(m)
         /\ Taken(m)' <=> Taken(m)
         /\ InLine(m)' <=> InLine(m)
  BY <1>2, <1>3 DEF Started, Submitted, Taken, InLine
<1>5. Places'
  BY <1>4 DEF Places
<1>6. Sorted(LogIds)' /\ Sorted(requests)' /\ Sorted(InHand)'
  <2>1. Sorted(Append(requests, w))
    BY <1>1, AppendSorted DEF LineInv
  <2> QED
    BY <1>3, <2>1 DEF LineInv, Sorted
<1>7. LineInv'
  BY <1>2, <1>3, <1>4, <1>6 DEF LineInv
<1> QED
  BY <1>4, <1>5, <1>7

(* The first of the commands is a mutation; the others come after it.      *)
LEMMA CommandsGoOn ==
  ASSUME TypeInv, LineInv, sent' = sent, NEW c \in Mutations, commands # <<>>,
         Head(commands) = <<"mutate", c>>, commands' = Tail(commands)
  PROVE  /\ \A m \in Mutations : Waits(m) <=> m = c \/ Waits(m)'
         /\ \A m \in Mutations : Waits(m)' => SentBefore(c, m)
         /\ \A i, j \in DOMAIN commands' : \A m, n \in Mutations :
               i < j /\ commands'[i] = <<"mutate", m>> /\ commands'[j] = <<"mutate", n>>
                   => SentBefore(m, n)
<1> PICK t : t = Tail(commands)
  OBVIOUS
<1>0. commands \in Seq(Commands)
  BY DEF TypeInv, CoreTyped
<1>1. /\ commands[1] = <<"mutate", c>> /\ 1 \in DOMAIN commands
      /\ \A i \in DOMAIN t : i \in Nat /\ i + 1 \in DOMAIN commands /\ t[i] = commands[i + 1]
      /\ \A i \in DOMAIN commands : i # 1 => i - 1 \in DOMAIN t
      /\ \A i \in DOMAIN commands : i \in Nat
      /\ commands' = t
      /\ DOMAIN t = 1..Len(t) /\ Len(t) \in Nat
  <2>1. t \in Seq(Commands) /\ Len(t) \in Nat
    BY <1>0, TailIs
  <2>2. DOMAIN t = 1..Len(t)
    BY <2>1, LenProperties
  <2> QED
    BY <1>0, <2>1, <2>2, TailIs, LenProperties
<1>2. \A m, n \in Mutations : <<"mutate", m>> = <<"mutate", n>> => m = n
  OBVIOUS
<1>3. ASSUME NEW m \in Mutations
      PROVE  Waits(m) <=> m = c \/ Waits(m)'
  <2>1. ASSUME NEW i \in DOMAIN commands, commands[i] = <<"mutate", m>>, m # c
        PROVE  i - 1 \in DOMAIN t /\ t[i - 1] = <<"mutate", m>>
    <3>1. i # 1
      BY <1>1, <1>2, <2>1
    <3>2. i - 1 \in DOMAIN t /\ i \in Nat
      BY <1>1, <3>1
    <3>3. (i - 1) + 1 = i
      BY <3>2
    <3> QED
      BY <1>1, <2>1, <3>2, <3>3
  <2> QED
    BY <1>1, <2>1 DEF Waits
<1>4. ASSUME NEW m \in Mutations, Waits(m)'
      PROVE  SentBefore(c, m)
  <2>1. PICK i \in DOMAIN t : t[i] = <<"mutate", m>>
    BY <1>1, <1>4 DEF Waits
  <2>2. i + 1 \in DOMAIN commands /\ commands[i + 1] = <<"mutate", m>> /\ 1 < i + 1
    BY <1>1, <2>1
  <2> QED
    BY <1>1, <2>2 DEF LineInv
<1>5. ASSUME NEW i \in DOMAIN t, NEW j \in DOMAIN t, NEW m \in Mutations,
             NEW n \in Mutations, i < j, t[i] = <<"mutate", m>>, t[j] = <<"mutate", n>>
      PROVE  SentBefore(m, n)
  <2>1. i + 1 < j + 1
    BY <1>1, <1>5
  <2>2. /\ i + 1 \in DOMAIN commands /\ commands[i + 1] = <<"mutate", m>>
        /\ j + 1 \in DOMAIN commands /\ commands[j + 1] = <<"mutate", n>>
    BY <1>1, <1>5
  <2> QED
    BY <2>1, <2>2 DEF LineInv
<1> QED
  BY <1>1, <1>3, <1>4, <1>5

(* It is submitted, or stays in hand to be refused.                        *)
LEMMA MutateCommandLine ==
  ASSUME TypeInv, Places, LineInv, NEW c \in Mutations, MutateCommand(c)
  PROVE  /\ Places' /\ LineInv'
         /\ \A m \in Mutations : InLine(m)' <=> InLine(m)
<1>1. /\ commands # <<>> /\ Head(commands) = <<"mutate", c>> /\ commands' = Tail(commands)
      /\ core = Loop /\ UNCHANGED <<log, writer, sent>>
  BY DEF MutateCommand, Serving, CommandReady, dbSubmit, loopVars
<1>2. /\ \A m \in Mutations : Waits(m) <=> m = c \/ Waits(m)'
      /\ \A m \in Mutations : Waits(m)' => SentBefore(c, m)
      /\ \A i, j \in DOMAIN commands' : \A m, n \in Mutations :
            i < j /\ commands'[i] = <<"mutate", m>> /\ commands'[j] = <<"mutate", n>>
                => SentBefore(m, n)
  BY <1>1, CommandsGoOn
<1>3. /\ \A m \in Mutations : HasRun(m)' <=> HasRun(m)
      /\ \A m \in Mutations : AtWriter(m)' <=> AtWriter(m)
      /\ LogIds' = LogIds
      /\ \A m, n : SentBefore(m, n)' <=> SentBefore(m, n)
      /\ InHand = <<>> /\ \A m : m \notin ToSet(InHand)
  <2>1. InHand = <<>>
    BY <1>1 DEF InHand, Loop
  <2> QED
    BY <1>1, <2>1, EmptyIs DEF HasRun, AtWriter, LogIds, SentBefore
<1>4. \A m \in Mutations : Started(m)' <=> Started(m)
  BY <1>3 DEF Started
<1>5. \A m \in Mutations : Taken(m) <=> Submitted(m)
  BY <1>3 DEF Taken
<1>6. \A m \in Mutations : Submitted(m) => SentBefore(m, c) /\ m # c
  <2>1. Waits(c)
    BY <1>2
  <2>2. \A m \in Mutations : Submitted(m) => SentBefore(m, c)
    BY <1>5, <2>1 DEF LineInv
  <2> QED
    BY <2>2, NoneBeforeItself
<1>7. \/ /\ requests' = Append(requests, c) /\ InHand' = <<>>
      \/ /\ requests' = requests /\ InHand' = <<c>>
  <2>1. CASE WriteVerdict = "ok"
    <3>1. requests' = Append(requests, c) /\ core'.pc = "loop"
      BY <2>1 DEF MutateCommand, Loop
    <3> QED
      BY <3>1 DEF InHand
  <2>2. CASE WriteVerdict # "ok"
    <3>1. requests' = requests /\ core' = [pc |-> "send", event |-> Event("rejected", c)]
      BY <2>2 DEF MutateCommand
    <3>2. core'.pc = "send" /\ core'.event.kind = "rejected" /\ core'.event.id = c
      BY <3>1 DEF Event
    <3> QED
      BY <3>1, <3>2 DEF InHand
  <2> QED
    BY <2>1, <2>2
<1>8. CASE requests' = Append(requests, c) /\ InHand' = <<>>
  <2>1. requests \in Seq(Ids) /\ c \in Ids
    BY DEF TypeInv, DatabaseTyped, Ids
  <2>2. /\ \A m : m \in ToSet(requests') <=> m = c \/ m \in ToSet(requests)
        /\ \A m : m \notin ToSet(InHand')
    BY <1>8, <2>1, AppendIs, EmptyIs
  <2>3. \A m \in Mutations :
           /\ Submitted(m)' <=> m = c \/ Submitted(m)
           /\ Taken(m)' <=> m = c \/ Submitted(m)
           /\ InLine(m)' <=> InLine(m)
    BY <1>2, <1>4, <1>5, <2>2 DEF Submitted, Taken, InLine
  <2>4. Places'
    BY <1>1, <2>3 DEF Places
  <2>5. Sorted(LogIds)' /\ Sorted(requests)' /\ Sorted(InHand)'
    <3>1. Sorted(<<>>)
      BY EmptySorted
    <3>2. Sorted(Append(requests, c))
      BY <1>6, <2>1, AppendSorted DEF LineInv, Submitted
    <3> QED
      BY <1>3, <1>8, <3>1, <3>2 DEF LineInv, Sorted
  <2>6. \A m, n \in Mutations :
           /\ HasRun(m)' /\ AtWriter(n)' => SentBefore(m, n)
           /\ Started(m)' /\ n \in ToSet(requests') => SentBefore(m, n)
           /\ Taken(m)' /\ Waits(n)' => SentBefore(m, n)
    BY <1>2, <1>3, <1>4, <1>5, <1>6, <2>2, <2>3 DEF LineInv, Submitted
  <2>7. LineInv'
    BY <1>2, <1>3, <2>2, <2>5, <2>6 DEF LineInv
  <2> QED
    BY <2>3, <2>4, <2>7
<1>9. CASE requests' = requests /\ InHand' = <<c>>
  <2>1. \A m : m \in ToSet(InHand') <=> m = c
    BY <1>9, OneIs
  <2>2. \A m \in Mutations :
           /\ Submitted(m)' <=> Submitted(m)
           /\ Taken(m)' <=> m = c \/ Submitted(m)
           /\ InLine(m)' <=> InLine(m)
    BY <1>2, <1>4, <1>5, <1>9, <2>1 DEF Submitted, Taken, InLine
  <2>3. Places'
    BY <1>1, <2>2 DEF Places
  <2>4. Sorted(LogIds)' /\ Sorted(requests)' /\ Sorted(InHand)'
    <3>1. Sorted(<<c>>)
      <4>1. DOMAIN <<c>> = {1}
        BY OneIs
      <4> QED
        BY <4>1 DEF Sorted
    <3> QED
      BY <1>3, <1>9, <3>1 DEF LineInv, Sorted
  <2>5. \A m, n \in Mutations :
           /\ HasRun(m)' /\ AtWriter(n)' => SentBefore(m, n)
           /\ Started(m)' /\ n \in ToSet(requests') => SentBefore(m, n)
           /\ Submitted(m)' /\ n \in ToSet(InHand') => SentBefore(m, n)
           /\ Taken(m)' /\ Waits(n)' => SentBefore(m, n)
    BY <1>2, <1>3, <1>4, <1>5, <1>6, <1>9, <2>1, <2>2 DEF LineInv
  <2>6. LineInv'
    BY <1>2, <1>3, <2>4, <2>5 DEF LineInv
  <2> QED
    BY <2>2, <2>3, <2>6
<1> QED
  BY <1>7, <1>8, <1>9

(* The mutations that wait come to those in hand.                          *)
LEMMA AcceptedAre ==
  ASSUME TypeInv, LineInv, NEW s \in AcceptedMutations
  PROVE  /\ s \in Seq(Mutations) /\ Sorted(s)
         /\ \A m \in Mutations : m \in ToSet(s) <=> Waits(m)
<1> DEFINE places == {i \in DOMAIN commands : commands[i][1] = "mutate"}
           n == Cardinality(places)
<1>1. PICK f \in [1..n -> places] :
         /\ \A i, j \in DOMAIN f : i < j => f[i] < f[j]
         /\ s = [i \in DOMAIN f |-> commands[f[i]][2]]
  BY DEF AcceptedMutations
<1>2. commands \in Seq(Commands)
  BY DEF TypeInv, CoreTyped
<1>3. /\ DOMAIN commands = 1..Len(commands) /\ Len(commands) \in Nat
      /\ \A i \in DOMAIN commands : commands[i] \in Commands
  BY <1>2, LenProperties, ElementOfSeq
<1>4. \A i \in places : \E m \in Mutations : commands[i] = <<"mutate", m>> /\ commands[i][2] = m
  <2>1. TAKE i \in places
  <2>2. commands[i] \in Commands /\ commands[i][1] = "mutate"
    BY <1>3
  <2>3. commands[i] \notin Queries
    BY <2>2, RuntimeAssumption DEF Queries, Kinds
  <2>4. commands[i] \in {"mutate"} \X Mutations
    BY <2>2, <2>3 DEF Commands
  <2> QED
    BY <2>4
<1>5. IsFiniteSet(places) /\ n \in Nat
  <2>1. IsFiniteSet(1..Len(commands))
    BY <1>3, FS_Interval
  <2>2. places \subseteq 1..Len(commands)
    BY <1>3
  <2> QED
    BY <2>1, <2>2, FS_Subset, FS_CardinalityType
<1> HIDE DEF n
<1>6. DOMAIN f = 1..n /\ DOMAIN s = 1..n /\ \A i \in 1..n : s[i] = commands[f[i]][2]
  BY <1>1
<1>7. \A i \in 1..n : s[i] \in Mutations /\ commands[f[i]] = <<"mutate", s[i]>> /\ f[i] \in places
  BY <1>1, <1>4, <1>6
<1>8. s \in Seq(Mutations)
  <2>1. s \in [1..n -> Mutations]
    BY <1>1, <1>6, <1>7
  <2> QED
    BY <1>5, <2>1, SeqDef
<1>9. Sorted(s)
  <2>1. SUFFICES ASSUME NEW i \in 1..n, NEW j \in 1..n, i < j
                 PROVE  SentBefore(s[i], s[j])
    BY <1>6 DEF Sorted
  <2>2. f[i] < f[j] /\ f[i] \in DOMAIN commands /\ f[j] \in DOMAIN commands
    BY <1>1, <1>6, <1>7, <2>1
  <2> QED
    BY <1>7, <2>2 DEF LineInv
<1>10. ASSUME NEW m \in Mutations, m \in ToSet(s)
       PROVE  Waits(m)
  <2>1. PICK i \in 1..n : s[i] = m
    BY <1>6, <1>10 DEF ToSet
  <2> QED
    BY <1>7, <2>1 DEF Waits
<1>11. ASSUME NEW i \in places
       PROVE  \E j \in 1..n : f[j] = i
  <2>1. f \in Injection(1..n, places)
    <3>1. ASSUME NEW a \in 1..n, NEW b \in 1..n, f[a] = f[b]
          PROVE  a = b
      <4>1. f[a] \in Nat /\ f[b] \in Nat
        BY <1>3, <1>7
      <4>2. ~(a < b) /\ ~(b < a)
        BY <1>1, <1>6, <3>1, <4>1
      <4>3. a \in Nat /\ b \in Nat
        BY <1>5
      <4> QED
        BY <4>2, <4>3
    <3> HIDE DEF places
    <3> QED
      BY <1>1, <3>1 DEF Injection, IsInjective
  <2>2. IsFiniteSet(1..n) /\ Cardinality(1..n) = n
    <3>1. 1 \in Int /\ n \in Int
      BY <1>5
    <3>2. IsFiniteSet(1..n) /\ Cardinality(1..n) = IF 1 > n THEN 0 ELSE n - 1 + 1
      BY <3>1, FS_Interval
    <3> QED
      BY <1>5, <3>2
  <2> HIDE DEF places
  <2>3. f \in Surjection(1..n, places)
    BY <1>5, <2>1, <2>2, FS_Injection DEF n
  <2> QED
    BY <2>3 DEF Surjection
<1>12. ASSUME NEW m \in Mutations, Waits(m)
       PROVE  m \in ToSet(s)
  <2>1. PICK i \in DOMAIN commands : commands[i] = <<"mutate", m>>
    BY <1>12 DEF Waits
  <2>2. i \in places
    BY <2>1
  <2>3. PICK j \in 1..n : f[j] = i
    BY <1>11, <2>2
  <2>4. s[j] = m
    BY <1>6, <2>1, <2>3
  <2> QED
    BY <1>6, <2>4 DEF ToSet
<1> QED
  BY <1>8, <1>9, <1>10, <1>12

LEMMA ConcatSorted ==
  ASSUME NEW a \in Seq(Mutations), NEW b \in Seq(Mutations), Sorted(a), Sorted(b),
         \A m, n \in Mutations : m \in ToSet(a) /\ n \in ToSet(b) => SentBefore(m, n)
  PROVE  /\ a \o b \in Seq(Mutations) /\ Sorted(a \o b)
         /\ \A m : m \in ToSet(a \o b) <=> m \in ToSet(a) \/ m \in ToSet(b)
<1> DEFINE c == a \o b
           k == Len(a)
           n == Len(b)
<1>1. /\ c \in Seq(Mutations) /\ k \in Nat /\ n \in Nat
      /\ DOMAIN a = 1..k /\ DOMAIN b = 1..n /\ DOMAIN c = 1..(k + n)
      /\ \A i \in 1..(k + n) : c[i] = IF i <= k THEN a[i] ELSE b[i - k]
  <2>1. /\ c \in Seq(Mutations) /\ k \in Nat /\ n \in Nat /\ Len(c) = k + n
        /\ \A i \in 1..(k + n) : c[i] = IF i <= k THEN a[i] ELSE b[i - k]
    BY ConcatProperties, LenProperties
  <2> QED
    BY <2>1, LenProperties
<1> HIDE DEF c, k, n
<1>2. /\ \A i \in DOMAIN a : i \in DOMAIN c /\ c[i] = a[i]
      /\ \A i \in DOMAIN b : k + i \in DOMAIN c /\ c[k + i] = b[i]
  <2>1. \A i \in DOMAIN a : i \in DOMAIN c /\ c[i] = a[i]
    BY <1>1
  <2>2. ASSUME NEW i \in DOMAIN b
        PROVE  k + i \in DOMAIN c /\ c[k + i] = b[i]
    <3>1. i \in Nat /\ i >= 1 /\ i <= n
      BY <1>1
    <3>2. k + i \in 1..(k + n) /\ ~(k + i <= k) /\ (k + i) - k = i
      BY <1>1, <3>1
    <3> QED
      BY <1>1, <3>2
  <2> QED
    BY <2>1, <2>2
<1>3. \A i \in DOMAIN c :
         \/ i \in DOMAIN a /\ c[i] = a[i]
         \/ i > k /\ i - k \in DOMAIN b /\ c[i] = b[i - k]
  <2>1. TAKE i \in DOMAIN c
  <2>2. i \in Nat /\ i >= 1 /\ i <= k + n
    BY <1>1
  <2>3. CASE i <= k
    BY <1>1, <2>2, <2>3
  <2>4. CASE ~(i <= k)
    BY <1>1, <2>2, <2>4
  <2> QED
    BY <2>3, <2>4
<1>4. \A m : m \in ToSet(c) <=> m \in ToSet(a) \/ m \in ToSet(b)
  BY <1>2, <1>3 DEF ToSet
<1>5. Sorted(c)
  <2>1. SUFFICES ASSUME NEW i \in DOMAIN c, NEW j \in DOMAIN c, i < j,
                        c[i] \in Mutations, c[j] \in Mutations
                 PROVE  SentBefore(c[i], c[j])
    BY DEF Sorted
  <2>2. CASE i \in DOMAIN a /\ c[i] = a[i] /\ j \in DOMAIN a /\ c[j] = a[j]
    BY <2>1, <2>2 DEF Sorted
  <2>3. CASE i \in DOMAIN a /\ c[i] = a[i] /\ j > k /\ j - k \in DOMAIN b /\ c[j] = b[j - k]
    BY <2>1, <2>3 DEF ToSet
  <2>4. CASE /\ i > k /\ i - k \in DOMAIN b /\ c[i] = b[i - k]
             /\ j > k /\ j - k \in DOMAIN b /\ c[j] = b[j - k]
    <3>1. i - k < j - k
      BY <1>1, <2>1
    <3> QED
      BY <2>1, <2>4, <3>1 DEF Sorted
  <2>5. ~(i > k /\ j \in DOMAIN a)
    BY <1>1, <2>1
  <2> QED
    BY <1>3, <2>2, <2>3, <2>4, <2>5
<1> QED
  BY <1>1, <1>4, <1>5 DEF c

(* The shutdown takes the commands behind what the core had in hand.       *)
LEMMA FinishLine ==
  ASSUME TypeInv, Places, LineInv, NEW failed, Finish(InHand, failed)
  PROVE  /\ Places' /\ LineInv'
         /\ \A m \in Mutations : InLine(m)' <=> InLine(m)
         /\ InHand' \in Seq(Mutations)
         /\ \A m \in Mutations : m \in ToSet(InHand') <=> m \in ToSet(InHand) \/ Waits(m)
         /\ \A m \in Mutations : ~Waits(m)'
         /\ core' = [pc |-> "finish", failed |-> failed, pending |-> InHand']
<1>1. PICK s \in AcceptedMutations :
         core' = [pc |-> "finish", failed |-> failed, pending |-> InHand \o s]
  BY DEF Finish
<1>2. /\ s \in Seq(Mutations) /\ Sorted(s)
      /\ \A m \in Mutations : m \in ToSet(s) <=> Waits(m)
  BY AcceptedAre
<1>3. InHand \in Seq(Mutations) /\ Sorted(InHand)
  BY InHandTyped DEF LineInv
<1> PICK h : h = InHand
  OBVIOUS
<1>4. InHand' = h \o s
  BY <1>1 DEF InHand
<1>5. /\ h \o s \in Seq(Mutations) /\ Sorted(h \o s)
      /\ \A m : m \in ToSet(h \o s) <=> m \in ToSet(h) \/ m \in ToSet(s)
  <2>1. \A m, n \in Mutations : m \in ToSet(h) /\ n \in ToSet(s) => SentBefore(m, n)
    BY <1>2 DEF LineInv, Taken
  <2> QED
    BY <1>2, <1>3, <2>1, ConcatSorted
<1>6. /\ \A m \in Mutations : HasRun(m)' <=> HasRun(m)
      /\ \A m \in Mutations : AtWriter(m)' <=> AtWriter(m)
      /\ \A m : ~Waits(m)'
      /\ DOMAIN commands' = {}
      /\ LogIds' = LogIds /\ requests' = requests /\ sent' = sent
      /\ \A m, n : SentBefore(m, n)' <=> SentBefore(m, n)
  <2>1. commands' = <<>> /\ UNCHANGED <<log, requests, sent, writer>>
    BY DEF Finish, dbVars
  <2>2. DOMAIN commands' = {}
    BY <2>1, EmptyIs
  <2> QED
    BY <2>1, <2>2 DEF HasRun, AtWriter, LogIds, SentBefore, Waits
<1>7. \A m \in Mutations :
         /\ Started(m)' <=> Started(m)
         /\ Submitted(m)' <=> Submitted(m)
         /\ m \in ToSet(InHand') <=> m \in ToSet(InHand) \/ Waits(m)
         /\ InLine(m)' <=> InLine(m)
  BY <1>2, <1>4, <1>5, <1>6 DEF Started, Submitted, Taken, InLine
<1>8. Places'
  BY <1>6, <1>7 DEF Places
<1>9. Sorted(LogIds)' /\ Sorted(requests)' /\ Sorted(InHand)'
  BY <1>4, <1>5, <1>6 DEF LineInv, Sorted
<1>10. LineInv'
  <2>1. \A m, n \in Mutations : Submitted(m) /\ n \in ToSet(InHand') => SentBefore(m, n)
    BY <1>7 DEF LineInv, Taken
  <2> QED
    BY <1>6, <1>7, <1>9, <2>1 DEF LineInv
<1> QED
  BY <1>1, <1>4, <1>5, <1>6, <1>7, <1>8, <1>10

(* It submits the first of them.                                           *)
LEMMA FinishSubmitsLine ==
  ASSUME TypeInv, Places, LineInv, UNCHANGED <<log, writer, sent, commands>>,
         InHand # <<>>, InHand' = Tail(InHand), requests' = Append(requests, Head(InHand))
  PROVE  /\ Places' /\ LineInv'
         /\ \A m \in Mutations : InLine(m)' <=> InLine(m)
<1> PICK h : h = InHand
  OBVIOUS
<1> PICK t : t = Tail(InHand)
  OBVIOUS
<1> PICK c : c = Head(InHand)
  OBVIOUS
<1>1. /\ h \in Seq(Mutations) /\ h # <<>> /\ t = Tail(h) /\ c = Head(h) /\ Sorted(h)
      /\ InHand' = t /\ requests' = Append(requests, c)
  BY InHandTyped DEF LineInv
<1>2. /\ c \in Mutations /\ t \in Seq(Mutations)
      /\ \A m : m \in ToSet(h) <=> m = c \/ m \in ToSet(t)
      /\ Sorted(t) /\ \A m \in Mutations : m \in ToSet(t) => SentBefore(c, m)
  BY <1>1, TailIs, TailSorted
<1>3. requests \in Seq(Ids) /\ c \in Ids
  BY <1>2 DEF TypeInv, DatabaseTyped, Ids
<1>4. \A m : m \in ToSet(requests') <=> m = c \/ m \in ToSet(requests)
  BY <1>1, <1>3, AppendIs
<1>5. /\ \A m \in Mutations : HasRun(m)' <=> HasRun(m)
      /\ \A m \in Mutations : AtWriter(m)' <=> AtWriter(m)
      /\ \A m \in Mutations : Waits(m)' <=> Waits(m)
      /\ LogIds' = LogIds
      /\ \A m, n : SentBefore(m, n)' <=> SentBefore(m, n)
  BY DEF HasRun, AtWriter, LogIds, SentBefore, Waits
<1>6. \A m \in Mutations :
         /\ Started(m)' <=> Started(m)
         /\ Submitted(m)' <=> Submitted(m) \/ m = c
         /\ Taken(m)' <=> Taken(m)
         /\ InLine(m)' <=> InLine(m)
  BY <1>1, <1>2, <1>4, <1>5 DEF Started, Submitted, Taken, InLine
<1>7. Places'
  BY <1>6 DEF Places
<1>8. \A m \in Mutations : Submitted(m) => SentBefore(m, c)
  BY <1>2 DEF LineInv
<1>9. Sorted(LogIds)' /\ Sorted(requests)' /\ Sorted(InHand)'
  <2>1. \A m \in Mutations : m \in ToSet(requests) => SentBefore(m, c)
    BY <1>8 DEF Submitted
  <2>2. Sorted(Append(requests, c))
    BY <1>3, <2>1, AppendSorted DEF LineInv
  <2> QED
    BY <1>1, <1>2, <1>5, <2>2 DEF LineInv, Sorted
<1>10. \A m, n \in Mutations :
          /\ HasRun(m) /\ AtWriter(n) => SentBefore(m, n)
          /\ Started(m) /\ n \in ToSet(requests') => SentBefore(m, n)
          /\ Submitted(m)' /\ n \in ToSet(t) => SentBefore(m, n)
          /\ Taken(m) /\ Waits(n) => SentBefore(m, n)
  BY <1>2, <1>4, <1>6, <1>8 DEF LineInv, Submitted
<1>11. LineInv'
  BY <1>1, <1>5, <1>6, <1>9, <1>10 DEF LineInv
<1> QED
  BY <1>6, <1>7, <1>11

-----------------------------------------------------------------------------
(* What a step leaves alone                                                *)

LEMMA WhereTheLoopIs ==
  ASSUME TypeInv
  PROVE  /\ CommandsOpen \/ core.pc = "finish" \/ Ending
         /\ CommandsOpen => ~Ending /\ ~Left /\ core.pc # "finish"
         /\ Ending => core.pc # "finish"
         /\ Left => Ending
<1>1. core \in CoreStates
  BY DEF TypeInv, CoreTyped
<1> QED
  BY <1>1 DEF CoreStates, CommandsOpen, Ending, Left

LEMMA ToldStays ==
  ASSUME ToldInv, told' = told,
         \A m \in Mutations : m \in ToSet(sent) =>
             m \in ToSet(sent') /\ (InLine(m)' => InLine(m)),
         \A m \in Mutations : \A ok \in BOOLEAN : Ran1(m, ok) => Ran1(m, ok)'
  PROVE  ToldInv'
BY DEF ToldInv

LEMMA ReplyStays ==
  ASSUME ReplyInv, replies' = replies,
         \A x \in ToSet(log) : x \in ToSet(log'),
         writer'.pc = "send" => writer' = writer,
         \A m \in Mutations : EventIs("committed", m)' => EventIs("committed", m),
         \A m \in Mutations : EventIs("failed", m)' => EventIs("failed", m)
  PROVE  ReplyInv'
<1>1. \A m : AtSend(m)' => AtSend(m)
  BY DEF AtSend
<1>2. \A m : (Expected(m)' <=> Expected(m)) /\ \A i : IsReply(i, m)' <=> IsReply(i, m)
  BY DEF Expected, IsReply
<1>3. (writer.pc = "send" => Ran1(writer.reply.id, writer.reply.ok))'
  BY DEF ReplyInv, Ran1
<1>4. (\A i \in DOMAIN replies : \A m \in Mutations : IsReply(i, m) => Ran1(m, replies[i].ok))'
  BY <1>2 DEF ReplyInv, Ran1
<1>5. /\ \A m \in Mutations : EventIs("committed", m)' => Ran1(m, TRUE)'
      /\ \A m \in Mutations : EventIs("failed", m)' => Ran1(m, FALSE)'
  BY DEF ReplyInv, Ran1
<1> QED
  BY <1>1, <1>2, <1>3, <1>4, <1>5 DEF ReplyInv

LEMMA AnswersStay ==
  ASSUME TypeInv, TypeInv', AnswerInv,
         CommandsOpen' \/ core'.pc = "finish" => CommandsOpen \/ core.pc = "finish",
         Ending' /\ core'.ok => Ending /\ core.ok /\ sent' = sent,
         \A m \in Mutations : Settled(m) => Settled(m)',
         CommandsOpen' \/ core'.pc = "finish" =>
             /\ active' = active
             /\ \A m \in Mutations : m \in ToSet(sent) =>
                   /\ m \in ToSet(sent')
                   /\ Accounted(m) => Accounted(m)'
                   /\ Pending(m)' => Pending(m)
             /\ \A m \in Mutations : m \in ToSet(sent') /\ m \notin ToSet(sent) => Accounted(m)'
             /\ \A m \in Mutations : Outstanding(m)' => Outstanding(m)
  PROVE  AnswerInv'
<1>0. ToSet(sent) \subseteq Mutations /\ ToSet(sent') \subseteq Mutations
  <2>1. sent \in Seq(Mutations) /\ sent' \in Seq(Mutations)
    BY DEF TypeInv, CoreTyped
  <2>2. /\ \A i \in DOMAIN sent : sent[i] \in Mutations
        /\ \A i \in DOMAIN sent' : sent'[i] \in Mutations
    BY <2>1, LenProperties, ElementOfSeq
  <2> QED
    BY <2>2 DEF ToSet
<1>1. ASSUME CommandsOpen' \/ core'.pc = "finish"
      PROVE  \E L \in SUBSET ToSet(sent') : Unanswered(L)'
  <2>1. PICK L \in SUBSET ToSet(sent) : Unanswered(L)
    BY <1>1 DEF AnswerInv
  <2>2. Unanswered(L)'
    <3>1. L \subseteq ToSet(sent') /\ IsFiniteSet(L) /\ Cardinality(L) = active'
      BY <1>0, <1>1, <2>1 DEF Unanswered
    <3>2. \A m \in Mutations : Outstanding(m)' => m \in L
      BY <1>1, <2>1 DEF Unanswered
    <3>3. \A m \in ToSet(sent') \ L : Accounted(m)'
      BY <1>0, <1>1, <2>1 DEF Unanswered
    <3>4. \A m \in L : ~Pending(m)'
      BY <1>0, <1>1, <2>1 DEF Unanswered
    <3> QED
      BY <3>1, <3>2, <3>3, <3>4 DEF Unanswered
  <2> QED
    BY <2>2 DEF Unanswered
<1>2. Ending' /\ core'.ok => \A m \in ToSet(sent') : Settled(m)'
  BY <1>0 DEF AnswerInv
<1> QED
  BY <1>1, <1>2 DEF AnswerInv

LEMMA CallsStay ==
  ASSUME CallInv, UNCHANGED <<requests, log, called, answers>>,
         writer' = writer \/ (writer.pc # "write" /\ writer.pc # "dead" /\ writer'.pc # "write")
  PROVE  CallInv'
<1>1. \A w : (AtWriter(w)' <=> AtWriter(w)) /\ (HasRun(w)' <=> HasRun(w))
  BY DEF AtWriter, HasRun
<1>2. \A w : Started(w)' <=> Started(w)
  BY <1>1 DEF Started
<1>3. writer'.pc # "dead" => writer.pc # "dead"
  OBVIOUS
<1> QED
  BY <1>1, <1>2, <1>3 DEF CallInv

LEMMA QueriesStay ==
  ASSUME QueryInv, CommandsOpen' => CommandsOpen,
         UNCHANGED <<queries, reader, replies, schedule, asked, mailbox>>,
         commands' = commands, core'.pc = "gate" => core.pc = "gate"
  PROVE  QueryInv'
<1>1. SUFFICES ASSUME CommandsOpen'
               PROVE  PlaceInv' /\ NumberInv' /\ KeyInv' /\ ObsoleteOnly'
  BY DEF QueryInv
<1>2. PlaceInv /\ NumberInv /\ KeyInv /\ ObsoleteOnly /\ CommandsOpen
  BY <1>1 DEF QueryInv
<1>3. \A q : /\ AtReader(q)' <=> AtReader(q)
             /\ Reading(q)' <=> Reading(q)
             /\ Replied(q)' <=> Replied(q)
             /\ IsActive(q)' <=> IsActive(q)
             /\ Obsolete(q)' <=> Obsolete(q)
  BY DEF AtReader, Reading, Sending, Replied, IsActive, Obsolete
<1>4. PlaceInv'
  BY <1>2, <1>3 DEF PlaceInv
<1>5. NumberInv'
  BY <1>2 DEF NumberInv
<1>6. KeyInv'
  <2>1. Obsolete(mailbox.key)' <=> Obsolete(mailbox.key)
    BY DEF Obsolete
  <2> QED
    BY <1>2, <1>3, <2>1 DEF KeyInv
<1>7. ObsoleteOnly'
  BY <1>2 DEF ObsoleteOnly, Obsolete
<1> QED
  BY <1>4, <1>5, <1>6, <1>7

-----------------------------------------------------------------------------
(* The interface                                                           *)

(* Steps that only touch the queue of the composer, the events, the slots, *)
(* what was seen and the request to shut down.                             *)
LEMMA OutsideSafe ==
  ASSUME RuntimeInv, UNCHANGED <<dbVars, uiVars, commands, sent, asked>>,
         composes' \in Seq(Composes) /\ Len(composes') <= 1,
         events' \in Seq(Events) /\ Len(events') \in Nat /\ Len(events') <= EventCapacity,
         shutdown' \in BOOLEAN
  PROVE  RuntimeInv'
<1> USE DEF dbVars, uiVars
<1>0. /\ TypeInv /\ PhaseInv /\ WaitInv /\ Places /\ LineInv
      /\ ReplyInv /\ ToldInv /\ AnswerInv /\ CallInv /\ QueryInv
  BY DEF RuntimeInv
<1>1. TypeInv'
  <2>1. DatabaseTyped'
    BY <1>0 DEF TypeInv, DatabaseTyped
  <2>2. CoreTyped'
    BY <1>0 DEF TypeInv, CoreTyped
  <2> QED
    BY <2>1, <2>2 DEF TypeInv
<1>2. PhaseInv' /\ WaitInv'
  BY <1>0 DEF PhaseInv, WaitInv, Left, CommandsOpen
<1>3. Places' /\ LineInv' /\ ToldInv'
  <2>1. Places' /\ LineInv' /\ \A m \in Mutations : InLine(m)' <=> InLine(m)
    BY <1>0, LineStays DEF InHand, AtWriter
  <2>2. ToldInv'
    BY <1>0, <2>1, ToldStays DEF Ran1
  <2> QED
    BY <2>1, <2>2
<1>4. ReplyInv'
  BY <1>0, ReplyStays DEF EventIs
<1>5. AnswerInv'
  BY <1>0 DEF AnswerInv, Unanswered, Ending, CommandsOpen, Outstanding, AtWriter, AtSend, Expected,
              IsReply, Accounted, Settled, Ran1, Waits, InHand, EventIs, Pending
<1>6. CallInv'
  BY <1>0, CallsStay
<1>7. QueryInv'
  BY <1>0, QueriesStay DEF CommandsOpen
<1> QED
  BY <1>1, <1>2, <1>3, <1>4, <1>5, <1>6, <1>7 DEF RuntimeInv

LEMMA UiComposesSafe ==
  ASSUME RuntimeInv, NEW w \in Composes, UiComposes(w)
  PROVE  RuntimeInv'
<1>1. <<w>> \in Seq(Composes) /\ Len(<<w>>) <= 1
  BY OneIs
<1>2. TypeInv
  BY DEF RuntimeInv
<1> QED
  BY <1>1, <1>2, OutsideSafe DEF UiComposes, TypeInv, CoreTyped

LEMMA UiReceivesSafe ==
  ASSUME RuntimeInv, UiReceives
  PROVE  RuntimeInv'
<1>1. TypeInv /\ events # <<>> /\ events' = Tail(events)
  BY DEF RuntimeInv, UiReceives
<1>2. events \in Seq(Events) /\ Len(events) <= EventCapacity /\ EventCapacity \in Nat
  BY <1>1, RuntimeAssumption DEF TypeInv, CoreTyped
<1>3. /\ Tail(events) \in Seq(Events) /\ Len(Tail(events)) \in Nat
      /\ Len(Tail(events)) = Len(events) - 1 /\ Len(events) \in Nat
  BY <1>1, <1>2, TailIs
<1>4. Len(events') \in Nat /\ Len(events') <= EventCapacity /\ events' \in Seq(Events)
  BY <1>1, <1>2, <1>3
<1> QED
  BY <1>1, <1>4, OutsideSafe DEF UiReceives, TypeInv, CoreTyped

LEMMA UiShutsDownSafe ==
  ASSUME RuntimeInv, UiShutsDown
  PROVE  RuntimeInv'
<1>1. TypeInv
  BY DEF RuntimeInv
<1> QED
  BY <1>1, OutsideSafe DEF UiShutsDown, TypeInv, CoreTyped

LEMMA UiMutatesSafe ==
  ASSUME RuntimeInv, NEW c \in Mutations, UiMutates(c)
  PROVE  RuntimeInv'
<1>0. /\ TypeInv /\ PhaseInv /\ WaitInv /\ Places /\ LineInv
      /\ ReplyInv /\ ToldInv /\ AnswerInv /\ CallInv /\ QueryInv
  BY DEF RuntimeInv
<1>a. /\ CommandsOpen /\ CommandsOpen' /\ Len(commands) < CommandCapacity
      /\ sent' = Append(sent, c) /\ commands' = Append(commands, <<"mutate", c>>)
      /\ UNCHANGED <<dbVars, uiVars, composes, events, slots, shutdown, asked, seen>>
  BY DEF UiMutates, uiVars, CommandsOpen
<1> USE DEF dbVars, uiVars
<1>b. commands \in Seq(Commands) /\ <<"mutate", c>> \in Commands /\ sent \in Seq(Mutations)
  BY <1>0 DEF TypeInv, CoreTyped, Commands
<1>c. /\ commands' \in Seq(Commands) /\ Len(commands') = Len(commands) + 1
      /\ Len(commands) \in Nat
      /\ \A i \in DOMAIN commands : i \in DOMAIN commands' /\ commands'[i] = commands[i]
      /\ \A i \in DOMAIN commands' :
            i \in DOMAIN commands \/ (i = Len(commands) + 1 /\ commands'[i] = <<"mutate", c>>)
      /\ commands'[Len(commands) + 1] = <<"mutate", c>> /\ Len(commands) + 1 \in DOMAIN commands'
  <2> PICK e : e = <<"mutate", c>>
    OBVIOUS
  <2>1. commands' = Append(commands, e) /\ e \in Commands
    BY <1>a, <1>b
  <2>2. /\ commands' \in Seq(Commands) /\ Len(commands') = Len(commands) + 1
        /\ Len(commands) \in Nat
        /\ \A i \in DOMAIN commands : i \in DOMAIN commands' /\ commands'[i] = commands[i]
        /\ \A i \in DOMAIN commands' : i \in DOMAIN commands \/ i = Len(commands) + 1
        /\ commands'[Len(commands) + 1] = e /\ Len(commands) + 1 \in DOMAIN commands'
    BY <1>b, <2>1, AppendIs
  <2> QED
    BY <2>2
<1>d. /\ sent' \in Seq(Mutations) /\ Len(sent') = Len(sent) + 1 /\ Len(sent) \in Nat
  BY <1>a, <1>b, AppendIs
<1>1. TypeInv'
  <2>1. DatabaseTyped'
    BY <1>0, <1>a DEF TypeInv, DatabaseTyped
  <2>2. CommandCapacity \in Nat
    BY RuntimeAssumption
  <2>3. Len(commands') <= CommandCapacity
    BY <1>a, <1>c, <2>2
  <2>4. active' \in 0..Len(sent')
    BY <1>0, <1>a, <1>d DEF TypeInv, CoreTyped
  <2>5. CoreTyped'
    BY <1>0, <1>a, <1>c, <1>d, <2>3, <2>4 DEF TypeInv, CoreTyped
  <2> QED
    BY <2>1, <2>5 DEF TypeInv
<1>2. PhaseInv' /\ WaitInv'
  BY <1>0, <1>a DEF PhaseInv, WaitInv, Left
<1>3. /\ Places' /\ LineInv'
      /\ \A m \in Mutations : m \in ToSet(sent) => (InLine(m)' => InLine(m))
      /\ \A m : m \in ToSet(sent') <=> m = c \/ m \in ToSet(sent)
  BY <1>0, UiMutatesLine
<1>4. ToldInv'
  BY <1>0, <1>a, <1>3, ToldStays DEF Ran1
<1>5. ReplyInv'
  BY <1>0, <1>a, ReplyStays DEF EventIs
<1>6. AnswerInv'
  <2>1. \A m \in Mutations : Waits(m)' <=> Waits(m) \/ m = c
    BY <1>c DEF Waits
  <2>2. /\ \A m \in Mutations : Settled(m)' <=> Settled(m)
        /\ \A m \in Mutations : Outstanding(m)' <=> Outstanding(m)
        /\ InHand' = InHand
    BY <1>a DEF Settled, Ran1, Outstanding, AtWriter, AtSend, Expected, IsReply, InHand
  <2>3. \A m \in Mutations : /\ Accounted(m)' <=> Accounted(m) \/ m = c
                             /\ Pending(m)' <=> Pending(m) \/ m = c
    BY <1>a, <2>1, <2>2 DEF Accounted, EventIs, Pending
  <2>5. c \notin ToSet(sent)
    BY DEF UiMutates
  <2>4. ~Ending'
    BY <1>1, <1>a, WhereTheLoopIs DEF Ending, CommandsOpen
  <2> QED
    BY <1>0, <1>1, <1>3, <1>a, <2>2, <2>3, <2>4, <2>5, AnswersStay
<1>7. CallInv'
  BY <1>0, <1>a, CallsStay
<1>8. QueryInv'
  <2>1. PlaceInv /\ NumberInv /\ KeyInv /\ ObsoleteOnly
    BY <1>0, <1>a DEF QueryInv
  <2>2. \A q : /\ AtReader(q)' <=> AtReader(q)
               /\ Reading(q)' <=> Reading(q)
               /\ Replied(q)' <=> Replied(q)
               /\ IsActive(q)' <=> IsActive(q)
    BY <1>a DEF AtReader, Reading, Sending, Replied, IsActive
  <2>3. PlaceInv'
    BY <1>a, <2>1, <2>2 DEF PlaceInv
  <2>4. \A i \in DOMAIN commands' : \A k \in Kinds :
           commands'[i][1] = k => i \in DOMAIN commands /\ commands[i] = commands'[i]
    BY <1>c, RuntimeAssumption DEF Kinds
  <2>5. NumberInv'
    <3>1. \A i \in DOMAIN commands' : \A k \in Kinds : commands'[i][1] = k =>
             /\ schedule[k].active < commands'[i][2] /\ schedule[k].pending < commands'[i][2]
             /\ commands'[i][2] <= asked[k]
      BY <2>1, <2>4 DEF NumberInv
    <3>2. \A i, j \in DOMAIN commands' : \A k \in Kinds :
             i < j /\ commands'[i][1] = k /\ commands'[j][1] = k
                 => commands'[i][2] < commands'[j][2]
      BY <2>1, <2>4 DEF NumberInv
    <3> QED
      BY <1>a, <2>1, <3>1, <3>2 DEF NumberInv
  <2>6. KeyInv'
    <3>1. \A i \in DOMAIN commands' :
             commands'[i][1] = "mailbox" => i \in DOMAIN commands /\ commands[i] = commands'[i]
      BY <2>4 DEF Kinds
    <3>2. Obsolete(mailbox.key)' <=> Obsolete(mailbox.key)
      BY <1>a DEF Obsolete
    <3> QED
      BY <1>a, <2>1, <2>2, <3>1, <3>2 DEF KeyInv
  <2>7. ObsoleteOnly'
    BY <1>a, <2>1 DEF ObsoleteOnly, Obsolete
  <2> QED
    BY <2>3, <2>5, <2>6, <2>7 DEF QueryInv
<1> QED
  BY <1>1, <1>2, <1>3, <1>4, <1>5, <1>6, <1>7, <1>8 DEF RuntimeInv

(* A query gets the next number of its kind.                               *)
LEMMA UiAsksSafe ==
  ASSUME RuntimeInv, NEW k \in Kinds, UiAsks(k)
  PROVE  RuntimeInv'
<1>0. /\ TypeInv /\ PhaseInv /\ WaitInv /\ Places /\ LineInv
      /\ ReplyInv /\ ToldInv /\ AnswerInv /\ CallInv /\ QueryInv
  BY DEF RuntimeInv
<1> PICK n : n = asked[k] + 1
  OBVIOUS
<1>a. /\ CommandsOpen /\ CommandsOpen' /\ Len(commands) < CommandCapacity
      /\ asked' = [asked EXCEPT ![k] = n] /\ commands' = Append(commands, <<k, n>>)
      /\ UNCHANGED <<dbVars, uiVars, composes, events, slots, shutdown, sent, seen>>
      /\ n \in 1..MaxAsk /\ asked[k] < n
  <2>1. /\ CommandsOpen /\ Len(commands) < CommandCapacity /\ asked[k] < MaxAsk
        /\ asked' = [asked EXCEPT ![k] = @ + 1] /\ commands' = Append(commands, <<k, asked'[k]>>)
        /\ UNCHANGED <<dbVars, uiVars, composes, events, slots, shutdown, sent, seen>>
    BY DEF UiAsks
  <2>2. asked \in [Kinds -> 0..MaxAsk] /\ MaxAsk \in Nat
    BY <1>0, DatabaseAssumption DEF TypeInv, CoreTyped
  <2>3. asked'[k] = n /\ asked[k] \in 0..MaxAsk
    BY <2>1, <2>2
  <2> QED
    BY <2>1, <2>2, <2>3 DEF CommandsOpen, uiVars
<1> USE DEF dbVars, uiVars
<1>b. commands \in Seq(Commands) /\ <<k, n>> \in Commands /\ <<k, n>> \in Queries
  BY <1>0, <1>a DEF TypeInv, CoreTyped, Commands, Queries
<1>c. /\ commands' \in Seq(Commands) /\ Len(commands') = Len(commands) + 1
      /\ Len(commands) \in Nat
      /\ \A i \in DOMAIN commands : i \in DOMAIN commands' /\ commands'[i] = commands[i]
      /\ \A i \in DOMAIN commands : i < Len(commands) + 1 /\ i \in Nat
      /\ \A i \in DOMAIN commands' :
            i \in DOMAIN commands \/ (i = Len(commands) + 1 /\ commands'[i] = <<k, n>>)
  <2> PICK e : e = <<k, n>>
    OBVIOUS
  <2>1. commands' = Append(commands, e) /\ e \in Commands
    BY <1>a, <1>b
  <2>2. /\ commands' \in Seq(Commands) /\ Len(commands') = Len(commands) + 1
        /\ Len(commands) \in Nat
        /\ \A i \in DOMAIN commands : i \in DOMAIN commands' /\ commands'[i] = commands[i]
        /\ \A i \in DOMAIN commands : i < Len(commands) + 1 /\ i \in Nat
        /\ \A i \in DOMAIN commands' : i \in DOMAIN commands \/ i = Len(commands) + 1
        /\ commands'[Len(commands) + 1] = e
    BY <1>b, <2>1, AppendIs
  <2> QED
    BY <2>2
<1>d. /\ asked \in [Kinds -> 0..MaxAsk] /\ asked' \in [Kinds -> 0..MaxAsk]
      /\ asked'[k] = n /\ \A j \in Kinds : j # k => asked'[j] = asked[j]
      /\ \A j \in Kinds : asked[j] <= asked'[j] /\ asked[j] \in Nat /\ asked'[j] \in Nat
      /\ MaxAsk \in Nat /\ n \in Nat
  <2>1. asked \in [Kinds -> 0..MaxAsk] /\ MaxAsk \in Nat
    BY <1>0, DatabaseAssumption DEF TypeInv, CoreTyped
  <2>2. n \in 0..MaxAsk
    BY <1>a, <2>1
  <2>3. asked' \in [Kinds -> 0..MaxAsk] /\ asked'[k] = n
        /\ \A j \in Kinds : j # k => asked'[j] = asked[j]
    BY <1>a, <2>1, <2>2
  <2> QED
    BY <1>a, <2>1, <2>2, <2>3
<1>1. TypeInv'
  <2>1. DatabaseTyped'
    BY <1>0, <1>a DEF TypeInv, DatabaseTyped
  <2>2. CommandCapacity \in Nat
    BY RuntimeAssumption
  <2>3. Len(commands') <= CommandCapacity
    BY <1>a, <1>c, <2>2
  <2>4. CoreTyped'
    BY <1>0, <1>a, <1>c, <1>d, <2>3 DEF TypeInv, CoreTyped
  <2> QED
    BY <2>1, <2>4 DEF TypeInv
<1>2. PhaseInv' /\ WaitInv'
  BY <1>0, <1>a DEF PhaseInv, WaitInv, Left
<1>3. /\ Places' /\ LineInv' /\ \A m \in Mutations : InLine(m)' <=> InLine(m)
  BY <1>0, <1>a, <1>b, QueriesMoveLine DEF InHand
<1>4. ToldInv'
  BY <1>0, <1>a, <1>3, ToldStays DEF Ran1
<1>5. ReplyInv'
  BY <1>0, <1>a, ReplyStays DEF EventIs
<1>6. AnswerInv'
  <2>1. \A m \in Mutations : Waits(m)' <=> Waits(m)
    <3>1. \A m : <<k, n>> # <<"mutate", m>>
      BY RuntimeAssumption DEF Kinds
    <3> QED
      BY <1>c, <3>1 DEF Waits
  <2>2. /\ \A m \in Mutations : Settled(m)' <=> Settled(m)
        /\ \A m \in Mutations : Outstanding(m)' <=> Outstanding(m)
        /\ InHand' = InHand
    BY <1>a DEF Settled, Ran1, Outstanding, AtWriter, AtSend, Expected, IsReply, InHand
  <2>3. \A m \in Mutations : (Accounted(m) => Accounted(m)') /\ (Pending(m)' => Pending(m))
    BY <1>a, <2>1, <2>2 DEF Accounted, EventIs, Pending
  <2>4. ~Ending'
    BY <1>1, <1>a, WhereTheLoopIs DEF Ending, CommandsOpen
  <2> QED
    BY <1>0, <1>1, <1>a, <2>2, <2>3, <2>4, AnswersStay
<1>7. CallInv'
  BY <1>0, <1>a, CallsStay
<1>8. QueryInv'
  <2>1. PlaceInv /\ NumberInv /\ KeyInv /\ ObsoleteOnly
    BY <1>0, <1>a DEF QueryInv
  <2>2. \A q : /\ AtReader(q)' <=> AtReader(q)
               /\ Reading(q)' <=> Reading(q)
               /\ Replied(q)' <=> Replied(q)
               /\ IsActive(q)' <=> IsActive(q)
    BY <1>a DEF AtReader, Reading, Sending, Replied, IsActive
  <2>3. PlaceInv'
    BY <1>a, <2>1, <2>2 DEF PlaceInv
  <2>4. \A j \in Kinds : /\ schedule[j].active \in Nat /\ schedule[j].pending \in Nat
                         /\ schedule[j].active <= asked[j] /\ schedule[j].pending <= asked[j]
    BY <1>0, <1>d, <2>1 DEF TypeInv, CoreTyped, NumberInv
  <2>5. \A i \in DOMAIN commands : \A j \in Kinds :
           commands[i][1] = j => commands[i][2] <= asked[j] /\ commands[i][2] \in Nat
    <3>1. TAKE i \in DOMAIN commands
    <3>2. TAKE j \in Kinds
    <3>3. HAVE commands[i][1] = j
    <3>4. commands[i] \in Commands
      BY <1>b, LenProperties, ElementOfSeq
    <3>5. commands[i] \in Queries
      BY <3>3, <3>4, RuntimeAssumption DEF Commands, Kinds
    <3>6. commands[i][2] \in Nat
      BY <1>d, <3>5 DEF Queries
    <3> QED
      BY <2>1, <3>3, <3>6 DEF NumberInv
  <2>6. NumberInv'
    <3>1. ASSUME NEW i \in DOMAIN commands', NEW j \in Kinds, commands'[i][1] = j
          PROVE  /\ schedule[j].active < commands'[i][2] /\ schedule[j].pending < commands'[i][2]
                 /\ commands'[i][2] <= asked'[j]
      <4>1. CASE i \in DOMAIN commands
        <5>1. /\ commands[i][1] = j /\ commands[i][2] = commands'[i][2]
          BY <1>c, <3>1, <4>1
        <5>2. /\ schedule[j].active < commands[i][2] /\ schedule[j].pending < commands[i][2]
              /\ commands[i][2] <= asked[j] /\ commands[i][2] \in Nat
          BY <2>1, <2>5, <4>1, <5>1 DEF NumberInv
        <5> QED
          BY <1>d, <5>1, <5>2
      <4>2. CASE commands'[i] = <<k, n>>
        <5>1. j = k /\ commands'[i][2] = n
          BY <3>1, <4>2
        <5> QED
          BY <1>a, <1>d, <2>4, <5>1
      <4> QED
        BY <1>c, <4>1, <4>2
    <3>2. ASSUME NEW i \in DOMAIN commands', NEW j \in DOMAIN commands', NEW l \in Kinds,
                 i < j, commands'[i][1] = l, commands'[j][1] = l
          PROVE  commands'[i][2] < commands'[j][2]
      <4>1. i \in DOMAIN commands
        BY <1>c, <3>2
      <4>2. CASE j \in DOMAIN commands
        BY <1>c, <2>1, <3>2, <4>1, <4>2 DEF NumberInv
      <4>3. CASE commands'[j] = <<k, n>>
        <5>1. l = k /\ commands'[j][2] = n
          BY <3>2, <4>3
        <5>2. commands'[i][2] <= asked[k] /\ commands'[i][2] \in Nat
          BY <1>c, <2>5, <3>2, <4>1, <5>1
        <5> QED
          BY <1>a, <1>d, <5>1, <5>2
      <4> QED
        BY <1>c, <4>2, <4>3
    <3>3. \A j \in Kinds : schedule[j].active <= asked'[j] /\ schedule[j].pending <= asked'[j]
      BY <1>d, <2>4
    <3> QED
      BY <1>a, <2>1, <3>1, <3>2, <3>3 DEF NumberInv
  <2>7. KeyInv'
    <3>1. ASSUME mailbox.state # "idle"
          PROVE  /\ mailbox.key[2] <= asked'["mailbox"]
                 /\ \A i \in DOMAIN commands' :
                       commands'[i][1] = "mailbox" => mailbox.key[2] < commands'[i][2]
      <4>1. "mailbox" \in Kinds
        BY DEF Kinds
      <4>2. mailbox.key[2] \in Nat /\ mailbox.key[2] <= asked["mailbox"]
        <5>1. mailbox.key \in {"mailbox"} \X (1..MaxAsk)
          BY <1>0, <3>1 DEF TypeInv, DatabaseTyped, MailboxStates, NoKey
        <5>2. mailbox.key[2] \in 1..MaxAsk
          BY <5>1
        <5> QED
          BY <1>d, <2>1, <3>1, <5>2 DEF KeyInv
      <4>3. mailbox.key[2] <= asked'["mailbox"]
        BY <1>d, <4>1, <4>2
      <4>4. ASSUME NEW i \in DOMAIN commands', commands'[i][1] = "mailbox"
            PROVE  mailbox.key[2] < commands'[i][2]
        <5>1. CASE i \in DOMAIN commands
          BY <1>c, <2>1, <3>1, <4>4, <5>1 DEF KeyInv
        <5>2. CASE commands'[i] = <<k, n>>
          <6>1. k = "mailbox" /\ commands'[i][2] = n
            BY <4>4, <5>2
          <6> QED
            BY <1>a, <1>d, <4>1, <4>2, <6>1
        <5> QED
          BY <1>c, <5>1, <5>2
      <4> QED
        BY <4>3, <4>4
    <3>2. Obsolete(mailbox.key)' <=> Obsolete(mailbox.key)
      BY <1>a DEF Obsolete
    <3> QED
      BY <1>a, <2>1, <2>2, <3>1, <3>2 DEF KeyInv
  <2>8. ObsoleteOnly'
    BY <1>a, <2>1 DEF ObsoleteOnly, Obsolete
  <2> QED
    BY <2>3, <2>6, <2>7, <2>8 DEF QueryInv
<1> QED
  BY <1>1, <1>2, <1>3, <1>4, <1>5, <1>6, <1>7, <1>8 DEF RuntimeInv

-----------------------------------------------------------------------------
(* The writer                                                              *)

LEMMA WriterTakesSafe ==
  ASSUME RuntimeInv, WriterTakes, UNCHANGED coreVars
  PROVE  RuntimeInv'
<1>0. /\ TypeInv /\ PhaseInv /\ WaitInv /\ Places /\ LineInv
      /\ ReplyInv /\ ToldInv /\ AnswerInv /\ CallInv /\ QueryInv
  BY DEF RuntimeInv
<1> USE DEF coreVars
<1> PICK t : t = Tail(requests)
  OBVIOUS
<1> PICK h : h = Head(requests)
  OBVIOUS
<1>a. /\ writer.pc = "idle" /\ requests # <<>> /\ writer' = [pc |-> "write", id |-> h]
      /\ requests' = t
      /\ UNCHANGED <<queries, open, reader, mailbox, interrupt, replies, admission, stopping,
                     backfill, log, answers, cut>>
  BY DEF WriterTakes, WriterVars
<1>b. requests \in Seq(Ids) /\ Len(requests) <= RequestCapacity /\ RequestCapacity \in Nat
  BY <1>0, DatabaseAssumption DEF TypeInv, DatabaseTyped
<1>c. /\ t \in Seq(Ids) /\ h \in Ids /\ h = requests[1] /\ 1 \in DOMAIN requests
      /\ Len(requests) \in Nat /\ Len(t) = Len(requests) - 1 /\ Len(t) \in Nat
      /\ \A i \in DOMAIN t : i \in Nat /\ i + 1 \in DOMAIN requests /\ t[i] = requests[i + 1]
      /\ \A x : x \in ToSet(requests) <=> x = h \/ x \in ToSet(t)
      /\ \A i \in DOMAIN t : i >= 1
  <2>1. t \in Seq(Ids)
    BY <1>a, <1>b, TailIs
  <2>2. \A i \in DOMAIN t : i >= 1
    BY <2>1, LenProperties
  <2> QED
    BY <1>a, <1>b, <2>2, TailIs
<1>1. TypeInv'
  <2>1. Len(requests') <= RequestCapacity
    BY <1>a, <1>b, <1>c
  <2>2. writer' \in WriterStates
    BY <1>a, <1>c DEF WriterStates
  <2>3. DatabaseTyped'
    BY <1>0, <1>a, <1>c, <2>1, <2>2 DEF TypeInv, DatabaseTyped
  <2>4. CoreTyped'
    BY <1>0 DEF TypeInv, CoreTyped
  <2> QED
    BY <2>3, <2>4 DEF TypeInv
<1>2. PhaseInv' /\ WaitInv'
  BY <1>0, <1>a DEF PhaseInv, WaitInv, Left, CommandsOpen
<1>3. Places' /\ LineInv' /\ \A m \in Mutations : InLine(m)' <=> InLine(m)
  BY <1>0, WriterTakesLine
<1>4. ToldInv'
  BY <1>0, <1>a, <1>3, ToldStays DEF Ran1
<1>5. ReplyInv'
  BY <1>0, <1>a, ReplyStays DEF EventIs
<1>6. AnswerInv'
  <2>1. \A m \in Mutations : Outstanding(m)' => Outstanding(m)
    BY <1>a, <1>c DEF Outstanding, AtWriter, AtSend, Expected, IsReply
  <2>2. \A m \in Mutations : /\ Settled(m)' <=> Settled(m)
                             /\ Accounted(m) => Accounted(m)'
                             /\ Pending(m)' => Pending(m)
    BY <1>a DEF Settled, Ran1, Accounted, Waits, InHand, EventIs, Pending
  <2> QED
    BY <1>0, <1>1, <2>1, <2>2, AnswersStay DEF CommandsOpen, Ending
<1>7. CallInv'
  <2>1. \A w : /\ w \in ToSet(requests') <=> w \in ToSet(t)
               /\ AtWriter(w)' <=> w = h
               /\ ~AtWriter(w)
               /\ HasRun(w)' <=> HasRun(w)
    BY <1>a DEF AtWriter, HasRun
  <2>2. \A w : (Started(w)' <=> HasRun(w) \/ w = h) /\ (Started(w) <=> HasRun(w))
    BY <2>1 DEF Started
  <2>3. ASSUME h \in Writes
        PROVE  h \notin ToSet(t)
    <3>1. ASSUME NEW i \in DOMAIN t, t[i] = h
          PROVE  FALSE
      <4>1. i + 1 \in DOMAIN requests /\ requests[i + 1] = requests[1] /\ i \in Nat /\ i >= 1
        BY <1>c, <3>1
      <4>2. i + 1 = 1
        BY <1>0, <1>c, <2>3, <4>1 DEF CallInv
      <4> QED
        BY <4>1, <4>2
    <3> QED
      BY <3>1 DEF ToSet
  <2>4. \A i, j \in DOMAIN t : t[i] = t[j] /\ t[i] \in Writes => i = j
    <3>1. TAKE i, j \in DOMAIN t
    <3>2. HAVE t[i] = t[j] /\ t[i] \in Writes
    <3>3. i + 1 = j + 1
      BY <1>0, <1>c, <3>2 DEF CallInv
    <3> QED
      BY <1>c, <3>3
  <2>5. \A w \in Writes :
           /\ w \in ToSet(requests') => ~Started(w)' /\ w \in ToSet(called)
           /\ AtWriter(w)' => ~HasRun(w)' /\ w \in ToSet(called)
           /\ HasRun(w)' => w \in ToSet(called)
    BY <1>0, <1>c, <2>1, <2>2, <2>3 DEF CallInv
  <2>6. \A w \in ToSet(called) :
           \/ w \in ToSet(requests') \/ AtWriter(w)'
           \/ HasRun(w)' /\ answers[w] \in {"done", "failed"}
    BY <1>0, <1>a, <1>c, <2>1 DEF CallInv
  <2>7. \A i, j \in DOMAIN log : log[i][1] = log[j][1] /\ log[i][1] \in Writes => i = j
    BY <1>0 DEF CallInv
  <2> QED
    BY <1>a, <2>4, <2>5, <2>6, <2>7 DEF CallInv
<1>8. QueryInv'
  BY <1>0, <1>a, QueriesStay DEF CommandsOpen
<1> QED
  BY <1>1, <1>2, <1>3, <1>4, <1>5, <1>6, <1>7, <1>8 DEF RuntimeInv

(* A write ran: its mutation has a reply to send, its caller the result.   *)
LEMMA WriterRanSafe ==
  ASSUME RuntimeInv, NEW ok \in BOOLEAN, WriterRan(ok), UNCHANGED coreVars
  PROVE  RuntimeInv'
<1>0. /\ TypeInv /\ PhaseInv /\ WaitInv /\ Places /\ LineInv
      /\ ReplyInv /\ ToldInv /\ AnswerInv /\ CallInv /\ QueryInv
  BY DEF RuntimeInv
<1> USE DEF coreVars
<1> PICK h : h = writer.id
  OBVIOUS
<1>a. /\ writer.pc = "write" /\ log' = Append(log, <<h, ok>>)
      /\ answers' = IF h \in Writes
                    THEN [answers EXCEPT ![h] = IF ok THEN "done" ELSE "failed"] ELSE answers
      /\ writer' = IF h \in Mutations
                   THEN [pc |-> "send", reply |-> [what |-> "mutation", id |-> h, ok |-> ok]]
                   ELSE [pc |-> "idle"]
      /\ UNCHANGED <<queries, open, reader, mailbox, interrupt, requests, replies, admission,
                     stopping, backfill>>
  BY DEF WriterRan, Ran, WriterVars, Reply, Idle
<1>b. h \in Ids
  BY <1>0, <1>a DEF TypeInv, DatabaseTyped, WriterStates
<1>c. /\ log' \in Seq(Ids \X BOOLEAN)
      /\ \A m : HasRun(m)' <=> HasRun(m) \/ m = h
      /\ \A m, o : Ran1(m, o)' <=> Ran1(m, o) \/ (m = h /\ o = ok)
      /\ \A i \in DOMAIN log : i \in DOMAIN log' /\ log'[i] = log[i] /\ i \in Nat
      /\ Len(log) + 1 \in DOMAIN log' /\ log'[Len(log) + 1] = <<h, ok>>
      /\ \A i \in DOMAIN log' : i \in DOMAIN log \/ i = Len(log) + 1
  BY <1>0, <1>a, <1>b, LogGrows
<1>d. \A x \in ToSet(log) : x \in ToSet(log')
  BY <1>c DEF ToSet
<1>1. TypeInv'
  <2>1. writer' \in WriterStates
    <3>1. CASE h \in Mutations
      BY <1>a, <3>1 DEF WriterStates, MutationReplies
    <3>2. CASE h \notin Mutations
      BY <1>a, <3>2 DEF WriterStates
    <3> QED
      BY <3>1, <3>2
  <2>2. answers' \in [Writes -> {"none", "done", "failed", "closed"}]
    BY <1>0, <1>a DEF TypeInv, DatabaseTyped
  <2>3. DatabaseTyped'
    BY <1>0, <1>a, <1>c, <2>1, <2>2 DEF TypeInv, DatabaseTyped
  <2>4. CoreTyped'
    BY <1>0 DEF TypeInv, CoreTyped
  <2> QED
    BY <2>3, <2>4 DEF TypeInv
<1>e. writer'.pc \in {"idle", "send"}
  BY <1>a
<1>2. PhaseInv' /\ WaitInv'
  BY <1>0, <1>a, <1>e DEF PhaseInv, WaitInv, Left, CommandsOpen
<1>3. Places' /\ LineInv' /\ \A m \in Mutations : InLine(m)' <=> InLine(m)
  BY <1>0, WriterRanLine
<1>4. ToldInv'
  BY <1>0, <1>a, <1>c, <1>3, ToldStays
<1>f. \A m \in Mutations : ~HasRun(h) \/ h \notin Mutations
  BY <1>0, <1>a, OnePlace DEF AtWriter
<1>5. ReplyInv'
  <2>1. \A m : (Expected(m)' <=> Expected(m)) /\ \A i : IsReply(i, m)' <=> IsReply(i, m)
    BY <1>a DEF Expected, IsReply
  <2>2. (writer.pc = "send" => Ran1(writer.reply.id, writer.reply.ok))'
    <3>1. SUFFICES ASSUME writer'.pc = "send"
                   PROVE  <<writer'.reply.id, writer'.reply.ok>> \in ToSet(log')
      BY DEF Ran1
    <3>2. writer'.reply.id = h /\ writer'.reply.ok = ok
      BY <1>a, <3>1
    <3>3. <<h, ok>> \in ToSet(log')
      BY <1>c DEF ToSet
    <3> QED
      BY <3>2, <3>3
  <2>3. (\A i \in DOMAIN replies : \A m \in Mutations : IsReply(i, m) => Ran1(m, replies[i].ok))'
    BY <1>0, <1>a, <1>d, <2>1 DEF ReplyInv, Ran1
  <2>4. /\ \A m \in Mutations : EventIs("committed", m)' => Ran1(m, TRUE)'
        /\ \A m \in Mutations : EventIs("failed", m)' => Ran1(m, FALSE)'
    BY <1>0, <1>a, <1>d DEF ReplyInv, Ran1, EventIs
  <2>5. \A m \in Mutations : AtSend(m)' => ~Expected(m)'
    <3>1. \A m \in Mutations : AtSend(m)' => m = h /\ h \in Mutations
      BY <1>a DEF AtSend
    <3>2. \A m \in Mutations : Expected(m) => HasRun(m)
      <4>1. \A m \in Mutations : Expected(m) => \E o : Ran1(m, o)
        BY <1>0 DEF ReplyInv, Expected
      <4> QED
        BY <4>1, RanHasRun
    <3> QED
      BY <1>f, <2>1, <3>1, <3>2
  <2>6. \A i, j \in DOMAIN replies' : \A m \in Mutations :
           IsReply(i, m)' /\ IsReply(j, m)' => i = j
    BY <1>0, <1>a, <2>1 DEF ReplyInv
  <2> QED
    BY <2>2, <2>3, <2>4, <2>5, <2>6 DEF ReplyInv
<1>6. AnswerInv'
  <2>1. \A m \in Mutations : Outstanding(m)' => Outstanding(m)
    BY <1>a DEF Outstanding, AtWriter, AtSend, Expected, IsReply
  <2>2. \A m \in Mutations : /\ Settled(m) => Settled(m)'
                             /\ Accounted(m) => Accounted(m)'
                             /\ Pending(m)' => Pending(m)
    BY <1>a, <1>c DEF Settled, Accounted, Waits, InHand, EventIs, Pending
  <2> QED
    BY <1>0, <1>1, <2>1, <2>2, AnswersStay DEF CommandsOpen, Ending
<1>7. CallInv'
  <2>1. \A w : /\ AtWriter(w)' <=> FALSE
               /\ AtWriter(w) <=> w = h
    BY <1>a, <1>e DEF AtWriter
  <2>2. \A w : (Started(w)' <=> HasRun(w) \/ w = h) /\ (Started(w) <=> HasRun(w) \/ w = h)
    BY <1>c, <2>1 DEF Started
  <2>3. \A i, j \in DOMAIN log' : log'[i][1] = log'[j][1] /\ log'[i][1] \in Writes => i = j
    <3>1. h \in Writes => \A i \in DOMAIN log : log[i][1] # h
      BY <1>0, <2>1 DEF CallInv, HasRun
    <3>2. <<h, ok>>[1] = h
      OBVIOUS
    <3>3. \A i \in DOMAIN log' :
             \/ i \in DOMAIN log /\ log'[i][1] = log[i][1]
             \/ i = Len(log) + 1 /\ log'[i][1] = h
      BY <1>c, <3>2
    <3> QED
      BY <1>0, <3>1, <3>3 DEF CallInv
  <2>4. \A w \in Writes :
           /\ w \in ToSet(requests') => ~Started(w)' /\ w \in ToSet(called')
           /\ AtWriter(w)' => ~HasRun(w)' /\ w \in ToSet(called')
           /\ HasRun(w)' => w \in ToSet(called')
    BY <1>0, <1>a, <1>c, <2>1, <2>2 DEF CallInv
  <2>5. \A w \in ToSet(called') :
           \/ w \in ToSet(requests') \/ AtWriter(w)'
           \/ HasRun(w)' /\ answers'[w] \in {"done", "failed"}
    <3>1. called \in Seq(Writes) /\ answers \in [Writes -> {"none", "done", "failed", "closed"}]
      BY <1>0 DEF TypeInv, CoreTyped, DatabaseTyped
    <3>2. \A w \in ToSet(called) : w \in Writes
      <4>1. \A i \in DOMAIN called : called[i] \in Writes
        BY <3>1, LenProperties, ElementOfSeq
      <4> QED
        BY <4>1 DEF ToSet
    <3>3. TAKE w \in ToSet(called')
    <3>4. w \in Writes /\ w \in ToSet(called)
      BY <3>2, <3>3
    <3>5. CASE w = h
      BY <1>a, <1>c, <3>1, <3>4, <3>5
    <3>6. CASE w # h
      <4>1. answers'[w] = answers[w]
        BY <1>a, <3>1, <3>4, <3>6
      <4> QED
        BY <1>0, <1>a, <1>c, <2>1, <3>4, <3>6, <4>1 DEF CallInv
    <3> QED
      BY <3>5, <3>6
  <2>6. \A i, j \in DOMAIN requests' :
           requests'[i] = requests'[j] /\ requests'[i] \in Writes => i = j
    BY <1>0, <1>a DEF CallInv
  <2> QED
    BY <2>3, <2>4, <2>5, <2>6 DEF CallInv
<1>8. QueryInv'
  BY <1>0, <1>a, QueriesStay DEF CommandsOpen
<1> QED
  BY <1>1, <1>2, <1>3, <1>4, <1>5, <1>6, <1>7, <1>8 DEF RuntimeInv

LEMMA WriterSendsSafe ==
  ASSUME RuntimeInv, WriterSends, UNCHANGED coreVars
  PROVE  RuntimeInv'
<1>0. /\ TypeInv /\ PhaseInv /\ WaitInv /\ Places /\ LineInv
      /\ ReplyInv /\ ToldInv /\ AnswerInv /\ CallInv /\ QueryInv
  BY DEF RuntimeInv
<1> USE DEF coreVars
<1> PICK r : r = writer.reply
  OBVIOUS
<1>a. /\ writer.pc = "send" /\ Len(replies) < ReplyCapacity /\ replies' = Append(replies, r)
      /\ writer' = [pc |-> "idle"]
      /\ UNCHANGED <<queries, open, reader, mailbox, interrupt, requests, admission,
                     stopping, backfill, log, answers, cut>>
  BY DEF WriterSends, WriterVars, Idle
<1>b. r \in MutationReplies /\ r.what = "mutation" /\ r.id \in Mutations /\ r.ok \in BOOLEAN
  <2>1. r \in MutationReplies
    BY <1>0, <1>a DEF TypeInv, DatabaseTyped, WriterStates
  <2> QED
    BY <2>1 DEF MutationReplies
<1> PICK n : n = Len(replies) + 1
  OBVIOUS
<1>c. /\ replies' \in Seq(MutationReplies \cup QueryReplies) /\ Len(replies') = n
      /\ Len(replies) \in Nat /\ replies' # <<>>
      /\ \A i \in DOMAIN replies : i \in DOMAIN replies' /\ replies'[i] = replies[i]
      /\ n \in DOMAIN replies' /\ replies'[n] = r
      /\ \A i \in DOMAIN replies' : i \in DOMAIN replies \/ i = n
  <2>1. replies \in Seq(MutationReplies \cup QueryReplies)
    BY <1>0 DEF TypeInv, DatabaseTyped
  <2> QED
    BY <1>a, <1>b, <2>1, AppendIs, AppendProperties
<1>1. TypeInv'
  <2>1. ReplyCapacity \in Nat
    BY DatabaseAssumption
  <2>2. Len(replies') <= ReplyCapacity
    BY <1>a, <1>c, <2>1
  <2>3. writer' \in WriterStates
    BY <1>a DEF WriterStates
  <2>4. DatabaseTyped'
    BY <1>0, <1>a, <1>c, <2>2, <2>3 DEF TypeInv, DatabaseTyped
  <2>5. CoreTyped'
    BY <1>0 DEF TypeInv, CoreTyped
  <2> QED
    BY <2>4, <2>5 DEF TypeInv
<1>2. PhaseInv' /\ WaitInv'
  BY <1>0, <1>a, <1>c DEF PhaseInv, WaitInv, Left, CommandsOpen
<1>3. Places' /\ LineInv' /\ \A m \in Mutations : InLine(m)' <=> InLine(m)
  BY <1>0, <1>a, LineStays DEF InHand, AtWriter
<1>4. ToldInv'
  BY <1>0, <1>a, <1>3, ToldStays DEF Ran1
<1>5. ReplyInv'
  <2>1. \A i \in DOMAIN replies : \A m : IsReply(i, m)' <=> IsReply(i, m)
    BY <1>c DEF IsReply
  <2>2. \A m : IsReply(n, m)' <=> m = r.id
    BY <1>b, <1>c DEF IsReply
  <2>3. (\A i \in DOMAIN replies : \A m \in Mutations : IsReply(i, m) => Ran1(m, replies[i].ok))'
    <3>1. \A i \in DOMAIN replies' : \A m \in Mutations :
             IsReply(i, m)' => Ran1(m, replies'[i].ok)
      BY <1>0, <1>a, <1>c, <2>1, <2>2 DEF ReplyInv
    <3> QED
      BY <1>a, <3>1 DEF Ran1
  <2>4. /\ \A m \in Mutations : EventIs("committed", m)' => Ran1(m, TRUE)'
        /\ \A m \in Mutations : EventIs("failed", m)' => Ran1(m, FALSE)'
    BY <1>0, <1>a DEF ReplyInv, Ran1, EventIs
  <2>5. (writer.pc = "send" => Ran1(writer.reply.id, writer.reply.ok))'
        /\ \A m : ~AtSend(m)'
    BY <1>a DEF AtSend
  <2>6. ~Expected(r.id)
    BY <1>0, <1>a, <1>b DEF ReplyInv, AtSend
  <2>7. \A i, j \in DOMAIN replies' : \A m \in Mutations :
           IsReply(i, m)' /\ IsReply(j, m)' => i = j
    BY <1>0, <1>c, <2>1, <2>2, <2>6 DEF ReplyInv, Expected
  <2> QED
    BY <2>3, <2>4, <2>5, <2>7 DEF ReplyInv
<1>6. AnswerInv'
  <2>1. \A m \in Mutations : Outstanding(m)' => Outstanding(m)
    BY <1>a, <1>c DEF Outstanding, AtWriter, AtSend, Expected, IsReply
  <2>2. \A m \in Mutations : /\ Settled(m)' <=> Settled(m)
                             /\ Accounted(m) => Accounted(m)'
                             /\ Pending(m)' => Pending(m)
    BY <1>a DEF Settled, Ran1, Accounted, Waits, InHand, EventIs, Pending
  <2> QED
    BY <1>0, <1>1, <2>1, <2>2, AnswersStay DEF CommandsOpen, Ending
<1>7. CallInv'
  BY <1>0, <1>a, CallsStay
<1>8. QueryInv'
  <2>1. SUFFICES ASSUME CommandsOpen
                 PROVE  PlaceInv' /\ NumberInv' /\ KeyInv' /\ ObsoleteOnly'
    BY DEF QueryInv, CommandsOpen
  <2>2. PlaceInv /\ NumberInv /\ KeyInv /\ ObsoleteOnly
    BY <1>0, <2>1 DEF QueryInv
  <2>3. \A q : /\ AtReader(q)' <=> AtReader(q)
               /\ Reading(q)' <=> Reading(q)
               /\ Replied(q)' <=> Replied(q)
               /\ IsActive(q)' <=> IsActive(q)
    BY <1>a, <1>b, <1>c DEF AtReader, Reading, Sending, Replied, IsActive
  <2>4. PlaceInv'
    <3>1. \A i, j \in DOMAIN replies' :
             /\ replies'[i].what # "mutation" /\ replies'[j].what # "mutation"
             /\ replies'[i].id = replies'[j].id
             => i = j
      BY <1>b, <1>c, <2>2 DEF PlaceInv
    <3> QED
      BY <1>a, <2>2, <2>3, <3>1 DEF PlaceInv
  <2>5. NumberInv'
    BY <2>2 DEF NumberInv
  <2>6. KeyInv'
    <3>1. Obsolete(mailbox.key)' <=> Obsolete(mailbox.key)
      BY <1>a DEF Obsolete
    <3> QED
      BY <1>a, <2>2, <2>3, <3>1 DEF KeyInv
  <2>7. ObsoleteOnly'
    <3>1. \A i \in DOMAIN replies' : replies'[i].what = "superseded" =>
             i \in DOMAIN replies /\ replies'[i] = replies[i]
      BY <1>b, <1>c
    <3> QED
      BY <1>a, <2>1, <2>2, <3>1 DEF ObsoleteOnly, Obsolete
  <2> QED
    BY <2>4, <2>5, <2>6, <2>7
<1> QED
  BY <1>1, <1>2, <1>3, <1>4, <1>5, <1>6, <1>7, <1>8 DEF RuntimeInv

(* Steps of the writer that concern no write.                              *)
LEMMA WriterMovesSafe ==
  ASSUME RuntimeInv, WriterShuts \/ BackfillStarts \/ BackfillEnds, UNCHANGED coreVars
  PROVE  RuntimeInv'
<1>0. /\ TypeInv /\ PhaseInv /\ WaitInv /\ Places /\ LineInv
      /\ ReplyInv /\ ToldInv /\ AnswerInv /\ CallInv /\ QueryInv
  BY DEF RuntimeInv
<1> USE DEF coreVars
<1>a. /\ writer.pc \in {"idle", "send", "backfill"}
      /\ writer'.pc \in {"idle", "backfill", "drain"}
      /\ writer'.pc = "drain" => Left /\ admission' = FALSE
      /\ writer'.pc # "drain" => admission' = admission /\ stopping' = stopping
      /\ admission' \in BOOLEAN /\ writer' \in WriterStates
      /\ UNCHANGED <<queries, open, reader, mailbox, interrupt, requests, replies, log, answers,
                     cut>>
  <2>1. CASE WriterShuts
    <3>1. Left
      BY <1>0, <2>1 DEF WriterShuts, PhaseInv
    <3>2. writer.pc = "send" => writer.reply.ok \in BOOLEAN
      <4>1. writer.pc = "send" => writer.reply \in MutationReplies
        BY <1>0 DEF TypeInv, DatabaseTyped, WriterStates
      <4> QED
        BY <4>1 DEF MutationReplies
    <3>3. PICK v : writer' = [pc |-> "drain", ok |-> v] /\ v \in BOOLEAN
      BY <2>1, <3>2 DEF WriterShuts
    <3>4. writer'.pc = "drain" /\ writer' \in WriterStates
      BY <3>3 DEF WriterStates
    <3> QED
      BY <2>1, <3>1, <3>4 DEF WriterShuts, WriterVars
  <2>2. CASE BackfillStarts
    BY <1>0, <2>2 DEF BackfillStarts, WriterVars, WriterStates, TypeInv, DatabaseTyped
  <2>3. CASE BackfillEnds
    BY <1>0, <2>3 DEF BackfillEnds, WriterVars, Idle, WriterStates, TypeInv, DatabaseTyped
  <2> QED
    BY <2>1, <2>2, <2>3
<1>1. TypeInv'
  <2>1. DatabaseTyped'
    BY <1>0, <1>a DEF TypeInv, DatabaseTyped
  <2>2. CoreTyped'
    BY <1>0 DEF TypeInv, CoreTyped
  <2> QED
    BY <2>1, <2>2 DEF TypeInv
<1>2. PhaseInv' /\ WaitInv'
  <2>1. WaitInv'
    BY <1>0, <1>a DEF WaitInv, CommandsOpen
  <2>2. PhaseInv'
    BY <1>0, <1>a DEF PhaseInv, Left, CommandsOpen
  <2> QED
    BY <2>1, <2>2
<1>3. Places' /\ LineInv' /\ \A m \in Mutations : InLine(m)' <=> InLine(m)
  BY <1>0, <1>a, LineStays DEF InHand, AtWriter
<1>4. ToldInv'
  BY <1>0, <1>a, <1>3, ToldStays DEF Ran1
<1>5. ReplyInv'
  BY <1>0, <1>a, ReplyStays DEF EventIs
<1>6. AnswerInv'
  <2>1. \A m \in Mutations : Outstanding(m)' => Outstanding(m)
    BY <1>a DEF Outstanding, AtWriter, AtSend, Expected, IsReply
  <2>2. \A m \in Mutations : /\ Settled(m)' <=> Settled(m)
                             /\ Accounted(m) => Accounted(m)'
                             /\ Pending(m)' => Pending(m)
    BY <1>a DEF Settled, Ran1, Accounted, Waits, InHand, EventIs, Pending
  <2> QED
    BY <1>0, <1>1, <2>1, <2>2, AnswersStay DEF CommandsOpen, Ending
<1>7. CallInv'
  BY <1>0, <1>a, CallsStay
<1>8. QueryInv'
  BY <1>0, <1>a, QueriesStay DEF CommandsOpen
<1> QED
  BY <1>1, <1>2, <1>3, <1>4, <1>5, <1>6, <1>7, <1>8 DEF RuntimeInv

(* The drain runs what was admitted; the core expects no reply any more.   *)
LEMMA WriterDrainsSafe ==
  ASSUME RuntimeInv, NEW ok \in BOOLEAN, WriterDrains(ok), UNCHANGED coreVars
  PROVE  RuntimeInv'
<1>0. /\ TypeInv /\ PhaseInv /\ WaitInv /\ Places /\ LineInv
      /\ ReplyInv /\ ToldInv /\ AnswerInv /\ CallInv /\ QueryInv
  BY DEF RuntimeInv
<1> USE DEF coreVars
<1>a. /\ writer.pc = "drain" /\ writer' \in [pc : {"drain", "stopped"}, ok : BOOLEAN]
      /\ writer'.pc = "stopped" => requests = <<>>
      /\ UNCHANGED <<queries, open, reader, mailbox, interrupt, replies, admission, stopping,
                     backfill>>
  <2>1. writer \in [pc : {"drain", "stopped", "dead"}, ok : BOOLEAN] /\ writer.pc = "drain"
    BY <1>0 DEF WriterDrains, TypeInv, DatabaseTyped, WriterStates
  <2> QED
    BY <2>1 DEF WriterDrains, WriterVars
<1>b. writer'.pc \in {"drain", "stopped"} /\ writer' \in WriterStates
  BY <1>a DEF WriterStates
<1>c. Left /\ Left'
  BY <1>0, <1>a DEF PhaseInv, Left
<1>3. Places' /\ LineInv' /\ \A m \in Mutations : InLine(m)' <=> InLine(m)
  BY <1>0, WriterDrainsLine
<1>2. PhaseInv' /\ WaitInv'
  <2>1. requests = <<>> => requests' = <<>>
    BY DEF WriterDrains
  <2> QED
    BY <1>0, <1>a, <1>b, <1>c, <2>1 DEF PhaseInv, WaitInv, Left, CommandsOpen
<1>4. CASE requests = <<>>
  <2>1. UNCHANGED <<requests, log, answers, cut>>
    BY <1>4 DEF WriterDrains
  <2>2. TypeInv'
    BY <1>0, <1>a, <1>b, <2>1 DEF TypeInv, DatabaseTyped, CoreTyped
  <2>3. ToldInv'
    BY <1>0, <1>3, <2>1, ToldStays DEF Ran1
  <2>4. ReplyInv'
    BY <1>0, <1>a, <1>b, <2>1, ReplyStays DEF EventIs
  <2>5. AnswerInv'
    <3>1. \A m \in Mutations : Settled(m)' <=> Settled(m)
      BY <2>1 DEF Settled, Ran1
    <3>2. ~CommandsOpen' /\ core'.pc # "finish"
      BY <1>c DEF Left, CommandsOpen
    <3> QED
      BY <1>0, <2>2, <3>1, <3>2, AnswersStay DEF Ending
  <2>6. CallInv'
    BY <1>0, <1>a, <1>b, <2>1, CallsStay
  <2>7. QueryInv'
    BY <1>0, <1>a, QueriesStay DEF CommandsOpen
  <2> QED
    BY <1>2, <1>3, <2>2, <2>3, <2>4, <2>5, <2>6, <2>7 DEF RuntimeInv
<1>5. CASE requests # <<>>
  <2> PICK t : t = Tail(requests)
    OBVIOUS
  <2> PICK h : h = Head(requests)
    OBVIOUS
  <2>a. /\ requests' = t /\ log' = Append(log, <<h, ok>>)
        /\ answers' = IF h \in Writes
                      THEN [answers EXCEPT ![h] = IF ok THEN "done" ELSE "failed"] ELSE answers
    BY <1>5 DEF WriterDrains, Ran
  <2>b. requests \in Seq(Ids) /\ Len(requests) <= RequestCapacity /\ RequestCapacity \in Nat
    BY <1>0, DatabaseAssumption DEF TypeInv, DatabaseTyped
  <2>c. /\ t \in Seq(Ids) /\ h \in Ids /\ h = requests[1] /\ 1 \in DOMAIN requests
        /\ Len(requests) \in Nat /\ Len(t) = Len(requests) - 1 /\ Len(t) \in Nat
        /\ \A i \in DOMAIN t : i \in Nat /\ i + 1 \in DOMAIN requests /\ t[i] = requests[i + 1]
        /\ \A x : x \in ToSet(requests) <=> x = h \/ x \in ToSet(t)
        /\ \A i \in DOMAIN t : i >= 1
    <3>1. t \in Seq(Ids)
      BY <1>5, <2>b, TailIs
    <3>2. \A i \in DOMAIN t : i >= 1
      BY <3>1, LenProperties
    <3> QED
      BY <1>5, <2>b, <3>2, TailIs
  <2>d. /\ log' \in Seq(Ids \X BOOLEAN)
        /\ \A m : HasRun(m)' <=> HasRun(m) \/ m = h
        /\ \A m, o : Ran1(m, o)' <=> Ran1(m, o) \/ (m = h /\ o = ok)
        /\ \A i \in DOMAIN log : i \in DOMAIN log' /\ log'[i] = log[i] /\ i \in Nat
        /\ Len(log) + 1 \in DOMAIN log' /\ log'[Len(log) + 1] = <<h, ok>>
        /\ \A i \in DOMAIN log' : i \in DOMAIN log \/ i = Len(log) + 1
    BY <1>0, <2>a, <2>c, LogGrows
  <2>1. TypeInv'
    <3>1. answers' \in [Writes -> {"none", "done", "failed", "closed"}]
      BY <1>0, <2>a DEF TypeInv, DatabaseTyped
    <3>2. Len(requests') <= RequestCapacity
      BY <2>a, <2>b, <2>c
    <3>3. DatabaseTyped'
      BY <1>0, <1>a, <1>b, <2>a, <2>c, <2>d, <3>1, <3>2 DEF TypeInv, DatabaseTyped
    <3>4. CoreTyped'
      BY <1>0 DEF TypeInv, CoreTyped
    <3> QED
      BY <3>3, <3>4 DEF TypeInv
  <2>2. ToldInv'
    BY <1>0, <1>3, <2>d, ToldStays
  <2>3. ReplyInv'
    <3>1. \A x \in ToSet(log) : x \in ToSet(log')
      BY <2>d DEF ToSet
    <3> QED
      BY <1>0, <1>a, <1>b, <3>1, ReplyStays DEF EventIs
  <2>4. AnswerInv'
    <3>1. \A m \in Mutations : Settled(m) => Settled(m)'
      BY <2>d DEF Settled
    <3>2. ~CommandsOpen' /\ core'.pc # "finish"
      BY <1>c DEF Left, CommandsOpen
    <3> QED
      BY <1>0, <2>1, <3>1, <3>2, AnswersStay DEF Ending
  <2>5. CallInv'
    <3>1. \A w : /\ ~AtWriter(w) /\ ~AtWriter(w)'
                 /\ w \in ToSet(requests') <=> w \in ToSet(t)
      BY <1>a, <1>b, <2>a DEF AtWriter
    <3>2. \A w : (Started(w)' <=> HasRun(w) \/ w = h) /\ (Started(w) <=> HasRun(w))
      BY <2>d, <3>1 DEF Started
    <3>3. ASSUME h \in Writes
          PROVE  h \notin ToSet(t)
      <4>1. ASSUME NEW i \in DOMAIN t, t[i] = h
            PROVE  FALSE
        <5>1. i + 1 \in DOMAIN requests /\ requests[i + 1] = requests[1] /\ i \in Nat /\ i >= 1
          BY <2>c, <4>1
        <5>2. i + 1 = 1
          BY <1>0, <2>c, <3>3, <5>1 DEF CallInv
        <5> QED
          BY <5>1, <5>2
      <4> QED
        BY <4>1 DEF ToSet
    <3>4. \A i, j \in DOMAIN t : t[i] = t[j] /\ t[i] \in Writes => i = j
      <4>1. TAKE i, j \in DOMAIN t
      <4>2. HAVE t[i] = t[j] /\ t[i] \in Writes
      <4>3. i + 1 = j + 1
        BY <1>0, <2>c, <4>2 DEF CallInv
      <4> QED
        BY <2>c, <4>3
    <3>5. \A i, j \in DOMAIN log' : log'[i][1] = log'[j][1] /\ log'[i][1] \in Writes => i = j
      <4>1. h \in Writes => \A i \in DOMAIN log : log[i][1] # h
        BY <1>0, <2>c, <3>2 DEF CallInv, HasRun, Started
      <4>2. <<h, ok>>[1] = h
        OBVIOUS
      <4>3. \A i \in DOMAIN log' :
               \/ i \in DOMAIN log /\ log'[i][1] = log[i][1]
               \/ i = Len(log) + 1 /\ log'[i][1] = h
        BY <2>d, <4>2
      <4> QED
        BY <1>0, <4>1, <4>3 DEF CallInv
    <3>6. \A w \in Writes :
             /\ w \in ToSet(requests') => ~Started(w)' /\ w \in ToSet(called')
             /\ AtWriter(w)' => ~HasRun(w)' /\ w \in ToSet(called')
             /\ HasRun(w)' => w \in ToSet(called')
      BY <1>0, <2>c, <2>d, <3>1, <3>2, <3>3 DEF CallInv
    <3>7. \A w \in ToSet(called') :
             \/ w \in ToSet(requests') \/ AtWriter(w)'
             \/ HasRun(w)' /\ answers'[w] \in {"done", "failed"}
      <4>1. called \in Seq(Writes) /\ answers \in [Writes -> {"none", "done", "failed", "closed"}]
        BY <1>0 DEF TypeInv, CoreTyped, DatabaseTyped
      <4>2. \A w \in ToSet(called) : w \in Writes
        <5>1. \A i \in DOMAIN called : called[i] \in Writes
          BY <4>1, LenProperties, ElementOfSeq
        <5> QED
          BY <5>1 DEF ToSet
      <4>3. TAKE w \in ToSet(called')
      <4>4. w \in Writes /\ w \in ToSet(called)
        BY <4>2, <4>3
      <4>5. CASE w = h
        BY <2>a, <2>d, <4>1, <4>4, <4>5
      <4>6. CASE w # h
        <5>1. answers'[w] = answers[w]
          BY <2>a, <4>1, <4>4, <4>6
        <5> QED
          BY <1>0, <1>a, <2>c, <2>d, <3>1, <4>4, <4>6, <5>1 DEF CallInv
      <4> QED
        BY <4>5, <4>6
    <3> QED
      BY <2>a, <3>4, <3>5, <3>6, <3>7 DEF CallInv
  <2>6. QueryInv'
    BY <1>0, <1>a, QueriesStay DEF CommandsOpen
  <2> QED
    BY <1>2, <1>3, <2>1, <2>2, <2>3, <2>4, <2>5, <2>6 DEF RuntimeInv
<1> QED
  BY <1>4, <1>5

(* A writer that dies answers those who wait in its queue that it is gone. *)
LEMMA BackfillFailsSafe ==
  ASSUME RuntimeInv, BackfillFails, UNCHANGED coreVars
  PROVE  RuntimeInv'
<1>0. /\ TypeInv /\ PhaseInv /\ WaitInv /\ Places /\ LineInv
      /\ ReplyInv /\ ToldInv /\ AnswerInv /\ CallInv /\ QueryInv
  BY DEF RuntimeInv
<1> USE DEF coreVars
<1>a. /\ writer.pc = "backfill" /\ writer' = [pc |-> "dead", ok |-> FALSE] /\ requests' = <<>>
      /\ answers' = [w \in Writes |-> IF w \in ToSet(requests) THEN "closed" ELSE answers[w]]
      /\ UNCHANGED <<queries, open, reader, mailbox, interrupt, replies, admission, stopping,
                     backfill, log, cut>>
  BY DEF BackfillFails, WriterVars
<1>1. TypeInv'
  <2>1. answers' \in [Writes -> {"none", "done", "failed", "closed"}]
    BY <1>0, <1>a DEF TypeInv, DatabaseTyped
  <2>2. requests' \in Seq(Ids) /\ Len(requests') <= RequestCapacity
    BY <1>a, EmptyIs, DatabaseAssumption
  <2>3. writer' \in WriterStates
    BY <1>a DEF WriterStates
  <2>4. DatabaseTyped'
    BY <1>0, <1>a, <2>1, <2>2, <2>3 DEF TypeInv, DatabaseTyped
  <2>5. CoreTyped'
    BY <1>0 DEF TypeInv, CoreTyped
  <2> QED
    BY <2>4, <2>5 DEF TypeInv
<1>2. PhaseInv' /\ WaitInv'
  BY <1>0, <1>a DEF PhaseInv, WaitInv, Left, CommandsOpen
<1>3. Places' /\ LineInv' /\ \A m \in Mutations : InLine(m)' => InLine(m)
  BY <1>0, BackfillFailsLine
<1>4. ToldInv'
  BY <1>0, <1>a, <1>3, ToldStays DEF Ran1
<1>5. ReplyInv'
  BY <1>0, <1>a, ReplyStays DEF EventIs
<1>b. \A x : ~(x \in ToSet(requests'))
  BY <1>a, EmptyIs
<1>6. AnswerInv'
  <2>1. \A m \in Mutations : Outstanding(m)' => Outstanding(m)
    BY <1>a, <1>b DEF Outstanding, AtWriter, AtSend, Expected, IsReply
  <2>2. \A m \in Mutations : /\ Settled(m)' <=> Settled(m)
                             /\ Accounted(m) => Accounted(m)'
                             /\ Pending(m)' => Pending(m)
    BY <1>a DEF Settled, Ran1, Accounted, Waits, InHand, EventIs, Pending
  <2> QED
    BY <1>0, <1>1, <2>1, <2>2, AnswersStay DEF CommandsOpen, Ending
<1>7. CallInv'
  <2>1. DOMAIN requests' = {} /\ writer'.pc = "dead"
    BY <1>a, EmptyIs
  <2>2. \A w : ~AtWriter(w) /\ ~AtWriter(w)' /\ (HasRun(w)' <=> HasRun(w))
    BY <1>a DEF AtWriter, HasRun
  <2> QED
    BY <1>0, <1>a, <1>b, <2>1, <2>2 DEF CallInv, Started
<1>8. QueryInv'
  BY <1>0, <1>a, QueriesStay DEF CommandsOpen
<1> QED
  BY <1>1, <1>2, <1>3, <1>4, <1>5, <1>6, <1>7, <1>8 DEF RuntimeInv

-----------------------------------------------------------------------------
(* The query thread                                                        *)

(* Its steps touch no write; it sends no reply of a mutation.              *)
LEMMA ReaderSideSafe ==
  ASSUME RuntimeInv, UNCHANGED coreVars, UNCHANGED <<requests, writer, log, answers>>,
         DatabaseTyped', PhaseInv', WaitInv', QueryInv',
         \A i \in DOMAIN replies : i \in DOMAIN replies' /\ replies'[i] = replies[i],
         \A i \in DOMAIN replies' : i \in DOMAIN replies \/ replies'[i].what # "mutation"
  PROVE  RuntimeInv'
<1>0. /\ TypeInv /\ PhaseInv /\ WaitInv /\ Places /\ LineInv
      /\ ReplyInv /\ ToldInv /\ AnswerInv /\ CallInv /\ QueryInv
  BY DEF RuntimeInv
<1> USE DEF coreVars
<1>1. TypeInv'
  BY <1>0 DEF TypeInv, CoreTyped
<1>2. Places' /\ LineInv' /\ \A m \in Mutations : InLine(m)' <=> InLine(m)
  BY <1>0, LineStays DEF InHand, AtWriter
<1>3. ToldInv'
  BY <1>0, <1>2, ToldStays DEF Ran1
<1>4. /\ \A m : \A i \in DOMAIN replies' : IsReply(i, m)' <=> i \in DOMAIN replies /\ IsReply(i, m)
      /\ \A m : Expected(m)' <=> Expected(m)
  <2>1. \A m : \A i \in DOMAIN replies' : IsReply(i, m)' <=> i \in DOMAIN replies /\ IsReply(i, m)
    BY DEF IsReply
  <2> QED
    BY <2>1 DEF Expected
<1>5. ReplyInv'
  <2>1. \A i \in DOMAIN replies' : \A m \in Mutations : IsReply(i, m)' => Ran1(m, replies'[i].ok)
    BY <1>0, <1>4 DEF ReplyInv
  <2>2. \A m \in Mutations : AtSend(m)' => ~Expected(m)'
    BY <1>0, <1>4 DEF ReplyInv, AtSend
  <2>3. \A i, j \in DOMAIN replies' : \A m \in Mutations :
           IsReply(i, m)' /\ IsReply(j, m)' => i = j
    BY <1>0, <1>4 DEF ReplyInv
  <2>4. /\ writer'.pc = "send" => Ran1(writer'.reply.id, writer'.reply.ok)
        /\ \A m \in Mutations : EventIs("committed", m)' => Ran1(m, TRUE)
        /\ \A m \in Mutations : EventIs("failed", m)' => Ran1(m, FALSE)
    BY <1>0 DEF ReplyInv, EventIs
  <2>5. \A x, ok : Ran1(x, ok)' <=> Ran1(x, ok)
    BY DEF Ran1
  <2>6. (\A i \in DOMAIN replies : \A m \in Mutations : IsReply(i, m) => Ran1(m, replies[i].ok))'
    BY <2>1 DEF Ran1
  <2>7. (writer.pc = "send" => Ran1(writer.reply.id, writer.reply.ok))'
    BY <2>4 DEF Ran1
  <2> QED
    BY <2>2, <2>3, <2>4, <2>5, <2>6, <2>7 DEF ReplyInv
<1>6. AnswerInv'
  <2>1. \A m \in Mutations : Outstanding(m)' => Outstanding(m)
    BY <1>4 DEF Outstanding, AtWriter, AtSend
  <2>2. \A m \in Mutations : /\ Settled(m)' <=> Settled(m)
                             /\ Accounted(m) => Accounted(m)'
                             /\ Pending(m)' => Pending(m)
    BY DEF Settled, Ran1, Accounted, Waits, InHand, EventIs, Pending
  <2> QED
    BY <1>0, <1>1, <2>1, <2>2, AnswersStay DEF CommandsOpen, Ending
<1>7. CallInv'
  BY <1>0, CallsStay
<1> QED
  BY <1>1, <1>2, <1>3, <1>5, <1>6, <1>7 DEF RuntimeInv

LEMMA ReaderTakesSafe ==
  ASSUME RuntimeInv, ReaderTakes(Held), UNCHANGED coreVars
  PROVE  RuntimeInv'
<1>0. TypeInv /\ PhaseInv /\ WaitInv /\ QueryInv
  BY DEF RuntimeInv
<1> USE DEF coreVars
<1> PICK t : t = Tail(queries)
  OBVIOUS
<1> PICK d : d = Head(queries)
  OBVIOUS
<1>a. /\ reader.pc = "idle" /\ queries # <<>> /\ queries' = t
      /\ UNCHANGED <<requests, open, writer, backfill, log, answers, cut, replies, admission,
                     stopping>>
      /\ \/ /\ d[1] # "mailbox" /\ UNCHANGED <<mailbox, interrupt>>
            /\ reader' = [pc |-> "query", id |-> d, cut |-> FALSE]
         \/ /\ d[1] = "mailbox" /\ core.pc # "gate" /\ interrupt' = FALSE
            /\ \/ /\ mailbox = [state |-> "superseded", key |-> d]
                  /\ mailbox' = NoKey
                  /\ reader' = [pc |-> "send", reply |-> Reply("superseded", d, TRUE)]
               \/ /\ mailbox' = [state |-> "active", key |-> d]
                  /\ reader' = [pc |-> "query", id |-> d, cut |-> FALSE]
  BY DEF ReaderTakes, ReaderVars, Held, Skipped
<1>e. \/ reader' = [pc |-> "query", id |-> d, cut |-> FALSE]
      \/ reader' = [pc |-> "send", reply |-> [what |-> "superseded", id |-> d, ok |-> TRUE]]
  BY <1>a DEF Reply
<1>m. \/ d[1] # "mailbox" /\ UNCHANGED <<mailbox, interrupt>>
      \/ d[1] = "mailbox" /\ interrupt' = FALSE /\ mailbox' = NoKey
      \/ /\ d[1] = "mailbox" /\ interrupt' = FALSE
         /\ mailbox' = [state |-> "active", key |-> d]
  BY <1>a
<1>b. queries \in Seq(Queries) /\ Len(queries) <= QueryCapacity /\ QueryCapacity \in Nat
      /\ reader \in ReaderStates
  BY <1>0, DatabaseAssumption DEF TypeInv, DatabaseTyped
<1>c. /\ t \in Seq(Queries) /\ d \in Queries /\ d = queries[1] /\ 1 \in DOMAIN queries
      /\ Len(queries) \in Nat /\ Len(t) = Len(queries) - 1 /\ Len(t) \in Nat
      /\ \A i \in DOMAIN t : i \in Nat /\ i + 1 \in DOMAIN queries /\ t[i] = queries[i + 1]
      /\ \A x : x \in ToSet(queries) <=> x = d \/ x \in ToSet(t)
      /\ \A i \in DOMAIN t : i >= 1
  <2>1. t \in Seq(Queries)
    BY <1>a, <1>b, TailIs
  <2>2. \A i \in DOMAIN t : i >= 1
    BY <2>1, LenProperties
  <2> QED
    BY <1>a, <1>b, <2>2, TailIs
<1>d. /\ \A q : AtReader(q)' <=> q = d
      /\ \A q : ~AtReader(q) /\ ~Reading(q)
      /\ \A q : (Replied(q)' <=> Replied(q)) /\ (IsActive(q)' <=> IsActive(q))
      /\ reader'.pc # "stopped"
  <2>1. \A q : AtReader(q)' <=> q = d
    BY <1>e DEF AtReader, Reading, Sending
  <2>2. \A q : ~AtReader(q) /\ ~Reading(q)
    BY <1>a DEF AtReader, Reading, Sending
  <2>3. \A q : (Replied(q)' <=> Replied(q)) /\ (IsActive(q)' <=> IsActive(q))
    BY <1>a DEF Replied, IsActive
  <2> QED
    BY <1>e, <2>1, <2>2, <2>3
<1>1. DatabaseTyped'
  <2>1. Len(queries') <= QueryCapacity
    BY <1>a, <1>b, <1>c
  <2>2. reader' \in ReaderStates
    <3>1. [pc |-> "query", id |-> d, cut |-> FALSE] \in ReaderStates
      BY <1>c DEF ReaderStates
    <3>2. [what |-> "superseded", id |-> d, ok |-> TRUE] \in QueryReplies
      BY <1>c DEF QueryReplies
    <3>3. \A r \in QueryReplies : [pc |-> "send", reply |-> r] \in ReaderStates
      BY DEF ReaderStates
    <3> QED
      BY <1>e, <3>1, <3>2, <3>3
  <2>3. mailbox' \in MailboxStates /\ interrupt' \in BOOLEAN
    <3>1. d[1] = "mailbox" => d \in {"mailbox"} \X (1..MaxAsk)
      BY <1>c DEF Queries
    <3>2. mailbox \in MailboxStates /\ interrupt \in BOOLEAN
      BY <1>0 DEF TypeInv, DatabaseTyped
    <3>3. d[1] = "mailbox" => [state |-> "active", key |-> d] \in MailboxStates
      BY <3>1 DEF MailboxStates
    <3>4. NoKey \in MailboxStates
      BY DEF MailboxStates
    <3> QED
      BY <1>m, <3>2, <3>3, <3>4
  <2> QED
    BY <1>0, <1>a, <1>c, <2>1, <2>2, <2>3 DEF TypeInv, DatabaseTyped
<1>2. PhaseInv' /\ WaitInv'
  BY <1>0, <1>a, <1>d DEF PhaseInv, WaitInv, Left, CommandsOpen
<1>3. QueryInv'
  <2>1. SUFFICES ASSUME CommandsOpen
                 PROVE  PlaceInv' /\ NumberInv' /\ KeyInv' /\ ObsoleteOnly'
    BY DEF QueryInv, CommandsOpen
  <2>2. PlaceInv /\ NumberInv /\ KeyInv /\ ObsoleteOnly
    BY <1>0, <2>1 DEF QueryInv
  <2>3. \A i, j \in DOMAIN t : t[i] = t[j] => i = j
    <3>1. TAKE i, j \in DOMAIN t
    <3>2. HAVE t[i] = t[j]
    <3>3. i + 1 = j + 1
      BY <1>c, <2>2, <3>2 DEF PlaceInv
    <3> QED
      BY <1>c, <3>3
  <2>4. d \notin ToSet(t)
    <3>1. ASSUME NEW i \in DOMAIN t, t[i] = d
          PROVE  FALSE
      <4>1. i + 1 \in DOMAIN queries /\ queries[i + 1] = queries[1] /\ i \in Nat /\ i >= 1
        BY <1>c, <3>1
      <4>2. i + 1 = 1
        BY <1>c, <2>2, <4>1 DEF PlaceInv
      <4> QED
        BY <4>1, <4>2
    <3> QED
      BY <3>1 DEF ToSet
  <2>5. IsActive(d) /\ ~Replied(d)
    BY <1>c, <2>2 DEF PlaceInv
  <2>6. PlaceInv'
    <3>1. \A q \in Queries : q \in ToSet(t) => IsActive(q) /\ q # d /\ ~Replied(q)
      BY <1>c, <2>2, <2>4 DEF PlaceInv
    <3>2. \A q \in Queries : AtReader(q)' => IsActive(q) /\ ~Replied(q)
      BY <1>d, <2>5
    <3>3. \A k \in Kinds :
             LET q == <<k, schedule[k].active>> IN
             q[2] # None => q \in ToSet(t) \/ q = d \/ Replied(q)
      BY <1>c, <1>d, <2>2 DEF PlaceInv
    <3> QED
      BY <1>a, <1>d, <2>2, <2>3, <3>1, <3>2, <3>3 DEF PlaceInv
  <2>7. NumberInv'
    BY <2>2 DEF NumberInv
  <2>n. d[1] = "mailbox" => schedule["mailbox"].active = d[2] /\ d[2] # None /\ d[2] \in Nat
    <3>1. d[2] \in 1..MaxAsk /\ MaxAsk \in Nat
      BY <1>c, DatabaseAssumption DEF Queries
    <3> QED
      BY <2>5, <3>1 DEF IsActive, None
  <2>8. KeyInv'
    <3>1. CASE d[1] # "mailbox"
      <4>1. UNCHANGED <<mailbox, interrupt>> /\ \A q : q[1] = "mailbox" => ~Reading(q)'
        BY <1>m, <1>d, <3>1 DEF AtReader
      <4>2. Obsolete(mailbox.key)' <=> Obsolete(mailbox.key)
        BY <4>1 DEF Obsolete
      <4> QED
        BY <1>a, <1>d, <2>2, <4>1, <4>2 DEF KeyInv
    <3>2. CASE mailbox' = NoKey /\ core.pc # "gate" /\ reader'.pc = "send"
      BY <3>2 DEF KeyInv, NoKey, Reading
    <3>3. CASE /\ mailbox' = [state |-> "active", key |-> d] /\ core.pc # "gate"
               /\ reader' = [pc |-> "query", id |-> d, cut |-> FALSE] /\ d[1] = "mailbox"
      <4>1. mailbox'.state = "active" /\ mailbox'.key = d /\ \A q : Reading(q)' <=> q = d
        BY <3>3 DEF Reading
      <4>2. schedule["mailbox"].active = d[2] /\ d[2] # None /\ d[2] \in Nat
        BY <2>n, <3>3
      <4>3. "mailbox" \in Kinds
        BY DEF Kinds
      <4>4. /\ d[2] <= asked["mailbox"]
            /\ schedule["mailbox"].active # None => d[2] <= schedule["mailbox"].active
            /\ schedule["mailbox"].pending # None => d[2] < schedule["mailbox"].pending
            /\ \A i \in DOMAIN commands : commands[i][1] = "mailbox" => d[2] < commands[i][2]
        BY <2>2, <4>2, <4>3 DEF NumberInv
      <4> QED
        BY <3>3, <4>1, <4>4 DEF KeyInv
    <3> QED
      BY <1>a, <3>1, <3>2, <3>3 DEF Reply
  <2>9. ObsoleteOnly'
    <3>1. reader'.pc = "query" => ~reader'.cut
      BY <1>e
    <3>2. reader'.pc = "send" => Obsolete(reader'.reply.id)
      <4>1. SUFFICES ASSUME reader'.pc = "send"
                     PROVE  Obsolete(reader'.reply.id)
        OBVIOUS
      <4>2. mailbox = [state |-> "superseded", key |-> d] /\ d[1] = "mailbox"
            /\ reader'.reply.id = d
        BY <1>a, <4>1 DEF Reply
      <4>3. mailbox.state = "superseded" /\ mailbox.key = d
        BY <4>2
      <4>4. schedule["mailbox"].pending # None
        BY <2>2, <2>n, <4>2, <4>3 DEF KeyInv
      <4> QED
        BY <2>n, <4>2, <4>4 DEF Obsolete
    <3> QED
      BY <1>a, <2>1, <2>2, <3>1, <3>2 DEF ObsoleteOnly, Obsolete
  <2> QED
    BY <2>6, <2>7, <2>8, <2>9
<1> QED
  BY <1>1, <1>2, <1>3, <1>a, ReaderSideSafe

LEMMA ReaderRanSafe ==
  ASSUME RuntimeInv, ReaderRan(Held), UNCHANGED coreVars
  PROVE  RuntimeInv'
<1>0. TypeInv /\ PhaseInv /\ WaitInv /\ QueryInv
  BY DEF RuntimeInv
<1> USE DEF coreVars
<1> PICK d : d = reader.id
  OBVIOUS
<1> PICK r : r = IF d[1] = "mailbox" /\ mailbox.state = "activeSuperseded"
                 THEN Reply("superseded", d, TRUE) ELSE Reply("loaded", d, ~reader.cut)
  OBVIOUS
<1>a. /\ reader.pc = "query" /\ reader' = [pc |-> "send", reply |-> r]
      /\ UNCHANGED <<queries, requests, open, writer, backfill, log, answers, cut, replies,
                     admission, stopping>>
      /\ \/ d[1] # "mailbox" /\ UNCHANGED <<mailbox, interrupt>>
         \/ d[1] = "mailbox" /\ core.pc # "gate" /\ mailbox' = NoKey /\ interrupt' = FALSE
  BY DEF ReaderRan, ReaderVars, Held
<1>b. reader \in [pc : {"query"}, id : Queries, cut : BOOLEAN]
  BY <1>0, <1>a DEF TypeInv, DatabaseTyped, ReaderStates
<1>c. /\ d \in Queries /\ r \in QueryReplies /\ r.id = d
      /\ r.what = "superseded" => d[1] = "mailbox" /\ mailbox.state = "activeSuperseded"
  <2>1. d \in Queries /\ (~reader.cut) \in BOOLEAN
    BY <1>b
  <2>2. CASE d[1] = "mailbox" /\ mailbox.state = "activeSuperseded"
    BY <2>1, <2>2 DEF Reply, QueryReplies
  <2>3. CASE ~(d[1] = "mailbox" /\ mailbox.state = "activeSuperseded")
    BY <2>1, <2>3 DEF Reply, QueryReplies
  <2> QED
    BY <2>2, <2>3
<1>d. /\ \A q : (AtReader(q)' <=> q = d) /\ (AtReader(q) <=> q = d)
      /\ \A q : ~Reading(q)' /\ (Reading(q) <=> q = d)
      /\ \A q : (Replied(q)' <=> Replied(q)) /\ (IsActive(q)' <=> IsActive(q))
  <2>1. \A q : (AtReader(q)' <=> q = d) /\ (AtReader(q) <=> q = d)
    BY <1>a, <1>c DEF AtReader, Reading, Sending
  <2>2. \A q : ~Reading(q)' /\ (Reading(q) <=> q = d)
    BY <1>a DEF Reading
  <2>3. \A q : (Replied(q)' <=> Replied(q)) /\ (IsActive(q)' <=> IsActive(q))
    BY <1>a DEF Replied, IsActive
  <2> QED
    BY <2>1, <2>2, <2>3
<1>1. DatabaseTyped'
  <2>1. reader' \in ReaderStates
    BY <1>a, <1>c DEF ReaderStates
  <2>2. mailbox' \in MailboxStates /\ interrupt' \in BOOLEAN
    <3>1. mailbox \in MailboxStates /\ interrupt \in BOOLEAN /\ NoKey \in MailboxStates
      BY <1>0 DEF TypeInv, DatabaseTyped, MailboxStates
    <3> QED
      BY <1>a, <3>1
  <2> QED
    BY <1>0, <1>a, <2>1, <2>2 DEF TypeInv, DatabaseTyped
<1>2. PhaseInv' /\ WaitInv'
  BY <1>0, <1>a DEF PhaseInv, WaitInv, Left, CommandsOpen
<1>3. QueryInv'
  <2>1. SUFFICES ASSUME CommandsOpen
                 PROVE  PlaceInv' /\ NumberInv' /\ KeyInv' /\ ObsoleteOnly'
    BY DEF QueryInv, CommandsOpen
  <2>2. PlaceInv /\ NumberInv /\ KeyInv /\ ObsoleteOnly
    BY <1>0, <2>1 DEF QueryInv
  <2>3. PlaceInv'
    BY <1>a, <1>d, <2>2 DEF PlaceInv
  <2>4. NumberInv'
    BY <2>2 DEF NumberInv
  <2>5. KeyInv'
    <3>1. CASE d[1] # "mailbox"
      <4>1. UNCHANGED <<mailbox, interrupt>>
        BY <1>a, <3>1
      <4>2. Obsolete(mailbox.key)' <=> Obsolete(mailbox.key)
        BY <4>1 DEF Obsolete
      <4>3. \A q : q[1] = "mailbox" => ~Reading(q) /\ ~Reading(q)'
        BY <1>d, <3>1
      <4> QED
        BY <2>2, <4>1, <4>2, <4>3 DEF KeyInv
    <3>2. CASE d[1] = "mailbox"
      <4>1. mailbox' = NoKey /\ core.pc # "gate"
        BY <1>a, <3>2
      <4> QED
        BY <1>d, <4>1 DEF KeyInv, NoKey
    <3> QED
      BY <3>1, <3>2
  <2>6. ObsoleteOnly'
    <3>1. r.what = "superseded" => Obsolete(d)
      <4>1. r.what = "superseded" => mailbox.state = "activeSuperseded" /\ mailbox.key = d
        BY <1>c, <1>d, <2>2 DEF KeyInv
      <4> QED
        BY <2>2, <4>1 DEF KeyInv
    <3>2. \A i \in DOMAIN replies : replies[i].what = "superseded" => Obsolete(replies[i].id)
      BY <2>1, <2>2 DEF ObsoleteOnly
    <3>3. \A q : Obsolete(q)' <=> Obsolete(q)
      BY DEF Obsolete
    <3>4. reader'.pc = "send" /\ reader'.reply = r
      BY <1>a
    <3> QED
      BY <1>a, <1>c, <3>1, <3>2, <3>3, <3>4 DEF ObsoleteOnly, Obsolete
  <2> QED
    BY <2>3, <2>4, <2>5, <2>6
<1> QED
  BY <1>1, <1>2, <1>3, <1>a, ReaderSideSafe

LEMMA ReaderSendsSafe ==
  ASSUME RuntimeInv, ReaderSends, UNCHANGED coreVars
  PROVE  RuntimeInv'
<1>0. TypeInv /\ PhaseInv /\ WaitInv /\ QueryInv
  BY DEF RuntimeInv
<1> USE DEF coreVars
<1> PICK r : r = reader.reply
  OBVIOUS
<1> PICK n : n = Len(replies) + 1
  OBVIOUS
<1>a. /\ reader.pc = "send" /\ Len(replies) < ReplyCapacity
      /\ replies' = Append(replies, r) /\ reader' = [pc |-> "idle"]
      /\ UNCHANGED <<queries, requests, open, writer, backfill, log, answers, cut, mailbox,
                     interrupt, admission, stopping>>
  BY DEF ReaderSends, ReaderVars, Idle
<1>b. /\ r \in QueryReplies /\ r.what # "mutation" /\ r.id \in Queries
  <2>1. r \in QueryReplies
    BY <1>0, <1>a DEF TypeInv, DatabaseTyped, ReaderStates
  <2> QED
    BY <2>1 DEF QueryReplies
<1>c. /\ replies' \in Seq(MutationReplies \cup QueryReplies) /\ Len(replies') = n
      /\ Len(replies) \in Nat /\ replies' # <<>>
      /\ \A i \in DOMAIN replies : i \in DOMAIN replies' /\ replies'[i] = replies[i]
      /\ n \in DOMAIN replies' /\ replies'[n] = r
      /\ \A i \in DOMAIN replies' : i \in DOMAIN replies \/ i = n
  <2>1. replies \in Seq(MutationReplies \cup QueryReplies)
    BY <1>0 DEF TypeInv, DatabaseTyped
  <2> QED
    BY <1>a, <1>b, <2>1, AppendIs, AppendProperties
<1>d. /\ \A q : ~AtReader(q)' /\ (AtReader(q) <=> q = r.id)
      /\ \A q : ~Reading(q)' /\ ~Reading(q)
      /\ \A q : (Replied(q)' <=> Replied(q) \/ q = r.id) /\ (IsActive(q)' <=> IsActive(q))
  <2>1. \A q : ~AtReader(q)' /\ (AtReader(q) <=> q = r.id)
    BY <1>a DEF AtReader, Reading, Sending
  <2>2. \A q : ~Reading(q)' /\ ~Reading(q)
    BY <1>a DEF Reading
  <2>3. \A q : (Replied(q)' <=> Replied(q) \/ q = r.id) /\ (IsActive(q)' <=> IsActive(q))
    BY <1>b, <1>c DEF Replied, IsActive
  <2> QED
    BY <2>1, <2>2, <2>3
<1>1. DatabaseTyped'
  <2>1. ReplyCapacity \in Nat
    BY DatabaseAssumption
  <2>2. Len(replies') <= ReplyCapacity
    BY <1>a, <1>c, <2>1
  <2>3. reader' \in ReaderStates
    BY <1>a DEF ReaderStates
  <2> QED
    BY <1>0, <1>a, <1>c, <2>2, <2>3 DEF TypeInv, DatabaseTyped
<1>2. PhaseInv' /\ WaitInv'
  BY <1>0, <1>a, <1>c DEF PhaseInv, WaitInv, Left, CommandsOpen
<1>3. QueryInv'
  <2>1. SUFFICES ASSUME CommandsOpen
                 PROVE  PlaceInv' /\ NumberInv' /\ KeyInv' /\ ObsoleteOnly'
    BY DEF QueryInv, CommandsOpen
  <2>2. PlaceInv /\ NumberInv /\ KeyInv /\ ObsoleteOnly
    BY <1>0, <2>1 DEF QueryInv
  <2>3. PlaceInv'
    <3>1. ~Replied(r.id) /\ IsActive(r.id) /\ r.id \notin ToSet(queries)
      BY <1>b, <1>d, <2>2 DEF PlaceInv
    <3>2. \A i, j \in DOMAIN replies' :
             /\ replies'[i].what # "mutation" /\ replies'[j].what # "mutation"
             /\ replies'[i].id = replies'[j].id
             => i = j
      BY <1>c, <2>2, <3>1 DEF PlaceInv, Replied
    <3>3. \A k \in Kinds :
             LET q == <<k, schedule[k].active>> IN
             q[2] # None => q \in ToSet(queries) \/ Replied(q)'
      BY <1>d, <2>2 DEF PlaceInv
    <3> QED
      BY <1>a, <1>d, <2>2, <3>1, <3>2, <3>3 DEF PlaceInv
  <2>4. NumberInv'
    BY <2>2 DEF NumberInv
  <2>5. KeyInv'
    <3>1. Obsolete(mailbox.key)' <=> Obsolete(mailbox.key)
      BY <1>a DEF Obsolete
    <3> QED
      BY <1>a, <1>d, <2>2, <3>1 DEF KeyInv
  <2>6. ObsoleteOnly'
    <3>1. r.what = "superseded" => Obsolete(r.id)
      BY <1>a, <2>1, <2>2 DEF ObsoleteOnly
    <3>2. \A i \in DOMAIN replies : replies[i].what = "superseded" => Obsolete(replies[i].id)
      BY <2>1, <2>2 DEF ObsoleteOnly
    <3>3. \A i \in DOMAIN replies' : replies'[i].what = "superseded" => Obsolete(replies'[i].id)
      BY <1>c, <3>1, <3>2
    <3> QED
      BY <1>a, <3>3 DEF ObsoleteOnly, Obsolete
  <2> QED
    BY <2>3, <2>4, <2>5, <2>6
<1>4. \A i \in DOMAIN replies' : i \in DOMAIN replies \/ replies'[i].what # "mutation"
  BY <1>b, <1>c
<1> QED
  BY <1>1, <1>2, <1>3, <1>4, <1>a, <1>c, ReaderSideSafe

LEMMA ReaderShutsSafe ==
  ASSUME RuntimeInv, ReaderShuts, UNCHANGED coreVars
  PROVE  RuntimeInv'
<1>0. TypeInv /\ PhaseInv /\ WaitInv
  BY DEF RuntimeInv
<1> USE DEF coreVars
<1>a. /\ Left /\ reader' = Stopped /\ queries' = <<>> /\ admission' \in {admission, FALSE}
      /\ UNCHANGED <<requests, open, writer, backfill, log, answers, cut, replies, mailbox,
                     interrupt>>
  BY <1>0 DEF ReaderShuts, ReaderVars, PhaseInv
<1>1. DatabaseTyped'
  <2>1. queries' \in Seq(Queries) /\ Len(queries') <= QueryCapacity
    BY <1>a, EmptyIs, DatabaseAssumption
  <2>2. reader' \in ReaderStates /\ admission' \in BOOLEAN
    BY <1>0, <1>a DEF ReaderStates, Stopped, TypeInv, DatabaseTyped
  <2> QED
    BY <1>0, <1>a, <2>1, <2>2 DEF TypeInv, DatabaseTyped
<1>b. ~admission => ~admission'
  BY DEF ReaderShuts
<1>2. PhaseInv' /\ WaitInv' /\ QueryInv'
  <2>1. Left' /\ ~CommandsOpen'
    BY <1>a DEF Left, CommandsOpen
  <2>2. PhaseInv'
    BY <1>0, <1>a, <1>b, <2>1 DEF PhaseInv
  <2> QED
    BY <1>0, <1>a, <2>1, <2>2 DEF WaitInv, QueryInv
<1> QED
  BY <1>1, <1>2, <1>a, ReaderSideSafe

-----------------------------------------------------------------------------
(* The loop                                                                *)

(* Steps that move the loop and touch no write.                            *)
LEMMA CoreSideSafe ==
  ASSUME RuntimeInv,
         UNCHANGED <<requests, writer, log, answers, replies, commands, sent, told, called,
                     active>>,
         TypeInv', PhaseInv', WaitInv', QueryInv', InHand' = InHand,
         \A m \in Mutations : ~EventIs("committed", m)' /\ ~EventIs("failed", m)'
                              /\ ~EventIs("failed", m),
         Ending' /\ core'.ok => Ending /\ core.ok,
         CommandsOpen' \/ core'.pc = "finish" =>
             /\ CommandsOpen \/ core.pc = "finish"
             /\ core.pc = "finish" /\ core.failed => core'.pc = "finish" /\ core'.failed
  PROVE  RuntimeInv'
<1>0. /\ TypeInv /\ PhaseInv /\ WaitInv /\ Places /\ LineInv
      /\ ReplyInv /\ ToldInv /\ AnswerInv /\ CallInv /\ QueryInv
  BY DEF RuntimeInv
<1>1. Places' /\ LineInv' /\ \A m \in Mutations : InLine(m)' <=> InLine(m)
  BY <1>0, LineStays DEF AtWriter
<1>2. ToldInv'
  BY <1>0, <1>1, ToldStays DEF Ran1
<1>3. ReplyInv'
  BY <1>0, ReplyStays
<1>4. AnswerInv'
  <2>1. \A m \in Mutations : Outstanding(m)' <=> Outstanding(m)
    BY DEF Outstanding, AtWriter, AtSend, Expected, IsReply
  <2>2. \A m \in Mutations : (Settled(m)' <=> Settled(m)) /\ (Waits(m)' <=> Waits(m))
    BY DEF Settled, Ran1, Waits
  <2>3. \A m \in Mutations : Pending(m)' <=> Pending(m)
    BY <2>2 DEF Pending
  <2>4. CommandsOpen' \/ core'.pc = "finish" => \A m \in Mutations : Accounted(m) => Accounted(m)'
    BY <2>2, <2>3 DEF Accounted
  <2> QED
    BY <1>0, <2>1, <2>2, <2>3, <2>4, AnswersStay
<1>5. CallInv'
  BY <1>0, CallsStay
<1> QED
  BY <1>1, <1>2, <1>3, <1>4, <1>5 DEF RuntimeInv

(* The thread that is cut executes the mailbox query whose key is held.    *)
LEMMA InterruptsReaderSafe ==
  ASSUME RuntimeInv, InterruptsReader
  PROVE  RuntimeInv'
<1>0. TypeInv /\ PhaseInv /\ WaitInv /\ QueryInv
  BY DEF RuntimeInv
<1>a. /\ core.pc = "gate" /\ core' = [pc |-> "loop"]
      /\ reader' = IF reader.pc = "query" THEN [reader EXCEPT !.cut = TRUE] ELSE reader
      /\ UNCHANGED <<requests, queries, replies, open, admission, writer, mailbox, interrupt,
                     stopping, backfill, log, answers, cut, commands, composes, events, slots,
                     shutdown, schedule, active, streak, called, statuses, sent, told, asked,
                     seen, waited>>
  BY DEF InterruptsReader, Cut, Loop
<1>b. CommandsOpen /\ CommandsOpen' /\ ~Left /\ ~Left' /\ ~Ending'
  BY <1>a DEF CommandsOpen, Left, Ending
<1>c. PlaceInv /\ NumberInv /\ KeyInv /\ ObsoleteOnly
  BY <1>0, <1>b DEF QueryInv
<1>d. /\ mailbox.state = "activeSuperseded" /\ reader.pc = "query" /\ reader.id = mailbox.key
      /\ Obsolete(mailbox.key)
  <2>1. mailbox.state = "activeSuperseded"
    BY <1>a, <1>c DEF KeyInv
  <2>2. mailbox.key \in Queries /\ mailbox.key[1] = "mailbox"
    <3>1. mailbox.key \in {"mailbox"} \X (1..MaxAsk)
      BY <1>0, <2>1 DEF TypeInv, DatabaseTyped, MailboxStates, NoKey
    <3> QED
      BY <3>1 DEF Queries, Kinds
  <2> QED
    BY <1>c, <2>1, <2>2 DEF KeyInv, Reading
<1>e. reader \in [pc : {"query"}, id : Queries, cut : BOOLEAN]
  BY <1>0, <1>d DEF TypeInv, DatabaseTyped, ReaderStates
<1>f. reader' \in [pc : {"query"}, id : Queries, cut : BOOLEAN]
      /\ reader'.id = reader.id /\ reader'.pc = "query"
  BY <1>a, <1>d, <1>e
<1>1. TypeInv'
  <2>1. DatabaseTyped'
    BY <1>0, <1>a, <1>f DEF TypeInv, DatabaseTyped, ReaderStates
  <2>2. core' \in CoreStates
    BY <1>a DEF CoreStates
  <2>3. CoreTyped'
    BY <1>0, <1>a, <2>2 DEF TypeInv, CoreTyped
  <2> QED
    BY <2>1, <2>3 DEF TypeInv
<1>2. PhaseInv' /\ WaitInv'
  BY <1>0, <1>a, <1>b, <1>f DEF PhaseInv, WaitInv
<1>3. QueryInv'
  <2>1. \A q : /\ AtReader(q)' <=> AtReader(q)
               /\ Reading(q)' <=> Reading(q)
               /\ Replied(q)' <=> Replied(q)
               /\ IsActive(q)' <=> IsActive(q)
               /\ Obsolete(q)' <=> Obsolete(q)
    BY <1>a, <1>d, <1>f DEF AtReader, Reading, Sending, Replied, IsActive, Obsolete
  <2>2. PlaceInv'
    BY <1>a, <1>c, <2>1 DEF PlaceInv
  <2>3. NumberInv'
    BY <1>a, <1>c DEF NumberInv
  <2>4. KeyInv'
    <3>1. Obsolete(mailbox.key)' <=> Obsolete(mailbox.key)
      BY <1>a DEF Obsolete
    <3> QED
      BY <1>a, <1>c, <2>1, <3>1 DEF KeyInv
  <2>5. ObsoleteOnly'
    BY <1>a, <1>b, <1>c, <1>d, <1>f DEF ObsoleteOnly, Obsolete
  <2> QED
    BY <2>2, <2>3, <2>4, <2>5 DEF QueryInv
<1>4. InHand' = InHand
  BY <1>a DEF InHand
<1>5. \A m \in Mutations : ~EventIs("committed", m)' /\ ~EventIs("failed", m)'
                           /\ ~EventIs("failed", m)
  BY <1>a DEF EventIs
<1> QED
  BY <1>1, <1>2, <1>3, <1>4, <1>5, <1>a, <1>b, CoreSideSafe

LEMMA OtherInputSafe ==
  ASSUME RuntimeInv, OtherInput
  PROVE  RuntimeInv'
<1>0. TypeInv /\ PhaseInv /\ WaitInv /\ QueryInv
  BY DEF RuntimeInv
<1> PICK e : e = Event("status", None)
  OBVIOUS
<1>a. /\ core = [pc |-> "loop"] /\ core' = [pc |-> "send", event |-> e] /\ streak' = 0
      /\ replies = <<>>
      /\ UNCHANGED <<dbVars, commands, composes, events, slots, shutdown, schedule, active,
                     called, sent, told, asked, seen, waited>>
  BY DEF OtherInput, Serving, OthersReady, TookOther, Loop
<1> USE DEF dbVars
<1>b. /\ CommandsOpen /\ CommandsOpen' /\ ~Left /\ ~Left' /\ ~Ending' /\ e \in Events
      /\ e.kind = "status"
  BY <1>a DEF CommandsOpen, Left, Ending, Events, Event
<1>1. TypeInv'
  <2>1. DatabaseTyped'
    BY <1>0, <1>a DEF TypeInv, DatabaseTyped
  <2>2. core' \in CoreStates
    BY <1>a, <1>b DEF CoreStates
  <2>3. streak' \in 0..Burst
    BY <1>a, RuntimeAssumption
  <2>4. CoreTyped'
    BY <1>0, <1>a, <2>2, <2>3 DEF TypeInv, CoreTyped
  <2> QED
    BY <2>1, <2>4 DEF TypeInv
<1>2. PhaseInv' /\ WaitInv'
  <2>1. waited = 0
    BY <1>0, <1>a, <1>b DEF WaitInv
  <2> QED
    BY <1>0, <1>a, <1>b, <2>1 DEF PhaseInv, WaitInv
<1>3. QueryInv'
  BY <1>0, <1>a, <1>b, QueriesStay
<1>4. InHand' = InHand
  BY <1>a, <1>b DEF InHand
<1>5. \A m \in Mutations : ~EventIs("committed", m)' /\ ~EventIs("failed", m)'
                           /\ ~EventIs("failed", m)
  BY <1>a, <1>b DEF EventIs, Event
<1> QED
  BY <1>1, <1>2, <1>3, <1>4, <1>5, <1>a, <1>b, CoreSideSafe

LEMMA ComposeCommandSafe ==
  ASSUME RuntimeInv, ComposeCommand
  PROVE  RuntimeInv'
<1>0. TypeInv /\ PhaseInv /\ WaitInv /\ QueryInv
  BY DEF RuntimeInv
<1> PICK w : w = Head(composes)
  OBVIOUS
<1>a. /\ core = [pc |-> "loop"] /\ core' = [pc |-> "compose", id |-> w, last |-> FALSE]
      /\ streak' = 0 /\ replies = <<>> /\ composes # <<>> /\ composes' = <<>>
      /\ UNCHANGED <<dbVars, loopVars, commands, events, slots, schedule, active, waited>>
  BY DEF ComposeCommand, Serving, OthersReady, TookOther, Loop
<1> USE DEF dbVars, loopVars
<1>b. CommandsOpen /\ CommandsOpen' /\ ~Left /\ ~Left' /\ ~Ending'
  BY <1>a DEF CommandsOpen, Left, Ending
<1>1. TypeInv'
  <2>1. DatabaseTyped'
    BY <1>0, <1>a DEF TypeInv, DatabaseTyped
  <2>2. w \in Composes
    BY <1>0, <1>a, TailIs DEF TypeInv, CoreTyped
  <2>3. core' \in CoreStates
    BY <1>a, <2>2 DEF CoreStates
  <2>4. streak' \in 0..Burst /\ composes' \in Seq(Composes) /\ Len(composes') <= 1
    BY <1>a, EmptyIs, RuntimeAssumption
  <2>5. CoreTyped'
    BY <1>0, <1>a, <2>3, <2>4 DEF TypeInv, CoreTyped
  <2> QED
    BY <2>1, <2>5 DEF TypeInv
<1>2. PhaseInv' /\ WaitInv'
  <2>1. waited = 0
    BY <1>0, <1>a, <1>b DEF WaitInv
  <2> QED
    BY <1>0, <1>a, <1>b, <2>1 DEF PhaseInv, WaitInv
<1>3. QueryInv'
  BY <1>0, <1>a, <1>b, QueriesStay
<1>4. InHand' = InHand
  BY <1>a DEF InHand
<1>5. \A m \in Mutations : ~EventIs("committed", m)' /\ ~EventIs("failed", m)'
                           /\ ~EventIs("failed", m)
  BY <1>a DEF EventIs
<1> QED
  BY <1>1, <1>2, <1>3, <1>4, <1>5, <1>a, <1>b, CoreSideSafe

(* Inside the loop it goes on, after the end it ends like that.            *)
LEMMA ComposeEndsSafe ==
  ASSUME RuntimeInv, ComposeEnds
  PROVE  RuntimeInv'
<1>0. TypeInv /\ PhaseInv /\ WaitInv /\ QueryInv
  BY DEF RuntimeInv
<1>a. /\ core.pc = "compose"
      /\ core' = IF core.last THEN [pc |-> "last", ok |-> core.ok] ELSE [pc |-> "loop"]
      /\ UNCHANGED <<dbVars, callVars, called>>
  BY DEF ComposeEnds, Compose, Loop
<1> USE DEF dbVars, callVars
<1>b. \/ core \in [pc : {"compose"}, id : Composes, last : {FALSE}]
      \/ core \in [pc : {"compose"}, id : Composes, last : {TRUE}, ok : BOOLEAN]
  BY <1>0, <1>a DEF TypeInv, CoreTyped, CoreStates
<1>c. \/ core.last = FALSE /\ core' = [pc |-> "loop"]
      \/ core.last = TRUE /\ core.ok \in BOOLEAN /\ core' = [pc |-> "last", ok |-> core.ok]
  BY <1>a, <1>b
<1>d. /\ ~Left /\ ~Left' /\ (CommandsOpen' <=> CommandsOpen) /\ core'.pc \in {"loop", "last"}
      /\ Ending' /\ core'.ok => Ending /\ core.ok
  BY <1>a, <1>c DEF CommandsOpen, Left, Ending
<1>1. TypeInv'
  <2>1. DatabaseTyped'
    BY <1>0, <1>a DEF TypeInv, DatabaseTyped
  <2>2. core' \in CoreStates
    <3>1. [pc |-> "loop"] \in CoreStates /\ \A v \in BOOLEAN : [pc |-> "last", ok |-> v] \in CoreStates
      BY DEF CoreStates
    <3> QED
      BY <1>c, <3>1
  <2>3. CoreTyped'
    BY <1>0, <1>a, <2>2 DEF TypeInv, CoreTyped
  <2> QED
    BY <2>1, <2>3 DEF TypeInv
<1>2. PhaseInv' /\ WaitInv'
  BY <1>0, <1>a, <1>d DEF PhaseInv, WaitInv
<1>3. QueryInv'
  BY <1>0, <1>a, <1>d, QueriesStay
<1>4. InHand' = InHand
  BY <1>a, <1>d DEF InHand
<1>5. \A m \in Mutations : ~EventIs("committed", m)' /\ ~EventIs("failed", m)'
                           /\ ~EventIs("failed", m)
  BY <1>a, <1>d DEF EventIs
<1> QED
  BY <1>1, <1>2, <1>3, <1>4, <1>5, <1>a, <1>d, CoreSideSafe

LEMMA LastComposeSafe ==
  ASSUME RuntimeInv, LastCompose
  PROVE  RuntimeInv'
<1>0. TypeInv /\ PhaseInv /\ WaitInv /\ QueryInv
  BY DEF RuntimeInv
<1> PICK w : w = Head(composes)
  OBVIOUS
<1>a. /\ core.pc = "last" /\ composes # <<>> /\ composes' = <<>>
      /\ core' = [pc |-> "compose", id |-> w, last |-> TRUE, ok |-> core.ok]
      /\ UNCHANGED <<dbVars, loopVars, commands, events, slots, schedule, active, streak, waited>>
  BY DEF LastCompose
<1> USE DEF dbVars, loopVars
<1>b. ~CommandsOpen /\ ~CommandsOpen' /\ ~Left /\ ~Left' /\ Ending /\ core'.pc = "compose"
      /\ core'.ok = core.ok
  BY <1>a DEF CommandsOpen, Left, Ending
<1>1. TypeInv'
  <2>1. DatabaseTyped'
    BY <1>0, <1>a DEF TypeInv, DatabaseTyped
  <2>2. w \in Composes /\ core.ok \in BOOLEAN
    BY <1>0, <1>a, TailIs DEF TypeInv, CoreTyped, CoreStates
  <2>3. core' \in CoreStates
    BY <1>a, <2>2 DEF CoreStates
  <2>4. composes' \in Seq(Composes) /\ Len(composes') <= 1
    BY <1>a, EmptyIs
  <2>5. CoreTyped'
    BY <1>0, <1>a, <2>3, <2>4 DEF TypeInv, CoreTyped
  <2> QED
    BY <2>1, <2>5 DEF TypeInv
<1>2. PhaseInv' /\ WaitInv' /\ QueryInv'
  BY <1>0, <1>a, <1>b DEF PhaseInv, WaitInv, QueryInv
<1>3. InHand' = InHand
  BY <1>a DEF InHand
<1>4. \A m \in Mutations : ~EventIs("committed", m)' /\ ~EventIs("failed", m)'
                           /\ ~EventIs("failed", m)
  BY <1>a DEF EventIs
<1> QED
  BY <1>1, <1>2, <1>3, <1>4, <1>a, <1>b, CoreSideSafe

LEMMA CutTyped ==
  ASSUME reader \in ReaderStates
  PROVE  Cut(reader) \in ReaderStates /\ Cut(reader).pc = reader.pc
<1>1. CASE reader.pc = "query"
  <2>1. reader \in [pc : {"query"}, id : Queries, cut : BOOLEAN]
    BY <1>1 DEF ReaderStates
  <2>2. Cut(reader) = [reader EXCEPT !.cut = TRUE]
    BY <1>1 DEF Cut
  <2>3. Cut(reader) \in [pc : {"query"}, id : Queries, cut : BOOLEAN]
        /\ Cut(reader).pc = reader.pc
    BY <2>1, <2>2
  <2> QED
    BY <2>3 DEF ReaderStates
<1> QED
  BY <1>1 DEF Cut

(* Nobody waits for the queries any more.                                  *)
LEMMA InterruptsSafe ==
  ASSUME RuntimeInv, FinishInterrupts \/ ClosingInterrupts
  PROVE  RuntimeInv'
<1>0. TypeInv /\ PhaseInv /\ WaitInv /\ QueryInv
  BY DEF RuntimeInv
<1>a. /\ core.pc \in {"finish", "closing"} /\ reader' = Cut(reader)
      /\ UNCHANGED <<requests, queries, replies, open, admission, writer, mailbox, interrupt,
                     stopping, backfill, log, answers, cut, coreVars>>
  BY DEF FinishInterrupts, ClosingInterrupts, finishVars, coreVars
<1> USE DEF coreVars
<1>b. ~CommandsOpen /\ ~CommandsOpen' /\ (Left' <=> Left) /\ (Ending' <=> Ending)
  BY <1>a DEF CommandsOpen, Left, Ending
<1>1. reader' \in ReaderStates /\ reader'.pc = reader.pc
  BY <1>0, <1>a, CutTyped DEF TypeInv, DatabaseTyped
<1>2. TypeInv'
  <2>1. DatabaseTyped'
    BY <1>0, <1>1, <1>a DEF TypeInv, DatabaseTyped
  <2>2. CoreTyped'
    BY <1>0, <1>a DEF TypeInv, CoreTyped
  <2> QED
    BY <2>1, <2>2 DEF TypeInv
<1>3. PhaseInv' /\ WaitInv' /\ QueryInv'
  BY <1>0, <1>1, <1>a, <1>b DEF PhaseInv, WaitInv, QueryInv
<1>4. InHand' = InHand
  BY <1>a DEF InHand
<1>5. \A m \in Mutations : ~EventIs("committed", m)' /\ ~EventIs("failed", m)'
                           /\ ~EventIs("failed", m)
  BY <1>a DEF EventIs
<1> QED
  BY <1>2, <1>3, <1>4, <1>5, <1>a, <1>b, CoreSideSafe

LEMMA ClosesDatabaseSafe ==
  ASSUME RuntimeInv, ClosesDatabase
  PROVE  RuntimeInv'
<1>0. TypeInv /\ PhaseInv /\ WaitInv /\ QueryInv
  BY DEF RuntimeInv
<1>a. /\ core.pc = "grace" /\ core' = [core EXCEPT !.pc = "closing"] /\ admission' = FALSE
      /\ UNCHANGED <<requests, queries, replies, open, writer, reader, mailbox, interrupt,
                     backfill, log, answers, cut, finishVars, active>>
  BY DEF ClosesDatabase
<1> USE DEF finishVars
<1>c. core \in [pc : {"last", "grace", "closing", "done"}, ok : BOOLEAN]
  BY <1>0, <1>a DEF TypeInv, CoreTyped, CoreStates
<1>d. core'.pc = "closing" /\ core'.ok = core.ok
      /\ core' \in [pc : {"last", "grace", "closing", "done"}, ok : BOOLEAN]
  BY <1>a, <1>c
<1>b. ~CommandsOpen /\ ~CommandsOpen' /\ Left' /\ Left /\ Ending
  BY <1>a, <1>d DEF CommandsOpen, Left, Ending
<1>1. TypeInv'
  <2>1. DatabaseTyped'
    BY <1>0, <1>a DEF TypeInv, DatabaseTyped
  <2>2. core' \in CoreStates
    BY <1>d DEF CoreStates
  <2>3. CoreTyped'
    BY <1>0, <1>a, <2>2 DEF TypeInv, CoreTyped
  <2> QED
    BY <2>1, <2>3 DEF TypeInv
<1>2. PhaseInv' /\ WaitInv' /\ QueryInv'
  BY <1>0, <1>a, <1>b, <1>d DEF PhaseInv, WaitInv, QueryInv
<1>3. InHand' = InHand
  BY <1>a, <1>d DEF InHand
<1>4. \A m \in Mutations : ~EventIs("committed", m)' /\ ~EventIs("failed", m)'
                           /\ ~EventIs("failed", m)
  BY <1>a, <1>d DEF EventIs
<1> QED
  BY <1>1, <1>2, <1>3, <1>4, <1>a, <1>b, <1>d, CoreSideSafe

LEMMA JoinsSafe ==
  ASSUME RuntimeInv, Joins
  PROVE  RuntimeInv'
<1>0. TypeInv /\ PhaseInv /\ WaitInv /\ QueryInv
  BY DEF RuntimeInv
<1> PICK v : v = (core.ok /\ writer.ok)
  OBVIOUS
<1>a. /\ core.pc = "closing" /\ core' = [pc |-> "done", ok |-> v]
      /\ writer.pc \in {"stopped", "dead"}
      /\ UNCHANGED <<dbVars, finishVars, active>>
  BY DEF Joins, WriterRuns
<1> USE DEF finishVars, dbVars
<1>b. ~CommandsOpen /\ ~CommandsOpen' /\ Left' /\ Left /\ Ending
  BY <1>a DEF CommandsOpen, Left, Ending
<1>c. core.ok \in BOOLEAN /\ writer.ok \in BOOLEAN
  <2>1. core.ok \in BOOLEAN
    BY <1>0, <1>a DEF TypeInv, CoreTyped, CoreStates
  <2>2. writer.ok \in BOOLEAN
    BY <1>0, <1>a DEF TypeInv, DatabaseTyped, WriterStates
  <2> QED
    BY <2>1, <2>2
<1>d. v \in BOOLEAN /\ (v => core.ok) /\ core'.pc = "done" /\ core'.ok = v
  BY <1>a, <1>c
<1>1. TypeInv'
  <2>1. DatabaseTyped'
    BY <1>0, <1>a DEF TypeInv, DatabaseTyped
  <2>2. core' \in CoreStates
    BY <1>a, <1>d DEF CoreStates
  <2>3. CoreTyped'
    BY <1>0, <1>a, <2>2 DEF TypeInv, CoreTyped
  <2> QED
    BY <2>1, <2>3 DEF TypeInv
<1>2. PhaseInv' /\ WaitInv' /\ QueryInv'
  BY <1>0, <1>a, <1>b DEF PhaseInv, WaitInv, QueryInv
<1>3. InHand' = InHand
  BY <1>a DEF InHand
<1>4. \A m \in Mutations : ~EventIs("committed", m)' /\ ~EventIs("failed", m)'
                           /\ ~EventIs("failed", m)
  BY <1>a DEF EventIs
<1> QED
  BY <1>1, <1>2, <1>3, <1>4, <1>a, <1>b, <1>d, CoreSideSafe

(* The event that is delivered.                                            *)
LEMMA SendDeliversTyped ==
  ASSUME TypeInv, SendDelivers
  PROVE  /\ core.pc = "send" /\ core.event \in Events
         /\ core.event.kind \in Kinds \cup {"status"} => told' = told
         /\ core.event.kind \notin Kinds \cup {"status"} =>
               /\ core.event.kind \in Verdicts /\ core.event.id \in Mutations
               /\ told' = [told EXCEPT ![core.event.id] = core.event.kind]
         /\ TypeInv'
<1>1. core.pc = "send" /\ core.event \in Events
  BY DEF SendDelivers, TypeInv, CoreTyped, CoreStates
<1> PICK e : e = core.event
  OBVIOUS
<1>2. "status" \notin Kinds
  BY RuntimeAssumption DEF Kinds
<1>3. e.kind \in Kinds \cup {"status"} => told' = told
  BY <1>2 DEF SendDelivers
<1>4. e.kind \notin Kinds \cup {"status"} =>
         /\ e.kind \in Verdicts /\ e.id \in Mutations
         /\ told' = [told EXCEPT ![e.id] = e.kind]
  <2>1. e.kind \notin Kinds \cup {"status"} => e.kind \in Verdicts /\ e.id \in Mutations
    BY <1>1 DEF Events
  <2> QED
    BY <2>1 DEF SendDelivers
<1>5. told' \in [Mutations -> {"none"} \cup Verdicts]
  BY <1>3, <1>4 DEF TypeInv, CoreTyped
<1>6. events' \in Seq(Events) /\ Len(events') \in Nat /\ Len(events') <= EventCapacity
  <2>1. events \in Seq(Events) /\ Len(events) \in Nat /\ Len(events) <= EventCapacity
        /\ EventCapacity \in Nat
    BY RuntimeAssumption DEF TypeInv, CoreTyped
  <2>2. \/ events' = events
        \/ Len(events) < EventCapacity /\ events' = Append(events, e)
    BY DEF SendDelivers
  <2>3. Append(events, e) \in Seq(Events) /\ Len(Append(events, e)) = Len(events) + 1
    BY <1>1, <2>1, AppendIs
  <2> QED
    BY <2>1, <2>2, <2>3
<1>7. DatabaseTyped'
  BY DEF TypeInv, DatabaseTyped, SendDelivers, dbVars
<1>8. CoreTyped'
  <2>1. core' = [pc |-> "loop"]
    BY DEF SendDelivers, Loop
  <2>2. core' \in CoreStates
    BY <2>1 DEF CoreStates
  <2> QED
    BY <1>5, <1>6, <2>2 DEF TypeInv, CoreTyped, SendDelivers, sendVars
<1> QED
  BY <1>1, <1>3, <1>4, <1>7, <1>8 DEF TypeInv

LEMMA SendDeliversSafe ==
  ASSUME RuntimeInv, SendDelivers
  PROVE  RuntimeInv'
<1>0. /\ TypeInv /\ PhaseInv /\ WaitInv /\ Places /\ LineInv
      /\ ReplyInv /\ ToldInv /\ AnswerInv /\ CallInv /\ QueryInv
  BY DEF RuntimeInv
<1> PICK e : e = core.event
  OBVIOUS
<1>a. /\ core.pc = "send" /\ core' = [pc |-> "loop"]
      /\ UNCHANGED <<dbVars, commands, composes, shutdown, schedule, active, streak, called,
                     statuses, sent, asked, seen, waited>>
  BY DEF SendDelivers, sendVars, Loop
<1> USE DEF dbVars
<1>b. CommandsOpen /\ CommandsOpen' /\ ~Left /\ ~Left' /\ ~Ending'
  BY <1>a DEF CommandsOpen, Left, Ending
<1>1. TypeInv'
  BY <1>0, SendDeliversTyped
<1>2. PhaseInv' /\ WaitInv'
  BY <1>0, <1>a, <1>b DEF PhaseInv, WaitInv
<1>3. QueryInv'
  BY <1>0, <1>a, <1>b, QueriesStay
<1>4. InHand' = <<>> /\ \A m : ~EventIs("committed", m)' /\ ~EventIs("failed", m)'
  BY <1>a DEF InHand, EventIs
<1>5. CASE e.kind \in Kinds \cup {"status"}
  <2>1. told' = told
    BY <1>0, <1>5, SendDeliversTyped
  <2>2. e.kind \notin {"rejected", "committed", "failed"}
    BY <1>5, RuntimeAssumption DEF Kinds
  <2>3. InHand = <<>> /\ \A m : ~EventIs("failed", m)
    BY <1>a, <2>2 DEF InHand, EventIs, Event
  <2> QED
    BY <1>1, <1>2, <1>3, <1>4, <1>a, <1>b, <2>1, <2>3, CoreSideSafe
<1>6. CASE e.kind \notin Kinds \cup {"status"}
  <2> PICK c : c = e.id
    OBVIOUS
  <2>1. /\ e.kind \in Verdicts /\ c \in Mutations /\ told' = [told EXCEPT ![c] = e.kind]
        /\ told \in [Mutations -> {"none"} \cup Verdicts]
    BY <1>0, <1>6, SendDeliversTyped DEF TypeInv, CoreTyped
  <2>2. told'[c] = e.kind /\ \A m \in Mutations : m # c => told'[m] = told[m]
    BY <2>1
  <2>e. e = Event(e.kind, c) /\ e \in [kind : Verdicts, id : Mutations]
    <3>1. e \in Events
      BY <1>0, SendDeliversTyped
    <3>2. e \in [kind : Verdicts, id : Mutations]
      BY <3>1, <1>6 DEF Events
    <3> QED
      BY <3>2 DEF Event
  <2>3. /\ e.kind = "committed" => Ran1(c, TRUE)
        /\ e.kind = "failed" => Ran1(c, FALSE)
    <3>1. e.kind = "committed" => EventIs("committed", c)
      BY <1>a, <2>e DEF EventIs
    <3>2. e.kind = "failed" => EventIs("failed", c)
      BY <1>a, <2>e DEF EventIs
    <3> QED
      BY <1>0, <2>1, <3>1, <3>2 DEF ReplyInv
  <2>4. e.kind = "rejected" => InHand = <<c>>
    BY <1>a DEF InHand
  <2>5. e.kind # "rejected" => InHand = <<>>
    BY <1>a DEF InHand
  <2>6. /\ Places' /\ LineInv'
        /\ \A m \in Mutations : InLine(m)' => InLine(m) /\ m \notin ToSet(InHand)
    BY <1>0, <1>4, <1>a, DropLine
  <2>7. \A m : m \in ToSet(InHand) <=> e.kind = "rejected" /\ m = c
    BY <2>1, <2>4, <2>5, OneIs, EmptyIs
  <2>8. ToldInv'
    <3>1. \A x, ok : Ran1(x, ok)' <=> Ran1(x, ok)
      BY <1>a DEF Ran1
    <3>2. ASSUME e.kind = "rejected"
          PROVE  c \in ToSet(sent) /\ ~InLine(c)'
      <4>1. InLine(c)
        BY <2>7, <3>2 DEF InLine, Taken
      <4> QED
        BY <1>0, <2>1, <2>6, <2>7, <3>2, <4>1 DEF Places
    <3>3. ASSUME NEW m \in Mutations
          PROVE  /\ told'[m] = "committed" => Ran1(m, TRUE)
                 /\ told'[m] = "failed" => Ran1(m, FALSE)
                 /\ told'[m] = "rejected" => m \in ToSet(sent) /\ ~InLine(m)'
      <4>1. CASE m = c
        BY <2>2, <2>3, <3>2, <4>1
      <4>2. CASE m # c
        BY <1>0, <2>2, <2>6, <4>2 DEF ToldInv
      <4> QED
        BY <4>1, <4>2
    <3> QED
      BY <1>a, <3>1, <3>3 DEF ToldInv
  <2>9. ReplyInv'
    BY <1>0, <1>4, <1>a, ReplyStays
  <2>10. AnswerInv'
    <3>1. /\ \A m \in Mutations : Settled(m) => Settled(m)'
          /\ Settled(c)'
      <4>1. \A x, ok : Ran1(x, ok)' <=> Ran1(x, ok)
        BY <1>a DEF Ran1
      <4>2. Settled(c)'
        BY <2>1, <2>2, <2>3, <4>1 DEF Settled, Verdicts
      <4>3. \A m \in Mutations : m # c /\ Settled(m) => Settled(m)'
        BY <2>2, <4>1 DEF Settled
      <4> QED
        BY <4>2, <4>3
    <3>2. \A m \in Mutations : /\ Outstanding(m)' <=> Outstanding(m)
                               /\ Waits(m)' <=> Waits(m)
      BY <1>a DEF Outstanding, AtWriter, AtSend, Expected, IsReply, Waits
    <3>3. \A m \in Mutations : EventIs("failed", m) => m = c
      BY <1>a, <2>e DEF EventIs, Event
    <3>4. \A m \in Mutations : Pending(m)' <=> Waits(m)
      BY <1>4, <3>2, EmptyIs DEF Pending
    <3>5. \A m \in Mutations : Accounted(m) => Accounted(m)'
      BY <1>a, <2>7, <3>1, <3>3, <3>4 DEF Accounted, Pending
    <3>6. \A m \in Mutations : Pending(m)' => Pending(m)
      BY <3>4 DEF Pending
    <3> QED
      BY <1>0, <1>1, <1>a, <1>b, <3>1, <3>2, <3>5, <3>6, AnswersStay
  <2>11. CallInv'
    BY <1>0, <1>a, CallsStay
  <2> QED
    BY <1>1, <1>2, <1>3, <2>6, <2>8, <2>9, <2>10, <2>11 DEF RuntimeInv
<1> QED
  BY <1>5, <1>6

(* The shutdown starts with all that nobody has submitted.                 *)
LEMMA FinishSafe ==
  ASSUME RuntimeInv, CommandsOpen, NEW failed \in BOOLEAN, Finish(InHand, failed),
         \A m \in Mutations : EventIs("failed", m) => failed
  PROVE  RuntimeInv'
<1>0. /\ TypeInv /\ PhaseInv /\ WaitInv /\ Places /\ LineInv
      /\ ReplyInv /\ ToldInv /\ AnswerInv /\ CallInv /\ QueryInv
  BY DEF RuntimeInv
<1>a. /\ commands' = <<>>
      /\ UNCHANGED <<dbVars, composes, events, slots, shutdown, schedule, active, streak,
                     called, statuses, sent, told, asked, seen, waited>>
  BY DEF Finish
<1> USE DEF dbVars
<1>b. /\ Places' /\ LineInv' /\ \A m \in Mutations : InLine(m)' <=> InLine(m)
      /\ InHand' \in Seq(Mutations)
      /\ \A m \in Mutations : m \in ToSet(InHand') <=> m \in ToSet(InHand) \/ Waits(m)
      /\ \A m \in Mutations : ~Waits(m)'
      /\ core' = [pc |-> "finish", failed |-> failed, pending |-> InHand']
  BY <1>0, FinishLine
<1>c. core'.pc = "finish" /\ core'.failed = failed
  BY <1>b
<1>d. ~CommandsOpen' /\ ~Left /\ ~Left' /\ ~Ending' /\ core.pc # "finish"
  BY <1>c DEF CommandsOpen, Left, Ending
<1>1. TypeInv'
  <2>1. DatabaseTyped'
    BY <1>0, <1>a DEF TypeInv, DatabaseTyped
  <2>2. core' \in CoreStates
    <3> PICK s : s = InHand'
      OBVIOUS
    <3>1. core' = [pc |-> "finish", failed |-> failed, pending |-> s] /\ s \in Seq(Mutations)
      BY <1>b
    <3> QED
      BY <3>1 DEF CoreStates
  <2>3. commands' \in Seq(Commands) /\ Len(commands') <= CommandCapacity
    BY <1>a, EmptyIs, RuntimeAssumption
  <2>4. CoreTyped'
    BY <1>0, <1>a, <2>2, <2>3 DEF TypeInv, CoreTyped
  <2> QED
    BY <2>1, <2>4 DEF TypeInv
<1>2. PhaseInv' /\ WaitInv' /\ QueryInv'
  BY <1>0, <1>a, <1>d DEF PhaseInv, WaitInv, QueryInv
<1>3. ToldInv'
  BY <1>0, <1>a, <1>b, ToldStays DEF Ran1
<1>4. ReplyInv'
  <2>1. \A m : ~EventIs("committed", m)' /\ ~EventIs("failed", m)'
    BY <1>c DEF EventIs
  <2> QED
    BY <1>0, <1>a, <2>1, ReplyStays
<1>5. AnswerInv'
  <2>1. \A m \in Mutations : Outstanding(m)' <=> Outstanding(m)
    BY <1>a DEF Outstanding, AtWriter, AtSend, Expected, IsReply
  <2>2. \A m \in Mutations : Settled(m)' <=> Settled(m)
    BY <1>a DEF Settled, Ran1
  <2>3. \A m \in Mutations : Pending(m)' <=> Pending(m)
    BY <1>b DEF Pending
  <2>4. \A m \in Mutations : Accounted(m) => Accounted(m)'
    BY <1>c, <1>d, <2>2, <2>3 DEF Accounted
  <2> QED
    BY <1>0, <1>1, <1>a, <1>d, <2>1, <2>2, <2>3, <2>4, AnswersStay
<1>6. CallInv'
  BY <1>0, <1>a, CallsStay
<1> QED
  BY <1>1, <1>2, <1>3, <1>4, <1>5, <1>6, <1>b DEF RuntimeInv

LEMMA SendAbortsSafe ==
  ASSUME RuntimeInv, SendAborts
  PROVE  RuntimeInv'
<1>1. core.pc = "send" /\ CommandsOpen
  BY DEF SendAborts, CommandsOpen
<1>2. InHand = IF core.event.kind = "rejected" THEN <<core.event.id>> ELSE <<>>
  BY <1>1 DEF InHand
<1> PICK failed : failed = (core.event.kind = "failed")
  OBVIOUS
<1>3. failed \in BOOLEAN /\ Finish(InHand, failed)
  BY <1>2 DEF SendAborts
<1>4. \A m \in Mutations : EventIs("failed", m) => failed
  <2>1. \A m \in Mutations : EventIs("failed", m) => core.event.kind = "failed"
    BY DEF EventIs, Event
  <2> QED
    BY <2>1
<1> QED
  BY <1>1, <1>3, <1>4, FinishSafe

LEMMA ShutdownSafe ==
  ASSUME RuntimeInv, Shutdown
  PROVE  RuntimeInv'
<1>1. core.pc = "loop" /\ CommandsOpen /\ InHand = <<>>
  BY DEF Shutdown, CommandsOpen, Loop, InHand
<1>2. Finish(InHand, FALSE) /\ \A m \in Mutations : ~EventIs("failed", m)
  BY <1>1 DEF Shutdown, EventIs
<1> QED
  BY <1>1, <1>2, FinishSafe

(* The smaller of two numbers.                                             *)
LEMMA LesserOfTwo ==
  ASSUME NEW a \in Nat, NEW b \in Nat
  PROVE  Min({a, b}) = IF a <= b THEN a ELSE b
<1>1. \E x \in {a, b} : \A y \in {a, b} : x <= y
  OBVIOUS
<1>2. Min({a, b}) \in {a, b} /\ \A y \in {a, b} : Min({a, b}) <= y
  BY <1>1 DEF Min
<1> QED
  BY <1>2

(* A command is taken before a reply only while the streak is short.       *)
LEMMA TookCommandWaits ==
  ASSUME TypeInv, WaitInv, CommandsOpen, CommandReady, TookCommand, replies' = replies
  PROVE  WaitInv' /\ streak' \in 0..Burst /\ waited' \in Nat
<1>1. streak \in 0..Burst /\ waited \in Nat /\ Burst \in Nat
  BY RuntimeAssumption DEF TypeInv, CoreTyped
<1>2. streak' = IF streak + 1 <= Burst THEN streak + 1 ELSE Burst
  BY <1>1, LesserOfTwo DEF TookCommand
<1>3. CASE replies = <<>>
  BY <1>1, <1>2, <1>3 DEF WaitInv, TookCommand
<1>4. CASE replies # <<>>
  <2>1. streak < Burst /\ waited' = waited + 1
    BY <1>4 DEF CommandReady, CommandsFirst, TookCommand
  <2> QED
    BY <1>1, <1>2, <1>4, <2>1 DEF WaitInv
<1> QED
  BY <1>3, <1>4

(* The unanswered are no more than those that were sent.                   *)
LEMMA SentAreCounted ==
  ASSUME TypeInv
  PROVE  /\ ToSet(sent) \subseteq Mutations /\ IsFiniteSet(ToSet(sent))
         /\ Len(sent) \in Nat /\ Cardinality(ToSet(sent)) <= Len(sent)
         /\ \A L \in SUBSET ToSet(sent) : /\ IsFiniteSet(L) /\ Cardinality(L) \in Nat
                                          /\ Cardinality(L) <= Len(sent)
<1> PICK T : T = ToSet(sent)
  OBVIOUS
<1> PICK n : n = Len(sent)
  OBVIOUS
<1>1. sent \in Seq(Mutations)
  BY DEF TypeInv, CoreTyped
<1>2. n \in Nat /\ DOMAIN sent = 1..n /\ \A i \in 1..n : sent[i] \in T
  BY <1>1, LenProperties DEF ToSet
<1>3. T \subseteq Mutations
  <2>1. \A i \in DOMAIN sent : sent[i] \in Mutations
    BY <1>1, LenProperties, ElementOfSeq
  <2> QED
    BY <2>1 DEF ToSet
<1> PICK f : f = [i \in 1..n |-> sent[i]]
  OBVIOUS
<1>4. f \in Surjection(1..n, T)
  <2>1. f \in [1..n -> T]
    BY <1>2
  <2>2. \A t \in T : \E i \in 1..n : f[i] = t
    BY <1>2 DEF ToSet
  <2> QED
    BY <2>1, <2>2 DEF Surjection
<1>5. IsFiniteSet(1..n) /\ Cardinality(1..n) = n
  <2>1. n \in Int /\ 1 \in Int
    BY <1>2
  <2>2. IsFiniteSet(1..n) /\ Cardinality(1..n) = IF 1 > n THEN 0 ELSE n - 1 + 1
    BY <2>1, FS_Interval
  <2> QED
    BY <1>2, <2>2
<1>6. IsFiniteSet(T) /\ Cardinality(T) <= n
  BY <1>4, <1>5, FS_Surjection
<1>7. ASSUME NEW L \in SUBSET T
      PROVE  IsFiniteSet(L) /\ Cardinality(L) \in Nat /\ Cardinality(L) <= n
  <2>1. IsFiniteSet(L) /\ Cardinality(L) <= Cardinality(T)
    BY <1>6, FS_Subset
  <2>2. Cardinality(L) \in Nat /\ Cardinality(T) \in Nat
    BY <1>6, <2>1, FS_CardinalityType
  <2> QED
    BY <1>2, <1>6, <2>1, <2>2
<1> QED
  BY <1>2, <1>3, <1>6, <1>7

(* One more that was sent and has a place of its own is unanswered.        *)
LEMMA OneMoreUnanswered ==
  ASSUME TypeInv, NEW L \in SUBSET ToSet(sent), Unanswered(L), NEW m \in ToSet(sent), Pending(m)
  PROVE  /\ L \cup {m} \in SUBSET ToSet(sent) /\ IsFiniteSet(L \cup {m})
         /\ Cardinality(L \cup {m}) = active + 1
         /\ active + 1 \in 0..Len(sent)
<1>1. L \cup {m} \in SUBSET ToSet(sent) /\ m \notin L /\ Cardinality(L) = active
  BY DEF Unanswered
<1>2. /\ IsFiniteSet(L) /\ Cardinality(L) \in Nat
      /\ IsFiniteSet(L \cup {m}) /\ Cardinality(L \cup {m}) \in Nat
      /\ Cardinality(L \cup {m}) <= Len(sent) /\ Len(sent) \in Nat
  BY <1>1, SentAreCounted
<1>3. Cardinality(L \cup {m}) = Cardinality(L) + 1
  BY <1>1, <1>2, FS_AddElement
<1> QED
  BY <1>1, <1>2, <1>3

(* There is room for a write that is not refused, in the queue of a writer *)
(* that runs.                                                              *)
LEMMA RoomForWrite ==
  ASSUME TypeInv, NEW x \in Ids, WriteVerdict \notin {"busy", "closed"}
  PROVE  /\ WriteVerdict = "ok" /\ WriterRuns
         /\ Append(requests, x) \in Seq(Ids) /\ Len(Append(requests, x)) <= RequestCapacity
         /\ \A y : y \in ToSet(Append(requests, x)) <=> y = x \/ y \in ToSet(requests)
<1>1. requests \in Seq(Ids) /\ Len(requests) <= RequestCapacity /\ RequestCapacity \in Nat
  BY DatabaseAssumption DEF TypeInv, DatabaseTyped
<1>2. WriteVerdict = "ok" /\ WriterRuns /\ Len(requests) # RequestCapacity
  BY DEF WriteVerdict, Verdict
<1>3. /\ Append(requests, x) \in Seq(Ids) /\ Len(Append(requests, x)) = Len(requests) + 1
      /\ Len(requests) \in Nat
      /\ \A y : y \in ToSet(Append(requests, x)) <=> y = x \/ y \in ToSet(requests)
  BY <1>1, AppendIs
<1> QED
  BY <1>1, <1>2, <1>3

(* A mutation that is submitted is no write of a caller.                   *)
LEMMA CallsStayBehind ==
  ASSUME TypeInv, CallInv, NEW c \in Mutations, requests' = Append(requests, c),
         UNCHANGED <<log, called, answers, writer>>
  PROVE  CallInv'
<1>1. requests \in Seq(Ids) /\ c \in Ids /\ c \notin Writes
  BY IdsAreDistinct DEF TypeInv, DatabaseTyped, Ids
<1>2. /\ \A i \in DOMAIN requests : i \in DOMAIN requests' /\ requests'[i] = requests[i]
      /\ requests'[Len(requests) + 1] = c
      /\ \A i \in DOMAIN requests' : i \in DOMAIN requests \/ i = Len(requests) + 1
      /\ \A x : x \in ToSet(requests') <=> x = c \/ x \in ToSet(requests)
  BY <1>1, AppendIs
<1>3. \A w : /\ AtWriter(w)' <=> AtWriter(w)
             /\ HasRun(w)' <=> HasRun(w)
             /\ Started(w)' <=> Started(w)
  BY DEF AtWriter, HasRun, Started
<1>4. \A i, j \in DOMAIN requests' :
         requests'[i] = requests'[j] /\ requests'[i] \in Writes => i = j
  BY <1>1, <1>2 DEF CallInv
<1>5. \A w \in Writes :
         /\ w \in ToSet(requests') => ~Started(w)' /\ w \in ToSet(called)
         /\ AtWriter(w)' => ~HasRun(w)' /\ w \in ToSet(called)
         /\ HasRun(w)' => w \in ToSet(called)
  BY <1>1, <1>2, <1>3 DEF CallInv
<1>6. writer.pc # "dead" => \A w \in ToSet(called) :
         \/ w \in ToSet(requests') \/ AtWriter(w)'
         \/ HasRun(w)' /\ answers[w] \in {"done", "failed"}
  BY <1>2, <1>3 DEF CallInv
<1>7. \A i, j \in DOMAIN log : log[i][1] = log[j][1] /\ log[i][1] \in Writes => i = j
  BY DEF CallInv
<1> QED
  BY <1>4, <1>5, <1>6, <1>7 DEF CallInv

LEMMA MutateCommandSafe ==
  ASSUME RuntimeInv, NEW c \in Mutations, MutateCommand(c)
  PROVE  RuntimeInv'
<1>0. /\ TypeInv /\ PhaseInv /\ WaitInv /\ Places /\ LineInv
      /\ ReplyInv /\ ToldInv /\ AnswerInv /\ CallInv /\ QueryInv
  BY DEF RuntimeInv
<1> PICK t : t = Tail(commands)
  OBVIOUS
<1>a. /\ core = [pc |-> "loop"] /\ CommandReady /\ Head(commands) = <<"mutate", c>>
      /\ commands # <<>> /\ commands' = t /\ TookCommand
      /\ \/ /\ WriteVerdict = "ok" /\ requests' = Append(requests, c)
            /\ active' = active + 1 /\ core' = [pc |-> "loop"]
         \/ /\ core' = [pc |-> "send", event |-> Event("rejected", c)]
            /\ UNCHANGED <<requests, active>>
      /\ UNCHANGED <<dbSubmit, loopVars, composes, events, slots, schedule>>
  BY DEF MutateCommand, Serving, CommandReady, Loop
<1> USE DEF dbSubmit, loopVars
<1>b. /\ CommandsOpen /\ ~Left /\ core'.pc \in {"loop", "send"}
      /\ CommandsOpen' /\ ~Left' /\ ~Ending'
  BY <1>a DEF CommandsOpen, Left, Ending
<1>c. /\ t \in Seq(Commands) /\ Len(t) <= CommandCapacity
      /\ \A i \in DOMAIN t : i \in Nat /\ i + 1 \in DOMAIN commands /\ t[i] = commands[i + 1]
  <2>1. commands \in Seq(Commands) /\ Len(commands) <= CommandCapacity /\ CommandCapacity \in Nat
    BY <1>0, RuntimeAssumption DEF TypeInv, CoreTyped
  <2>2. /\ t \in Seq(Commands) /\ Len(t) = Len(commands) - 1 /\ Len(commands) \in Nat
        /\ \A i \in DOMAIN t : i \in Nat /\ i + 1 \in DOMAIN commands /\ t[i] = commands[i + 1]
    BY <1>a, <2>1, TailIs
  <2> QED
    BY <2>1, <2>2
<1>d. /\ \A m \in Mutations : Waits(m) <=> m = c \/ Waits(m)'
      /\ ~Waits(c)'
  <2>1. /\ \A m \in Mutations : Waits(m) <=> m = c \/ Waits(m)'
        /\ \A m \in Mutations : Waits(m)' => SentBefore(c, m)
    BY <1>0, <1>a, CommandsGoOn
  <2> QED
    BY <1>0, <2>1, NoneBeforeItself
<1>e. c \in ToSet(sent) /\ Pending(c)
  <2>1. Waits(c)
    BY <1>d
  <2> QED
    BY <1>0, <2>1 DEF Places, InLine, Pending
<1>f. c \in Ids /\ InHand = <<>>
  BY <1>a DEF Ids, InHand
<1>2. PhaseInv' /\ WaitInv' /\ streak' \in 0..Burst /\ waited' \in Nat
  <2>1. WaitInv' /\ streak' \in 0..Burst /\ waited' \in Nat
    BY <1>0, <1>a, <1>b, TookCommandWaits
  <2>2. PhaseInv'
    BY <1>0, <1>a, <1>b DEF PhaseInv
  <2> QED
    BY <2>1, <2>2
<1>3. Places' /\ LineInv' /\ \A m \in Mutations : InLine(m)' <=> InLine(m)
  BY <1>0, MutateCommandLine
<1>4. ToldInv'
  BY <1>0, <1>3, <1>a, ToldStays DEF Ran1
<1>5. ReplyInv'
  <2>1. \A m : ~EventIs("committed", m)' /\ ~EventIs("failed", m)'
    BY <1>a DEF EventIs, Event
  <2> QED
    BY <1>0, <1>a, <2>1, ReplyStays
<1>6. \A m \in Mutations : Settled(m)' <=> Settled(m)
  BY <1>a DEF Settled, Ran1
<1>7. QueryInv'
  <2>1. PlaceInv /\ NumberInv /\ KeyInv /\ ObsoleteOnly
    BY <1>0, <1>b DEF QueryInv
  <2>2. \A q : /\ AtReader(q)' <=> AtReader(q)
               /\ Reading(q)' <=> Reading(q)
               /\ Replied(q)' <=> Replied(q)
               /\ IsActive(q)' <=> IsActive(q)
               /\ Obsolete(q)' <=> Obsolete(q)
    BY <1>a DEF AtReader, Reading, Sending, Replied, IsActive, Obsolete
  <2>3. PlaceInv'
    BY <1>a, <2>1, <2>2 DEF PlaceInv
  <2>4. NumberInv'
    <3>1. \A i \in DOMAIN t : \A k \in Kinds : t[i][1] = k =>
             /\ schedule[k].active < t[i][2] /\ schedule[k].pending < t[i][2]
             /\ t[i][2] <= asked[k]
      BY <1>c, <2>1 DEF NumberInv
    <3>2. ASSUME NEW i \in DOMAIN t, NEW j \in DOMAIN t, NEW k \in Kinds,
                 i < j, t[i][1] = k, t[j][1] = k
          PROVE  t[i][2] < t[j][2]
      <4>1. i + 1 < j + 1
        BY <1>c, <3>2
      <4> QED
        BY <1>c, <2>1, <3>2, <4>1 DEF NumberInv
    <3> QED
      BY <1>a, <2>1, <3>1, <3>2 DEF NumberInv
  <2>5. KeyInv'
    <3>1. mailbox.state # "idle" =>
             \A i \in DOMAIN t : t[i][1] = "mailbox" => mailbox.key[2] < t[i][2]
      BY <1>c, <2>1 DEF KeyInv
    <3>2. Obsolete(mailbox.key)' <=> Obsolete(mailbox.key)
      BY <1>a DEF Obsolete
    <3> QED
      BY <1>a, <1>b, <2>1, <2>2, <3>1, <3>2 DEF KeyInv
  <2>6. ObsoleteOnly'
    BY <1>a, <1>b, <2>1 DEF ObsoleteOnly, Obsolete
  <2> QED
    BY <2>3, <2>4, <2>5, <2>6 DEF QueryInv
<1>8. CASE /\ WriteVerdict = "ok" /\ requests' = Append(requests, c)
           /\ active' = active + 1 /\ core' = [pc |-> "loop"]
  <2>1. /\ requests' \in Seq(Ids) /\ Len(requests') <= RequestCapacity
        /\ \A y : y \in ToSet(requests') <=> y = c \/ y \in ToSet(requests)
    BY <1>0, <1>8, <1>f, RoomForWrite
  <2>2. PICK L \in SUBSET ToSet(sent) : Unanswered(L)
    BY <1>0, <1>b DEF AnswerInv
  <2>3. /\ L \cup {c} \in SUBSET ToSet(sent) /\ IsFiniteSet(L \cup {c})
        /\ Cardinality(L \cup {c}) = active' /\ active' \in 0..Len(sent)
    BY <1>0, <1>8, <1>e, <2>2, OneMoreUnanswered
  <2>4. TypeInv'
    <3>1. DatabaseTyped'
      BY <1>0, <1>a, <2>1 DEF TypeInv, DatabaseTyped
    <3>2. core' \in CoreStates
      BY <1>8 DEF CoreStates
    <3>3. CoreTyped'
      BY <1>0, <1>2, <1>a, <1>c, <2>3, <3>2 DEF TypeInv, CoreTyped
    <3> QED
      BY <3>1, <3>3 DEF TypeInv
  <2>5. AnswerInv'
    <3>1. InHand' = <<>>
      BY <1>8 DEF InHand
    <3>2. \A m \in Mutations : Pending(m)' <=> Pending(m) /\ m # c
      BY <1>d, <1>f, <3>1, EmptyIs DEF Pending
    <3>3. \A m \in Mutations : Outstanding(m)' => Outstanding(m) \/ m = c
      BY <1>a, <2>1 DEF Outstanding, AtWriter, AtSend, Expected, IsReply
    <3>4. \A m \in Mutations : m # c /\ Accounted(m) => Accounted(m)'
      BY <1>6, <1>a, <3>2 DEF Accounted, EventIs
    <3>5. ToSet(sent) \subseteq Mutations
      BY <1>0, SentAreCounted
    <3>6. Unanswered(L \cup {c})'
      <4>1. \A m \in Mutations : Outstanding(m)' => m \in L \cup {c}
        BY <2>2, <3>3 DEF Unanswered
      <4>2. \A m \in ToSet(sent) \ (L \cup {c}) : Accounted(m)'
        BY <2>2, <3>4, <3>5 DEF Unanswered
      <4>3. \A m \in L \cup {c} : ~Pending(m)'
        BY <1>e, <2>2, <3>2, <3>5 DEF Unanswered
      <4>4. sent' = sent
        BY <1>a
      <4> QED
        BY <2>3, <4>1, <4>2, <4>3, <4>4 DEF Unanswered
    <3>7. sent' = sent
      BY <1>a
    <3> QED
      BY <1>b, <2>3, <3>6, <3>7 DEF AnswerInv
  <2>6. CallInv'
    BY <1>0, <1>8, <1>a, CallsStayBehind
  <2> QED
    BY <1>2, <1>3, <1>4, <1>5, <1>7, <2>4, <2>5, <2>6 DEF RuntimeInv
<1>9. CASE /\ core' = [pc |-> "send", event |-> Event("rejected", c)]
           /\ UNCHANGED <<requests, active>>
  <2>1. TypeInv'
    <3>1. DatabaseTyped'
      BY <1>0, <1>9, <1>a DEF TypeInv, DatabaseTyped
    <3>2. core' \in CoreStates
      <4>1. Event("rejected", c) \in Events
        BY DEF Event, Events, Verdicts
      <4> QED
        BY <1>9, <4>1 DEF CoreStates
    <3>3. CoreTyped'
      BY <1>0, <1>2, <1>9, <1>a, <1>c, <3>2 DEF TypeInv, CoreTyped
    <3> QED
      BY <3>1, <3>3 DEF TypeInv
  <2>2. AnswerInv'
    <3>1. InHand' = <<c>>
      BY <1>9 DEF InHand, Event
    <3>2. \A m \in Mutations : Pending(m)' <=> Pending(m)
      BY <1>d, <1>f, <3>1, EmptyIs, OneIs DEF Pending
    <3>3. \A m \in Mutations : Outstanding(m)' <=> Outstanding(m)
      BY <1>9, <1>a DEF Outstanding, AtWriter, AtSend, Expected, IsReply
    <3>4. \A m \in Mutations : Accounted(m) => Accounted(m)'
      BY <1>6, <1>a, <3>2 DEF Accounted, EventIs
    <3> QED
      BY <1>0, <1>6, <1>9, <1>a, <1>b, <2>1, <3>2, <3>3, <3>4, AnswersStay
  <2>3. CallInv'
    BY <1>0, <1>9, <1>a, CallsStay
  <2> QED
    BY <1>2, <1>3, <1>4, <1>5, <1>7, <2>1, <2>2, <2>3 DEF RuntimeInv
<1> QED
  BY <1>8, <1>9, <1>a

(* What the core takes from the replies.                                   *)
LEMMA RepliesGoOn ==
  ASSUME TypeInv, ReplyInv, replies # <<>>, replies' = Tail(replies), UNCHANGED <<log, writer>>,
         \A m \in Mutations : EventIs("committed", m)' => Ran1(m, TRUE),
         \A m \in Mutations : EventIs("failed", m)' => Ran1(m, FALSE)
  PROVE  /\ ReplyInv'
         /\ replies' \in Seq(MutationReplies \cup QueryReplies) /\ Len(replies') <= ReplyCapacity
         /\ Head(replies) \in MutationReplies \cup QueryReplies /\ Head(replies) = replies[1]
         /\ 1 \in DOMAIN replies
         /\ \A i \in DOMAIN replies' : /\ i \in Nat /\ i >= 1 /\ i + 1 \in DOMAIN replies
                                       /\ replies'[i] = replies[i + 1]
         /\ \A i \in DOMAIN replies : i # 1 => i \in Nat /\ i - 1 \in DOMAIN replies'
                                              /\ replies'[i - 1] = replies[i]
         /\ \A m \in Mutations :
               Expected(m) <=> IsReply(1, m) \/ Expected(m)'
         /\ \A m \in Mutations : IsReply(1, m) =>
               Ran1(m, Head(replies).ok) /\ ~Expected(m)' /\ ~AtSend(m)
<1> PICK t : t = Tail(replies)
  OBVIOUS
<1> PICK h : h = Head(replies)
  OBVIOUS
<1> PICK S : S = MutationReplies \cup QueryReplies
  OBVIOUS
<1>1. replies \in Seq(S) /\ Len(replies) <= ReplyCapacity /\ ReplyCapacity \in Nat
  BY DatabaseAssumption DEF TypeInv, DatabaseTyped
<1>2. /\ t \in Seq(S) /\ h \in S /\ h = replies[1] /\ 1 \in DOMAIN replies
      /\ Len(replies) \in Nat /\ Len(t) = Len(replies) - 1
      /\ \A i \in DOMAIN t : i \in Nat /\ i + 1 \in DOMAIN replies /\ t[i] = replies[i + 1]
      /\ \A i \in DOMAIN replies : i # 1 => i - 1 \in DOMAIN t
  BY <1>1, TailIs
<1>3. /\ \A i \in DOMAIN t : i >= 1
      /\ \A i \in DOMAIN replies : i \in Nat
  BY <1>1, <1>2, LenProperties
<1>4. Len(t) <= ReplyCapacity
  BY <1>1, <1>2
<1>5. replies' = t
  OBVIOUS
<1>6. \A i \in DOMAIN t : \A m : IsReply(i, m)' <=> IsReply(i + 1, m)
  BY <1>2, <1>5 DEF IsReply
<1>7. \A i \in DOMAIN replies : i # 1 => /\ i \in Nat /\ i - 1 \in DOMAIN t
                                        /\ (i - 1) + 1 = i /\ t[i - 1] = replies[i]
  <2>1. TAKE i \in DOMAIN replies
  <2>2. HAVE i # 1
  <2>3. i \in Nat /\ i - 1 \in DOMAIN t
    BY <1>2, <1>3, <2>2
  <2>4. (i - 1) + 1 = i
    BY <2>3
  <2>5. t[i - 1] = replies[(i - 1) + 1]
    BY <1>2, <2>3
  <2> QED
    BY <2>3, <2>4, <2>5
<1>8. \A m : Expected(m)' <=> \E i \in DOMAIN t : IsReply(i + 1, m)
  BY <1>5, <1>6 DEF Expected
<1>9. \A m : Expected(m) <=> IsReply(1, m) \/ Expected(m)'
  BY <1>2, <1>7, <1>8 DEF Expected
<1>10. \A m \in Mutations : IsReply(1, m) => Ran1(m, h.ok) /\ ~Expected(m)' /\ ~AtSend(m)
  <2>1. TAKE m \in Mutations
  <2>2. HAVE IsReply(1, m)
  <2>3. Ran1(m, h.ok)
    BY <1>2, <2>2 DEF ReplyInv
  <2>4. ~AtSend(m)
    BY <1>9, <2>2 DEF ReplyInv
  <2>5. ASSUME NEW i \in DOMAIN t, IsReply(i + 1, m)
        PROVE  FALSE
    <3>1. i + 1 = 1 /\ i \in Nat /\ i >= 1
      BY <1>2, <1>3, <2>2, <2>5 DEF ReplyInv
    <3> QED
      BY <3>1
  <2> QED
    BY <1>8, <2>3, <2>4, <2>5
<1>11. ReplyInv'
  <2>1. \A x, ok : Ran1(x, ok)' <=> Ran1(x, ok)
    BY DEF Ran1
  <2>2. \A i \in DOMAIN t : \A m \in Mutations : IsReply(i, m)' => Ran1(m, t[i].ok)
    BY <1>2, <1>6 DEF ReplyInv
  <2>3. (\A i \in DOMAIN replies : \A m \in Mutations : IsReply(i, m) => Ran1(m, replies[i].ok))'
    BY <1>5, <2>2 DEF Ran1
  <2>4. \A m \in Mutations : AtSend(m)' => ~Expected(m)'
    BY <1>9 DEF ReplyInv, AtSend
  <2>5. ASSUME NEW i \in DOMAIN t, NEW j \in DOMAIN t, NEW m \in Mutations,
               IsReply(i, m)', IsReply(j, m)'
        PROVE  i = j
    <3>1. i + 1 = j + 1
      BY <1>2, <1>6, <2>5 DEF ReplyInv
    <3> QED
      BY <1>2, <3>1
  <2>6. (writer.pc = "send" => Ran1(writer.reply.id, writer.reply.ok))'
    BY DEF ReplyInv, Ran1
  <2> QED
    BY <1>5, <2>1, <2>3, <2>4, <2>5, <2>6 DEF ReplyInv
<1> QED
  BY <1>2, <1>3, <1>4, <1>5, <1>7, <1>9, <1>10, <1>11

(* The core takes the reply of a mutation: one less is unanswered.         *)
LEMMA OneIsAnswered ==
  ASSUME TypeInv, Places, LineInv, ReplyInv, AnswerInv, CommandsOpen \/ core.pc = "finish",
         NEW c \in Mutations, NEW ok \in BOOLEAN, Ran1(c, ok), Expected(c), ~AtSend(c), ~Expected(c)',
         \A m \in Mutations : Expected(m)' => Expected(m),
         active' = active - 1, UNCHANGED <<requests, writer, log, sent, told, commands>>,
         InHand' = InHand, \A m \in Mutations : ~EventIs("failed", m),
         core.pc = "finish" /\ core.failed => core'.pc = "finish" /\ core'.failed,
         ok = FALSE => EventIs("failed", c)' \/ (core'.pc = "finish" /\ core'.failed)
  PROVE  /\ active' \in 0..Len(sent)
         /\ \E L \in SUBSET ToSet(sent') : Unanswered(L)'
<1>1. PICK L \in SUBSET ToSet(sent) : Unanswered(L)
  BY DEF AnswerInv
<1>2. c \in L /\ Cardinality(L) = active
  BY <1>1 DEF Unanswered, Outstanding
<1>3. /\ IsFiniteSet(L) /\ Cardinality(L) \in Nat /\ Cardinality(L) <= Len(sent)
      /\ IsFiniteSet(L \ {c}) /\ Cardinality(L \ {c}) \in Nat /\ Len(sent) \in Nat
      /\ ToSet(sent) \subseteq Mutations
  <2>1. L \ {c} \in SUBSET ToSet(sent)
    BY <1>1
  <2> QED
    BY <1>1, <2>1, SentAreCounted
<1>4. Cardinality(L \ {c}) = active - 1
  BY <1>2, <1>3, FS_RemoveElement
<1>5. active' \in 0..Len(sent)
  BY <1>2, <1>3, <1>4
<1>6. ~Outstanding(c)'
  <2>1. HasRun(c)
    BY RanHasRun
  <2>2. ~AtWriter(c) /\ c \notin ToSet(requests)
    BY <2>1, OnePlace DEF Started
  <2> QED
    BY <2>2 DEF Outstanding, AtWriter, AtSend
<1>7. \A m \in Mutations : Outstanding(m)' => Outstanding(m)
  BY DEF Outstanding, AtWriter, AtSend
<1>8. \A m \in Mutations : /\ Settled(m)' <=> Settled(m)
                           /\ Pending(m)' <=> Pending(m)
  BY DEF Settled, Ran1, Pending, Waits
<1>9. Accounted(c)'
  <2>1. CASE ok = TRUE
    BY <1>8, <2>1 DEF Accounted, Settled
  <2>2. CASE ok = FALSE
    BY <2>2 DEF Accounted
  <2> QED
    BY <2>1, <2>2
<1>10. \A m \in Mutations : Accounted(m) => Accounted(m)'
  BY <1>8 DEF Accounted
<1>11. Unanswered(L \ {c})'
  <2>1. \A m \in Mutations : Outstanding(m)' => m \in L \ {c}
    BY <1>1, <1>6, <1>7 DEF Unanswered
  <2>2. \A m \in ToSet(sent) \ (L \ {c}) : Accounted(m)'
    BY <1>1, <1>3, <1>9, <1>10 DEF Unanswered
  <2>3. \A m \in L \ {c} : ~Pending(m)'
    BY <1>1, <1>3, <1>8 DEF Unanswered
  <2> QED
    BY <1>1, <1>3, <1>4, <2>1, <2>2, <2>3 DEF Unanswered
<1>12. L \ {c} \in SUBSET ToSet(sent')
  BY <1>1
<1> QED
  BY <1>5, <1>11, <1>12

LEMMA FinishingIs ==
  ASSUME TypeInv, PhaseInv, core.pc = "finish"
  PROVE  /\ core \in [pc : {"finish"}, failed : BOOLEAN, pending : Seq(Mutations)]
         /\ InHand = core.pending /\ ~CommandsOpen /\ ~Left /\ ~Ending
         /\ commands = <<>> /\ \A m : ~Waits(m)
         /\ \A kind, m : ~EventIs(kind, m)
<1>1. core \in [pc : {"finish"}, failed : BOOLEAN, pending : Seq(Mutations)]
  BY DEF TypeInv, CoreTyped, CoreStates
<1>2. InHand = core.pending /\ ~CommandsOpen /\ ~Left /\ ~Ending
  BY DEF InHand, CommandsOpen, Left, Ending
<1>3. commands = <<>>
  BY <1>2 DEF PhaseInv
<1>4. \A m : ~Waits(m)
  BY <1>3, EmptyIs DEF Waits
<1> QED
  BY <1>1, <1>2, <1>3, <1>4 DEF EventIs

(* What cannot be submitted any more is lost, and the end is not well.     *)
LEMMA FinishSubmitsSafe ==
  ASSUME RuntimeInv, FinishSubmits
  PROVE  RuntimeInv'
<1>0. /\ TypeInv /\ PhaseInv /\ WaitInv /\ Places /\ LineInv
      /\ ReplyInv /\ ToldInv /\ AnswerInv /\ CallInv /\ QueryInv
  BY DEF RuntimeInv
<1> PICK s : s = core.pending
  OBVIOUS
<1> PICK t : t = Tail(s)
  OBVIOUS
<1> PICK c : c = Head(s)
  OBVIOUS
<1>a. /\ core.pc = "finish" /\ s # <<>> /\ WriteVerdict # "busy"
      /\ \/ /\ WriteVerdict = "closed" /\ core' = [pc |-> "last", ok |-> FALSE]
            /\ UNCHANGED <<requests, active>>
         \/ /\ WriteVerdict # "closed" /\ requests' = Append(requests, c)
            /\ core' = [core EXCEPT !.pending = t] /\ active' = active + 1
      /\ UNCHANGED <<dbSubmit, finishVars>>
  BY DEF FinishSubmits, Compose
<1> USE DEF dbSubmit, finishVars
<1>b. /\ core \in [pc : {"finish"}, failed : BOOLEAN, pending : Seq(Mutations)]
      /\ InHand = s /\ ~CommandsOpen /\ ~Left /\ ~Ending
      /\ commands = <<>> /\ \A m : ~Waits(m)
      /\ \A kind, m : ~EventIs(kind, m)
  BY <1>0, <1>a, FinishingIs
<1>c. /\ s \in Seq(Mutations) /\ t \in Seq(Mutations) /\ c \in Mutations
      /\ \A x : x \in ToSet(s) <=> x = c \/ x \in ToSet(t)
  <2>1. s \in Seq(Mutations)
    BY <1>b
  <2> QED
    BY <1>a, <2>1, TailIs
<1>1. CASE core' = [pc |-> "last", ok |-> FALSE] /\ UNCHANGED <<requests, active>>
  <2>1. /\ core'.pc = "last" /\ ~core'.ok /\ InHand' = <<>> /\ ~CommandsOpen' /\ ~Left'
        /\ core' \in CoreStates
    <3>1. core'.pc = "last" /\ ~core'.ok
      BY <1>1
    <3> QED
      BY <1>1, <3>1 DEF InHand, CommandsOpen, Left, CoreStates
  <2>2. TypeInv'
    <3>1. DatabaseTyped'
      BY <1>0, <1>1, <1>a DEF TypeInv, DatabaseTyped
    <3>2. CoreTyped'
      BY <1>0, <1>1, <1>a, <2>1 DEF TypeInv, CoreTyped
    <3> QED
      BY <3>1, <3>2 DEF TypeInv
  <2>3. /\ Places' /\ LineInv'
        /\ \A m \in Mutations : InLine(m)' => InLine(m)
    BY <1>0, <1>1, <1>a, <2>1, DropLine
  <2>4. ToldInv'
    BY <1>0, <1>a, <2>3, ToldStays DEF Ran1
  <2>5. ReplyInv'
    <3>1. \A kind, m : ~EventIs(kind, m)'
      BY <2>1 DEF EventIs
    <3> QED
      BY <1>0, <1>a, <3>1, ReplyStays
  <2>6. AnswerInv'
    BY <2>1 DEF AnswerInv
  <2>7. CallInv'
    BY <1>0, <1>1, <1>a, CallsStay
  <2>8. PhaseInv' /\ WaitInv' /\ QueryInv'
    BY <1>0, <1>1, <1>a, <1>b, <2>1 DEF PhaseInv, WaitInv, QueryInv
  <2> QED
    BY <2>2, <2>3, <2>4, <2>5, <2>6, <2>7, <2>8 DEF RuntimeInv
<1>2. CASE /\ WriteVerdict # "closed" /\ requests' = Append(requests, c)
           /\ core' = [core EXCEPT !.pending = t] /\ active' = active + 1
  <2>1. /\ core' \in [pc : {"finish"}, failed : BOOLEAN, pending : Seq(Mutations)]
        /\ core'.pc = "finish" /\ core'.pending = t /\ core'.failed = core.failed
    BY <1>2, <1>b, <1>c
  <2>2. /\ InHand' = t /\ ~CommandsOpen' /\ ~Left' /\ ~Ending' /\ core' \in CoreStates
    BY <2>1 DEF InHand, CommandsOpen, Left, Ending, CoreStates
  <2>3. /\ requests' \in Seq(Ids) /\ Len(requests') <= RequestCapacity /\ WriterRuns
        /\ \A y : y \in ToSet(requests') <=> y = c \/ y \in ToSet(requests)
    <3>1. c \in Ids
      BY <1>c DEF Ids
    <3> QED
      BY <1>0, <1>2, <1>a, <3>1, RoomForWrite
  <2>4. /\ Places' /\ LineInv' /\ \A m \in Mutations : InLine(m)' <=> InLine(m)
    <3>1. InHand' = Tail(InHand) /\ requests' = Append(requests, Head(InHand)) /\ InHand # <<>>
      BY <1>2, <1>a, <1>b, <2>2
    <3> QED
      BY <1>0, <1>a, <3>1, FinishSubmitsLine
  <2>5. \A m \in Mutations : Pending(m)' <=> Pending(m) /\ m # c
    <3>1. c \notin ToSet(t)
      <4>1. \A m \in Mutations : m \in ToSet(t) => SentBefore(c, m)
        BY <1>0, <1>a, <1>b, <1>c, TailSorted DEF LineInv
      <4> QED
        BY <1>0, <1>c, <4>1, NoneBeforeItself
    <3>2. \A m : ~Waits(m)'
      BY <1>a, <1>b DEF Waits
    <3> QED
      BY <1>b, <1>c, <2>2, <3>1, <3>2 DEF Pending
  <2>6. c \in ToSet(sent) /\ Pending(c)
    <3>1. c \in ToSet(InHand)
      BY <1>b, <1>c
    <3> QED
      BY <1>0, <1>c, <3>1 DEF Places, InLine, Taken, Pending
  <2>7. PICK L \in SUBSET ToSet(sent) : Unanswered(L)
    BY <1>0, <1>a DEF AnswerInv
  <2>8. /\ L \cup {c} \in SUBSET ToSet(sent) /\ IsFiniteSet(L \cup {c})
        /\ Cardinality(L \cup {c}) = active' /\ active' \in 0..Len(sent)
    BY <1>0, <1>2, <2>6, <2>7, OneMoreUnanswered
  <2>9. TypeInv'
    <3>1. DatabaseTyped'
      BY <1>0, <1>a, <2>3 DEF TypeInv, DatabaseTyped
    <3>2. CoreTyped'
      BY <1>0, <1>a, <2>2, <2>8 DEF TypeInv, CoreTyped
    <3> QED
      BY <3>1, <3>2 DEF TypeInv
  <2>10. ToldInv'
    BY <1>0, <1>a, <2>4, ToldStays DEF Ran1
  <2>11. ReplyInv'
    <3>1. \A kind, m : ~EventIs(kind, m)'
      BY <2>1 DEF EventIs
    <3> QED
      BY <1>0, <1>a, <3>1, ReplyStays
  <2>12. AnswerInv'
    <3>1. \A m \in Mutations : Outstanding(m)' => Outstanding(m) \/ m = c
      BY <1>a, <2>3 DEF Outstanding, AtWriter, AtSend, Expected, IsReply
    <3>2. \A m \in Mutations : Settled(m)' <=> Settled(m)
      BY <1>a DEF Settled, Ran1
    <3>3. \A m \in Mutations : m # c /\ Accounted(m) => Accounted(m)'
      BY <1>b, <2>1, <2>5, <3>2 DEF Accounted
    <3>4. ToSet(sent) \subseteq Mutations
      BY <1>0, SentAreCounted
    <3>5. Unanswered(L \cup {c})'
      <4>1. \A m \in Mutations : Outstanding(m)' => m \in L \cup {c}
        BY <2>7, <3>1 DEF Unanswered
      <4>2. \A m \in ToSet(sent) \ (L \cup {c}) : Accounted(m)'
        BY <2>7, <3>3, <3>4 DEF Unanswered
      <4>3. \A m \in L \cup {c} : ~Pending(m)'
        BY <1>c, <2>5, <2>7, <3>4 DEF Unanswered
      <4>4. sent' = sent
        BY <1>a
      <4> QED
        BY <2>8, <4>1, <4>2, <4>3, <4>4 DEF Unanswered
    <3>6. sent' = sent
      BY <1>a
    <3> QED
      BY <2>2, <2>8, <3>5, <3>6 DEF AnswerInv
  <2>13. CallInv'
    BY <1>0, <1>2, <1>a, <1>c, CallsStayBehind
  <2>14. PhaseInv' /\ WaitInv' /\ QueryInv'
    BY <1>0, <1>a, <1>b, <2>2 DEF PhaseInv, WaitInv, QueryInv
  <2> QED
    BY <2>4, <2>9, <2>10, <2>11, <2>12, <2>13, <2>14 DEF RuntimeInv
<1> QED
  BY <1>1, <1>2, <1>a

LEMMA FinishRepliesSafe ==
  ASSUME RuntimeInv, FinishReplies
  PROVE  RuntimeInv'
<1>0. /\ TypeInv /\ PhaseInv /\ WaitInv /\ Places /\ LineInv
      /\ ReplyInv /\ ToldInv /\ AnswerInv /\ CallInv /\ QueryInv
  BY DEF RuntimeInv
<1> PICK r : r = Head(replies)
  OBVIOUS
<1>a. /\ core.pc = "finish" /\ active > 0 /\ replies # <<>> /\ replies' = Tail(replies)
      /\ \/ /\ r.what = "mutation" /\ active' = active - 1
            /\ core' = [core EXCEPT !.failed = core.failed \/ ~r.ok]
         \/ r.what # "mutation" /\ UNCHANGED <<active, core>>
      /\ UNCHANGED <<requests, queries, open, admission, writer, reader, mailbox, interrupt,
                     stopping, backfill, log, answers, cut, finishVars>>
  BY DEF FinishReplies
<1> USE DEF finishVars
<1>b. /\ core \in [pc : {"finish"}, failed : BOOLEAN, pending : Seq(Mutations)]
      /\ InHand = core.pending /\ ~CommandsOpen /\ ~Left /\ ~Ending
      /\ \A kind, m : ~EventIs(kind, m)
  BY <1>0, <1>a, FinishingIs
<1>r. r.what = "mutation" => r \in MutationReplies
  <2>1. replies \in Seq(MutationReplies \cup QueryReplies)
    BY <1>0 DEF TypeInv, DatabaseTyped
  <2>2. r \in MutationReplies \cup QueryReplies
    BY <1>a, <2>1, TailIs
  <2> QED
    BY <2>2 DEF QueryReplies
<1>c. /\ core' \in [pc : {"finish"}, failed : BOOLEAN, pending : Seq(Mutations)]
      /\ core'.pc = "finish" /\ core'.pending = core.pending
      /\ core.failed => core'.failed
      /\ r.what = "mutation" /\ r.ok = FALSE => core'.failed
  <2>1. r.what = "mutation" => r.ok \in BOOLEAN
    BY <1>r DEF MutationReplies
  <2>2. CASE r.what = "mutation" /\ core' = [core EXCEPT !.failed = core.failed \/ ~r.ok]
    <3> PICK v : v = (core.failed \/ ~r.ok)
      OBVIOUS
    <3>1. v \in BOOLEAN /\ (core.failed => v) /\ (r.ok = FALSE => v)
      BY <1>b, <2>1, <2>2
    <3>2. core' = [core EXCEPT !.failed = v]
      BY <2>2
    <3> QED
      BY <1>b, <3>1, <3>2
  <2>3. CASE r.what # "mutation" /\ UNCHANGED <<active, core>>
    BY <1>b, <2>3
  <2> QED
    BY <1>a, <2>2, <2>3
<1>d. /\ InHand' = InHand /\ ~CommandsOpen' /\ ~Left' /\ ~Ending' /\ core' \in CoreStates
      /\ \A kind, m : ~EventIs(kind, m)'
  BY <1>b, <1>c DEF InHand, CommandsOpen, Left, Ending, CoreStates, EventIs
<1>e. /\ ReplyInv' /\ replies' \in Seq(MutationReplies \cup QueryReplies)
      /\ Len(replies') <= ReplyCapacity /\ r = replies[1] /\ 1 \in DOMAIN replies
      /\ \A m \in Mutations : Expected(m) <=> IsReply(1, m) \/ Expected(m)'
      /\ \A m \in Mutations : IsReply(1, m) => Ran1(m, r.ok) /\ ~Expected(m)' /\ ~AtSend(m)
  BY <1>0, <1>a, <1>d, RepliesGoOn
<1>1. ASSUME r.what = "mutation", active' = active - 1
      PROVE  active' \in 0..Len(sent) /\ AnswerInv'
  <2> PICK c : c = r.id
    OBVIOUS
  <2>1. c \in Mutations /\ r.ok \in BOOLEAN /\ IsReply(1, c)
    BY <1>1, <1>e, <1>r DEF MutationReplies, IsReply
  <2>2. /\ active' \in 0..Len(sent)
        /\ \E L \in SUBSET ToSet(sent') : Unanswered(L)'
    <3> PICK ok : ok = r.ok
      OBVIOUS
    <3>1. ok \in BOOLEAN /\ Ran1(c, ok) /\ Expected(c) /\ ~AtSend(c) /\ ~Expected(c)'
      BY <1>e, <2>1
    <3>2. /\ \A m \in Mutations : Expected(m)' => Expected(m)
          /\ \A m \in Mutations : ~EventIs("failed", m)
          /\ core.pc = "finish" /\ core.failed => core'.pc = "finish" /\ core'.failed
          /\ ok = FALSE => core'.pc = "finish" /\ core'.failed
      BY <1>1, <1>b, <1>c, <1>e
    <3> QED
      BY <1>0, <1>1, <1>a, <1>d, <2>1, <3>1, <3>2, OneIsAnswered
  <2>3. AnswerInv'
    BY <1>d, <2>2 DEF AnswerInv
  <2> QED
    BY <2>2, <2>3
<1>2. ASSUME r.what # "mutation", UNCHANGED <<active, core>>
      PROVE  active' \in 0..Len(sent) /\ AnswerInv'
  <2>1. \A m \in Mutations : Expected(m)' <=> Expected(m)
    BY <1>2, <1>e DEF IsReply
  <2>2. /\ \A m \in Mutations : Outstanding(m)' <=> Outstanding(m)
        /\ \A m \in Mutations : Settled(m)' <=> Settled(m)
        /\ \A m \in Mutations : Pending(m)' <=> Pending(m)
    BY <1>a, <1>d, <2>1 DEF Outstanding, AtWriter, AtSend, Settled, Ran1, Pending, Waits
  <2>3. \A m \in Mutations : Accounted(m) => Accounted(m)'
    BY <1>2, <1>b, <2>2 DEF Accounted
  <2>4. active' \in 0..Len(sent)
    BY <1>0, <1>2 DEF TypeInv, CoreTyped
  <2>5. AnswerInv'
    <3>1. PICK L \in SUBSET ToSet(sent) : Unanswered(L)
      BY <1>0, <1>a DEF AnswerInv
    <3>2. ToSet(sent) \subseteq Mutations /\ sent' = sent
      BY <1>0, <1>a, SentAreCounted
    <3>3. Unanswered(L)'
      <4>1. \A m \in Mutations : Outstanding(m)' => m \in L
        BY <2>2, <3>1 DEF Unanswered
      <4>2. \A m \in ToSet(sent) \ L : Accounted(m)'
        BY <2>3, <3>1, <3>2 DEF Unanswered
      <4>3. \A m \in L : ~Pending(m)'
        BY <2>2, <3>1, <3>2 DEF Unanswered
      <4>4. Cardinality(L) = active' /\ IsFiniteSet(L)
        BY <1>2, <3>1 DEF Unanswered
      <4> QED
        BY <3>1, <3>2, <4>1, <4>2, <4>3, <4>4 DEF Unanswered
    <3> QED
      BY <1>d, <3>1, <3>2, <3>3 DEF AnswerInv
  <2> QED
    BY <2>4, <2>5
<1>3. active' \in 0..Len(sent) /\ AnswerInv'
  BY <1>1, <1>2, <1>a
<1>4. TypeInv'
  <2>1. DatabaseTyped'
    BY <1>0, <1>a, <1>e DEF TypeInv, DatabaseTyped
  <2>2. CoreTyped'
    BY <1>0, <1>3, <1>a, <1>d DEF TypeInv, CoreTyped
  <2> QED
    BY <2>1, <2>2 DEF TypeInv
<1>5. Places' /\ LineInv' /\ \A m \in Mutations : InLine(m)' <=> InLine(m)
  BY <1>0, <1>a, <1>d, LineStays DEF AtWriter
<1>6. ToldInv'
  BY <1>0, <1>5, <1>a, ToldStays DEF Ran1
<1>7. CallInv'
  BY <1>0, <1>a, CallsStay
<1>8. PhaseInv' /\ WaitInv' /\ QueryInv'
  BY <1>0, <1>a, <1>b, <1>d DEF PhaseInv, WaitInv, QueryInv
<1> QED
  BY <1>3, <1>4, <1>5, <1>6, <1>7, <1>8, <1>e DEF RuntimeInv

(* Nothing is unanswered and nothing left to submit: unless one failed,    *)
(* every mutation that was sent is settled.                                *)
LEMMA FinishEndsSafe ==
  ASSUME RuntimeInv, FinishEnds
  PROVE  RuntimeInv'
<1>0. /\ TypeInv /\ PhaseInv /\ WaitInv /\ Places /\ LineInv
      /\ ReplyInv /\ ToldInv /\ AnswerInv /\ CallInv /\ QueryInv
  BY DEF RuntimeInv
<1> PICK v : v = (~core.failed)
  OBVIOUS
<1>a. /\ core.pc = "finish" /\ core.pending = <<>> /\ active = 0
      /\ core' = [pc |-> "last", ok |-> v]
      /\ UNCHANGED <<dbVars, finishVars, active>>
  BY DEF FinishEnds, Compose
<1> USE DEF dbVars, finishVars
<1>b. /\ core \in [pc : {"finish"}, failed : BOOLEAN, pending : Seq(Mutations)]
      /\ InHand = <<>> /\ ~CommandsOpen /\ ~Left /\ ~Ending
      /\ commands = <<>> /\ \A m : ~Waits(m)
      /\ \A kind, m : ~EventIs(kind, m)
  BY <1>0, <1>a, FinishingIs
<1>c. v \in BOOLEAN /\ (v => ~core.failed)
  BY <1>b
<1>d. /\ core'.pc = "last" /\ core'.ok = v /\ InHand' = <<>> /\ ~CommandsOpen' /\ ~Left'
      /\ core' \in CoreStates /\ \A kind, m : ~EventIs(kind, m)'
  <2>1. core'.pc = "last" /\ core'.ok = v
    BY <1>a
  <2> QED
    BY <1>a, <1>c, <2>1 DEF InHand, CommandsOpen, Left, CoreStates, EventIs
<1>1. TypeInv'
  <2>1. DatabaseTyped'
    BY <1>0, <1>a DEF TypeInv, DatabaseTyped
  <2>2. CoreTyped'
    BY <1>0, <1>a, <1>d DEF TypeInv, CoreTyped
  <2> QED
    BY <2>1, <2>2 DEF TypeInv
<1>2. Places' /\ LineInv' /\ \A m \in Mutations : InLine(m)' <=> InLine(m)
  BY <1>0, <1>a, <1>b, <1>d, LineStays DEF AtWriter
<1>3. ToldInv'
  BY <1>0, <1>2, <1>a, ToldStays DEF Ran1
<1>4. ReplyInv'
  BY <1>0, <1>a, <1>d, ReplyStays
<1>5. AnswerInv'
  <2>1. PICK L \in SUBSET ToSet(sent) : Unanswered(L)
    BY <1>0, <1>a DEF AnswerInv
  <2>2. L = {}
    BY <1>a, <2>1, FS_EmptySet DEF Unanswered
  <2>3. ASSUME v, NEW m \in ToSet(sent)
        PROVE  Settled(m)
    <3>1. Accounted(m)
      BY <2>1, <2>2, <2>3 DEF Unanswered
    <3>2. ~Pending(m)
      BY <1>b, EmptyIs DEF Pending
    <3> QED
      BY <1>b, <1>c, <2>3, <3>1, <3>2 DEF Accounted
  <2>4. v => \A m \in ToSet(sent') : Settled(m)'
    BY <1>a, <2>3 DEF Settled, Ran1
  <2> QED
    BY <1>d, <2>4 DEF AnswerInv
<1>6. CallInv'
  BY <1>0, <1>a, CallsStay
<1>7. PhaseInv' /\ WaitInv' /\ QueryInv'
  BY <1>0, <1>a, <1>b, <1>d DEF PhaseInv, WaitInv, QueryInv
<1> QED
  BY <1>1, <1>2, <1>3, <1>4, <1>5, <1>6, <1>7 DEF RuntimeInv

(* run_core returns and drops the replies.                                 *)
LEMMA ReturnsSafe ==
  ASSUME RuntimeInv, NEW ok \in BOOLEAN, core.pc \in {"loop", "last"}, Returns(ok),
         ok => core.pc = "last" /\ core.ok
  PROVE  RuntimeInv'
<1>0. /\ TypeInv /\ PhaseInv /\ WaitInv /\ Places /\ LineInv
      /\ ReplyInv /\ ToldInv /\ AnswerInv /\ CallInv /\ QueryInv
  BY DEF RuntimeInv
<1>a. /\ core' = [pc |-> "grace", ok |-> ok] /\ open' = FALSE /\ replies' = <<>>
      /\ UNCHANGED <<requests, queries, admission, writer, reader, mailbox, interrupt,
                     stopping, backfill, log, answers, cut, finishVars, active>>
  BY DEF Returns
<1> USE DEF finishVars
<1>b. /\ core'.pc = "grace" /\ core'.ok = ok /\ ~CommandsOpen' /\ Left' /\ ~Left
      /\ InHand = <<>> /\ InHand' = <<>> /\ core' \in CoreStates
      /\ \A kind, m : ~EventIs(kind, m)'
  <2>1. core'.pc = "grace" /\ core'.ok = ok
    BY <1>a
  <2> QED
    BY <1>a, <2>1 DEF CommandsOpen, Left, InHand, CoreStates, EventIs
<1>1. TypeInv'
  <2>1. replies' \in Seq(MutationReplies \cup QueryReplies) /\ Len(replies') <= ReplyCapacity
    BY <1>a, EmptyIs, DatabaseAssumption
  <2>2. DatabaseTyped'
    BY <1>0, <1>a, <2>1 DEF TypeInv, DatabaseTyped
  <2>3. CoreTyped'
    BY <1>0, <1>a, <1>b DEF TypeInv, CoreTyped
  <2> QED
    BY <2>2, <2>3 DEF TypeInv
<1>2. Places' /\ LineInv' /\ \A m \in Mutations : InLine(m)' <=> InLine(m)
  BY <1>0, <1>a, <1>b, LineStays DEF AtWriter
<1>3. ToldInv'
  BY <1>0, <1>2, <1>a, ToldStays DEF Ran1
<1>4. ReplyInv'
  <2>1. /\ \A i \in DOMAIN replies' : FALSE
        /\ \A m : ~Expected(m)'
    BY <1>a, EmptyIs DEF Expected
  <2>2. (writer.pc = "send" => Ran1(writer.reply.id, writer.reply.ok))'
    BY <1>0, <1>a DEF ReplyInv, Ran1
  <2> QED
    BY <1>b, <2>1, <2>2 DEF ReplyInv
<1>5. AnswerInv'
  <2>1. ok => \A m \in ToSet(sent) : Settled(m)
    BY <1>0 DEF AnswerInv, Ending
  <2>2. ok => \A m \in ToSet(sent') : Settled(m)'
    BY <1>a, <2>1 DEF Settled, Ran1
  <2> QED
    BY <1>b, <2>2 DEF AnswerInv
<1>6. CallInv'
  BY <1>0, <1>a, CallsStay
<1>7. PhaseInv' /\ WaitInv' /\ QueryInv'
  BY <1>0, <1>a, <1>b DEF PhaseInv, WaitInv, QueryInv
<1> QED
  BY <1>1, <1>2, <1>3, <1>4, <1>5, <1>6, <1>7 DEF RuntimeInv

(* A write of a caller waits in the queue, or its caller knows that it     *)
(* will not.                                                               *)
LEMMA CallSafe ==
  ASSUME RuntimeInv, NEW w \in Writes, Call(w)
  PROVE  RuntimeInv'
<1>0. /\ TypeInv /\ PhaseInv /\ WaitInv /\ Places /\ LineInv
      /\ ReplyInv /\ ToldInv /\ AnswerInv /\ CallInv /\ QueryInv
  BY DEF RuntimeInv
<1>a. /\ w \notin ToSet(called) /\ answers[w] = "none" /\ WriteVerdict # "busy"
      /\ \/ /\ answers' = [answers EXCEPT ![w] = "closed"]
            /\ UNCHANGED <<requests, called>>
         \/ /\ WriteVerdict # "closed" /\ requests' = Append(requests, w)
            /\ called' = Append(called, w) /\ UNCHANGED answers
      /\ UNCHANGED <<queries, replies, open, admission, writer, reader, mailbox, interrupt,
                     stopping, backfill, log, cut, callVars, core>>
  BY DEF Call
<1> USE DEF callVars
<1>b. InHand' = InHand
  BY <1>a DEF InHand
<1>c. w \in Ids /\ w \notin Mutations
  BY IdsAreDistinct DEF Ids
<1>1. \A m \in Mutations : m \in ToSet(requests') <=> m \in ToSet(requests)
  <2>1. requests \in Seq(Ids)
    BY <1>0 DEF TypeInv, DatabaseTyped
  <2>2. \A y : y \in ToSet(Append(requests, w)) <=> y = w \/ y \in ToSet(requests)
    BY <1>c, <2>1, AppendIs
  <2> QED
    BY <1>a, <1>c, <2>2
<1>2. Places' /\ LineInv' /\ \A m \in Mutations : InLine(m)' <=> InLine(m)
  <2>1. CASE requests' = requests
    BY <1>0, <1>a, <1>b, <2>1, LineStays DEF AtWriter
  <2>2. CASE requests' = Append(requests, w)
    BY <1>0, <1>a, <1>b, <2>2, CallLine
  <2> QED
    BY <1>a, <2>1, <2>2
<1>3. ToldInv'
  BY <1>0, <1>2, <1>a, ToldStays DEF Ran1
<1>4. ReplyInv'
  BY <1>0, <1>a, ReplyStays DEF EventIs
<1>5. WaitInv'
  BY <1>0, <1>a DEF WaitInv, CommandsOpen
<1>6. QueryInv'
  BY <1>0, <1>a, QueriesStay DEF CommandsOpen
<1>7. \A x : /\ AtWriter(x)' <=> AtWriter(x)
             /\ HasRun(x)' <=> HasRun(x)
             /\ Started(x)' <=> Started(x)
  BY <1>a DEF AtWriter, HasRun, Started
<1>8. TypeInv' => AnswerInv'
  <2>1. \A m \in Mutations : Outstanding(m)' => Outstanding(m)
    BY <1>1, <1>a DEF Outstanding, AtWriter, AtSend, Expected, IsReply
  <2>2. \A m \in Mutations : /\ Settled(m)' <=> Settled(m)
                             /\ Pending(m)' <=> Pending(m)
    BY <1>a, <1>b DEF Settled, Ran1, Pending, Waits
  <2>3. \A m \in Mutations : Accounted(m) => Accounted(m)'
    BY <1>a, <2>2 DEF Accounted, EventIs
  <2> QED
    BY <1>0, <1>a, <2>1, <2>2, <2>3, AnswersStay DEF CommandsOpen, Ending
<1>9. CASE answers' = [answers EXCEPT ![w] = "closed"] /\ UNCHANGED <<requests, called>>
  <2>1. TypeInv'
    <3>1. answers' \in [Writes -> {"none", "done", "failed", "closed"}]
      BY <1>0, <1>9 DEF TypeInv, DatabaseTyped
    <3>2. DatabaseTyped'
      BY <1>0, <1>9, <1>a, <3>1 DEF TypeInv, DatabaseTyped
    <3>3. CoreTyped'
      BY <1>0, <1>9, <1>a DEF TypeInv, CoreTyped
    <3> QED
      BY <3>2, <3>3 DEF TypeInv
  <2>2. PhaseInv'
    BY <1>0, <1>9, <1>a DEF PhaseInv, Left, CommandsOpen
  <2>3. CallInv'
    <3>1. \A x : x # w => answers'[x] = answers[x] \/ x \notin DOMAIN answers
      BY <1>9
    <3>2. ToSet(called) \subseteq Writes /\ DOMAIN answers = Writes
      <4>1. called \in Seq(Writes) /\ DOMAIN answers = Writes
        BY <1>0 DEF TypeInv, CoreTyped, DatabaseTyped
      <4>2. \A i \in DOMAIN called : called[i] \in Writes
        BY <4>1, LenProperties, ElementOfSeq
      <4> QED
        BY <4>1, <4>2 DEF ToSet
    <3>3. \A x \in ToSet(called) : answers'[x] = answers[x]
      BY <1>a, <3>1, <3>2
    <3> QED
      BY <1>0, <1>7, <1>9, <1>a, <3>3 DEF CallInv
  <2> QED
    BY <1>2, <1>3, <1>4, <1>5, <1>6, <1>8, <2>1, <2>2, <2>3 DEF RuntimeInv
<1>10. CASE /\ WriteVerdict # "closed" /\ requests' = Append(requests, w)
            /\ called' = Append(called, w) /\ UNCHANGED answers
  <2>1. /\ WriterRuns /\ requests' \in Seq(Ids) /\ Len(requests') <= RequestCapacity
        /\ \A y : y \in ToSet(requests') <=> y = w \/ y \in ToSet(requests)
    BY <1>0, <1>10, <1>a, <1>c, RoomForWrite
  <2>2. /\ called' \in Seq(Writes)
        /\ \A y : y \in ToSet(called') <=> y = w \/ y \in ToSet(called)
    <3>1. called \in Seq(Writes)
      BY <1>0 DEF TypeInv, CoreTyped
    <3> QED
      BY <1>10, <3>1, AppendIs
  <2>3. TypeInv'
    <3>1. DatabaseTyped'
      BY <1>0, <1>10, <1>a, <2>1 DEF TypeInv, DatabaseTyped
    <3>2. CoreTyped'
      BY <1>0, <1>10, <1>a, <2>2 DEF TypeInv, CoreTyped
    <3> QED
      BY <3>1, <3>2 DEF TypeInv
  <2>4. PhaseInv'
    BY <1>0, <1>a, <2>1 DEF PhaseInv, Left, CommandsOpen, WriterRuns
  <2>5. CallInv'
    <3>1. w \notin ToSet(requests) /\ ~Started(w)
      BY <1>0, <1>a DEF CallInv, Started
    <3>2. /\ \A i \in DOMAIN requests : i \in DOMAIN requests' /\ requests'[i] = requests[i]
          /\ requests'[Len(requests) + 1] = w
          /\ \A i \in DOMAIN requests' : i \in DOMAIN requests \/ i = Len(requests) + 1
      <4>1. requests \in Seq(Ids)
        BY <1>0 DEF TypeInv, DatabaseTyped
      <4> QED
        BY <1>10, <1>c, <4>1, AppendIs
    <3>3. \A i \in DOMAIN requests : requests[i] # w
      BY <3>1 DEF ToSet
    <3>4. \A i, j \in DOMAIN requests' :
             requests'[i] = requests'[j] /\ requests'[i] \in Writes => i = j
      BY <1>0, <3>2, <3>3 DEF CallInv
    <3>5. \A x \in Writes :
             /\ x \in ToSet(requests') => ~Started(x)' /\ x \in ToSet(called')
             /\ AtWriter(x)' => ~HasRun(x)' /\ x \in ToSet(called')
             /\ HasRun(x)' => x \in ToSet(called')
      BY <1>0, <1>7, <2>1, <2>2, <3>1 DEF CallInv
    <3>6. writer.pc # "dead" => \A x \in ToSet(called') :
             \/ x \in ToSet(requests') \/ AtWriter(x)'
             \/ HasRun(x)' /\ answers[x] \in {"done", "failed"}
      BY <1>0, <1>7, <2>1, <2>2 DEF CallInv
    <3>7. \A i, j \in DOMAIN log : log[i][1] = log[j][1] /\ log[i][1] \in Writes => i = j
      BY <1>0 DEF CallInv
    <3> QED
      BY <1>10, <1>a, <3>4, <3>5, <3>6, <3>7 DEF CallInv
  <2> QED
    BY <1>2, <1>3, <1>4, <1>5, <1>6, <1>8, <2>3, <2>4, <2>5 DEF RuntimeInv
<1> QED
  BY <1>9, <1>10, <1>a

-----------------------------------------------------------------------------
(* Queries that the core takes                                             *)

LEMMA QueryNumbers ==
  ASSUME TypeInv
  PROVE  /\ MaxAsk \in Nat /\ "mailbox" \in Kinds
         /\ \A c \in Kinds : /\ schedule[c].active \in Nat /\ schedule[c].pending \in Nat
                             /\ schedule[c].active \in 0..MaxAsk
                             /\ schedule[c].pending \in 0..MaxAsk
                             /\ asked[c] \in Nat
         /\ \A i \in DOMAIN commands : \A c \in Kinds :
               commands[i][1] = c => commands[i][2] \in Nat
         /\ mailbox.state # "idle" =>
               /\ mailbox.key \in Queries /\ mailbox.key[1] = "mailbox"
               /\ mailbox.key = <<"mailbox", mailbox.key[2]>>
               /\ mailbox.key[2] \in Nat /\ mailbox.key[2] # None
         /\ \A q \in Queries : q[1] \in Kinds /\ q[2] \in Nat /\ q[2] # None
                               /\ q[2] \in 1..MaxAsk /\ q = <<q[1], q[2]>>
<1>1. MaxAsk \in Nat /\ "mailbox" \in Kinds
  BY DatabaseAssumption DEF Kinds
<1>2. \A c \in Kinds : /\ schedule[c].active \in 0..MaxAsk
                       /\ schedule[c].pending \in 0..MaxAsk
                       /\ asked[c] \in 0..MaxAsk
  BY DEF TypeInv, CoreTyped
<1>3. ASSUME NEW i \in DOMAIN commands, NEW c \in Kinds, commands[i][1] = c
      PROVE  commands[i][2] \in Nat
  <2>1. commands[i] \in Commands
    <3>1. commands \in Seq(Commands)
      BY DEF TypeInv, CoreTyped
    <3> QED
      BY <3>1, LenProperties, ElementOfSeq
  <2>2. commands[i] \in Queries
    BY <1>3, <2>1, RuntimeAssumption DEF Commands, Kinds
  <2> QED
    BY <1>1, <2>2 DEF Queries
<1>4. \A q \in Queries : q[1] \in Kinds /\ q[2] \in Nat /\ q[2] # None
                         /\ q[2] \in 1..MaxAsk /\ q = <<q[1], q[2]>>
  BY <1>1 DEF Queries, None
<1>5. ASSUME mailbox.state # "idle"
      PROVE  /\ mailbox.key \in Queries /\ mailbox.key[1] = "mailbox"
             /\ mailbox.key = <<"mailbox", mailbox.key[2]>>
             /\ mailbox.key[2] \in Nat /\ mailbox.key[2] # None
  <2>1. mailbox.key \in {"mailbox"} \X (1..MaxAsk)
    BY <1>5 DEF TypeInv, DatabaseTyped, MailboxStates, NoKey
  <2>2. mailbox.key \in Queries /\ mailbox.key[1] = "mailbox"
    BY <1>1, <2>1 DEF Queries
  <2> QED
    BY <1>4, <2>2
<1> QED
  BY <1>1, <1>2, <1>3, <1>4, <1>5

(* The query at the head is later than every other of its kind that the    *)
(* core or the database knows.                                             *)
LEMMA QueryIsTaken ==
  ASSUME TypeInv, NumberInv, KeyInv, NEW k \in Kinds, NEW n \in 1..MaxAsk,
         commands # <<>>, Head(commands) = <<k, n>>, commands' = Tail(commands)
  PROVE  /\ commands' \in Seq(Commands) /\ Len(commands') <= CommandCapacity
         /\ schedule[k].active < n /\ schedule[k].pending < n /\ n <= asked[k]
         /\ \A i \in DOMAIN commands' : \A c \in Kinds : commands'[i][1] = c =>
               /\ schedule[c].active < commands'[i][2] /\ schedule[c].pending < commands'[i][2]
               /\ commands'[i][2] <= asked[c] /\ (c = k => n < commands'[i][2]) /\ commands'[i][2] \in Nat
         /\ \A i, j \in DOMAIN commands' : \A c \in Kinds :
               i < j /\ commands'[i][1] = c /\ commands'[j][1] = c
                   => commands'[i][2] < commands'[j][2]
         /\ mailbox.state # "idle" =>
               /\ k = "mailbox" => mailbox.key[2] < n
               /\ \A i \in DOMAIN commands' :
                     commands'[i][1] = "mailbox" => mailbox.key[2] < commands'[i][2]
         /\ \A m \in Mutations : Waits(m)' <=> Waits(m)
<1> PICK t : t = Tail(commands)
  OBVIOUS
<1> PICK q : q = <<k, n>>
  OBVIOUS
<1>0. /\ commands \in Seq(Commands) /\ Len(commands) <= CommandCapacity
      /\ CommandCapacity \in Nat /\ Head(commands) = q /\ commands' = t
      /\ q[1] = k /\ q[2] = n
  BY RuntimeAssumption DEF TypeInv, CoreTyped
<1>1. /\ commands[1] = q /\ 1 \in DOMAIN commands /\ t \in Seq(Commands)
      /\ Len(commands) \in Nat /\ Len(t) = Len(commands) - 1
      /\ \A i \in DOMAIN t : i \in Nat /\ i + 1 \in DOMAIN commands /\ t[i] = commands[i + 1]
      /\ \A x : x \in ToSet(commands) <=> x = q \/ x \in ToSet(t)
  BY <1>0, TailIs
<1>2. \A i \in DOMAIN t : i >= 1
  BY <1>1, LenProperties
<1>3. Len(t) <= CommandCapacity
  BY <1>0, <1>1
<1>4. schedule[k].active < n /\ schedule[k].pending < n /\ n <= asked[k]
  BY <1>0, <1>1 DEF NumberInv
<1>5. ASSUME NEW i \in DOMAIN t, NEW c \in Kinds, t[i][1] = c
      PROVE  /\ schedule[c].active < t[i][2] /\ schedule[c].pending < t[i][2]
             /\ t[i][2] <= asked[c] /\ (c = k => n < t[i][2]) /\ t[i][2] \in Nat
  <2>1. /\ i + 1 \in DOMAIN commands /\ commands[i + 1][1] = c /\ commands[i + 1][2] = t[i][2]
        /\ 1 < i + 1
    BY <1>1, <1>2, <1>5
  <2>2. c = k => commands[1][2] < commands[i + 1][2]
    BY <1>0, <1>1, <2>1 DEF NumberInv
  <2>3. commands[i + 1][2] \in Nat
    BY <2>1, QueryNumbers
  <2> QED
    BY <1>0, <1>1, <2>1, <2>2, <2>3 DEF NumberInv
<1>6. ASSUME NEW i \in DOMAIN t, NEW j \in DOMAIN t, NEW c \in Kinds,
             i < j, t[i][1] = c, t[j][1] = c
      PROVE  t[i][2] < t[j][2]
  <2>1. i + 1 < j + 1
    BY <1>1, <1>6
  <2> QED
    BY <1>1, <1>6, <2>1 DEF NumberInv
<1>7. ASSUME mailbox.state # "idle"
      PROVE  /\ k = "mailbox" => mailbox.key[2] < n
             /\ \A i \in DOMAIN t : t[i][1] = "mailbox" => mailbox.key[2] < t[i][2]
  <2>1. \A i \in DOMAIN commands :
           commands[i][1] = "mailbox" => mailbox.key[2] < commands[i][2]
    BY <1>7 DEF KeyInv
  <2> QED
    BY <1>0, <1>1, <2>1
<1>8. \A m \in Mutations : Waits(m)' <=> Waits(m)
  <2>1. \A m : q # <<"mutate", m>>
    BY RuntimeAssumption DEF Kinds
  <2>2. \A m : Waits(m) <=> <<"mutate", m>> \in ToSet(commands)
    BY DEF Waits, ToSet
  <2>3. \A m : Waits(m)' <=> <<"mutate", m>> \in ToSet(t)
    BY <1>0 DEF Waits, ToSet
  <2> QED
    BY <1>1, <2>1, <2>2, <2>3
<1> QED
  BY <1>0, <1>1, <1>3, <1>4, <1>5, <1>6, <1>7, <1>8

(* What Dispatch does, and where it leaves the loop.                       *)
LEMMA DispatchIs ==
  ASSUME TypeInv, NEW k \in Kinds, NEW n \in 1..MaxAsk, Dispatch(k, n)
  PROVE  /\ queries' \in Seq(Queries) /\ Len(queries') <= QueryCapacity
         /\ schedule' \in [Kinds -> [active : 0..MaxAsk, pending : 0..MaxAsk]]
         /\ core' \in CoreStates /\ core'.pc \in {"loop", "send"} /\ InHand' = <<>>
         /\ \A m \in Mutations : ~EventIs("committed", m)' /\ ~EventIs("failed", m)'
         /\ \A c \in Kinds : c # k => schedule'[c] = schedule[c]
         /\ schedule'[k].pending = None
         /\ \/ queries' = Append(queries, <<k, n>>) /\ schedule'[k].active = n
            \/ queries' = queries /\ schedule'[k].active = None
<1>1. /\ queries \in Seq(Queries) /\ Len(queries) <= QueryCapacity /\ QueryCapacity \in Nat
      /\ schedule \in [Kinds -> [active : 0..MaxAsk, pending : 0..MaxAsk]]
      /\ MaxAsk \in Nat /\ <<k, n>> \in Queries
  BY DatabaseAssumption DEF TypeInv, DatabaseTyped, CoreTyped, Queries
<1> PICK taken : taken = [active |-> n, pending |-> None]
  OBVIOUS
<1> PICK free : free = [active |-> None, pending |-> None]
  OBVIOUS
<1>s. /\ {taken, free} \subseteq [active : 0..MaxAsk, pending : 0..MaxAsk]
      /\ taken.active = n /\ taken.pending = None
      /\ free.active = None /\ free.pending = None
  BY <1>1 DEF None
<1>2. CASE QueryVerdict = "ok"
  <2>1. /\ queries' = Append(queries, <<k, n>>) /\ core' = [pc |-> "loop"]
        /\ schedule' = [schedule EXCEPT ![k] = taken]
    BY <1>2 DEF Dispatch, Loop
  <2>2. Len(queries) # QueryCapacity
    BY <1>2 DEF QueryVerdict, Verdict
  <2>3. queries' \in Seq(Queries) /\ Len(queries') <= QueryCapacity
    <3> PICK q : q = <<k, n>>
      OBVIOUS
    <3>1. /\ Append(queries, q) \in Seq(Queries)
          /\ Len(Append(queries, q)) = Len(queries) + 1 /\ Len(queries) \in Nat
      BY <1>1, AppendIs
    <3> QED
      BY <1>1, <2>1, <2>2, <3>1
  <2>4. core' \in CoreStates /\ core'.pc = "loop"
    BY <2>1 DEF CoreStates
  <2>5. /\ schedule' \in [Kinds -> [active : 0..MaxAsk, pending : 0..MaxAsk]]
        /\ \A c \in Kinds : c # k => schedule'[c] = schedule[c]
        /\ schedule'[k] = taken
    BY <1>1, <1>s, <2>1
  <2>6. schedule'[k].pending = None /\ schedule'[k].active = n
    BY <1>s, <2>5
  <2> QED
    BY <2>1, <2>3, <2>4, <2>5, <2>6 DEF InHand, EventIs
<1>3. CASE QueryVerdict # "ok"
  <2>1. /\ queries' = queries /\ core' = [pc |-> "send", event |-> Event(k, n)]
        /\ schedule' = [schedule EXCEPT ![k] = free]
    BY <1>3 DEF Dispatch
  <2>2. core' \in CoreStates /\ core'.pc = "send" /\ core'.event = Event(k, n)
    <3>1. Event(k, n) \in Events
      BY DEF Event, Events
    <3> QED
      BY <2>1, <3>1 DEF CoreStates
  <2>3. /\ schedule' \in [Kinds -> [active : 0..MaxAsk, pending : 0..MaxAsk]]
        /\ \A c \in Kinds : c # k => schedule'[c] = schedule[c]
        /\ schedule'[k] = free
    BY <1>1, <1>s, <2>1
  <2>4. schedule'[k].pending = None /\ schedule'[k].active = None
    BY <1>s, <2>3
  <2>5. k \notin {"rejected", "committed", "failed"}
    BY RuntimeAssumption DEF Kinds
  <2>6. Event(k, n).kind = k
    BY DEF Event
  <2>7. InHand' = <<>>
    BY <2>2, <2>5, <2>6 DEF InHand
  <2>8. \A m : ~EventIs("committed", m)' /\ ~EventIs("failed", m)'
    BY <2>2, <2>5 DEF EventIs, Event
  <2> QED
    BY <1>1, <2>1, <2>2, <2>3, <2>4, <2>7, <2>8
<1> QED
  BY <1>2, <1>3

(* No query of a kind is in the database any more: the next one goes there *)
(* or none does.                                                           *)
LEMMA KindIsFreeSafe ==
  ASSUME TypeInv, PlaceInv, NumberInv, KeyInv, ObsoleteOnly, CommandsOpen,
         NEW k \in Kinds, NEW n \in 1..MaxAsk, core'.pc # "gate",
         \A c \in Kinds : c # k => schedule'[c] = schedule[c],
         schedule'[k].pending = None,
         \/ queries' = Append(queries, <<k, n>>) /\ schedule'[k].active = n
         \/ queries' = queries /\ schedule'[k].active = None,
         UNCHANGED <<reader, mailbox, asked>>,
         n <= asked[k],
         mailbox.state # "idle" /\ k = "mailbox" /\ schedule'[k].active # None =>
            mailbox.key[2] < n,
         \A q \in Queries : q[1] = k => q \notin ToSet(queries) /\ ~AtReader(q) /\ ~Replied(q)',
         \A q : q[1] # k => (Replied(q)' <=> Replied(q)),
         \A i, j \in DOMAIN replies' :
            /\ replies'[i].what # "mutation" /\ replies'[j].what # "mutation"
            /\ replies'[i].id = replies'[j].id
            => i = j,
         \A i \in DOMAIN replies' : replies'[i].what = "superseded" =>
            replies'[i].id[1] # k /\ Obsolete(replies'[i].id),
         \A i \in DOMAIN commands' : \A c \in Kinds : commands'[i][1] = c =>
            /\ schedule[c].active < commands'[i][2] /\ schedule[c].pending < commands'[i][2]
            /\ commands'[i][2] <= asked[c] /\ (c = k => n < commands'[i][2]) /\ commands'[i][2] \in Nat,
         \A i, j \in DOMAIN commands' : \A c \in Kinds :
            i < j /\ commands'[i][1] = c /\ commands'[j][1] = c
                => commands'[i][2] < commands'[j][2],
         mailbox.state # "idle" => \A i \in DOMAIN commands' :
            commands'[i][1] = "mailbox" => mailbox.key[2] < commands'[i][2]
  PROVE  PlaceInv' /\ NumberInv' /\ KeyInv' /\ ObsoleteOnly'
<1>1. /\ \A c \in Kinds : c # k => schedule'[c] = schedule[c]
      /\ schedule'[k].pending = None /\ core'.pc # "gate"
      /\ \/ queries' = Append(queries, <<k, n>>) /\ schedule'[k].active = n
         \/ queries' = queries /\ schedule'[k].active = None
  OBVIOUS
<1>2. /\ MaxAsk \in Nat /\ n \in Nat /\ n # None /\ "mailbox" \in Kinds
      /\ \A c \in Kinds : /\ schedule[c].active \in Nat /\ schedule[c].pending \in Nat
                          /\ asked[c] \in Nat
      /\ \A i \in DOMAIN commands : \A c \in Kinds :
            commands[i][1] = c => commands[i][2] \in Nat
      /\ mailbox.state # "idle" =>
            /\ mailbox.key \in Queries /\ mailbox.key[1] = "mailbox"
            /\ mailbox.key[2] \in Nat /\ mailbox.key[2] # None
      /\ \A q \in Queries : q[1] \in Kinds
  BY QueryNumbers DEF None
<1>3. \A q : /\ AtReader(q)' <=> AtReader(q)
             /\ Reading(q)' <=> Reading(q)
             /\ Sending(q)' <=> Sending(q)
  BY DEF AtReader, Reading, Sending
<1>4. \A q \in Queries : q[1] # k => (IsActive(q)' <=> IsActive(q))
  BY <1>1, <1>2 DEF IsActive
<1> PICK e : e = <<k, n>>
  OBVIOUS
<1>5. /\ e \in Queries /\ e[1] = k /\ e[2] = n
      /\ e \notin ToSet(queries) /\ ~AtReader(e) /\ ~Replied(e)'
      /\ \/ queries' = Append(queries, e) /\ schedule'[k].active = n
         \/ queries' = queries /\ schedule'[k].active = None
  BY <1>1 DEF Queries
<1>6. PlaceInv'
  <2>1. queries \in Seq(Queries)
    BY DEF TypeInv, DatabaseTyped
  <2>2. /\ \A i \in DOMAIN queries : i \in Nat /\ i # Len(queries) + 1
        /\ \A i \in DOMAIN queries : Append(queries, e)[i] = queries[i]
        /\ Append(queries, e)[Len(queries) + 1] = e
        /\ \A i \in DOMAIN Append(queries, e) : i \in DOMAIN queries \/ i = Len(queries) + 1
        /\ \A x : x \in ToSet(Append(queries, e)) <=> x = e \/ x \in ToSet(queries)
    BY <1>5, <2>1, AppendIs
  <2>3. \A x : x \in ToSet(queries') =>
           x \in ToSet(queries) \/ (x = e /\ schedule'[k].active = n)
    BY <1>5, <2>2
  <2>4. \A x : x \in ToSet(queries) => x \in ToSet(queries')
    BY <1>5, <2>2
  <2>5. \A q \in Queries : q \in ToSet(queries') => IsActive(q)' /\ ~AtReader(q)' /\ ~Replied(q)'
    <3>1. TAKE q \in Queries
    <3>2. HAVE q \in ToSet(queries')
    <3>3. CASE q \in ToSet(queries)
      <4>1. q[1] # k
        BY <3>3
      <4> QED
        BY <1>3, <1>4, <3>3, <4>1 DEF PlaceInv
    <3>4. CASE q = e /\ schedule'[k].active = n
      BY <1>3, <1>5, <3>4 DEF IsActive
    <3> QED
      BY <2>3, <3>2, <3>3, <3>4
  <2>6. \A q \in Queries : AtReader(q)' => IsActive(q)' /\ ~Replied(q)'
    BY <1>3, <1>4 DEF PlaceInv
  <2>7. \A q \in Queries : Replied(q)' => IsActive(q)'
    BY <1>4 DEF PlaceInv
  <2>8. \A i, j \in DOMAIN queries' : queries'[i] = queries'[j] => i = j
    <3>1. \A i \in DOMAIN queries : queries[i] # e
      BY <1>5 DEF ToSet
    <3>2. CASE queries' = Append(queries, e)
      <4>1. \A i \in DOMAIN queries : queries'[i] = queries[i]
        BY <2>2, <3>2
      <4>2. queries'[Len(queries) + 1] = e
        BY <2>2, <3>2
      <4>3. \A i \in DOMAIN queries' : i \in DOMAIN queries \/ i = Len(queries) + 1
        BY <2>2, <3>2
      <4> QED
        BY <3>1, <4>1, <4>2, <4>3 DEF PlaceInv
    <3>3. CASE queries' = queries
      BY <3>3 DEF PlaceInv
    <3> QED
      BY <1>5, <3>2, <3>3
  <2>9. ASSUME NEW c \in Kinds, schedule'[c].active # None
        PROVE  \/ <<c, schedule'[c].active>> \in ToSet(queries')
               \/ reader.pc = "query" /\ reader.id = <<c, schedule'[c].active>>
               \/ reader.pc = "send" /\ reader.reply.id = <<c, schedule'[c].active>>
               \/ \E i \in DOMAIN replies' :
                     replies'[i].what # "mutation" /\ replies'[i].id = <<c, schedule'[c].active>>
    <3> PICK q : q = <<c, schedule'[c].active>>
      OBVIOUS
    <3>1. CASE c = k
      BY <1>5, <2>2, <2>9, <3>1
    <3>2. CASE c # k
      <4>1. q[2] # None /\ q[1] # k /\ q = <<c, schedule[c].active>>
        BY <1>1, <2>9, <3>2
      <4>2. q \in ToSet(queries) \/ AtReader(q) \/ Replied(q)
        BY <4>1 DEF PlaceInv
      <4>3. q \in ToSet(queries') \/ AtReader(q) \/ Replied(q)'
        BY <2>4, <4>1, <4>2
      <4> QED
        BY <4>3 DEF AtReader, Reading, Sending, Replied
    <3> QED
      BY <3>1, <3>2
  <2>10. (\A c \in Kinds :
            LET q == <<c, schedule[c].active>> IN
            q[2] # None => q \in ToSet(queries) \/ AtReader(q) \/ Replied(q))'
    BY <2>9 DEF AtReader, Reading, Sending, Replied
  <2>11. /\ (\A q \in Queries : q \in ToSet(queries) => IsActive(q) /\ ~AtReader(q) /\ ~Replied(q))'
         /\ (\A q \in Queries : AtReader(q) => IsActive(q) /\ ~Replied(q))'
         /\ (\A q \in Queries : Replied(q) => IsActive(q))'
    BY <2>5, <2>6, <2>7
  <2> QED
    BY <2>8, <2>10, <2>11 DEF PlaceInv
<1>7. NumberInv'
  <2>1. ASSUME NEW c \in Kinds
        PROVE  /\ schedule'[c].active <= asked[c] /\ schedule'[c].pending <= asked[c]
               /\ schedule'[c].pending # None =>
                     schedule'[c].active # None /\ schedule'[c].active < schedule'[c].pending
    BY <1>1, <1>2 DEF NumberInv, None
  <2>2. ASSUME NEW i \in DOMAIN commands', NEW c \in Kinds, commands'[i][1] = c
        PROVE  /\ schedule'[c].active < commands'[i][2]
               /\ schedule'[c].pending < commands'[i][2]
               /\ commands'[i][2] <= asked[c]
    <3>1. /\ schedule[c].active < commands'[i][2] /\ schedule[c].pending < commands'[i][2]
          /\ commands'[i][2] <= asked[c] /\ (c = k => n < commands'[i][2])
          /\ commands'[i][2] \in Nat
      BY <2>2
    <3> QED
      BY <1>1, <1>2, <3>1 DEF None
  <2> QED
    BY <2>1, <2>2 DEF NumberInv
<1>8. k = "mailbox" => ~Obsolete(mailbox.key) \/ mailbox.state # "activeSuperseded"
  <2>1. mailbox.state = "activeSuperseded" /\ k = "mailbox" => Reading(mailbox.key)
    BY <1>2 DEF KeyInv
  <2> QED
    BY <1>2, <2>1 DEF AtReader
<1>9. KeyInv'
  <2>1. CASE k = "mailbox"
    <3>1. mailbox.state # "activeSuperseded"
      BY <1>8, <2>1 DEF KeyInv
    <3>2. mailbox.state # "idle" =>
             /\ mailbox.key[2] <= asked["mailbox"]
             /\ schedule'["mailbox"].active # None => mailbox.key[2] < n
             /\ mailbox.key[2] # None
      BY <1>2, <2>1 DEF KeyInv
    <3>3. schedule'["mailbox"].active \in {None, n} /\ schedule'["mailbox"].pending = None
      BY <1>1, <2>1
    <3>4. mailbox.state # "idle" =>
             /\ schedule'["mailbox"].active # None =>
                   mailbox.key[2] <= schedule'["mailbox"].active
             /\ schedule'["mailbox"].active # mailbox.key[2]
      BY <1>2, <3>2, <3>3
    <3> QED
      BY <1>1, <1>3, <3>1, <3>2, <3>3, <3>4 DEF KeyInv
  <2>2. CASE k # "mailbox"
    <3>1. schedule'["mailbox"] = schedule["mailbox"]
      BY <1>1, <1>2, <2>2
    <3>2. Obsolete(mailbox.key)' <=> Obsolete(mailbox.key)
      BY <3>1 DEF Obsolete
    <3> QED
      BY <1>1, <1>3, <3>1, <3>2 DEF KeyInv
  <2> QED
    BY <2>1, <2>2
<1>10. ObsoleteOnly'
  <2>1. \A q : q[1] # k /\ Obsolete(q) => Obsolete(q)'
    BY <1>1, <1>2 DEF Obsolete
  <2>2. reader \in ReaderStates
    BY DEF TypeInv, DatabaseTyped
  <2>3. reader.pc = "query" => reader.id \in Queries /\ reader.id[1] # k
    <3>1. reader.pc = "query" => reader.id \in Queries
      BY <2>2 DEF ReaderStates
    <3> QED
      BY <3>1 DEF AtReader, Reading
  <2>4. reader.pc = "send" => reader.reply.id \in Queries /\ reader.reply.id[1] # k
    <3>1. reader.pc = "send" => reader.reply.id \in Queries
      BY <2>2 DEF ReaderStates, QueryReplies
    <3> QED
      BY <3>1 DEF AtReader, Sending
  <2>5. /\ reader.pc = "query" /\ reader.cut => Obsolete(reader.id)'
        /\ reader.pc = "send" /\ reader.reply.what = "superseded" => Obsolete(reader.reply.id)'
    <3> PICK q : q = reader.id
      OBVIOUS
    <3> PICK p : p = reader.reply.id
      OBVIOUS
    <3>1. /\ reader.pc = "query" /\ reader.cut => Obsolete(q)'
          /\ reader.pc = "send" /\ reader.reply.what = "superseded" => Obsolete(p)'
      BY <2>1, <2>3, <2>4 DEF ObsoleteOnly
    <3> QED
      BY <3>1 DEF Obsolete
  <2>6. ASSUME NEW i \in DOMAIN replies', replies'[i].what = "superseded"
        PROVE  /\ replies'[i].id[1] = "mailbox"
               /\ schedule'["mailbox"].active = replies'[i].id[2]
               /\ schedule'["mailbox"].pending # None
    BY <1>1, <1>2, <2>6 DEF Obsolete
  <2> QED
    BY <2>5, <2>6 DEF ObsoleteOnly, Obsolete
<1> QED
  BY <1>6, <1>7, <1>9, <1>10

(* A query waits for the one of its kind in the database, which it makes   *)
(* obsolete.                                                               *)
LEMMA QueryFollowsSafe ==
  ASSUME TypeInv, PlaceInv, NumberInv, KeyInv, ObsoleteOnly, CommandsOpen, core = Loop,
         NEW k \in Kinds, NEW n \in 1..MaxAsk, schedule[k].active # None,
         schedule' = [schedule EXCEPT ![k].pending = n],
         \/ k # "mailbox" /\ UNCHANGED <<mailbox, interrupt, core>>
         \/ /\ k = "mailbox" /\ Supersede(<<k, schedule[k].active>>)
            /\ core' = IF interrupt' /\ ~interrupt THEN [pc |-> "gate"] ELSE Loop,
         UNCHANGED <<queries, reader, replies, asked>>,
         n <= asked[k], schedule[k].active < n,
         mailbox.state # "idle" /\ k = "mailbox" => mailbox.key[2] < n,
         \A i \in DOMAIN commands' : \A c \in Kinds : commands'[i][1] = c =>
            /\ schedule[c].active < commands'[i][2] /\ schedule[c].pending < commands'[i][2]
            /\ commands'[i][2] <= asked[c] /\ (c = k => n < commands'[i][2])
            /\ commands'[i][2] \in Nat,
         \A i, j \in DOMAIN commands' : \A c \in Kinds :
            i < j /\ commands'[i][1] = c /\ commands'[j][1] = c
                => commands'[i][2] < commands'[j][2],
         mailbox.state # "idle" => \A i \in DOMAIN commands' :
            commands'[i][1] = "mailbox" => mailbox.key[2] < commands'[i][2]
  PROVE  /\ PlaceInv' /\ NumberInv' /\ KeyInv' /\ ObsoleteOnly'
         /\ schedule' \in [Kinds -> [active : 0..MaxAsk, pending : 0..MaxAsk]]
         /\ mailbox' \in MailboxStates /\ interrupt' \in BOOLEAN
         /\ core' \in {[pc |-> "loop"], [pc |-> "gate"]}
<1>1. /\ MaxAsk \in Nat /\ n \in Nat /\ n # None /\ "mailbox" \in Kinds
      /\ \A c \in Kinds : /\ schedule[c].active \in Nat /\ schedule[c].pending \in Nat
                          /\ schedule[c].active \in 0..MaxAsk
                          /\ asked[c] \in Nat
      /\ mailbox.state # "idle" =>
            /\ mailbox.key \in Queries /\ mailbox.key[1] = "mailbox"
            /\ mailbox.key = <<"mailbox", mailbox.key[2]>>
            /\ mailbox.key[2] \in Nat /\ mailbox.key[2] # None
      /\ \A q \in Queries : q[1] \in Kinds
  BY QueryNumbers DEF None
<1>2. /\ schedule' \in [Kinds -> [active : 0..MaxAsk, pending : 0..MaxAsk]]
      /\ \A c \in Kinds : c # k => schedule'[c] = schedule[c]
      /\ \A c \in Kinds : schedule'[c].active = schedule[c].active
      /\ schedule'[k].pending = n
  <2>1. schedule \in [Kinds -> [active : 0..MaxAsk, pending : 0..MaxAsk]] /\ n \in 0..MaxAsk
    BY <1>1 DEF TypeInv, CoreTyped
  <2> QED
    BY <2>1
<1>3. /\ \A q : /\ AtReader(q)' <=> AtReader(q)
                /\ Reading(q)' <=> Reading(q)
                /\ Replied(q)' <=> Replied(q)
      /\ \A q \in Queries : IsActive(q)' <=> IsActive(q)
  BY <1>1, <1>2 DEF AtReader, Reading, Sending, Replied, IsActive
<1>4. \A q : Obsolete(q) => Obsolete(q)'
  BY <1>1, <1>2 DEF Obsolete
<1>5. PlaceInv'
  <2>1. ASSUME NEW c \in Kinds, schedule'[c].active # None
        PROVE  \/ <<c, schedule'[c].active>> \in ToSet(queries)
               \/ reader.pc = "query" /\ reader.id = <<c, schedule'[c].active>>
               \/ reader.pc = "send" /\ reader.reply.id = <<c, schedule'[c].active>>
               \/ \E i \in DOMAIN replies :
                     replies[i].what # "mutation" /\ replies[i].id = <<c, schedule'[c].active>>
    <3> PICK q : q = <<c, schedule[c].active>>
      OBVIOUS
    <3>1. q[2] # None /\ q = <<c, schedule'[c].active>>
      BY <1>2, <2>1
    <3>2. q \in ToSet(queries) \/ AtReader(q) \/ Replied(q)
      BY <3>1 DEF PlaceInv
    <3> QED
      BY <3>1, <3>2 DEF AtReader, Reading, Sending, Replied
  <2>2. (\A c \in Kinds :
            LET q == <<c, schedule[c].active>> IN
            q[2] # None => q \in ToSet(queries) \/ AtReader(q) \/ Replied(q))'
    BY <2>1 DEF AtReader, Reading, Sending, Replied
  <2>3. /\ (\A q \in Queries : q \in ToSet(queries) => IsActive(q) /\ ~AtReader(q) /\ ~Replied(q))'
        /\ (\A q \in Queries : AtReader(q) => IsActive(q) /\ ~Replied(q))'
        /\ (\A q \in Queries : Replied(q) => IsActive(q))'
    BY <1>3 DEF PlaceInv
  <2>4. /\ \A i, j \in DOMAIN queries : queries[i] = queries[j] => i = j
        /\ \A i, j \in DOMAIN replies :
              /\ replies[i].what # "mutation" /\ replies[j].what # "mutation"
              /\ replies[i].id = replies[j].id
              => i = j
    BY DEF PlaceInv
  <2> QED
    BY <2>2, <2>3, <2>4 DEF PlaceInv
<1>6. NumberInv'
  <2>1. ASSUME NEW c \in Kinds
        PROVE  /\ schedule'[c].active <= asked[c] /\ schedule'[c].pending <= asked[c]
               /\ schedule'[c].pending # None =>
                     schedule'[c].active # None /\ schedule'[c].active < schedule'[c].pending
    <3>1. CASE c = k
      BY <1>1, <1>2, <3>1 DEF NumberInv
    <3>2. CASE c # k
      BY <1>2, <3>2 DEF NumberInv
    <3> QED
      BY <3>1, <3>2
  <2>2. ASSUME NEW i \in DOMAIN commands', NEW c \in Kinds, commands'[i][1] = c
        PROVE  /\ schedule'[c].active < commands'[i][2]
               /\ schedule'[c].pending < commands'[i][2]
               /\ commands'[i][2] <= asked[c]
    <3>1. /\ schedule[c].active < commands'[i][2] /\ schedule[c].pending < commands'[i][2]
          /\ commands'[i][2] <= asked[c] /\ (c = k => n < commands'[i][2])
      BY <2>2
    <3> QED
      BY <1>1, <1>2, <3>1
  <2> QED
    BY <2>1, <2>2 DEF NumberInv
<1> PICK d : d = <<"mailbox", schedule["mailbox"].active>>
  OBVIOUS
<1>7. \/ /\ mailbox' = mailbox /\ interrupt' = interrupt /\ core' = [pc |-> "loop"]
         /\ k # "mailbox" \/ mailbox.state # "idle"
      \/ /\ k = "mailbox" /\ mailbox.state = "idle"
         /\ mailbox' = [state |-> "superseded", key |-> d]
         /\ interrupt' = interrupt /\ core' = [pc |-> "loop"]
      \/ /\ k = "mailbox" /\ mailbox = [state |-> "active", key |-> d]
         /\ mailbox' = [state |-> "activeSuperseded", key |-> d]
         /\ interrupt' = TRUE /\ core' \in {[pc |-> "loop"], [pc |-> "gate"]}
  <2>0. interrupt \in BOOLEAN
    BY DEF TypeInv, DatabaseTyped
  <2>1. CASE k # "mailbox" /\ UNCHANGED <<mailbox, interrupt, core>>
    BY <2>1 DEF Loop
  <2>2. CASE /\ k = "mailbox" /\ Supersede(<<k, schedule[k].active>>)
             /\ core' = IF interrupt' /\ ~interrupt THEN [pc |-> "gate"] ELSE Loop
    <3> PICK v : v = (interrupt \/ Interruptible(d))
      OBVIOUS
    <3>1. /\ mailbox' = CASE mailbox.state = "idle" -> [state |-> "superseded", key |-> d]
                          [] Interruptible(d) -> [state |-> "activeSuperseded", key |-> d]
                          [] OTHER -> mailbox
          /\ interrupt' = v
      BY <2>2 DEF Supersede
    <3>2. CASE mailbox.state = "idle"
      <4>1. ~Interruptible(d)
        BY <3>2 DEF Interruptible
      <4>2. mailbox' = [state |-> "superseded", key |-> d] /\ v = interrupt
        BY <2>0, <3>1, <3>2, <4>1
      <4> QED
        BY <2>2, <3>1, <3>2, <4>2 DEF Loop
    <3>3. CASE Interruptible(d)
      <4>1. mailbox = [state |-> "active", key |-> d] /\ mailbox.state # "idle"
        BY <3>3 DEF Interruptible
      <4>2. mailbox' = [state |-> "activeSuperseded", key |-> d] /\ v = TRUE
        BY <3>1, <3>3, <4>1
      <4> QED
        BY <2>2, <3>1, <4>1, <4>2 DEF Loop
    <3>4. CASE mailbox.state # "idle" /\ ~Interruptible(d)
      <4>1. mailbox' = mailbox /\ v = interrupt
        BY <2>0, <3>1, <3>4
      <4> QED
        BY <2>2, <3>1, <3>4, <4>1 DEF Loop
    <3> QED
      BY <3>2, <3>3, <3>4
  <2> QED
    BY <2>1, <2>2
<1>8. KeyInv' /\ mailbox' \in MailboxStates
  <2>0. mailbox \in MailboxStates
    BY DEF TypeInv, DatabaseTyped
  <2>1. CASE /\ mailbox' = mailbox /\ core' = [pc |-> "loop"]
             /\ k # "mailbox" \/ mailbox.state # "idle"
    <3>1. mailbox.state # "idle" =>
             /\ mailbox.key[2] <= asked["mailbox"]
             /\ schedule'["mailbox"].active # None =>
                   mailbox.key[2] <= schedule'["mailbox"].active
             /\ schedule'["mailbox"].pending # None =>
                   mailbox.key[2] < schedule'["mailbox"].pending
      <4>1. schedule'["mailbox"].pending = schedule["mailbox"].pending
            \/ (k = "mailbox" /\ schedule'["mailbox"].pending = n)
        BY <1>1, <1>2
      <4> QED
        BY <1>1, <1>2, <4>1 DEF KeyInv
    <3>2. mailbox.state = "superseded" /\ schedule'["mailbox"].active = mailbox.key[2] =>
             schedule'["mailbox"].pending # None
      BY <1>1, <1>2 DEF KeyInv
    <3>3. mailbox.state = "activeSuperseded" => Obsolete(mailbox.key)'
      <4> PICK q : q = mailbox.key
        OBVIOUS
      <4>1. mailbox.state = "activeSuperseded" => Obsolete(q)'
        BY <1>4 DEF KeyInv
      <4> QED
        BY <2>1, <4>1 DEF Obsolete
    <3>4. core'.pc # "gate"
      BY <2>1
    <3> QED
      BY <1>3, <2>0, <2>1, <3>1, <3>2, <3>3, <3>4 DEF KeyInv
  <2>2. ASSUME k = "mailbox"
        PROVE  /\ d[1] = "mailbox" /\ d[2] = schedule'["mailbox"].active /\ d[2] # None
               /\ d[2] \in Nat /\ d[2] <= asked["mailbox"]
               /\ d[2] < schedule'["mailbox"].pending
               /\ schedule'["mailbox"].pending # None
               /\ \A i \in DOMAIN commands' :
                     commands'[i][1] = "mailbox" => d[2] < commands'[i][2]
               /\ d \in {"mailbox"} \X (1..MaxAsk)
    <3>1. d[1] = "mailbox" /\ d[2] = schedule["mailbox"].active /\ d[2] # None
          /\ d[2] \in Nat /\ d[2] \in 0..MaxAsk
      BY <1>1, <2>2
    <3>2. d[2] \in 1..MaxAsk
      BY <1>1, <3>1 DEF None
    <3>3. d \in {"mailbox"} \X (1..MaxAsk)
      BY <3>1, <3>2
    <3>4. d[2] <= asked["mailbox"] /\ d[2] < n
      BY <1>1, <2>2, <3>1 DEF NumberInv
    <3>5. \A i \in DOMAIN commands' :
             commands'[i][1] = "mailbox" => d[2] < commands'[i][2]
      BY <1>1, <3>1
    <3> QED
      BY <1>1, <1>2, <2>2, <3>1, <3>3, <3>4, <3>5
  <2>3. CASE /\ k = "mailbox" /\ mailbox.state = "idle"
             /\ mailbox' = [state |-> "superseded", key |-> d]
             /\ core' = [pc |-> "loop"]
    <3>1. mailbox'.state = "superseded" /\ mailbox'.key = d /\ core'.pc = "loop"
      BY <2>3
    <3>2. \A q \in Queries : q[1] = "mailbox" => ~Reading(q)'
      BY <1>3, <2>3 DEF KeyInv
    <3>3. KeyInv'
      BY <1>1, <2>2, <2>3, <3>1, <3>2 DEF KeyInv
    <3> QED
      BY <2>2, <2>3, <3>3 DEF MailboxStates
  <2>4. CASE /\ k = "mailbox" /\ mailbox = [state |-> "active", key |-> d]
             /\ mailbox' = [state |-> "activeSuperseded", key |-> d]
    <3>1. /\ mailbox'.state = "activeSuperseded" /\ mailbox'.key = d
          /\ mailbox.state = "active" /\ mailbox.key = d
      BY <2>4
    <3>2. \A q \in Queries : q[1] = "mailbox" => (Reading(q)' <=> d = q)
      BY <1>3, <3>1 DEF KeyInv
    <3>3. Obsolete(d)'
      BY <1>2, <2>2, <2>4 DEF Obsolete
    <3>4. Obsolete(mailbox.key)'
      BY <3>1, <3>3 DEF Obsolete
    <3>5. KeyInv'
      BY <1>1, <2>2, <2>4, <3>1, <3>2, <3>4 DEF KeyInv
    <3> QED
      BY <2>2, <2>4, <3>5 DEF MailboxStates
  <2> QED
    BY <1>7, <2>1, <2>3, <2>4
<1>9. ObsoleteOnly'
  <2>1. /\ reader.pc = "query" /\ reader.cut => Obsolete(reader.id)'
        /\ reader.pc = "send" /\ reader.reply.what = "superseded" => Obsolete(reader.reply.id)'
        /\ \A i \in DOMAIN replies : replies[i].what = "superseded" => Obsolete(replies[i].id)'
    BY <1>1, <1>2 DEF Obsolete, ObsoleteOnly
  <2> QED
    BY <2>1 DEF ObsoleteOnly, Obsolete
<1>10. interrupt' \in BOOLEAN /\ core' \in {[pc |-> "loop"], [pc |-> "gate"]}
  <2>1. interrupt \in BOOLEAN
    BY DEF TypeInv, DatabaseTyped
  <2> QED
    BY <1>7, <2>1
<1> QED
  BY <1>2, <1>5, <1>6, <1>8, <1>9, <1>10

LEMMA QueryCommandSafe ==
  ASSUME RuntimeInv, NEW k \in Kinds, NEW n \in 1..MaxAsk, QueryCommand(k, n)
  PROVE  RuntimeInv'
<1>0. /\ TypeInv /\ PhaseInv /\ WaitInv /\ Places /\ LineInv
      /\ ReplyInv /\ ToldInv /\ AnswerInv /\ CallInv /\ QueryInv
  BY DEF RuntimeInv
<1>a. /\ core = Loop /\ core.pc = "loop" /\ CommandReady /\ Head(commands) = <<k, n>>
      /\ commands # <<>> /\ commands' = Tail(commands) /\ TookCommand
      /\ \/ /\ schedule[k].active = None /\ Dispatch(k, n) /\ UNCHANGED <<mailbox, interrupt>>
         \/ /\ schedule[k].active # None
            /\ schedule' = [schedule EXCEPT ![k].pending = n] /\ UNCHANGED queries
            /\ \/ k # "mailbox" /\ UNCHANGED <<mailbox, interrupt, core>>
               \/ /\ k = "mailbox" /\ Supersede(<<k, schedule[k].active>>)
                  /\ core' = IF interrupt' /\ ~interrupt THEN [pc |-> "gate"] ELSE Loop
      /\ UNCHANGED <<requests, replies, open, admission, writer, reader, stopping, backfill,
                     log, answers, cut, loopVars, composes, events, slots, active>>
  BY DEF QueryCommand, Serving, CommandReady, Loop
<1> USE DEF loopVars
<1>b. /\ CommandsOpen /\ ~Left /\ InHand = <<>>
      /\ PlaceInv /\ NumberInv /\ KeyInv /\ ObsoleteOnly
  BY <1>0, <1>a DEF CommandsOpen, Left, InHand, QueryInv
<1>c. /\ commands' \in Seq(Commands) /\ Len(commands') <= CommandCapacity
      /\ schedule[k].active < n /\ schedule[k].pending < n /\ n <= asked[k]
      /\ \A i \in DOMAIN commands' : \A c \in Kinds : commands'[i][1] = c =>
            /\ schedule[c].active < commands'[i][2] /\ schedule[c].pending < commands'[i][2]
            /\ commands'[i][2] <= asked[c] /\ (c = k => n < commands'[i][2])
            /\ commands'[i][2] \in Nat
      /\ \A i, j \in DOMAIN commands' : \A c \in Kinds :
            i < j /\ commands'[i][1] = c /\ commands'[j][1] = c
                => commands'[i][2] < commands'[j][2]
      /\ mailbox.state # "idle" =>
            /\ k = "mailbox" => mailbox.key[2] < n
            /\ \A i \in DOMAIN commands' :
                  commands'[i][1] = "mailbox" => mailbox.key[2] < commands'[i][2]
      /\ \A m \in Mutations : Waits(m)' <=> Waits(m)
  BY <1>0, <1>a, <1>b, QueryIsTaken
<1>d. <<k, n>> \in Queries
  BY DEF Queries
<1>1. /\ PlaceInv' /\ NumberInv' /\ KeyInv' /\ ObsoleteOnly'
      /\ queries' \in Seq(Queries) /\ Len(queries') <= QueryCapacity
      /\ schedule' \in [Kinds -> [active : 0..MaxAsk, pending : 0..MaxAsk]]
      /\ mailbox' \in MailboxStates /\ interrupt' \in BOOLEAN
      /\ core' \in CoreStates /\ core'.pc \in {"loop", "gate", "send"} /\ InHand' = <<>>
      /\ \A m \in Mutations : ~EventIs("committed", m)' /\ ~EventIs("failed", m)'
  <2>1. CASE /\ schedule[k].active = None /\ Dispatch(k, n)
             /\ UNCHANGED <<mailbox, interrupt>>
    <3>1. /\ queries' \in Seq(Queries) /\ Len(queries') <= QueryCapacity
          /\ schedule' \in [Kinds -> [active : 0..MaxAsk, pending : 0..MaxAsk]]
          /\ core' \in CoreStates /\ core'.pc \in {"loop", "send"} /\ InHand' = <<>>
          /\ \A m \in Mutations : ~EventIs("committed", m)' /\ ~EventIs("failed", m)'
          /\ core'.pc # "gate"
          /\ \A c \in Kinds : c # k => schedule'[c] = schedule[c]
          /\ schedule'[k].pending = None
          /\ \/ queries' = Append(queries, <<k, n>>) /\ schedule'[k].active = n
             \/ queries' = queries /\ schedule'[k].active = None
      BY <1>0, <2>1, DispatchIs
    <3>2. \A q : Replied(q)' <=> Replied(q)
      BY <1>a DEF Replied
    <3>3. \A q \in Queries : q[1] = k => ~IsActive(q)
      BY <1>0, <2>1, QueryNumbers DEF IsActive
    <3>4. \A q \in Queries : q[1] = k =>
             q \notin ToSet(queries) /\ ~AtReader(q) /\ ~Replied(q)'
      BY <1>b, <3>2, <3>3 DEF PlaceInv
    <3>5. /\ \A i, j \in DOMAIN replies' :
                /\ replies'[i].what # "mutation" /\ replies'[j].what # "mutation"
                /\ replies'[i].id = replies'[j].id
                => i = j
      BY <1>a, <1>b DEF PlaceInv
    <3>6. ASSUME NEW i \in DOMAIN replies', replies'[i].what = "superseded"
          PROVE  replies'[i].id[1] # k /\ Obsolete(replies'[i].id)
      <4>1. Obsolete(replies[i].id) /\ replies'[i] = replies[i]
        BY <1>a, <1>b, <3>6 DEF ObsoleteOnly
      <4>2. k = "mailbox" => ~Obsolete(replies[i].id)
        BY <1>b, <2>1 DEF Obsolete, NumberInv
      <4>3. replies[i].id[1] = "mailbox"
        BY <4>1 DEF Obsolete
      <4> QED
        BY <4>1, <4>2, <4>3
    <3>7. PlaceInv' /\ NumberInv' /\ KeyInv' /\ ObsoleteOnly'
      BY <1>0, <1>a, <1>b, <1>c, <2>1, <3>2, <3>1, <3>4, <3>5, <3>6, KindIsFreeSafe
    <3>8. mailbox' \in MailboxStates /\ interrupt' \in BOOLEAN
      BY <1>0, <2>1 DEF TypeInv, DatabaseTyped
    <3> QED
      BY <3>1, <3>7, <3>8
  <2>2. CASE /\ schedule[k].active # None
             /\ schedule' = [schedule EXCEPT ![k].pending = n] /\ UNCHANGED queries
             /\ \/ k # "mailbox" /\ UNCHANGED <<mailbox, interrupt, core>>
                \/ /\ k = "mailbox" /\ Supersede(<<k, schedule[k].active>>)
                   /\ core' = IF interrupt' /\ ~interrupt THEN [pc |-> "gate"] ELSE Loop
    <3>1. /\ PlaceInv' /\ NumberInv' /\ KeyInv' /\ ObsoleteOnly'
          /\ schedule' \in [Kinds -> [active : 0..MaxAsk, pending : 0..MaxAsk]]
          /\ mailbox' \in MailboxStates /\ interrupt' \in BOOLEAN
          /\ core' \in {[pc |-> "loop"], [pc |-> "gate"]}
      BY <1>0, <1>a, <1>b, <1>c, <2>2, QueryFollowsSafe
    <3>2. core'.pc \in {"loop", "gate"} /\ core' \in CoreStates
      <4>1. [pc |-> "loop"] \in CoreStates /\ [pc |-> "gate"] \in CoreStates
        BY DEF CoreStates
      <4> QED
        BY <3>1, <4>1
    <3>3. InHand' = <<>> /\ \A m : ~EventIs("committed", m)' /\ ~EventIs("failed", m)'
      BY <3>2 DEF InHand, EventIs
    <3>4. queries' \in Seq(Queries) /\ Len(queries') <= QueryCapacity
      BY <1>0, <2>2 DEF TypeInv, DatabaseTyped
    <3> QED
      BY <3>1, <3>2, <3>3, <3>4
  <2> QED
    BY <1>a, <2>1, <2>2
<1>e. CommandsOpen' /\ ~Left' /\ ~Ending' /\ core'.pc # "finish"
  BY <1>1 DEF CommandsOpen, Left, Ending
<1>2. WaitInv' /\ streak' \in 0..Burst /\ waited' \in Nat
  BY <1>0, <1>a, <1>b, TookCommandWaits
<1>3. TypeInv'
  <2>1. DatabaseTyped'
    BY <1>0, <1>1, <1>a DEF TypeInv, DatabaseTyped
  <2>2. CoreTyped'
    BY <1>0, <1>1, <1>2, <1>a, <1>c DEF TypeInv, CoreTyped
  <2> QED
    BY <2>1, <2>2 DEF TypeInv
<1>4. PhaseInv'
  BY <1>0, <1>a, <1>b, <1>e DEF PhaseInv
<1>5. Places' /\ LineInv' /\ \A m \in Mutations : InLine(m)' <=> InLine(m)
  <2> PICK q : q = <<k, n>>
    OBVIOUS
  <2>1. /\ UNCHANGED <<log, requests, writer, sent>> /\ InHand' = InHand /\ q \in Queries
        /\ commands # <<>> /\ Head(commands) = q /\ commands' = Tail(commands)
    BY <1>1, <1>a, <1>b, <1>d
  <2> QED
    BY <1>0, <2>1, QueriesMoveLine
<1>6. ToldInv'
  BY <1>0, <1>5, <1>a, ToldStays DEF Ran1
<1>7. ReplyInv'
  BY <1>0, <1>1, <1>a, ReplyStays
<1>8. AnswerInv'
  <2>1. /\ \A m \in Mutations : Settled(m)' <=> Settled(m)
        /\ \A m \in Mutations : Outstanding(m)' <=> Outstanding(m)
    BY <1>a DEF Settled, Ran1, Outstanding, AtWriter, AtSend, Expected, IsReply
  <2>2. \A m \in Mutations : Pending(m)' <=> Pending(m)
    BY <1>1, <1>b, <1>c DEF Pending
  <2>3. \A m \in Mutations : Accounted(m) => Accounted(m)'
    BY <1>a, <2>1, <2>2 DEF Accounted, EventIs
  <2> QED
    BY <1>0, <1>3, <1>a, <1>b, <1>e, <2>1, <2>2, <2>3, AnswersStay
<1>9. CallInv'
  BY <1>0, <1>a, CallsStay
<1>10. QueryInv'
  BY <1>1 DEF QueryInv
<1> QED
  BY <1>2, <1>3, <1>4, <1>5, <1>6, <1>7, <1>8, <1>9, <1>10 DEF RuntimeInv

(* The replies that are left are as before.                                *)
LEMMA QueriesLeft ==
  ASSUME TypeInv, PlaceInv, ObsoleteOnly, CommandsOpen, replies # <<>>, replies' = Tail(replies)
  PROVE  /\ Head(replies) \in MutationReplies \cup QueryReplies
         /\ \A q : Replied(q) <=>
               (Head(replies).what # "mutation" /\ Head(replies).id = q) \/ Replied(q)'
         /\ \A q : Head(replies).what # "mutation" /\ Head(replies).id = q => ~Replied(q)'
         /\ \A i, j \in DOMAIN replies' :
               /\ replies'[i].what # "mutation" /\ replies'[j].what # "mutation"
               /\ replies'[i].id = replies'[j].id
               => i = j
         /\ \A i \in DOMAIN replies' : replies'[i].what = "superseded" =>
               Obsolete(replies'[i].id) /\ replies'[i].id \in Queries
<1> PICK t : t = Tail(replies)
  OBVIOUS
<1> PICK h : h = Head(replies)
  OBVIOUS
<1> PICK S : S = MutationReplies \cup QueryReplies
  OBVIOUS
<1>1. replies \in Seq(S) /\ replies' = t
  BY DEF TypeInv, DatabaseTyped
<1>2. /\ t \in Seq(S) /\ h \in S /\ h = replies[1] /\ 1 \in DOMAIN replies
      /\ \A i \in DOMAIN t : i \in Nat /\ i + 1 \in DOMAIN replies /\ t[i] = replies[i + 1]
      /\ \A x : x \in ToSet(replies) <=> x = h \/ x \in ToSet(t)
  BY <1>1, TailIs
<1>3. \A i \in DOMAIN t : i >= 1 /\ t[i] \in S
  BY <1>2, LenProperties, ElementOfSeq
<1>4. /\ \A q : Replied(q) <=> \E x \in ToSet(replies) : x.what # "mutation" /\ x.id = q
      /\ \A q : Replied(q)' <=> \E x \in ToSet(t) : x.what # "mutation" /\ x.id = q
  BY <1>1 DEF Replied, ToSet
<1>5. \A q : Replied(q) <=> (h.what # "mutation" /\ h.id = q) \/ Replied(q)'
  BY <1>2, <1>4
<1>6. ASSUME h.what # "mutation", NEW i \in DOMAIN t, t[i].what # "mutation", t[i].id = h.id
      PROVE  FALSE
  <2>1. i + 1 = 1 /\ i \in Nat /\ i >= 1
    BY <1>2, <1>3, <1>6 DEF PlaceInv
  <2> QED
    BY <2>1
<1>7. \A q : h.what # "mutation" /\ h.id = q => ~Replied(q)'
  BY <1>4, <1>6 DEF ToSet
<1>8. ASSUME NEW i \in DOMAIN t, NEW j \in DOMAIN t, t[i].what # "mutation",
             t[j].what # "mutation", t[i].id = t[j].id
      PROVE  i = j
  <2>1. i + 1 = j + 1
    BY <1>2, <1>8 DEF PlaceInv
  <2> QED
    BY <1>2, <2>1
<1>9. ASSUME NEW i \in DOMAIN t, t[i].what = "superseded"
      PROVE  Obsolete(t[i].id) /\ t[i].id \in Queries
  <2>1. Obsolete(replies[i + 1].id)
    BY <1>2, <1>9 DEF ObsoleteOnly
  <2>2. t[i] \in QueryReplies
    BY <1>3, <1>9 DEF MutationReplies
  <2> QED
    BY <1>2, <2>1, <2>2 DEF QueryReplies
<1> QED
  BY <1>1, <1>2, <1>5, <1>7, <1>8, <1>9

(* Who waits for a reply has no more than Burst commands before it.        *)
LEMMA DatabaseReplySafe ==
  ASSUME RuntimeInv, DatabaseReply
  PROVE  RuntimeInv'
<1>0. /\ TypeInv /\ PhaseInv /\ WaitInv /\ Places /\ LineInv
      /\ ReplyInv /\ ToldInv /\ AnswerInv /\ CallInv /\ QueryInv
  BY DEF RuntimeInv
<1> PICK r : r = Head(replies)
  OBVIOUS
<1> PICK d : d = r.id
  OBVIOUS
<1> PICK k : k = d[1]
  OBVIOUS
<1> PICK p : p = schedule[k].pending
  OBVIOUS
<1>a. /\ core = Loop /\ core.pc = "loop" /\ replies # <<>> /\ replies' = Tail(replies)
      /\ streak' = 0 /\ waited' = 0
      /\ \/ /\ r.what = "mutation" /\ active' = active - 1
            /\ core' = [pc |-> "send",
                        event |-> Event(IF r.ok THEN "committed" ELSE "failed", d)]
            /\ UNCHANGED <<schedule, queries>>
         \/ /\ r.what # "mutation" /\ UNCHANGED active
            /\ \/ schedule[k].active # d[2] /\ core' = Loop /\ UNCHANGED <<schedule, queries>>
               \/ schedule[k].active = d[2] /\ p # None /\ Dispatch(k, p)
               \/ /\ schedule[k].active = d[2] /\ p = None
                  /\ schedule' = [schedule EXCEPT ![k].active = None]
                  /\ core' = IF r.what = "superseded" THEN Loop
                             ELSE [pc |-> "send", event |-> Event(k, d[2])]
                  /\ UNCHANGED queries
      /\ UNCHANGED <<requests, open, admission, writer, reader, mailbox, interrupt, stopping,
                     backfill, log, answers, cut, loopVars, commands, composes, events, slots>>
  BY DEF DatabaseReply, Serving, ReplyReady, TookOther, Loop
<1> USE DEF loopVars
<1>b. /\ CommandsOpen /\ ~Left /\ InHand = <<>>
      /\ PlaceInv /\ NumberInv /\ KeyInv /\ ObsoleteOnly
      /\ \A kind, m : ~EventIs(kind, m)
  BY <1>0, <1>a DEF CommandsOpen, Left, InHand, QueryInv, EventIs
<1>c. /\ r \in MutationReplies \cup QueryReplies
      /\ \A q : Replied(q) <=> (r.what # "mutation" /\ d = q) \/ Replied(q)'
      /\ r.what # "mutation" => ~Replied(d)'
      /\ \A i, j \in DOMAIN replies' :
            /\ replies'[i].what # "mutation" /\ replies'[j].what # "mutation"
            /\ replies'[i].id = replies'[j].id
            => i = j
      /\ \A i \in DOMAIN replies' : replies'[i].what = "superseded" =>
            Obsolete(replies'[i].id) /\ replies'[i].id \in Queries
  BY <1>0, <1>a, <1>b, QueriesLeft
<1>d. /\ r.what = "mutation" => d \in Mutations /\ r.ok \in BOOLEAN
      /\ r.what # "mutation" => d \in Queries
  BY <1>c DEF MutationReplies, QueryReplies
<1>e. ASSUME r.what # "mutation"
      PROVE  /\ d \in Queries /\ d[1] = k /\ k \in Kinds /\ d[2] # None /\ d = <<k, d[2]>>
             /\ d[2] \in 1..MaxAsk
             /\ schedule[k].active = d[2] /\ p \in 0..MaxAsk
             /\ d \notin ToSet(queries) /\ ~AtReader(d)
  <2>1. d \in Queries /\ Replied(d)
    BY <1>c, <1>d, <1>e
  <2>2. IsActive(d) /\ d \notin ToSet(queries) /\ ~AtReader(d)
    BY <1>b, <2>1 DEF PlaceInv
  <2>3. d[1] \in Kinds /\ d[2] # None /\ d = <<d[1], d[2]>> /\ d[2] \in 1..MaxAsk
    BY <1>0, <2>1, QueryNumbers
  <2>4. p \in 0..MaxAsk
    BY <1>0, <2>3, QueryNumbers
  <2> QED
    BY <2>1, <2>2, <2>3, <2>4 DEF IsActive
<1>f. ASSUME r.what # "mutation", NEW q \in Queries, q[1] = k
      PROVE  q \notin ToSet(queries) /\ ~AtReader(q) /\ ~Replied(q)'
  <2>1. IsActive(q) => q = d
    <3>1. q = <<q[1], q[2]>>
      BY <1>0, <1>f, QueryNumbers
    <3> QED
      BY <1>e, <1>f, <3>1 DEF IsActive
  <2>2. q # d => q \notin ToSet(queries) /\ ~AtReader(q) /\ ~Replied(q)
    BY <1>b, <1>f, <2>1 DEF PlaceInv
  <2> QED
    BY <1>c, <1>e, <1>f, <2>2
<1>g. ASSUME r.what = "mutation"
      PROVE  /\ core'.pc = "send" /\ core'.event = Event(IF r.ok THEN "committed" ELSE "failed", d)
             /\ core' \in CoreStates /\ InHand' = <<>> /\ UNCHANGED <<schedule, queries>>
             /\ active' = active - 1
  <2> PICK v : v = Event(IF r.ok THEN "committed" ELSE "failed", d)
    OBVIOUS
  <2>1. core' = [pc |-> "send", event |-> v]
    BY <1>a, <1>g
  <2>2. v \in Events /\ v.kind # "rejected"
    BY <1>d, <1>g DEF Event, Events, Verdicts
  <2>3. core'.pc = "send" /\ core'.event = v
    BY <2>1
  <2>4. core' \in CoreStates
    BY <2>1, <2>2 DEF CoreStates
  <2>5. InHand' = <<>>
    BY <2>2, <2>3 DEF InHand
  <2> QED
    BY <1>a, <1>g, <2>3, <2>4, <2>5
<1>h. ASSUME r.what # "mutation"
      PROVE  /\ core'.pc \in {"loop", "send"} /\ core' \in CoreStates /\ InHand' = <<>>
             /\ active' = active
             /\ queries' \in Seq(Queries) /\ Len(queries') <= QueryCapacity
             /\ schedule' \in [Kinds -> [active : 0..MaxAsk, pending : 0..MaxAsk]]
             /\ \A m \in Mutations : ~EventIs("committed", m)' /\ ~EventIs("failed", m)'
             /\ PlaceInv' /\ NumberInv' /\ KeyInv' /\ ObsoleteOnly'
  <2>1. \A q : q[1] # k => (Replied(q)' <=> Replied(q))
    BY <1>c
  <2>2. ASSUME NEW i \in DOMAIN replies', replies'[i].what = "superseded"
        PROVE  replies'[i].id[1] # k /\ Obsolete(replies'[i].id)
    <3> PICK x : x = replies'[i].id
      OBVIOUS
    <3>1. Obsolete(x) /\ x \in Queries
      BY <1>c, <2>2
    <3>2. Replied(x)'
      BY <2>2 DEF Replied
    <3>3. x[1] # k
      BY <1>f, <1>h, <3>1, <3>2
    <3> QED
      BY <3>1, <3>3
  <2>3. ASSUME NEW i \in DOMAIN commands, NEW c \in Kinds, commands[i][1] = c
        PROVE  /\ schedule[c].active < commands[i][2] /\ schedule[c].pending < commands[i][2]
               /\ commands[i][2] <= asked[c] /\ commands[i][2] \in Nat
    BY <1>0, <1>b, <2>3, QueryNumbers DEF NumberInv
  <2>4. /\ \A i, j \in DOMAIN commands' : \A c \in Kinds :
              i < j /\ commands'[i][1] = c /\ commands'[j][1] = c
                  => commands'[i][2] < commands'[j][2]
        /\ mailbox.state # "idle" => \A i \in DOMAIN commands' :
              commands'[i][1] = "mailbox" => mailbox.key[2] < commands'[i][2]
    BY <1>a, <1>b DEF NumberInv, KeyInv
  <2>5. /\ UNCHANGED <<reader, mailbox, asked>>
        /\ \A q \in Queries : q[1] = k =>
              q \notin ToSet(queries) /\ ~AtReader(q) /\ ~Replied(q)'
    BY <1>a, <1>f, <1>h
  <2>6. CASE p # None /\ Dispatch(k, p)
    <3>1. p \in 1..MaxAsk /\ k \in Kinds
      BY <1>e, <1>h, <2>6 DEF None
    <3>2. /\ queries' \in Seq(Queries) /\ Len(queries') <= QueryCapacity
          /\ schedule' \in [Kinds -> [active : 0..MaxAsk, pending : 0..MaxAsk]]
          /\ core' \in CoreStates /\ core'.pc \in {"loop", "send"} /\ InHand' = <<>>
          /\ \A m \in Mutations : ~EventIs("committed", m)' /\ ~EventIs("failed", m)'
          /\ core'.pc # "gate"
          /\ \A c \in Kinds : c # k => schedule'[c] = schedule[c]
          /\ schedule'[k].pending = None
          /\ \/ queries' = Append(queries, <<k, p>>) /\ schedule'[k].active = p
             \/ queries' = queries /\ schedule'[k].active = None
      BY <1>0, <2>6, <3>1, DispatchIs
    <3>3. p <= asked[k] /\ (mailbox.state # "idle" /\ k = "mailbox" => mailbox.key[2] < p)
      BY <1>b, <2>6, <3>1 DEF NumberInv, KeyInv
    <3>4. \A i \in DOMAIN commands' : \A c \in Kinds : commands'[i][1] = c =>
             /\ schedule[c].active < commands'[i][2] /\ schedule[c].pending < commands'[i][2]
             /\ commands'[i][2] <= asked[c] /\ (c = k => p < commands'[i][2])
             /\ commands'[i][2] \in Nat
      BY <1>a, <2>3
    <3>5. /\ core'.pc # "gate"
          /\ \A c \in Kinds : c # k => schedule'[c] = schedule[c]
          /\ schedule'[k].pending = None
          /\ \/ queries' = Append(queries, <<k, p>>) /\ schedule'[k].active = p
             \/ queries' = queries /\ schedule'[k].active = None
      BY <3>2
    <3>6. mailbox.state # "idle" /\ k = "mailbox" /\ schedule'[k].active # None =>
             mailbox.key[2] < p
      BY <3>3
    <3>7. \A i, j \in DOMAIN replies' :
             /\ replies'[i].what # "mutation" /\ replies'[j].what # "mutation"
             /\ replies'[i].id = replies'[j].id
             => i = j
      BY <1>c
    <3>8. PlaceInv' /\ NumberInv' /\ KeyInv' /\ ObsoleteOnly'
      BY <1>0, <1>b, <2>1, <2>2, <2>4, <2>5, <3>1, <3>3, <3>4, <3>5, <3>6, <3>7,
         KindIsFreeSafe
    <3> QED
      BY <1>a, <1>h, <3>2, <3>8
  <2>7. CASE /\ p = None /\ schedule' = [schedule EXCEPT ![k].active = None]
             /\ core' = IF r.what = "superseded" THEN Loop
                        ELSE [pc |-> "send", event |-> Event(k, d[2])]
             /\ UNCHANGED queries
    <3> PICK n : n = d[2]
      OBVIOUS
    <3>1. n \in 1..MaxAsk /\ k \in Kinds /\ schedule[k].active = n
      BY <1>e, <1>h
    <3>2. /\ schedule' \in [Kinds -> [active : 0..MaxAsk, pending : 0..MaxAsk]]
          /\ \A c \in Kinds : c # k => schedule'[c] = schedule[c]
          /\ schedule'[k].pending = None /\ schedule'[k].active = None
      <4>1. schedule \in [Kinds -> [active : 0..MaxAsk, pending : 0..MaxAsk]] /\ MaxAsk \in Nat
        BY <1>0, DatabaseAssumption DEF TypeInv, CoreTyped
      <4> QED
        BY <2>7, <3>1, <4>1 DEF None
    <3>3. /\ core' \in CoreStates /\ core'.pc \in {"loop", "send"} /\ InHand' = <<>>
          /\ \A m \in Mutations : ~EventIs("committed", m)' /\ ~EventIs("failed", m)'
      <4>1. CASE core' = [pc |-> "loop"]
        <5>1. core' \in CoreStates
          BY <4>1 DEF CoreStates
        <5> QED
          BY <4>1, <5>1 DEF InHand, EventIs
      <4>2. CASE core' = [pc |-> "send", event |-> Event(k, n)]
        <5>1. Event(k, n) \in Events /\ Event(k, n).kind = k
          BY <3>1 DEF Event, Events
        <5>2. k \notin {"rejected", "committed", "failed"}
          BY <3>1, RuntimeAssumption DEF Kinds
        <5>3. core' \in CoreStates /\ core'.pc = "send" /\ core'.event = Event(k, n)
          BY <4>2, <5>1 DEF CoreStates
        <5>4. InHand' = <<>>
          BY <5>1, <5>2, <5>3 DEF InHand
        <5>5. \A m : ~EventIs("committed", m)' /\ ~EventIs("failed", m)'
          BY <5>2, <5>3 DEF EventIs, Event
        <5> QED
          BY <5>3, <5>4, <5>5
      <4> QED
        BY <2>7, <4>1, <4>2 DEF Loop
    <3>4. queries' \in Seq(Queries) /\ Len(queries') <= QueryCapacity
      BY <1>0, <2>7 DEF TypeInv, DatabaseTyped
    <3>5. n <= asked[k]
      BY <1>b, <3>1 DEF NumberInv
    <3>6. \A i \in DOMAIN commands' : \A c \in Kinds : commands'[i][1] = c =>
             /\ schedule[c].active < commands'[i][2] /\ schedule[c].pending < commands'[i][2]
             /\ commands'[i][2] <= asked[c] /\ (c = k => n < commands'[i][2])
             /\ commands'[i][2] \in Nat
      BY <1>a, <2>3, <3>1
    <3>7. core'.pc # "gate" /\ queries' = queries
      BY <2>7, <3>3
    <3>8. PlaceInv' /\ NumberInv' /\ KeyInv' /\ ObsoleteOnly'
      BY <1>0, <1>b, <1>c, <2>1, <2>2, <2>4, <2>5, <3>1, <3>2, <3>5, <3>6, <3>7,
         KindIsFreeSafe
    <3> QED
      BY <1>a, <1>h, <3>2, <3>3, <3>4, <3>8
  <2> QED
    BY <1>a, <1>e, <1>h, <2>6, <2>7
<1>i. ASSUME r.what = "mutation"
      PROVE  PlaceInv' /\ NumberInv' /\ KeyInv' /\ ObsoleteOnly'
  <2>1. \A q : /\ AtReader(q)' <=> AtReader(q)
               /\ Reading(q)' <=> Reading(q)
               /\ Replied(q)' <=> Replied(q)
               /\ IsActive(q)' <=> IsActive(q)
    BY <1>a, <1>c, <1>g, <1>i DEF AtReader, Reading, Sending, IsActive
  <2>2. PlaceInv'
    BY <1>b, <1>c, <1>g, <1>i, <2>1 DEF PlaceInv
  <2>3. NumberInv'
    BY <1>a, <1>b, <1>g, <1>i DEF NumberInv
  <2>4. KeyInv'
    <3>1. Obsolete(mailbox.key)' <=> Obsolete(mailbox.key)
      BY <1>a, <1>g, <1>i DEF Obsolete
    <3>2. core'.pc # "gate"
      BY <1>g, <1>i
    <3> QED
      BY <1>a, <1>b, <1>g, <1>i, <2>1, <3>1, <3>2 DEF KeyInv
  <2>5. ObsoleteOnly'
    BY <1>a, <1>b, <1>c, <1>g, <1>i DEF ObsoleteOnly, Obsolete
  <2> QED
    BY <2>2, <2>3, <2>4, <2>5
<1>1. /\ core'.pc \in {"loop", "send"} /\ core' \in CoreStates /\ InHand' = <<>>
      /\ queries' \in Seq(Queries) /\ Len(queries') <= QueryCapacity
      /\ schedule' \in [Kinds -> [active : 0..MaxAsk, pending : 0..MaxAsk]]
      /\ PlaceInv' /\ NumberInv' /\ KeyInv' /\ ObsoleteOnly'
  <2>1. /\ queries \in Seq(Queries) /\ Len(queries) <= QueryCapacity
        /\ schedule \in [Kinds -> [active : 0..MaxAsk, pending : 0..MaxAsk]]
    BY <1>0 DEF TypeInv, DatabaseTyped, CoreTyped
  <2>2. CASE r.what = "mutation"
    BY <1>g, <1>i, <2>1, <2>2
  <2>3. CASE r.what # "mutation"
    BY <1>h, <2>3
  <2> QED
    BY <2>2, <2>3
<1>2. CommandsOpen' /\ ~Left' /\ ~Ending' /\ core'.pc # "finish"
  BY <1>1 DEF CommandsOpen, Left, Ending
<1>3. /\ \A m \in Mutations : EventIs("committed", m)' => Ran1(m, TRUE)
      /\ \A m \in Mutations : EventIs("failed", m)' => Ran1(m, FALSE)
  <2>1. CASE r.what = "mutation"
    <3>1. IsReply(1, d) /\ 1 \in DOMAIN replies /\ replies[1] = r
      <4>1. replies \in Seq(MutationReplies \cup QueryReplies)
        BY <1>0 DEF TypeInv, DatabaseTyped
      <4>2. r = replies[1] /\ 1 \in DOMAIN replies
        BY <1>a, <4>1, TailIs
      <4> QED
        BY <2>1, <4>2 DEF IsReply
    <3>2. Ran1(d, r.ok)
      BY <1>0, <1>d, <2>1, <3>1 DEF ReplyInv
    <3>3. /\ \A m : EventIs("committed", m)' => m = d /\ r.ok
          /\ \A m : EventIs("failed", m)' => m = d /\ ~r.ok
      BY <1>g, <2>1 DEF EventIs, Event
    <3> QED
      BY <1>d, <2>1, <3>2, <3>3
  <2>2. CASE r.what # "mutation"
    BY <1>h, <2>2
  <2> QED
    BY <2>1, <2>2
<1>4. /\ ReplyInv' /\ replies' \in Seq(MutationReplies \cup QueryReplies)
      /\ Len(replies') <= ReplyCapacity /\ r = replies[1] /\ 1 \in DOMAIN replies
      /\ \A m \in Mutations : Expected(m) <=> IsReply(1, m) \/ Expected(m)'
      /\ \A m \in Mutations : IsReply(1, m) => Ran1(m, r.ok) /\ ~Expected(m)' /\ ~AtSend(m)
  BY <1>0, <1>3, <1>a, RepliesGoOn
<1>5. ASSUME r.what = "mutation"
      PROVE  active' \in 0..Len(sent) /\ AnswerInv'
  <2> PICK ok : ok = r.ok
    OBVIOUS
  <2>1. d \in Mutations /\ ok \in BOOLEAN /\ IsReply(1, d)
    BY <1>4, <1>5, <1>d DEF IsReply
  <2>2. ok = FALSE => EventIs("failed", d)'
    BY <1>5, <1>g DEF EventIs
  <2>3. Ran1(d, ok) /\ Expected(d) /\ ~AtSend(d) /\ ~Expected(d)'
    BY <1>4, <2>1
  <2>4. /\ \A m \in Mutations : Expected(m)' => Expected(m)
        /\ \A m \in Mutations : ~EventIs("failed", m)
        /\ InHand' = InHand /\ core.pc # "finish" /\ active' = active - 1
    BY <1>1, <1>4, <1>5, <1>a, <1>b, <1>g
  <2>5. /\ active' \in 0..Len(sent)
        /\ \E L \in SUBSET ToSet(sent') : Unanswered(L)'
    BY <1>0, <1>a, <1>b, <2>1, <2>2, <2>3, <2>4, OneIsAnswered
  <2>6. AnswerInv'
    BY <1>2, <2>5 DEF AnswerInv
  <2> QED
    BY <2>5, <2>6
<1>6. ASSUME active' \in 0..Len(sent)
      PROVE  TypeInv'
  <2>1. DatabaseTyped'
    BY <1>0, <1>1, <1>4, <1>a DEF TypeInv, DatabaseTyped
  <2>2. streak' \in 0..Burst /\ waited' \in Nat
    BY <1>a, RuntimeAssumption
  <2>3. CoreTyped'
    BY <1>0, <1>1, <1>6, <1>a, <2>2 DEF TypeInv, CoreTyped
  <2> QED
    BY <2>1, <2>3 DEF TypeInv
<1>7. ASSUME r.what # "mutation"
      PROVE  active' \in 0..Len(sent) /\ AnswerInv'
  <2>1. \A m \in Mutations : Expected(m)' <=> Expected(m)
    BY <1>4, <1>7 DEF IsReply
  <2>2. /\ \A m \in Mutations : Outstanding(m)' <=> Outstanding(m)
        /\ \A m \in Mutations : Settled(m)' <=> Settled(m)
        /\ \A m \in Mutations : Pending(m)' <=> Pending(m)
    BY <1>1, <1>a, <1>b, <2>1 DEF Outstanding, AtWriter, AtSend, Settled, Ran1, Pending, Waits
  <2>3. \A m \in Mutations : Accounted(m) => Accounted(m)'
    BY <1>a, <1>b, <2>2 DEF Accounted
  <2>4. active' = active /\ active' \in 0..Len(sent)
    BY <1>0, <1>7, <1>h DEF TypeInv, CoreTyped
  <2>5. TypeInv'
    BY <1>6, <2>4
  <2> QED
    BY <1>0, <1>2, <1>a, <1>b, <2>2, <2>3, <2>4, <2>5, AnswersStay
<1>8. TypeInv' /\ AnswerInv'
  BY <1>5, <1>6, <1>7
<1>9. Places' /\ LineInv' /\ \A m \in Mutations : InLine(m)' <=> InLine(m)
  BY <1>0, <1>1, <1>a, <1>b, LineStays DEF AtWriter
<1>10. ToldInv'
  BY <1>0, <1>9, <1>a, ToldStays DEF Ran1
<1>11. CallInv'
  BY <1>0, <1>a, CallsStay
<1>12. PhaseInv' /\ WaitInv' /\ QueryInv'
  BY <1>0, <1>1, <1>2, <1>a, <1>b DEF PhaseInv, WaitInv, QueryInv
<1> QED
  BY <1>4, <1>8, <1>9, <1>10, <1>11, <1>12 DEF RuntimeInv

-----------------------------------------------------------------------------
(* Every step                                                              *)

LEMMA InitSafe ==
  ASSUME Init
  PROVE  RuntimeInv
<1> USE DEF Init, DbInit
<1>1. /\ Len(<<>>) = 0 /\ DOMAIN <<>> = {} /\ ToSet(<<>>) = {}
      /\ \A S : <<>> \in Seq(S)
  BY EmptyIs
<1>2. core = [pc |-> "loop"] /\ core.pc = "loop" /\ writer.pc = "idle" /\ reader.pc = "idle"
      /\ mailbox.state = "idle"
  BY DEF Loop, Idle, NoKey
<1>3. /\ CommandsOpen /\ ~Left /\ ~Ending /\ InHand = <<>>
  BY <1>2 DEF CommandsOpen, Left, Ending, InHand
<1>4. TypeInv
  <2>1. DatabaseTyped
    <3>1. writer \in WriterStates /\ reader \in ReaderStates /\ mailbox \in MailboxStates
      BY DEF WriterStates, ReaderStates, MailboxStates, Idle
    <3>2. /\ Len(requests) <= RequestCapacity /\ Len(queries) <= QueryCapacity
          /\ Len(replies) <= ReplyCapacity
      BY <1>1, DatabaseAssumption
    <3>3. /\ requests \in Seq(Ids) /\ queries \in Seq(Queries)
          /\ replies \in Seq(MutationReplies \cup QueryReplies)
          /\ log \in Seq(Ids \X BOOLEAN)
      BY <1>1
    <3> QED
      BY <3>1, <3>2, <3>3 DEF DatabaseTyped
  <2>2. core \in CoreStates
    BY <1>2 DEF CoreStates
  <2>3. /\ schedule \in [Kinds -> [active : 0..MaxAsk, pending : 0..MaxAsk]]
        /\ asked \in [Kinds -> 0..MaxAsk] /\ active \in 0..Len(sent) /\ streak \in 0..Burst
    BY <1>1, DatabaseAssumption, RuntimeAssumption DEF None
  <2>4. /\ Len(commands) <= CommandCapacity /\ Len(events) <= EventCapacity
        /\ Len(composes) <= 1 /\ Len(events) \in Nat
    BY <1>1, RuntimeAssumption
  <2>5. CoreTyped
    BY <1>1, <2>2, <2>3, <2>4 DEF CoreTyped
  <2> QED
    BY <2>1, <2>5 DEF TypeInv
<1>5. PhaseInv /\ WaitInv
  BY <1>2, <1>3 DEF PhaseInv, WaitInv
<1>6. \A x : /\ ~HasRun(x) /\ ~AtWriter(x) /\ ~Waits(x)
             /\ x \notin ToSet(requests) /\ x \notin ToSet(InHand)
  BY <1>1, <1>2, <1>3 DEF HasRun, AtWriter, Waits
<1>7. \A x : ~Started(x) /\ ~Submitted(x) /\ ~Taken(x) /\ ~InLine(x)
  BY <1>6 DEF Started, Submitted, Taken, InLine
<1>8. Places
  BY <1>1, <1>7 DEF Places
<1>9. LineInv
  <2>1. DOMAIN LogIds = {}
    BY <1>1 DEF LogIds
  <2>2. Sorted(LogIds) /\ Sorted(requests) /\ Sorted(InHand)
    BY <1>3, <2>1, EmptySorted DEF Sorted
  <2> QED
    BY <1>1, <1>6, <1>7, <2>2 DEF LineInv
<1>10. ReplyInv
  <2>1. \A m : ~Expected(m) /\ ~AtSend(m) /\ \A kind : ~EventIs(kind, m)
    BY <1>1, <1>2 DEF Expected, AtSend, EventIs
  <2> QED
    BY <1>1, <1>2, <2>1 DEF ReplyInv
<1>11. ToldInv
  BY DEF ToldInv
<1>12. AnswerInv
  <2>1. \A m : ~Outstanding(m)
    BY <1>1, <1>2, <1>6 DEF Outstanding, AtSend, Expected
  <2>2. Unanswered({})
    BY <1>1, <2>1, FS_EmptySet DEF Unanswered
  <2> QED
    BY <1>3, <2>2 DEF AnswerInv
<1>13. CallInv
  BY <1>1, <1>6 DEF CallInv
<1>14. QueryInv
  <2>1. \A q : ~AtReader(q) /\ ~Reading(q) /\ ~Replied(q) /\ q \notin ToSet(queries)
    BY <1>1, <1>2 DEF AtReader, Reading, Sending, Replied
  <2>2. \A k \in Kinds : schedule[k].active = None /\ schedule[k].pending = None /\ asked[k] = 0
    OBVIOUS
  <2>3. PlaceInv
    BY <1>1, <2>1, <2>2 DEF PlaceInv
  <2>4. NumberInv
    BY <1>1, <2>2 DEF NumberInv, None
  <2>5. KeyInv
    BY <1>2, <2>1 DEF KeyInv
  <2>6. ObsoleteOnly
    BY <1>1, <1>2 DEF ObsoleteOnly
  <2> QED
    BY <2>3, <2>4, <2>5, <2>6 DEF QueryInv
<1> QED
  BY <1>4, <1>5, <1>8, <1>9, <1>10, <1>11, <1>12, <1>13, <1>14 DEF RuntimeInv

LEMMA DatabaseSafe ==
  ASSUME RuntimeInv, Database
  PROVE  RuntimeInv'
<1>1. CASE WriterStep
  <2>1. UNCHANGED coreVars
    BY DEF Database
  <2>2. CASE WriterTakes
    BY <2>1, <2>2, WriterTakesSafe
  <2>3. CASE WriterSends
    BY <2>1, <2>3, WriterSendsSafe
  <2>4. CASE WriterShuts \/ BackfillStarts \/ BackfillEnds
    BY <2>1, <2>4, WriterMovesSafe
  <2>5. ASSUME NEW ok \in BOOLEAN, WriterRan(ok)
        PROVE  RuntimeInv'
    BY <2>1, <2>5, WriterRanSafe
  <2>6. ASSUME NEW ok \in BOOLEAN, WriterDrains(ok)
        PROVE  RuntimeInv'
    BY <2>1, <2>6, WriterDrainsSafe
  <2> QED
    BY <1>1, <2>2, <2>3, <2>4, <2>5, <2>6 DEF WriterStep
<1>2. CASE ReaderStep(Held)
  <2>1. UNCHANGED coreVars
    BY DEF Database
  <2>2. CASE ReaderTakes(Held)
    BY <2>1, <2>2, ReaderTakesSafe
  <2>3. CASE ReaderRan(Held)
    BY <2>1, <2>3, ReaderRanSafe
  <2>4. CASE ReaderSends
    BY <2>1, <2>4, ReaderSendsSafe
  <2>5. CASE ReaderShuts
    BY <2>1, <2>5, ReaderShutsSafe
  <2> QED
    BY <1>2, <2>2, <2>3, <2>4, <2>5 DEF ReaderStep
<1> QED
  BY <1>1, <1>2 DEF Database

LEMMA UiSafe ==
  ASSUME RuntimeInv, Ui \/ UiReceives
  PROVE  RuntimeInv'
<1>1. ASSUME NEW k \in Kinds, UiAsks(k)
      PROVE  RuntimeInv'
  BY <1>1, UiAsksSafe
<1>2. ASSUME NEW m \in Mutations, UiMutates(m)
      PROVE  RuntimeInv'
  BY <1>2, UiMutatesSafe
<1>3. ASSUME NEW w \in Composes, UiComposes(w)
      PROVE  RuntimeInv'
  BY <1>3, UiComposesSafe
<1> QED
  BY <1>1, <1>2, <1>3, UiShutsDownSafe, UiReceivesSafe DEF Ui

LEMMA ComposeCallsSafe ==
  ASSUME RuntimeInv, ComposeCalls
  PROVE  RuntimeInv'
<1> PICK w : w = core.id
  OBVIOUS
<1>1. core.pc = "compose" /\ Call(w)
  BY DEF ComposeCalls
<1>2. core \in CoreStates
  BY DEF RuntimeInv, TypeInv, CoreTyped
<1>3. w \in Composes
  BY <1>1, <1>2 DEF CoreStates
<1>4. w \in Writes
  BY <1>3, RuntimeAssumption
<1> QED
  BY <1>1, <1>4, CallSafe

LEMMA CoreReturnsSafe ==
  ASSUME RuntimeInv, CoreReturns
  PROVE  RuntimeInv'
<1> PICK ok : ok = core.ok
  OBVIOUS
<1>1. core.pc = "last" /\ Returns(ok)
  BY DEF CoreReturns
<1>2. core \in CoreStates
  BY DEF RuntimeInv, TypeInv, CoreTyped
<1>3. ok \in BOOLEAN
  BY <1>1, <1>2 DEF CoreStates
<1> QED
  BY <1>1, <1>3, ReturnsSafe

LEMMA AccountFailureSafe ==
  ASSUME RuntimeInv, AccountFailure
  PROVE  RuntimeInv'
<1>1. core.pc = "loop" /\ Returns(FALSE)
  BY DEF AccountFailure, Loop
<1> QED
  BY <1>1, ReturnsSafe

LEMMA CoreSafe ==
  ASSUME RuntimeInv, Core
  PROVE  RuntimeInv'
<1>1. CASE Inputs
  <2>1. ASSUME NEW k \in Kinds, NEW n \in 1..MaxAsk, QueryCommand(k, n)
        PROVE  RuntimeInv'
    BY <2>1, QueryCommandSafe
  <2>2. ASSUME NEW m \in Mutations, MutateCommand(m)
        PROVE  RuntimeInv'
    BY <2>2, MutateCommandSafe
  <2> QED
    BY <1>1, <2>1, <2>2, DatabaseReplySafe, OtherInputSafe, ComposeCommandSafe DEF Inputs
<1>2. CASE InterruptsReader \/ SendDelivers \/ SendAborts \/ Shutdown
  BY <1>2, InterruptsReaderSafe, SendDeliversSafe, SendAbortsSafe, ShutdownSafe
<1>3. CASE FinishSubmits \/ FinishReplies \/ FinishEnds
  BY <1>3, FinishSubmitsSafe, FinishRepliesSafe, FinishEndsSafe
<1>4. CASE LastCompose \/ CoreReturns \/ ComposeCalls \/ ComposeEnds
  BY <1>4, LastComposeSafe, CoreReturnsSafe, ComposeCallsSafe, ComposeEndsSafe
<1>5. CASE ClosesDatabase \/ Joins
  BY <1>5, ClosesDatabaseSafe, JoinsSafe
<1> QED
  BY <1>1, <1>2, <1>3, <1>4, <1>5 DEF Core

LEMMA NextSafe ==
  ASSUME RuntimeInv, Next
  PROVE  RuntimeInv'
<1>1. CASE Faults
  BY <1>1, BackfillFailsSafe DEF Faults
<1>2. ASSUME NEW w \in Others, OtherCalls(w)
      PROVE  RuntimeInv'
  <2>1. w \in Writes /\ Call(w)
    BY <1>2 DEF Others, OtherCalls
  <2> QED
    BY <2>1, CallSafe
<1>3. CASE FinishInterrupts \/ ClosingInterrupts
  BY <1>3, InterruptsSafe
<1> QED
  BY <1>1, <1>2, <1>3, DatabaseSafe, UiSafe, CoreSafe, AccountFailureSafe DEF Next

LEMMA StutterSafe ==
  ASSUME RuntimeInv, UNCHANGED vars
  PROVE  RuntimeInv'
<1>1. UNCHANGED <<dbVars, uiVars, commands, sent, asked, composes, events, shutdown>>
  BY DEF vars, coreVars, uiVars
<1>2. CoreTyped
  BY DEF RuntimeInv, TypeInv
<1>3. /\ composes' \in Seq(Composes) /\ Len(composes') <= 1
      /\ events' \in Seq(Events) /\ Len(events') \in Nat /\ Len(events') <= EventCapacity
      /\ shutdown' \in BOOLEAN
  BY <1>1, <1>2 DEF CoreTyped
<1> QED
  BY <1>1, <1>3, OutsideSafe

LEMMA RuntimeInvariant == Spec => []RuntimeInv
<1>1. Init => RuntimeInv
  BY InitSafe
<1>2. RuntimeInv /\ [Next]_vars => RuntimeInv'
  BY NextSafe, StutterSafe
<1> QED
  BY <1>1, <1>2, PTL DEF Spec

-----------------------------------------------------------------------------
(* What the invariant says                                                 *)

LEMMA TypesAreOK ==
  ASSUME RuntimeInv
  PROVE  TypeOK
<1>1. /\ DatabaseTyped /\ CoreTyped
  BY DEF RuntimeInv, TypeInv
<1>2. writer.pc \in {"idle", "write", "send", "drain", "backfill", "dead", "stopped"}
  <2>1. writer \in WriterStates
    BY <1>1 DEF DatabaseTyped
  <2> QED
    BY <2>1 DEF WriterStates
<1>3. reader.pc \in {"idle", "query", "send", "stopped"}
  <2>1. reader \in ReaderStates
    BY <1>1 DEF DatabaseTyped
  <2> QED
    BY <2>1 DEF ReaderStates
<1>4. mailbox.state \in {"idle", "active", "superseded", "activeSuperseded"}
  <2>1. mailbox \in MailboxStates
    BY <1>1 DEF DatabaseTyped
  <2> QED
    BY <2>1 DEF MailboxStates, NoKey
<1>5. \A k \in DOMAIN schedule :
         {schedule[k].active, schedule[k].pending} \subseteq 0..MaxAsk
  <2>1. schedule \in [Kinds -> [active : 0..MaxAsk, pending : 0..MaxAsk]]
    BY <1>1 DEF CoreTyped
  <2> QED
    BY <2>1
<1>6. /\ requests \in Seq(Mutations \cup Writes) /\ Len(requests) <= RequestCapacity
      /\ queries \in Seq(Queries) /\ Len(queries) <= QueryCapacity
      /\ Len(replies) <= ReplyCapacity /\ Len(events) <= EventCapacity
      /\ Len(commands) <= CommandCapacity /\ Len(composes) <= 1
      /\ active \in 0..Len(sent) /\ streak \in 0..Burst
  BY <1>1 DEF DatabaseTyped, CoreTyped, Ids
<1> QED
  BY <1>2, <1>3, <1>4, <1>5, <1>6 DEF TypeOK

LEMMA ToldIsTrue ==
  ASSUME RuntimeInv
  PROVE  MutationsInOrder /\ ToldTheTruth
<1>0. TypeInv /\ Places /\ LineInv /\ ToldInv
  BY DEF RuntimeInv
<1>1. DOMAIN told = Mutations
  BY <1>0 DEF TypeInv, CoreTyped
<1>2. MutationsInOrder
  <2>1. Sorted(LogIds)
    BY <1>0 DEF LineInv
  <2>2. DOMAIN LogIds = DOMAIN log /\ \A i \in DOMAIN log : LogIds[i] = log[i][1]
    BY DEF LogIds
  <2> QED
    BY <1>1, <2>1, <2>2 DEF Sorted, MutationsInOrder
<1>3. ASSUME NEW m \in Mutations
      PROVE  /\ told[m] = "committed" => Ran1(m, TRUE) /\ ~Ran1(m, FALSE)
             /\ told[m] = "failed" => Ran1(m, FALSE) /\ ~Ran1(m, TRUE)
             /\ told[m] = "rejected" => ~Ran1(m, TRUE) /\ ~Ran1(m, FALSE)
  <2>1. ~(Ran1(m, TRUE) /\ Ran1(m, FALSE))
    BY <1>0, RunOnce
  <2>2. \A ok : Ran1(m, ok) => InLine(m)
    BY RanHasRun DEF InLine, Taken, Submitted, Started
  <2> QED
    BY <1>0, <2>1, <2>2 DEF ToldInv
<1> QED
  BY <1>1, <1>2, <1>3 DEF ToldTheTruth

LEMMA NothingIsLost ==
  ASSUME RuntimeInv
  PROVE  HonestEnd /\ WritesDrain /\ ReplyWaits
<1>0. TypeInv /\ PhaseInv /\ WaitInv /\ AnswerInv /\ CallInv
  BY DEF RuntimeInv
<1>1. HonestEnd
  BY <1>0 DEF AnswerInv, Ending, Settled, HonestEnd
<1>2. WritesDrain
  <2>1. SUFFICES ASSUME writer.pc = "stopped", NEW w \in ToSet(called)
                 PROVE  /\ answers[w] \in {"done", "failed"}
                        /\ Cardinality({i \in DOMAIN log : log[i][1] = w}) = 1
    BY DEF WritesDrain
  <2>2. requests = <<>>
    BY <1>0, <2>1 DEF PhaseInv
  <2>3. HasRun(w) /\ answers[w] \in {"done", "failed"}
    BY <1>0, <2>1, <2>2, EmptyIs DEF CallInv, AtWriter
  <2>4. w \in Writes
    <3>1. called \in Seq(Writes)
      BY <1>0 DEF TypeInv, CoreTyped
    <3>2. \A i \in DOMAIN called : called[i] \in Writes
      BY <3>1, LenProperties, ElementOfSeq
    <3> QED
      BY <3>2 DEF ToSet
  <2>5. PICK i \in DOMAIN log : log[i][1] = w
    BY <2>3 DEF HasRun
  <2>6. {j \in DOMAIN log : log[j][1] = w} = {i}
    BY <1>0, <2>4, <2>5 DEF CallInv
  <2>7. Cardinality({i}) = 1
    BY FS_Singleton
  <2> QED
    BY <2>3, <2>6, <2>7
<1>3. ReplyWaits
  <2>1. streak \in 0..Burst /\ waited \in Nat /\ Burst \in Nat /\ waited <= streak
    BY <1>0, RuntimeAssumption DEF TypeInv, CoreTyped, WaitInv
  <2> QED
    BY <2>1 DEF ReplyWaits
<1> QED
  BY <1>1, <1>2, <1>3

LEMMA QueriesAreSafe ==
  ASSUME RuntimeInv
  PROVE  OnlyObsoleteIsCut
<1>0. TypeInv /\ QueryInv
  BY DEF RuntimeInv
<1>1. DOMAIN schedule = Kinds
  BY <1>0 DEF TypeInv, CoreTyped
<1>2. QueriesAreKept
  BY <1>0, <1>1 DEF QueryInv, PlaceInv, QueriesAreKept, AtReader, Reading, Sending
<1>3. ObsoleteOnly
  BY <1>0 DEF QueryInv, ObsoleteOnly
<1> QED
  BY <1>2, <1>3 DEF OnlyObsoleteIsCut

(* For any mutations, writes and capacities: mutations run in the order in *)
(* which the interface sent them, each at most once, what it is told of    *)
(* one is what became of it, a core that ends well has lost none, and a    *)
(* database that stopped has run every write it admitted once.             *)
THEOREM WritesAlwaysHonest == Spec => []WritesAreHonest
<1>1. RuntimeInv => WritesAreHonest
  BY TypesAreOK, ToldIsTrue, NothingIsLost DEF WritesAreHonest
<1> QED
  BY <1>1, RuntimeInvariant, PTL

(* For any kinds of queries and capacities: the query that the core holds  *)
(* as active is somewhere in the database, and only a mailbox query that a *)
(* later one waits to replace is interrupted or answered without a result. *)
THEOREM OnlyObsoleteIsEverCut == Spec => []OnlyObsoleteIsCut
<1>1. RuntimeInv => OnlyObsoleteIsCut
  BY QueriesAreSafe
<1> QED
  BY <1>1, RuntimeInvariant, PTL
=============================================================================
