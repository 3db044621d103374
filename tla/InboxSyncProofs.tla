---------------------------- MODULE InboxSyncProofs ----------------------------
(***************************************************************************)
(* Proof that the cursors of a synchronised INBOX never pass a message,    *)
(* for any page size and any number of messages, whatever arrives, goes,   *)
(* is deleted or interrupted while a page is fetched.                      *)
(***************************************************************************)
EXTENDS InboxSync, FiniteSetTheorems, TLAPS

-----------------------------------------------------------------------------
(* The inductive invariant                                                 *)

Positive == Nat \ {0}

(* A page claims the messages in From(p) < u <= To(p).  In the operators   *)
(* below s is the server and d the account's rows.                         *)
From(p) == IF p.kind = "history" THEN p.next
           ELSE IF p.cursor = 0 THEN p.boot.cursor ELSE p.cursor

To(p) == IF p.kind = "history" THEN p.hist ELSE p.scanned

Window(p, s) == {u \in s.msgs : From(p) < u /\ u <= To(p)}

(* What a page says of the cursors can be stored: a history that is not    *)
(* complete goes on below a message, and the first page says where.        *)
ForwardSound(p, s) ==
    /\ p \in [kind : {"forward"}, cursor : Nat, scanned : Nat,
              boot : [cursor : Nat \cup {-1}, complete : BOOLEAN]]
    /\ p.cursor <= p.scanned /\ p.scanned < s.next
    /\ p.cursor = 0 => p.boot # NoBoot
    /\ p.boot # NoBoot =>
          /\ p.boot.cursor \in Nat /\ p.boot.cursor < s.next
          /\ p.boot.complete = (p.boot.cursor = 0)
          /\ p.boot.cursor # 0 => p.scanned # 0

HistorySound(p, s) ==
    /\ p \in [kind : {"history"}, cursor : Positive, hist : Positive, next : Nat,
              complete : BOOLEAN]
    /\ p.next <= p.hist /\ p.hist < s.next
    /\ p.complete = (p.next = 0)

ProgressSound(p, s) == ForwardSound(p, s) \/ HistorySound(p, s)

(* A page that was fetched under the present UIDVALIDITY has every message *)
(* of its window.                                                          *)
Fetched(p, msgs, validity, s) == validity = s.validity => Window(p, s) \subseteq msgs

(* A history is reopened below everything that is here.                    *)
Reopens(p, d) ==
    p.kind = "forward" /\ p.cursor # 0 /\ p.boot # NoBoot =>
        d.complete /\ \A u \in d.locs : p.boot.cursor < u

NotReopened(p) == p.kind = "forward" /\ p.cursor # 0 => p.boot = NoBoot

Below(n, s) == {u \in s.msgs : u < n}

(* The newest messages of a first snapshot, by number, in two lanes.       *)
FirstLane(view) ==
    LET count == Cardinality(view)
        first == Max({count - Page + 1, 1})
    IN  first..(first + (count - first) \div 2)

SecondLane(view) ==
    LET count == Cardinality(view)
        first == Max({count - Page + 1, 1})
    IN  (first + (count - first) \div 2 + 1)..count

(* What a second session sees of the mailbox: no message below next is     *)
(* missing, and none is there that the first session has not seen.         *)
SecondView(next, view, other, s) ==
    /\ other \subseteq 1..(s.next - 1)
    /\ Below(next, s) \subseteq other
    /\ {u \in other : u < next} \subseteq view

FirstFetched(view, got) ==
    /\ got \subseteq view
    /\ \A u \in got : Rank(u, view) \in FirstLane(view)
    /\ Cardinality(got) = Cardinality(FirstLane(view))

OpenSound(t, s) ==
    /\ t \in [pc : {"open"}, gen : Positive, cursor : Nat, validity : Nat, hist : Nat]
    /\ t.cursor < s.next /\ t.hist < s.next
    /\ t.hist # 0 => t.cursor # 0

SelectedSound(t, s) ==
    /\ t \in [pc : {"selected"}, gen : Positive, cursor : Nat, hist : Nat, validity : Nat,
              next : Positive, view : SUBSET Nat, lanes : [1..2 -> SUBSET Nat],
              ready : SUBSET {"view", "first"}]
    /\ t.validity = s.validity
    /\ t.cursor < t.next /\ t.hist < s.next /\ t.next <= s.next
    /\ t.hist # 0 => t.cursor # 0
    /\ t.view \subseteq 1..(t.next - 1) /\ Below(t.next, s) \subseteq t.view
    /\ "view" \in t.ready => SecondView(t.next, t.view, t.lanes[2], s)
    /\ "first" \in t.ready => FirstFetched(t.view, t.lanes[1])

UidsSound(t, s) ==
    /\ t.gen \in Positive /\ t.validity = s.validity
    /\ ProgressSound(t.progress, s) /\ NotReopened(t.progress)
    /\ Window(t.progress, s) \subseteq t.uids

(* A page whose messages are stored, and whose cursors are not yet.        *)
StagedSound(t, s, d) ==
    /\ t.gen \in Positive /\ t.validity \in 1..s.validity
    /\ ProgressSound(t.progress, s) /\ Reopens(t.progress, d)
    /\ Fetched(t.progress, d.locs \cup d.tomb, t.validity, s)

(* A page on its way to be stored.                                         *)
StageSound(r, s) ==
    /\ r.gen \in Positive /\ r.validity \in 1..s.validity
    /\ r.msgs \subseteq 1..(s.next - 1)
    /\ ProgressSound(r.progress, s) /\ NotReopened(r.progress)
    /\ Fetched(r.progress, r.msgs, r.validity, s)

TaskSound(t, s, d) ==
    /\ t.pc = "open" => OpenSound(t, s)
    /\ t.pc = "selected" => SelectedSound(t, s)
    /\ t.pc = "uids" => UidsSound(t, s)
    /\ t.pc = "staged" => StagedSound(t, s, d)

RequestSound(r, s, d) ==
    /\ r.op = "stage" => StageSound(r, s)
    /\ r.op = "commit" => StagedSound(r, s, d)

(* There is one page on its way at a time.                                 *)
OnePage(t, r) ==
    /\ t.pc \in {"open", "selected", "uids", "staged", "previews"} => r.op = "none"
    /\ t.pc = "staging" => r.op \in {"stage", "previews"}
    /\ t.pc = "committing" => r.op = "commit"

DbTyped ==
    db \in [gen : Positive, validity : Nat, cursor : Nat, hist : Nat, complete : BOOLEAN,
            locs : SUBSET Nat, inbox : SUBSET Nat, archived : SUBSET Nat,
            tomb : SUBSET Nat, previews : SUBSET Nat]

SyncInv ==
    /\ InboxIsCovered /\ NoResurrection /\ DbTyped
    /\ TaskSound(task, server, db) /\ RequestSound(request, server, db)
    /\ OnePage(task, request)

-----------------------------------------------------------------------------
(* Sets of messages                                                        *)

LEMMA HasSmallest ==
  ASSUME NEW S \in SUBSET Nat, S # {}
  PROVE  Smallest(S) \in S /\ \A v \in S : Smallest(S) <= v
<1> DEFINE upTo(u) == {v \in S : v <= u}
           family == {upTo(u) : u \in S}
<1>1. family \subseteq FiniteSubsetsOf(S) /\ family # {}
  <2>1. ASSUME NEW u \in S
        PROVE  IsFiniteSet(upTo(u))
    <3>1. ASSUME NEW v \in upTo(u)
          PROVE  v \in 0..u
      OBVIOUS
    <3>2. upTo(u) \in SUBSET (0..u)
      BY <3>1
    <3>3. u \in Int
      OBVIOUS
    <3>4. IsFiniteSet(0..u)
      BY <3>3, FS_Interval
    <3> HIDE DEF upTo
    <3> QED
      BY <3>2, <3>4, FS_Subset
  <2> QED
    BY <2>1 DEF FiniteSubsetsOf
<1>2. PICK X \in family : \A Y \in family : <<Y, X>> \notin StrictSubsetOrdering(S)
  <2>1. IsWellFoundedOn(StrictSubsetOrdering(S), FiniteSubsetsOf(S))
    BY FS_StrictSubsetOrderingWellFounded
  <2> HIDE DEF family
  <2> QED
    BY <1>1, <2>1, WFMin
<1>3. PICK u \in S : X = upTo(u)
  BY <1>2
<1>4. ASSUME NEW v \in S, v < u
      PROVE  FALSE
  <2>1. upTo(v) \in family
    OBVIOUS
  <2>2. upTo(v) \subseteq X /\ u \in X /\ u \notin upTo(v)
    <3>0. u \in Nat /\ v \in Nat /\ S \subseteq Nat
      OBVIOUS
    <3>1. ASSUME NEW w \in Nat, w <= v
          PROVE  w <= u
      BY <3>0, <1>4, <3>1
    <3>2. u <= u /\ ~(u <= v)
      BY <3>0, <1>4
    <3> QED
      BY <1>3, <3>0, <3>1, <3>2
  <2>3. <<upTo(v), X>> \in StrictSubsetOrdering(S)
    <3>1. upTo(v) \in SUBSET S /\ X \in SUBSET S
      BY <1>3
    <3> HIDE DEF upTo
    <3> QED
      BY <2>2, <3>1 DEF StrictSubsetOrdering
  <2> QED
    BY <1>2, <2>1, <2>3
<1>5. \A v \in S : u <= v
  BY <1>4
<1> QED
  BY <1>5 DEF Smallest

LEMMA HasLargest ==
  ASSUME NEW n \in Nat, NEW S \in SUBSET (0..n), S # {}
  PROVE  Max(S) \in S /\ \A v \in S : v <= Max(S)
<1> DEFINE T == {n - u : u \in S}
<1>1. T \in SUBSET Nat /\ T # {}
  <2>1. ASSUME NEW u \in S
        PROVE  n - u \in Nat
    OBVIOUS
  <2> QED
    BY <2>1
<1>2. PICK t \in T : \A v \in T : t <= v
  <2> HIDE DEF T
  <2> QED
    BY <1>1, HasSmallest
<1>3. PICK u \in S : t = n - u
  BY <1>2
<1>4. ASSUME NEW v \in S
      PROVE  v <= u
  <2>1. n - v \in T
    OBVIOUS
  <2>2. t <= n - v
    BY <1>2, <2>1
  <2> QED
    BY <1>3, <2>2
<1> QED
  BY <1>4 DEF Max

LEMMA MaxOfTwo ==
  ASSUME NEW a \in Int, NEW b \in Int
  PROVE  Max({a, b}) = IF a >= b THEN a ELSE b
<1> DEFINE m == IF a >= b THEN a ELSE b
<1>1. m \in {a, b} /\ \A y \in {a, b} : m >= y
  OBVIOUS
<1>2. \A x \in {a, b} : (\A y \in {a, b} : x >= y) => x = m
  OBVIOUS
<1> QED
  BY <1>1, <1>2 DEF Max

LEMMA MinOfTwo ==
  ASSUME NEW a \in Int, NEW b \in Int
  PROVE  Min({a, b}) = IF a <= b THEN a ELSE b
<1> DEFINE m == IF a <= b THEN a ELSE b
<1>1. m \in {a, b} /\ \A y \in {a, b} : m =< y
  OBVIOUS
<1>2. \A x \in {a, b} : (\A y \in {a, b} : x =< y) => x = m
  OBVIOUS
<1> QED
  BY <1>1, <1>2 DEF Min

LEMMA BoundedIsFinite ==
  ASSUME NEW n \in Nat, NEW S \in SUBSET (1..n)
  PROVE  IsFiniteSet(S)
<1>1. IsFiniteSet(1..n)
  BY FS_Interval
<1> QED
  BY <1>1, FS_Subset

(* Messages whose ranks lie in lo..hi are at most hi - lo + 1.             *)
LEMMA RanksAreDistinct ==
  ASSUME NEW n \in Nat, NEW V \in SUBSET (1..n), NEW S \in SUBSET V,
         NEW lo \in Int, NEW hi \in Int,
         \A u \in S : lo <= Rank(u, V) /\ Rank(u, V) <= hi,
         S # {}
  PROVE  Cardinality(S) <= hi - lo + 1
<1>0. IsFiniteSet(V) /\ IsFiniteSet(S)
  <2>1. S \in SUBSET (1..n)
    OBVIOUS
  <2> QED
    BY <2>1, BoundedIsFinite
<1>a. V \subseteq Nat /\ S \subseteq V
  OBVIOUS
<1> DEFINE least == Smallest(S)
           under == {v \in V : v < least}
<1>1. least \in S /\ \A v \in S : least <= v
  <2>1. S \in SUBSET Nat
    OBVIOUS
  <2> QED
    BY <2>1, HasSmallest
<1> DEFINE most == Max(S)
<1>3. most \in S /\ \A v \in S : v <= most
  <2>1. S \in SUBSET (0..n)
    OBVIOUS
  <2> QED
    BY <2>1, HasLargest
<1> HIDE DEF least, most
<1>4. under \cup S \in SUBSET {v \in V : v <= most}
  <2>1. ASSUME NEW v \in V, v < least
        PROVE  v <= most
    BY <1>a, <1>1, <1>3, <2>1
  <2> QED
    BY <1>a, <1>3, <2>1
<1>5. IsFiniteSet({v \in V : v <= most}) /\ IsFiniteSet(under)
  BY <1>0, FS_Subset
<1>6. Cardinality(under \cup S) = Cardinality(under) + Cardinality(S)
  <2>1. under \cap S = {}
    <3>1. ASSUME NEW v \in S
          PROVE  ~(v < least)
      BY <1>a, <1>1
    <3> QED
      BY <3>1
  <2>2. Cardinality(under) \in Nat /\ Cardinality(S) \in Nat
    BY <1>0, <1>5, FS_CardinalityType
  <2>3. Cardinality(under \cup S) = Cardinality(under) + Cardinality(S) - Cardinality({})
    BY <1>0, <1>5, <2>1, FS_Union
  <2> QED
    BY <2>2, <2>3, FS_EmptySet
<1>7. Cardinality(under \cup S) <= Rank(most, V)
  BY <1>4, <1>5, FS_Subset DEF Rank
<1>8. Rank(least, V) = Cardinality(under) + 1
  <2>1. {v \in V : v <= least} = under \cup {least} /\ least \notin under
    <3>1. ASSUME NEW v \in V
          PROVE  v <= least <=> v < least \/ v = least
      BY <1>a, <1>1
    <3>2. least \in V /\ ~(least < least)
      BY <1>a, <1>1
    <3> QED
      BY <3>1, <3>2
  <2> QED
    BY <1>5, <2>1, FS_AddElement DEF Rank
<1>9. Cardinality(under) \in Nat /\ Cardinality(S) \in Nat /\ Rank(most, V) \in Nat
  BY <1>0, <1>5, FS_CardinalityType DEF Rank
<1> QED
  BY <1>1, <1>3, <1>6, <1>7, <1>8, <1>9

LEMMA RankBounds ==
  ASSUME NEW n \in Nat, NEW V \in SUBSET (1..n), NEW u \in V
  PROVE  /\ Rank(u, V) \in 1..Cardinality(V)
         /\ \A v \in V : u <= v => Rank(u, V) <= Rank(v, V)
<1> DEFINE upTo(v) == {w \in V : w <= v}
<1>1. IsFiniteSet(V) /\ \A v : IsFiniteSet(upTo(v)) /\ Cardinality(upTo(v)) \in Nat
                                /\ Cardinality(upTo(v)) <= Cardinality(V)
  <2>1. IsFiniteSet(V)
    BY BoundedIsFinite
  <2>2. ASSUME NEW v
        PROVE  IsFiniteSet(upTo(v)) /\ Cardinality(upTo(v)) \in Nat
               /\ Cardinality(upTo(v)) <= Cardinality(V)
    <3>1. upTo(v) \in SUBSET V
      OBVIOUS
    <3> HIDE DEF upTo
    <3> QED
      BY <2>1, <3>1, FS_Subset, FS_CardinalityType
  <2> QED
    BY <2>1, <2>2
<1>2. Cardinality(upTo(u)) # 0
  <2>1. u \in upTo(u)
    OBVIOUS
  <2> HIDE DEF upTo
  <2> QED
    BY <1>1, <2>1, FS_EmptySet
<1>3. ASSUME NEW v \in V, u <= v
      PROVE  Cardinality(upTo(u)) <= Cardinality(upTo(v))
  <2>1. ASSUME NEW w \in V, w <= u
        PROVE  w <= v
    BY <1>3, <2>1
  <2>2. upTo(u) \in SUBSET upTo(v)
    BY <2>1
  <2> HIDE DEF upTo
  <2> QED
    BY <1>1, <2>2, FS_Subset
<1>4. Cardinality(V) \in Nat
  BY <1>1, FS_CardinalityType
<1> QED
  <2>1. \A v : Rank(v, V) = Cardinality(upTo(v))
    BY DEF Rank
  <2> HIDE DEF upTo
  <2> QED
    BY <1>1, <1>2, <1>3, <1>4, <2>1

(* A lane that comes back with as many messages as it asked for has them   *)
(* all.                                                                    *)
LEMMA LaneIsWhole ==
  ASSUME NEW n \in Nat, NEW V \in SUBSET (1..n), NEW lo \in Int, NEW hi \in Int,
         NEW G \in SUBSET V,
         \A u \in G : Rank(u, V) \in lo..hi,
         Cardinality(G) = Cardinality(lo..hi),
         NEW u \in V, Rank(u, V) \in lo..hi
  PROVE  u \in G
<1> SUFFICES ASSUME u \notin G
             PROVE  FALSE
  OBVIOUS
<1> DEFINE S == G \cup {u}
<1>1. S \in SUBSET V /\ S # {}
  OBVIOUS
<1>2. Rank(u, V) \in Int
  BY RankBounds
<1>3. lo <= hi /\ Cardinality(G) = hi - lo + 1
  BY <1>2, FS_Interval
<1>4. IsFiniteSet(G)
  <2>1. G \in SUBSET (1..n)
    OBVIOUS
  <2> QED
    BY <2>1, BoundedIsFinite
<1>5. Cardinality(S) = hi - lo + 2
  <2>1. Cardinality(S) = Cardinality(G) + 1
    BY <1>4, FS_AddElement
  <2> QED
    BY <1>3, <2>1
<1>6. \A v \in S : lo <= Rank(v, V) /\ Rank(v, V) <= hi
  OBVIOUS
<1>7. Cardinality(S) <= hi - lo + 1
  <2> HIDE DEF S
  <2> QED
    BY <1>1, <1>6, RanksAreDistinct
<1> QED
  BY <1>5, <1>7

(* The second lane has a session with a view of its own.  If its numbers   *)
(* have moved, it comes back short or with a message that is too new.      *)
LEMMA SecondLaneFits ==
  ASSUME NEW n \in Nat, NEW k \in Nat, NEW V \in SUBSET (1..k), NEW W \in SUBSET (1..n),
         \A u \in W : u <= k => u \in V,
         NEW h \in Nat, NEW G \in SUBSET W,
         \A u \in G : u <= k /\ Rank(u, W) \in (h + 1)..Cardinality(V),
         Cardinality(G) = Cardinality((h + 1)..Cardinality(V))
  PROVE  G = {u \in V : Rank(u, V) \in (h + 1)..Cardinality(V)}
<1> DEFINE W1 == {u \in W : u <= k}
<1>1. W1 \in SUBSET (1..k) /\ G \in SUBSET W1
  OBVIOUS
<1>2. IsFiniteSet(V) /\ Cardinality(V) \in Nat
  <2>1. IsFiniteSet(V)
    BY BoundedIsFinite
  <2> QED
    BY <2>1, FS_CardinalityType
<1>3. IsFiniteSet(W1) /\ Cardinality(W1) \in Nat /\ Cardinality(W1) <= Cardinality(V)
      /\ (Cardinality(V) = Cardinality(W1) => V = W1)
  <2>1. W1 \in SUBSET V
    OBVIOUS
  <2> HIDE DEF W1
  <2> QED
    BY <1>2, <2>1, FS_Subset, FS_CardinalityType
<1>4. ASSUME NEW u \in G
      PROVE  Rank(u, W1) = Rank(u, W)
  <2>1. ASSUME NEW v \in W
        PROVE  v <= u <=> v <= k /\ v <= u
    OBVIOUS
  <2>2. {v \in W1 : v <= u} = {v \in W : v <= u}
    BY <2>1
  <2> QED
    BY <2>2 DEF Rank
<1>5. CASE G = {}
  <2>1. Cardinality((h + 1)..Cardinality(V)) = 0
    BY <1>5, FS_EmptySet
  <2>2. (h + 1)..Cardinality(V) = {}
    <3>1. IsFiniteSet((h + 1)..Cardinality(V))
      BY <1>2, FS_Interval
    <3> QED
      BY <2>1, <3>1, FS_EmptySet
  <2> QED
    BY <1>5, <2>2
<1>6. CASE G # {}
  <2>1. PICK g \in G : TRUE
    BY <1>6
  <2>2. h + 1 <= Cardinality(V) /\ Cardinality(G) = Cardinality(V) - h
    <3>1. Rank(g, W1) \in Int
      <4> HIDE DEF W1
      <4>1. g \in W1 /\ Rank(g, W1) \in 1..Cardinality(W1)
        BY <1>1, RankBounds
      <4> QED
        BY <1>3, <4>1
    <3>2. h + 1 <= Cardinality(V)
      BY <1>2, <1>4, <3>1
    <3> QED
      BY <1>2, <3>2, FS_Interval
  <2>3. \A u \in G : h + 1 <= Rank(u, W1) /\ Rank(u, W1) <= Cardinality(W1)
    <3>1. ASSUME NEW u \in G
          PROVE  h + 1 <= Rank(u, W1) /\ Rank(u, W1) <= Cardinality(W1)
      <4>1. Rank(u, W1) \in 1..Cardinality(W1)
        BY <1>1, RankBounds
      <4> QED
        BY <1>4, <4>1
    <3> QED
      BY <3>1
  <2>4. Cardinality(G) <= Cardinality(W1) - (h + 1) + 1
    <3>1. h + 1 \in Int /\ Cardinality(W1) \in Int
      BY <1>3
    <3> HIDE DEF W1
    <3> QED
      BY <1>1, <1>6, <2>3, <3>1, RanksAreDistinct
  <2>5. V = W1
    BY <1>2, <1>3, <2>2, <2>4
  <2>6. G \in SUBSET V /\ \A u \in G : Rank(u, V) \in (h + 1)..Cardinality(V)
    BY <1>1, <1>4, <2>5
  <2>7. ASSUME NEW u \in V, Rank(u, V) \in (h + 1)..Cardinality(V)
        PROVE  u \in G
    <3> DEFINE lo == h + 1
               hi == Cardinality(V)
    <3>1. lo \in Int /\ hi \in Int
      BY <1>2
    <3>2. G \in SUBSET V
      BY <2>6
    <3>3. \A w \in G : Rank(w, V) \in lo..hi
      BY <2>6
    <3>4. Cardinality(G) = Cardinality(lo..hi) /\ Rank(u, V) \in lo..hi
      BY <2>7
    <3> HIDE DEF W1, lo, hi
    <3> QED
      BY <3>1, <3>2, <3>3, <3>4, LaneIsWhole
  <2> QED
    BY <2>6, <2>7
<1> QED
  BY <1>5, <1>6

(* The two lanes of a first page share out the newest messages.            *)
LEMMA LanesShare ==
  ASSUME NEW n \in Nat, NEW V \in SUBSET (1..n), V # {}, InboxAssumption
  PROVE  \E first, half \in Nat :
            /\ 1 <= first /\ first <= half /\ half <= Cardinality(V)
            /\ FirstLane(V) = first..half
            /\ SecondLane(V) = (half + 1)..Cardinality(V)
<1> DEFINE count == Cardinality(V)
           first == Max({count - Page + 1, 1})
           half == first + (count - first) \div 2
<1>1. count \in Nat /\ count # 0
  BY BoundedIsFinite, FS_CardinalityType, FS_EmptySet
<1>2. Page \in Nat /\ Page # 0
  BY DEF InboxAssumption
<1>3. first \in Nat /\ 1 <= first /\ first <= count
  <2> HIDE DEF count
  <2>1. first = IF count - Page + 1 >= 1 THEN count - Page + 1 ELSE 1
    <3>1. count - Page + 1 \in Int
      BY <1>1, <1>2
    <3> QED
      BY <3>1, MaxOfTwo
  <2> QED
    BY <1>1, <1>2, <2>1
<1>4. half \in Nat /\ first <= half /\ half <= count
  <2> HIDE DEF count, first
  <2>1. (count - first) \div 2 \in 0..(count - first)
    BY <1>1, <1>3
  <2> QED
    BY <1>1, <1>3, <2>1
<1>5. FirstLane(V) = first..half /\ SecondLane(V) = (half + 1)..count
  BY DEF FirstLane, SecondLane
<1> QED
  <2> HIDE DEF first, half
  <2> QED
    BY <1>3, <1>4, <1>5

(* What both lanes bring is the newest part of the mailbox: nothing above  *)
(* its oldest message is missing, and nothing at all when the numbers add  *)
(* up to those of the mailbox.                                             *)
LEMMA FirstPageIsWhole ==
  ASSUME NEW n \in Nat, NEW V \in SUBSET (1..n),
         NEW first \in Nat, NEW half \in Nat,
         1 <= first, first <= half, half <= Cardinality(V),
         NEW L \in SUBSET V, NEW G \in SUBSET V,
         L \cap G = {},
         \A u \in L : Rank(u, V) \in first..half,
         Cardinality(L) = Cardinality(first..half),
         \A u \in G : Rank(u, V) \in (half + 1)..Cardinality(V),
         \A u \in V : Rank(u, V) \in (half + 1)..Cardinality(V) => u \in G
  PROVE  LET msgs == L \cup G
             older == Cardinality(V) > Cardinality(L) + Cardinality(G)
         IN  /\ msgs # {} /\ Smallest(msgs) \in msgs
             /\ \A u \in V : Smallest(msgs) <= u => u \in msgs
             /\ older => Smallest(msgs) > 1
             /\ ~older => V \subseteq msgs
<1> DEFINE msgs == L \cup G
           m == Smallest(msgs)
<1>0. Cardinality(V) \in Nat /\ Cardinality(L) \in Nat /\ Cardinality(G) \in Nat
      /\ IsFiniteSet(V) /\ IsFiniteSet(L) /\ IsFiniteSet(G)
  <2>1. L \in SUBSET (1..n) /\ G \in SUBSET (1..n)
    OBVIOUS
  <2>2. IsFiniteSet(V) /\ IsFiniteSet(L) /\ IsFiniteSet(G)
    BY <2>1, BoundedIsFinite
  <2> QED
    BY <2>2, FS_CardinalityType
<1>1. msgs # {}
  <2>1. Cardinality(L) = half - first + 1
    BY FS_Interval
  <2>2. Cardinality(L) # 0
    BY <2>1
  <2> QED
    BY <2>2, FS_EmptySet
<1>2. m \in msgs /\ \A v \in msgs : m <= v
  <2>1. msgs \in SUBSET Nat
    OBVIOUS
  <2> HIDE DEF msgs
  <2> QED
    BY <1>1, <2>1, HasSmallest
<1>3. ASSUME NEW u \in V, m <= u
      PROVE  u \in msgs
  <2>1. m \in V /\ Rank(m, V) \in Nat /\ first <= Rank(m, V)
    <3>1. m \in V
      BY <1>2
    <3>2. Rank(m, V) \in 1..Cardinality(V)
      <4> HIDE DEF m
      <4> QED
        BY <3>1, RankBounds
    <3>3. CASE m \in L
      <4>1. Rank(m, V) \in first..half
        BY <3>3
      <4> HIDE DEF m
      <4> QED
        BY <3>1, <3>2, <4>1, <1>0
    <3>4. CASE m \in G
      <4>1. Rank(m, V) \in (half + 1)..Cardinality(V)
        BY <3>4
      <4> HIDE DEF m
      <4> QED
        BY <3>1, <3>2, <4>1, <1>0
    <3> QED
      BY <1>2, <3>3, <3>4
  <2> HIDE DEF m
  <2>2. Rank(m, V) <= Rank(u, V) /\ Rank(u, V) \in 1..Cardinality(V)
    BY <1>3, <2>1, RankBounds
  <2>3. CASE Rank(u, V) <= half
    <3>1. Rank(u, V) \in first..half
      BY <1>0, <2>1, <2>2, <2>3
    <3>2. u \in L
      <4>1. first \in Int /\ half \in Int
        OBVIOUS
      <4>2. \A w \in L : Rank(w, V) \in first..half
        OBVIOUS
      <4>3. Cardinality(L) = Cardinality(first..half)
        OBVIOUS
      <4> QED
        BY <3>1, <4>1, <4>2, <4>3, LaneIsWhole
    <3> QED
      BY <3>2
  <2>4. CASE ~(Rank(u, V) <= half)
    <3>1. Rank(u, V) \in (half + 1)..Cardinality(V)
      BY <1>0, <2>1, <2>2, <2>4
    <3> QED
      BY <3>1
  <2> QED
    BY <2>3, <2>4
<1>4. Cardinality(msgs) = Cardinality(L) + Cardinality(G)
  <2>1. Cardinality(msgs) = Cardinality(L) + Cardinality(G) - Cardinality({})
    BY <1>0, FS_Union
  <2> QED
    BY <1>0, <2>1, FS_EmptySet
<1>5. msgs \in SUBSET V
  OBVIOUS
<1>6. CASE Cardinality(V) > Cardinality(L) + Cardinality(G)
  <2> HIDE DEF msgs
  <2>1. PICK u \in V : u \notin msgs
    <3>1. msgs # V
      BY <1>0, <1>4, <1>6
    <3> QED
      BY <3>1, <1>5
  <2>2. m \in Nat /\ u \in Nat /\ 1 <= u
    <3>1. m \in V
      BY <1>2, <1>5
    <3> HIDE DEF m
    <3> QED
      BY <3>1
  <2>3. ~(m <= u)
    BY <1>3, <2>1
  <2>4. m > 1
    <3> HIDE DEF m
    <3> QED
      BY <2>2, <2>3
  <2> QED
    BY <1>0, <1>1, <1>2, <1>3, <1>6, <2>4 DEF msgs
<1>7. CASE ~(Cardinality(V) > Cardinality(L) + Cardinality(G))
  <2>1. msgs = V
    <3> HIDE DEF msgs
    <3>1. Cardinality(msgs) <= Cardinality(V) /\ (Cardinality(V) = Cardinality(msgs) => V = msgs)
      BY <1>0, <1>5, FS_Subset
    <3> QED
      BY <1>0, <1>4, <1>7, <3>1
  <2> QED
    BY <1>1, <1>2, <1>3, <1>7, <2>1
<1> QED
  BY <1>6, <1>7

-----------------------------------------------------------------------------
(* The server, other clients and the user                                  *)

ServerTyped(s) ==
    /\ s \in [validity : Nat \ {0}, next : Nat \ {0}, msgs : SUBSET Nat]
    /\ s.msgs \subseteq 1..(s.next - 1)

(* Messages come at the end and go anywhere.                               *)
Moved(s, z) ==
    /\ ServerTyped(s) /\ ServerTyped(z)
    /\ s.next <= z.next /\ s.validity = z.validity
    /\ Below(s.next, z) \subseteq s.msgs

LEMMA ProgressRests ==
  ASSUME NEW s, NEW z, Moved(s, z), NEW p, ProgressSound(p, s)
  PROVE  ProgressSound(p, z) /\ Window(p, z) \subseteq Window(p, s)
<1>1. s.next \in Nat /\ z.next \in Nat /\ z.msgs \subseteq Nat /\ s.next <= z.next
  BY DEF Moved, ServerTyped
<1>2. CASE ForwardSound(p, s)
  <2>1. ForwardSound(p, z)
    BY <1>1, <1>2 DEF ForwardSound
  <2>2. p.kind = "forward" /\ p.scanned \in Nat /\ p.scanned < s.next
    BY <1>2 DEF ForwardSound
  <2>3. ASSUME NEW u \in z.msgs, u <= p.scanned
        PROVE  u \in s.msgs
    BY <1>1, <2>2, <2>3 DEF Moved, Below
  <2> QED
    BY <2>1, <2>2, <2>3 DEF Window, To, ProgressSound
<1>3. CASE HistorySound(p, s)
  <2>1. HistorySound(p, z)
    BY <1>1, <1>3 DEF HistorySound, Positive
  <2>2. p.kind = "history" /\ p.hist \in Nat /\ p.hist < s.next
    BY <1>3 DEF HistorySound, Positive
  <2>3. ASSUME NEW u \in z.msgs, u <= p.hist
        PROVE  u \in s.msgs
    BY <1>1, <2>2, <2>3 DEF Moved, Below
  <2> QED
    BY <2>1, <2>2, <2>3 DEF Window, To, ProgressSound
<1> QED
  BY <1>2, <1>3 DEF ProgressSound

LEMMA TaskRests ==
  ASSUME NEW s, NEW z, Moved(s, z), NEW d, NEW t, TaskSound(t, s, d)
  PROVE  TaskSound(t, z, d)
<1>1. s.next \in Nat /\ z.next \in Nat /\ z.msgs \subseteq Nat /\ s.next <= z.next
      /\ s.validity = z.validity
  BY DEF Moved, ServerTyped
<1>2. ASSUME t.pc = "open"
      PROVE  OpenSound(t, z)
  BY <1>1, <1>2 DEF TaskSound, OpenSound
<1>3. ASSUME t.pc = "selected"
      PROVE  SelectedSound(t, z)
  <2>1. SelectedSound(t, s)
    BY <1>3 DEF TaskSound
  <2>2. t.next \in Nat /\ t.next <= s.next /\ t.hist \in Nat /\ t.hist < s.next
    BY <2>1 DEF SelectedSound, Positive
  <2>3. Below(t.next, z) \subseteq Below(t.next, s)
    <3>1. ASSUME NEW u \in z.msgs, u < t.next
          PROVE  u \in s.msgs
      BY <1>1, <2>2, <3>1 DEF Moved, Below
    <3> QED
      BY <3>1 DEF Below
  <2>4. SecondView(t.next, t.view, t.lanes[2], s) => SecondView(t.next, t.view, t.lanes[2], z)
    <3>1. 1..(s.next - 1) \subseteq 1..(z.next - 1)
      BY <1>1
    <3> QED
      BY <2>3, <3>1 DEF SecondView
  <2>5. t.next <= z.next /\ t.hist < z.next
    BY <1>1, <2>2
  <2> QED
    BY <1>1, <2>1, <2>3, <2>4, <2>5 DEF SelectedSound
<1>4. ASSUME t.pc = "uids"
      PROVE  UidsSound(t, z)
  BY <1>1, <1>4, ProgressRests DEF TaskSound, UidsSound
<1>5. ASSUME t.pc = "staged"
      PROVE  StagedSound(t, z, d)
  BY <1>1, <1>5, ProgressRests DEF TaskSound, StagedSound, Fetched
<1> QED
  BY <1>2, <1>3, <1>4, <1>5 DEF TaskSound

LEMMA RequestRests ==
  ASSUME NEW s, NEW z, Moved(s, z), NEW d, NEW r, RequestSound(r, s, d)
  PROVE  RequestSound(r, z, d)
<1>1. s.next \in Nat /\ z.next \in Nat /\ z.msgs \subseteq Nat /\ s.next <= z.next
      /\ s.validity = z.validity /\ 1..(s.next - 1) \subseteq 1..(z.next - 1)
  BY DEF Moved, ServerTyped
<1>2. ASSUME r.op = "stage"
      PROVE  StageSound(r, z)
  BY <1>1, <1>2, ProgressRests DEF RequestSound, StageSound, Fetched
<1>3. ASSUME r.op = "commit"
      PROVE  StagedSound(r, z, d)
  BY <1>1, <1>3, ProgressRests DEF RequestSound, StagedSound, Fetched
<1> QED
  BY <1>2, <1>3 DEF RequestSound

LEMMA ServerMoves ==
  ASSUME SyncInv, Moved(server, server'), UNCHANGED <<db, task, request>>
  PROVE  SyncInv'
<1>1. server.next \in Nat /\ server'.next \in Nat /\ server'.msgs \subseteq Nat
      /\ server.next <= server'.next /\ server.validity = server'.validity
      /\ 1..(server.next - 1) \subseteq 1..(server'.next - 1)
  BY DEF Moved, ServerTyped
<1>2. TypeOK'
  <2>1. {db.cursor, db.hist} \subseteq 0..(server'.next - 1)
    <3>1. db.cursor \in 0..(server.next - 1) /\ db.hist \in 0..(server.next - 1)
      BY DEF SyncInv, InboxIsCovered, TypeOK
    <3> QED
      BY <1>1, <3>1
  <2>2. db.locs \cup db.tomb \subseteq 1..(server'.next - 1)
    BY <1>1 DEF SyncInv, InboxIsCovered, TypeOK
  <2> QED
    BY <1>1, <2>1, <2>2 DEF SyncInv, InboxIsCovered, TypeOK, Moved, ServerTyped
<1>3. CursorCoversInbox'
  <2>1. ASSUME NEW u \in server'.msgs, u <= db.cursor
        PROVE  u \in server.msgs
    <3>1. db.cursor \in 0..(server.next - 1)
      BY DEF SyncInv, InboxIsCovered, TypeOK
    <3>2. u < server.next
      BY <1>1, <2>1, <3>1
    <3> QED
      BY <3>2 DEF Moved, Below
  <2> QED
    BY <1>1, <2>1 DEF SyncInv, InboxIsCovered, CursorCoversInbox, Covered
<1>4. CheckpointIsReadable' /\ NoResurrection' /\ DbTyped'
  BY DEF SyncInv, InboxIsCovered, CheckpointIsReadable, NoResurrection, DbTyped
<1>5. TaskSound(task', server', db') /\ RequestSound(request', server', db')
  <2>1. TaskSound(task, server', db) /\ RequestSound(request, server', db)
    BY TaskRests, RequestRests DEF SyncInv
  <2> QED
    BY <2>1
<1> QED
  BY <1>2, <1>3, <1>4, <1>5 DEF SyncInv, InboxIsCovered

LEMMA ArriveKeeps ==
  ASSUME SyncInv, Arrive
  PROVE  SyncInv'
<1>1. ServerTyped(server)
  BY DEF SyncInv, InboxIsCovered, TypeOK, ServerTyped
<1>2. server.next \in Nat /\ server.next # 0 /\ server.msgs \subseteq Nat
      /\ server.validity \in Nat /\ server.validity # 0
  BY <1>1 DEF ServerTyped
<1>3. server' = [validity |-> server.validity, next |-> server.next + 1,
                 msgs |-> server.msgs \cup {server.next}]
  BY <1>1 DEF Arrive, ServerTyped
<1>4. ServerTyped(server')
  <2>1. ASSUME NEW u \in server.msgs \cup {server.next}
        PROVE  u \in 1..server.next
    <3>1. \A v \in server.msgs : v \in 1..(server.next - 1)
      BY <1>1 DEF ServerTyped
    <3> QED
      BY <1>2, <3>1
  <2>2. server'.msgs \subseteq 1..(server'.next - 1)
    BY <1>2, <1>3, <2>1
  <2> QED
    BY <1>2, <1>3, <2>2 DEF ServerTyped
<1>5. Below(server.next, server') \subseteq server.msgs
  BY <1>2, <1>3 DEF Below
<1>6. Moved(server, server')
  <2>1. server'.next = server.next + 1 /\ server'.validity = server.validity
    BY <1>3
  <2>2. server.next <= server'.next
    BY <1>2, <2>1
  <2> QED
    BY <1>1, <1>4, <1>5, <2>1, <2>2 DEF Moved
<1> QED
  BY <1>6, ServerMoves DEF Arrive

LEMMA ExpungeKeeps ==
  ASSUME SyncInv, NEW u, Expunge(u)
  PROVE  SyncInv'
<1>1. ServerTyped(server)
  BY DEF SyncInv, InboxIsCovered, TypeOK, ServerTyped
<1>2. server' = [validity |-> server.validity, next |-> server.next,
                 msgs |-> server.msgs \ {u}]
  BY <1>1 DEF Expunge, ServerTyped
<1>3. ServerTyped(server') /\ Below(server.next, server') \subseteq server.msgs
  BY <1>1, <1>2 DEF ServerTyped, Below
<1>4. Moved(server, server')
  BY <1>1, <1>2, <1>3 DEF Moved, ServerTyped
<1> QED
  BY <1>4, ServerMoves DEF Expunge

LEMMA RenumberKeeps ==
  ASSUME SyncInv, Renumber
  PROVE  SyncInv'
<1>1. server \in [validity : Nat \ {0}, next : Nat \ {0}, msgs : SUBSET Nat]
  BY DEF SyncInv, InboxIsCovered, TypeOK
<1>2. server' = [validity |-> server.validity + 1, next |-> server.next,
                 msgs |-> server.msgs]
      /\ task' = Idle /\ UNCHANGED <<db, request>>
  BY <1>1 DEF Renumber
<1>3. server'.validity = server.validity + 1 /\ server'.next = server.next
      /\ server'.msgs = server.msgs
  BY <1>2
<1>4. server.validity \in Nat /\ db.validity \in Nat /\ db.validity <= server.validity
  BY <1>1 DEF SyncInv, InboxIsCovered, TypeOK
<1>5. TypeOK'
  <2>1. server' \in [validity : Nat \ {0}, next : Nat \ {0}, msgs : SUBSET Nat]
    BY <1>1, <1>2
  <2>2. db.validity \in 0..server'.validity
    BY <1>3, <1>4
  <2>3. task'.pc = "idle"
    BY <1>2 DEF Idle
  <2> QED
    BY <1>2, <1>3, <2>1, <2>2, <2>3 DEF SyncInv, InboxIsCovered, TypeOK
<1>6. CursorCoversInbox'
  BY <1>2, <1>3, <1>4 DEF CursorCoversInbox
<1>7. CheckpointIsReadable' /\ NoResurrection' /\ DbTyped'
  BY <1>2 DEF SyncInv, InboxIsCovered, CheckpointIsReadable, NoResurrection, DbTyped
<1>8. TaskSound(task', server', db') /\ OnePage(task', request')
  BY <1>2 DEF Idle, TaskSound, OnePage
<1>9. RequestSound(request, server', db)
  <2>1. \A p : ProgressSound(p, server) => ProgressSound(p, server')
    BY <1>3 DEF ProgressSound, ForwardSound, HistorySound
  <2>2. \A v \in 1..server.validity : v \in 1..server'.validity /\ v # server'.validity
    BY <1>3, <1>4
  <2>3. ASSUME request.op = "stage"
        PROVE  StageSound(request, server')
    BY <1>3, <2>1, <2>2, <2>3 DEF SyncInv, RequestSound, StageSound, Fetched
  <2>4. ASSUME request.op = "commit"
        PROVE  StagedSound(request, server', db)
    BY <1>3, <2>1, <2>2, <2>4 DEF SyncInv, RequestSound, StagedSound, Fetched
  <2> QED
    BY <2>3, <2>4 DEF RequestSound
<1> QED
  BY <1>2, <1>5, <1>6, <1>7, <1>8, <1>9 DEF SyncInv, InboxIsCovered

(* The rows without what moves the cursors.                                *)
RowsRest ==
    /\ DbTyped'
    /\ db'.validity = db.validity /\ db'.cursor = db.cursor /\ db'.hist = db.hist
    /\ db'.complete = db.complete
    /\ db'.locs \subseteq db.locs
    /\ db'.locs \cup db'.tomb = db.locs \cup db.tomb
    /\ db'.inbox \subseteq db'.locs /\ db'.previews \subseteq db'.locs
    /\ db'.tomb \cap db'.locs = {}
    /\ UNCHANGED <<server, task, request>>

LEMMA RowsMove ==
  ASSUME SyncInv, RowsRest
  PROVE  SyncInv'
<1>1. TypeOK'
  <2>1. db'.gen \in Nat \ {0}
    BY DEF RowsRest, DbTyped, Positive
  <2> QED
    BY <2>1 DEF SyncInv, InboxIsCovered, TypeOK, RowsRest
<1>2. CheckpointIsReadable' /\ NoResurrection' /\ DbTyped'
  BY DEF SyncInv, InboxIsCovered, CheckpointIsReadable, NoResurrection, RowsRest
<1>3. CursorCoversInbox'
  BY DEF SyncInv, InboxIsCovered, CursorCoversInbox, Covered, RowsRest
<1>4. \A t : StagedSound(t, server, db) => StagedSound(t, server, db')
  BY DEF StagedSound, Reopens, Fetched, RowsRest
<1>5. TaskSound(task, server, db') /\ RequestSound(request, server, db')
  BY <1>4 DEF SyncInv, TaskSound, RequestSound
<1> QED
  BY <1>1, <1>2, <1>3, <1>5 DEF SyncInv, InboxIsCovered, RowsRest

LEMMA UserKeeps ==
  ASSUME SyncInv
  PROVE  /\ Reconfigure => SyncInv'
         /\ \A u : Archive(u) \/ Delete(u) => SyncInv'
<1>1. DbTyped /\ db.inbox \subseteq db.locs /\ db.previews \subseteq db.locs
      /\ db.tomb \cap db.locs = {} /\ db.locs \subseteq Nat
  BY DEF SyncInv, InboxIsCovered, TypeOK, NoResurrection, DbTyped
<1>2. ASSUME Reconfigure
      PROVE  RowsRest
  <2>1. db' = [db EXCEPT !.gen = db.gen + 1] /\ UNCHANGED <<server, task, request>>
    BY <1>2 DEF Reconfigure
  <2>2. db.gen + 1 \in Positive
    BY <1>1 DEF DbTyped, Positive
  <2> QED
    BY <1>1, <2>1, <2>2 DEF RowsRest, DbTyped
<1>3. ASSUME NEW u, Archive(u)
      PROVE  RowsRest
  <2>1. u \in Nat
    BY <1>1, <1>3 DEF Archive
  <2>2. db' = [db EXCEPT !.inbox = db.inbox \ {u}, !.archived = db.archived \cup {u}]
        /\ UNCHANGED <<server, task, request>>
    BY <1>3 DEF Archive
  <2> QED
    BY <1>1, <2>1, <2>2 DEF RowsRest, DbTyped
<1>4. ASSUME NEW u, Delete(u)
      PROVE  RowsRest
  <2>1. u \in Nat /\ u \in db.locs
    BY <1>1, <1>4 DEF Delete
  <2>2. db' = [db EXCEPT !.locs = db.locs \ {u}, !.inbox = db.inbox \ {u},
                         !.archived = db.archived \ {u}, !.previews = db.previews \ {u},
                         !.tomb = db.tomb \cup {u}]
        /\ UNCHANGED <<server, task, request>>
    BY <1>4 DEF Delete
  <2>3. DbTyped'
    BY <1>1, <2>1, <2>2 DEF DbTyped
  <2>4. db'.locs = db.locs \ {u} /\ db'.inbox = db.inbox \ {u}
        /\ db'.previews = db.previews \ {u} /\ db'.tomb = db.tomb \cup {u}
        /\ db'.validity = db.validity /\ db'.cursor = db.cursor /\ db'.hist = db.hist
        /\ db'.complete = db.complete
    BY <1>1, <2>2 DEF DbTyped
  <2> QED
    BY <1>1, <2>1, <2>2, <2>3, <2>4 DEF RowsRest
<1> QED
  BY <1>2, <1>3, <1>4, RowsMove

-----------------------------------------------------------------------------
(* The task                                                                *)

LEMMA TaskMoves ==
  ASSUME SyncInv, UNCHANGED <<server, db>>,
         task'.pc \in {"idle", "open", "selected", "uids", "staging", "staged",
                       "committing", "previews"},
         request'.op \in {"none", "stage", "commit", "previews"},
         TaskSound(task', server, db), RequestSound(request', server, db),
         OnePage(task', request')
  PROVE  SyncInv'
<1>1. TypeOK'
  BY DEF SyncInv, InboxIsCovered, TypeOK
<1>2. CheckpointIsReadable' /\ CursorCoversInbox' /\ NoResurrection' /\ DbTyped'
  BY DEF SyncInv, InboxIsCovered, CheckpointIsReadable, CursorCoversInbox, Covered,
         NoResurrection, DbTyped
<1> QED
  BY <1>1, <1>2 DEF SyncInv, InboxIsCovered

LEMMA Typed ==
  ASSUME SyncInv
  PROVE  /\ ServerTyped(server) /\ DbTyped
         /\ task.pc \in {"idle", "open", "selected", "uids", "staging", "staged",
                         "committing", "previews"}
         /\ request.op \in {"none", "stage", "commit", "previews"}
         /\ db.cursor \in 0..(server.next - 1) /\ db.hist \in 0..(server.next - 1)
         /\ db.validity \in 0..server.validity
  BY DEF SyncInv, InboxIsCovered, TypeOK, ServerTyped

LEMMA FailKeeps ==
  ASSUME SyncInv, Fail
  PROVE  SyncInv'
  BY Typed, TaskMoves DEF Fail, Rest, Idle, TaskSound, OnePage, SyncInv

LEMMA DropKeeps ==
  ASSUME SyncInv, NEW crash, Drop(crash)
  PROVE  SyncInv'
<1>1. task' = Idle /\ UNCHANGED <<server, db>>
  BY DEF Drop
<1>2. request' = NoRequest \/ request' = request
  BY DEF Drop
<1>3. RequestSound(request', server, db) /\ request'.op \in {"none", "stage", "commit", "previews"}
  BY <1>2, Typed DEF NoRequest, RequestSound, SyncInv
<1>4. TaskSound(task', server, db) /\ OnePage(task', request') /\ task'.pc = "idle"
  BY <1>1 DEF Idle, TaskSound, OnePage
<1> QED
  BY <1>1, <1>3, <1>4, TaskMoves

LEMMA BeginKeeps ==
  ASSUME SyncInv, NEW h, Begin(h)
  PROVE  SyncInv'
<1> DEFINE hist == IF h /\ ~db.complete THEN db.hist ELSE 0
<1>1. task' = [pc |-> "open", gen |-> db.gen, cursor |-> db.cursor,
               validity |-> db.validity, hist |-> hist]
      /\ request = NoRequest /\ UNCHANGED <<request, server, db>>
  BY DEF Begin, Rest
<1>2. hist \in Nat /\ hist < server.next /\ (hist # 0 => db.cursor # 0)
  <2>1. db.hist \in Nat /\ db.hist < server.next /\ 0 < server.next
        /\ (db.hist # 0 => db.cursor # 0)
    BY Typed DEF SyncInv, InboxIsCovered, CheckpointIsReadable, ServerTyped
  <2> QED
    BY <2>1
<1> HIDE DEF hist
<1>3. OpenSound(task', server)
  <2>1. db.gen \in Positive /\ db.cursor \in Nat /\ db.validity \in Nat
        /\ db.cursor < server.next
    BY Typed DEF DbTyped, ServerTyped
  <2> QED
    BY <1>1, <1>2, <2>1 DEF OpenSound
<1>4. TaskSound(task', server, db) /\ OnePage(task', request') /\ task'.pc = "open"
  BY <1>1, <1>3 DEF TaskSound, OnePage, NoRequest
<1>5. RequestSound(request', server, db) /\ request'.op = "none"
  BY <1>1 DEF NoRequest, RequestSound
<1> QED
  BY <1>1, <1>4, <1>5, TaskMoves

LEMMA BeginPreviewsKeeps ==
  ASSUME SyncInv, BeginPreviews
  PROVE  SyncInv'
<1>1. task'.pc = "previews" /\ request = NoRequest /\ UNCHANGED <<request, server, db>>
  BY DEF BeginPreviews, Rest
<1>2. TaskSound(task', server, db) /\ OnePage(task', request')
  BY <1>1 DEF TaskSound, OnePage, NoRequest
<1>3. RequestSound(request', server, db) /\ request'.op = "none"
  BY <1>1 DEF NoRequest, RequestSound
<1> QED
  BY <1>1, <1>2, <1>3, TaskMoves

LEMMA FetchesPreviewsKeeps ==
  ASSUME SyncInv, FetchesPreviews
  PROVE  SyncInv'
<1>1. CASE Fail
  BY <1>1, FailKeeps
<1>2. CASE ~Fail
  <2>1. task'.pc = "staging" /\ request'.op = "previews" /\ UNCHANGED <<server, db>>
    BY <1>2 DEF FetchesPreviews, Rest
  <2>2. TaskSound(task', server, db) /\ OnePage(task', request')
        /\ RequestSound(request', server, db)
    BY <2>1 DEF TaskSound, OnePage, RequestSound
  <2> QED
    BY <2>1, <2>2, TaskMoves
<1> QED
  BY <1>1, <1>2

LEMMA SubmitsCommitKeeps ==
  ASSUME SyncInv, SubmitsCommit
  PROVE  SyncInv'
<1>1. task.pc = "staged" /\ task' = [pc |-> "committing", gen |-> task.gen]
      /\ request' = [op |-> "commit", gen |-> task.gen, validity |-> task.validity,
                     progress |-> task.progress]
      /\ UNCHANGED <<server, db>>
  BY DEF SubmitsCommit, Rest
<1>2. StagedSound(request', server, db)
  <2>1. StagedSound(task, server, db)
    BY <1>1 DEF SyncInv, TaskSound
  <2> QED
    BY <1>1, <2>1 DEF StagedSound
<1>3. TaskSound(task', server, db) /\ OnePage(task', request')
      /\ RequestSound(request', server, db) /\ task'.pc = "committing"
      /\ request'.op = "commit"
  BY <1>1, <1>2 DEF TaskSound, OnePage, RequestSound
<1> QED
  BY <1>1, <1>3, TaskMoves

LEMMA OpenInboxKeeps ==
  ASSUME SyncInv, OpenInbox
  PROVE  SyncInv'
<1>1. CASE Fail
  BY <1>1, FailKeeps
<1>2. CASE ~Fail
  <2>1. task.pc = "open" /\ UNCHANGED <<request, server, db>>
        /\ task' = [pc |-> "selected", gen |-> task.gen, cursor |-> task.cursor,
                    hist |-> task.hist, validity |-> server.validity,
                    next |-> server.next, view |-> server.msgs,
                    lanes |-> <<{}, {}>>, ready |-> {}]
    BY <1>2 DEF OpenInbox, Rest
  <2>2. OpenSound(task, server) /\ request.op = "none" /\ ServerTyped(server)
    BY <2>1, Typed DEF SyncInv, TaskSound, OnePage
  <2>3. <<{}, {}>> \in [1..2 -> SUBSET Nat]
    OBVIOUS
  <2>4. SelectedSound(task', server)
    <3>1. task' \in [pc : {"selected"}, gen : Positive, cursor : Nat, hist : Nat,
                     validity : Nat, next : Positive, view : SUBSET Nat,
                     lanes : [1..2 -> SUBSET Nat], ready : SUBSET {"view", "first"}]
      BY <2>1, <2>2, <2>3 DEF OpenSound, ServerTyped, Positive
    <3>2. task'.cursor < task'.next /\ task'.hist < server.next
          /\ (task'.hist # 0 => task'.cursor # 0)
      BY <2>1, <2>2 DEF OpenSound
    <3>3. task'.next <= server.next /\ task'.view \subseteq 1..(task'.next - 1)
          /\ Below(task'.next, server) \subseteq task'.view
      BY <2>1, <2>2 DEF ServerTyped, Below
    <3>4. task'.validity = server.validity /\ task'.ready = {}
      BY <2>1
    <3> QED
      BY <3>1, <3>2, <3>3, <3>4 DEF SelectedSound
  <2>5. TaskSound(task', server, db) /\ OnePage(task', request')
        /\ task'.pc = "selected"
    BY <2>1, <2>2, <2>4 DEF TaskSound, OnePage
  <2>6. RequestSound(request', server, db) /\ request'.op = "none"
    BY <2>1, <2>2 DEF RequestSound
  <2> QED
    BY <2>1, <2>5, <2>6, TaskMoves
<1> QED
  BY <1>1, <1>2

(* A page that is submitted is sound if what was fetched has every message *)
(* of its window; one with a message outside it is refused.                *)
LEMMA SubmitPageKeeps ==
  ASSUME SyncInv, NEW p, NEW msgs, SubmitPage(p, msgs),
         task.gen \in Positive, task.validity = server.validity,
         Accepted(p, msgs) => /\ msgs \subseteq 1..(server.next - 1)
                              /\ ProgressSound(p, server) /\ NotReopened(p)
                              /\ Window(p, server) \subseteq msgs
  PROVE  SyncInv'
<1>1. CASE ~Accepted(p, msgs)
  BY <1>1, FailKeeps DEF SubmitPage
<1>2. CASE Accepted(p, msgs)
  <2>1. request' = [op |-> "stage", gen |-> task.gen, validity |-> task.validity,
                    count |-> Cardinality(task.view), progress |-> p, msgs |-> msgs]
        /\ task' = [pc |-> "staging", gen |-> task.gen] /\ UNCHANGED <<server, db>>
    BY <1>2 DEF SubmitPage, Rest
  <2>2. server.validity \in 1..server.validity
    BY Typed DEF ServerTyped
  <2>3. StageSound(request', server)
    BY <1>2, <2>1, <2>2 DEF StageSound, Fetched
  <2>4. TaskSound(task', server, db) /\ OnePage(task', request')
        /\ RequestSound(request', server, db) /\ task'.pc = "staging"
        /\ request'.op = "stage"
    BY <2>1, <2>3 DEF TaskSound, OnePage, RequestSound
  <2> QED
    BY <2>1, <2>4, TaskMoves
<1> QED
  BY <1>1, <1>2

LEMMA SelectedTyped ==
  ASSUME SyncInv, task.pc = "selected"
  PROVE  SelectedSound(task, server) /\ request.op = "none" /\ ServerTyped(server)
         /\ RequestSound(request, server, db)
  BY Typed DEF SyncInv, TaskSound, OnePage

LEMMA SelectedMoves ==
  ASSUME SyncInv, task.pc = "selected", UNCHANGED <<request, server, db>>,
         SelectedSound(task', server)
  PROVE  SyncInv'
<1>1. task'.pc = "selected"
  BY DEF SelectedSound
<1>2. TaskSound(task', server, db) /\ OnePage(task', request')
  BY <1>1, SelectedTyped DEF TaskSound, OnePage
<1> QED
  BY <1>1, <1>2, SelectedTyped, TaskMoves

LEMMA OpensSecondKeeps ==
  ASSUME SyncInv, OpensSecond
  PROVE  SyncInv'
<1>1. task.pc = "selected" /\ UNCHANGED <<request, server, db>>
      /\ task' = [task EXCEPT !.lanes[2] = server.msgs, !.ready = task.ready \cup {"view"}]
  BY DEF OpensSecond, ByLanes, Rest
<1>2. SelectedSound(task, server) /\ ServerTyped(server)
  BY <1>1, SelectedTyped
<1> DEFINE lanes == [task.lanes EXCEPT ![2] = server.msgs]
<1>3. lanes \in [1..2 -> SUBSET Nat] /\ lanes[1] = task.lanes[1] /\ lanes[2] = server.msgs
  BY <1>2 DEF SelectedSound, ServerTyped
<1>4. task' = [task EXCEPT !.lanes = lanes, !.ready = task.ready \cup {"view"}]
  BY <1>1, <1>2 DEF SelectedSound
<1>5. SecondView(task.next, task.view, server.msgs, server)
  BY <1>2 DEF SelectedSound, ServerTyped, SecondView, Below
<1> HIDE DEF lanes
<1>6. task' \in [pc : {"selected"}, gen : Positive, cursor : Nat, hist : Nat,
                 validity : Nat, next : Positive, view : SUBSET Nat,
                 lanes : [1..2 -> SUBSET Nat], ready : SUBSET {"view", "first"}]
  BY <1>2, <1>3, <1>4 DEF SelectedSound
<1>7. task'.lanes = lanes /\ task'.ready = task.ready \cup {"view"}
      /\ task'.validity = task.validity /\ task'.cursor = task.cursor
      /\ task'.hist = task.hist /\ task'.next = task.next /\ task'.view = task.view
  BY <1>2, <1>4 DEF SelectedSound
<1>8. SelectedSound(task', server)
  BY <1>2, <1>3, <1>5, <1>6, <1>7 DEF SelectedSound
<1> QED
  BY <1>1, <1>8, SelectedMoves

LEMMA FetchesFirstKeeps ==
  ASSUME SyncInv, FetchesFirst
  PROVE  SyncInv'
<1>1. CASE Fail
  BY <1>1, FailKeeps
<1>2. CASE ~Fail
  <2> DEFINE got == InLane(1, task.view) \cap server.msgs
             lanes == [task.lanes EXCEPT ![1] = got]
  <2>1. task.pc = "selected" /\ UNCHANGED <<request, server, db>>
        /\ Complete(1, got)
        /\ task' = [task EXCEPT !.lanes[1] = got, !.ready = task.ready \cup {"first"}]
    BY <1>2 DEF FetchesFirst, ByLanes, Rest
  <2>2. SelectedSound(task, server) /\ ServerTyped(server)
    BY <2>1, SelectedTyped
  <2>3. FirstFetched(task.view, got)
    <3>1. Ranks(1) = FirstLane(task.view)
      BY DEF Ranks, FirstLane
    <3> QED
      BY <2>1, <3>1 DEF FirstFetched, InLane, Complete
  <2>4. got \in SUBSET Nat
    BY <2>2 DEF ServerTyped
  <2> HIDE DEF got
  <2>5. lanes \in [1..2 -> SUBSET Nat] /\ lanes[2] = task.lanes[2] /\ lanes[1] = got
    BY <2>2, <2>4 DEF SelectedSound
  <2>6. task' = [task EXCEPT !.lanes = lanes, !.ready = task.ready \cup {"first"}]
    BY <2>1, <2>2 DEF SelectedSound
  <2> HIDE DEF lanes
  <2>7. task' \in [pc : {"selected"}, gen : Positive, cursor : Nat, hist : Nat,
                   validity : Nat, next : Positive, view : SUBSET Nat,
                   lanes : [1..2 -> SUBSET Nat], ready : SUBSET {"view", "first"}]
    BY <2>2, <2>5, <2>6 DEF SelectedSound
  <2>8. task'.lanes = lanes /\ task'.ready = task.ready \cup {"first"}
        /\ task'.validity = task.validity /\ task'.cursor = task.cursor
        /\ task'.hist = task.hist /\ task'.next = task.next /\ task'.view = task.view
    BY <2>2, <2>6 DEF SelectedSound
  <2>9. SelectedSound(task', server)
    BY <2>2, <2>3, <2>5, <2>7, <2>8 DEF SelectedSound
  <2> QED
    BY <2>1, <2>9, SelectedMoves
<1> QED
  BY <1>1, <1>2

LEMMA FetchesSecondKeeps ==
  ASSUME SyncInv, FetchesSecond, InboxAssumption
  PROVE  SyncInv'
<1>1. CASE Fail
  BY <1>1, FailKeeps
<1>2. CASE ~Fail
  <2> DEFINE V == task.view
             L == task.lanes[1]
             other == InLane(2, task.lanes[2]) \cap server.msgs
             got == IF Complete(2, other) THEN other
                    ELSE InLane(2, task.view) \cap server.msgs
             msgs == L \cup got
             older == Cardinality(V) > Cardinality(L) + Cardinality(got)
             next == IF older THEN Before(Smallest(msgs)) ELSE 0
             p == Forward(0, task.next - 1, Boot(next, ~older))
  <2>1. /\ task.pc = "selected" /\ task.view # {} /\ task.ready = {"view", "first"}
        /\ Complete(2, got) /\ L \cap got = {}
        /\ SubmitPage(p, msgs)
    BY <1>2 DEF FetchesSecond, ByLanes
  <2>2. SelectedSound(task, server) /\ ServerTyped(server)
    BY <2>1, SelectedTyped
  <2> DEFINE k == task.next - 1
  <2>3. k \in Nat /\ V \in SUBSET (1..k) /\ V # {} /\ k < server.next
        /\ server.next - 1 \in Nat
    BY <2>1, <2>2 DEF SelectedSound, ServerTyped, Positive
  <2>4. FirstFetched(V, L) /\ SecondView(task.next, V, task.lanes[2], server)
    BY <2>1, <2>2 DEF SelectedSound
  <2>5. PICK first \in Nat, half \in Nat :
            /\ 1 <= first /\ first <= half /\ half <= Cardinality(V)
            /\ FirstLane(V) = first..half
            /\ SecondLane(V) = (half + 1)..Cardinality(V)
    <3> HIDE DEF V, k
    <3> QED
      BY <2>3, LanesShare
  <2>6. Ranks(2) = (half + 1)..Cardinality(V)
    BY <2>5 DEF Ranks, SecondLane
  <2>7. ASSUME Accepted(p, msgs)
        PROVE  /\ got \subseteq V
               /\ \A u \in got : Rank(u, V) \in (half + 1)..Cardinality(V)
               /\ \A u \in V : Rank(u, V) \in (half + 1)..Cardinality(V) => u \in got
    <3>1. CASE Complete(2, other)
      <4> DEFINE W == task.lanes[2]
      <4>1. W \in SUBSET (1..(server.next - 1))
        BY <2>4 DEF SecondView
      <4>2. \A u \in W : u <= k => u \in V
        <5>1. ASSUME NEW u \in W, u <= k
              PROVE  u < task.next
          BY <2>2, <4>1, <5>1 DEF SelectedSound, Positive
        <5> QED
          BY <2>4, <5>1 DEF SecondView
      <4>3. got = other /\ other \in SUBSET W
        BY <3>1 DEF InLane
      <4>4. \A u \in other : Rank(u, W) \in (half + 1)..Cardinality(V)
        BY <2>6 DEF InLane
      <4>5. \A u \in other : u <= k
        BY <2>7, <4>3 DEF Accepted, Forward
      <4>6. Cardinality(other) = Cardinality((half + 1)..Cardinality(V))
        BY <2>6, <3>1 DEF Complete
      <4> DEFINE n == server.next - 1
      <4>7. n \in Nat /\ k \in Nat /\ V \in SUBSET (1..k) /\ W \in SUBSET (1..n)
        BY <2>3, <4>1
      <4>8. \A u \in other : u <= k /\ Rank(u, W) \in (half + 1)..Cardinality(V)
        BY <4>4, <4>5
      <4>10. other \in SUBSET W
        BY <4>3
      <4> HIDE DEF V, W, k, n, other, got
      <4>11. other = {u \in V : Rank(u, V) \in (half + 1)..Cardinality(V)}
        BY <4>2, <4>6, <4>7, <4>8, <4>10, SecondLaneFits
      <4> QED
        BY <4>3, <4>11
    <3>2. CASE ~Complete(2, other)
      <4>1. got \in SUBSET V /\ \A u \in got : Rank(u, V) \in (half + 1)..Cardinality(V)
        BY <2>6, <3>2 DEF InLane
      <4>2. Cardinality(got) = Cardinality((half + 1)..Cardinality(V))
        BY <2>1, <2>6 DEF Complete
      <4>3. ASSUME NEW u \in V, Rank(u, V) \in (half + 1)..Cardinality(V)
            PROVE  u \in got
        <5> DEFINE lo == half + 1
                   hi == Cardinality(V)
        <5>1. lo \in Int /\ hi \in Int
          <6>1. IsFiniteSet(V)
            BY <2>3, BoundedIsFinite
          <6> QED
            BY <6>1, FS_CardinalityType
        <5>2. (\A w \in got : Rank(w, V) \in lo..hi) /\ Cardinality(got) = Cardinality(lo..hi)
              /\ Rank(u, V) \in lo..hi
          BY <4>1, <4>2, <4>3
        <5> HIDE DEF V, k, got, lo, hi
        <5> QED
          BY <2>3, <4>1, <5>1, <5>2, LaneIsWhole
      <4> QED
        BY <4>1, <4>3
    <3> QED
      BY <3>1, <3>2
  <2>8. ASSUME Accepted(p, msgs)
        PROVE  /\ msgs # {} /\ Smallest(msgs) \in msgs /\ msgs \subseteq V
               /\ \A u \in V : Smallest(msgs) <= u => u \in msgs
               /\ older => Smallest(msgs) > 1
               /\ ~older => V \subseteq msgs
    <3>1. L \in SUBSET V /\ (\A u \in L : Rank(u, V) \in first..half)
          /\ Cardinality(L) = Cardinality(first..half)
      BY <2>4, <2>5 DEF FirstFetched
    <3>2. /\ got \in SUBSET V
          /\ \A u \in got : Rank(u, V) \in (half + 1)..Cardinality(V)
          /\ \A u \in V : Rank(u, V) \in (half + 1)..Cardinality(V) => u \in got
      BY <2>7, <2>8
    <3>3. L \cap got = {}
      BY <2>1
    <3> HIDE DEF V, L, got, k
    <3>4. /\ L \cup got # {} /\ Smallest(L \cup got) \in L \cup got
          /\ \A u \in V : Smallest(L \cup got) <= u => u \in L \cup got
          /\ older => Smallest(L \cup got) > 1
          /\ ~older => V \subseteq L \cup got
      BY <2>3, <2>5, <3>1, <3>2, <3>3, FirstPageIsWhole
    <3> QED
      BY <3>1, <3>2, <3>4
  <2>9. ASSUME Accepted(p, msgs)
        PROVE  /\ msgs \subseteq 1..(server.next - 1)
               /\ ProgressSound(p, server) /\ NotReopened(p)
               /\ Window(p, server) \subseteq msgs
    <3> DEFINE m == Smallest(msgs)
    <3>1. m \in 1..k /\ msgs \subseteq V
      BY <2>3, <2>8, <2>9
    <3>2. \A u \in V : m <= u => u \in msgs
      BY <2>8, <2>9
    <3>3. (older => m > 1) /\ (~older => V \subseteq msgs)
      BY <2>8, <2>9
    <3>4. next = IF older THEN m - 1 ELSE 0
      BY DEF Before
    <3>5. k # 0
      BY <2>3, <3>1
    <3>6. p.kind = "forward" /\ p.cursor = 0 /\ p.scanned = k
          /\ p = [kind |-> "forward", cursor |-> 0, scanned |-> k,
                  boot |-> [cursor |-> next, complete |-> ~older]]
      BY DEF Forward, Boot
    <3> HIDE DEF p, k, V, L, got, msgs, m
    <3>7. next \in Nat /\ (next = 0 <=> ~older) /\ next < server.next
      <4> HIDE DEF next, older
      <4> QED
        BY <2>2, <2>3, <3>1, <3>3, <3>4 DEF ServerTyped
    <3> DEFINE b == [cursor |-> next, complete |-> ~older]
               full == ~older
    <3>8. full \in BOOLEAN
      OBVIOUS
    <3>9. ProgressSound(p, server)
      <4>1. p = [kind |-> "forward", cursor |-> 0, scanned |-> k,
                 boot |-> [cursor |-> next, complete |-> full]]
        BY <3>6
      <4>2. full = (next = 0)
        BY <3>7
      <4> HIDE DEF full, next, older
      <4>3. ForwardSound(p, server)
        BY <2>3, <3>5, <3>7, <3>8, <4>1, <4>2 DEF ForwardSound, NoBoot
      <4> QED
        BY <4>3 DEF ProgressSound
    <3>10. NotReopened(p)
      BY <3>6 DEF NotReopened
    <3>11. From(p) = next /\ To(p) = k
      BY <3>6 DEF From, To
    <3>12. ASSUME NEW u \in server.msgs, next < u, u <= k
           PROVE  u \in msgs
      <4>1. u \in V
        <5>1. u < task.next
          BY <2>2, <3>12 DEF ServerTyped, SelectedSound, Positive, k
        <5> QED
          BY <2>2, <5>1 DEF SelectedSound, Below, V
      <4>2. CASE older
        <5>1. next = m - 1 /\ u \in Nat /\ m \in Nat
          BY <2>2, <3>1, <3>4, <4>2 DEF ServerTyped
        <5>2. m <= u
          <6> HIDE DEF next
          <6> QED
            BY <3>12, <5>1
        <5> QED
          BY <3>2, <4>1, <5>2
      <4>3. CASE ~older
        BY <3>3, <4>1, <4>3
      <4> QED
        BY <4>2, <4>3
    <3>13. Window(p, server) \subseteq msgs
      BY <3>11, <3>12 DEF Window
    <3>14. msgs \subseteq 1..(server.next - 1)
      <4>1. ASSUME NEW u \in 1..k
            PROVE  u \in 1..(server.next - 1)
        BY <2>2, <2>3 DEF ServerTyped
      <4> QED
        BY <2>3, <3>1, <4>1
    <3> QED
      BY <3>9, <3>10, <3>13, <3>14
  <2>10. task.gen \in Positive /\ task.validity = server.validity
    BY <2>2 DEF SelectedSound
  <2> HIDE DEF p, msgs
  <2> QED
    BY <2>1, <2>9, <2>10, SubmitPageKeeps
<1> QED
  BY <1>1, <1>2

(* The newest and the oldest messages of a set are a whole end of it.      *)
LEMMA TopIsAnEnd ==
  ASSUME NEW n \in Nat, NEW S \in SUBSET (1..n), InboxAssumption
  PROVE  /\ Top(S, Page) \in SUBSET S
         /\ \A u \in S : \A w \in Top(S, Page) : w <= u => u \in Top(S, Page)
         /\ S # {} => Top(S, Page) # {}
<1> DEFINE above(u) == {v \in S : v > u}
<1>0. Page \in Nat /\ Page # 0
  BY DEF InboxAssumption
<1>1. IsFiniteSet(S)
  BY BoundedIsFinite
<1>2. \A u : IsFiniteSet(above(u)) /\ Cardinality(above(u)) \in Nat
  <2>1. ASSUME NEW u
        PROVE  IsFiniteSet(above(u)) /\ Cardinality(above(u)) \in Nat
    <3>1. above(u) \in SUBSET S
      OBVIOUS
    <3> HIDE DEF above
    <3> QED
      BY <1>1, <3>1, FS_Subset, FS_CardinalityType
  <2> QED
    BY <2>1
<1>3. \A u : u \in Top(S, Page) <=> u \in S /\ Cardinality(above(u)) < Page
  BY DEF Top
<1>4. ASSUME NEW u \in S, NEW w \in S, w <= u
      PROVE  Cardinality(above(u)) <= Cardinality(above(w))
  <2>1. ASSUME NEW v \in S, v > u
        PROVE  v > w
    BY <1>4, <2>1
  <2>2. above(u) \in SUBSET above(w)
    BY <2>1
  <2> HIDE DEF above
  <2> QED
    BY <1>2, <2>2, FS_Subset
<1>5. ASSUME S # {}
      PROVE  \E u \in S : Cardinality(above(u)) = 0
  <2>1. S \in SUBSET (0..n)
    OBVIOUS
  <2>2. Max(S) \in S /\ \A v \in S : v <= Max(S)
    BY <1>5, <2>1, HasLargest
  <2>3. ASSUME NEW v \in S
        PROVE  ~(v > Max(S))
    <3>1. v \in Nat /\ Max(S) \in Nat
      <4>1. \A w \in S : w \in Nat
        OBVIOUS
      <4> QED
        BY <2>2, <4>1
    <3> QED
      BY <2>2, <3>1
  <2>4. above(Max(S)) = {}
    BY <2>3
  <2> QED
    BY <2>2, <2>4, FS_EmptySet
<1>6. ASSUME NEW u \in S, NEW w \in Top(S, Page), w <= u
      PROVE  u \in Top(S, Page)
  <2>1. w \in S /\ Cardinality(above(w)) < Page
    BY <1>3
  <2>2. Cardinality(above(u)) <= Cardinality(above(w))
    BY <1>4, <1>6, <2>1
  <2> HIDE DEF above
  <2> QED
    BY <1>0, <1>2, <1>3, <2>1, <2>2
<1>7. Top(S, Page) \in SUBSET S
  BY <1>3
<1> QED
  <2> HIDE DEF above
  <2>1. S # {} => Top(S, Page) # {}
    BY <1>0, <1>3, <1>5
  <2> QED
    BY <1>6, <1>7, <2>1

LEMMA BottomIsAnEnd ==
  ASSUME NEW n \in Nat, NEW S \in SUBSET (1..n), InboxAssumption
  PROVE  /\ Bottom(S, Page) \in SUBSET S
         /\ \A u \in S : \A w \in Bottom(S, Page) : u <= w => u \in Bottom(S, Page)
         /\ S # {} => Bottom(S, Page) # {}
<1> DEFINE under(u) == {v \in S : v < u}
<1>0. Page \in Nat /\ Page # 0
  BY DEF InboxAssumption
<1>1. IsFiniteSet(S)
  BY BoundedIsFinite
<1>2. \A u : IsFiniteSet(under(u)) /\ Cardinality(under(u)) \in Nat
  <2>1. ASSUME NEW u
        PROVE  IsFiniteSet(under(u)) /\ Cardinality(under(u)) \in Nat
    <3>1. under(u) \in SUBSET S
      OBVIOUS
    <3> HIDE DEF under
    <3> QED
      BY <1>1, <3>1, FS_Subset, FS_CardinalityType
  <2> QED
    BY <2>1
<1>3. \A u : u \in Bottom(S, Page) <=> u \in S /\ Cardinality(under(u)) < Page
  BY DEF Bottom
<1>4. ASSUME NEW u \in S, NEW w \in S, u <= w
      PROVE  Cardinality(under(u)) <= Cardinality(under(w))
  <2>1. ASSUME NEW v \in S, v < u
        PROVE  v < w
    BY <1>4, <2>1
  <2>2. under(u) \in SUBSET under(w)
    BY <2>1
  <2> HIDE DEF under
  <2> QED
    BY <1>2, <2>2, FS_Subset
<1>5. ASSUME S # {}
      PROVE  \E u \in S : Cardinality(under(u)) = 0
  <2>1. S \in SUBSET Nat
    OBVIOUS
  <2>2. Smallest(S) \in S /\ \A v \in S : Smallest(S) <= v
    BY <1>5, <2>1, HasSmallest
  <2>3. ASSUME NEW v \in S
        PROVE  ~(v < Smallest(S))
    <3>1. v \in Nat /\ Smallest(S) \in Nat
      <4>1. \A w \in S : w \in Nat
        OBVIOUS
      <4> QED
        BY <2>2, <4>1
    <3> QED
      BY <2>2, <3>1
  <2>4. under(Smallest(S)) = {}
    BY <2>3
  <2> QED
    BY <2>2, <2>4, FS_EmptySet
<1>6. ASSUME NEW u \in S, NEW w \in Bottom(S, Page), u <= w
      PROVE  u \in Bottom(S, Page)
  <2>1. w \in S /\ Cardinality(under(w)) < Page
    BY <1>3
  <2>2. Cardinality(under(u)) <= Cardinality(under(w))
    BY <1>4, <1>6, <2>1
  <2> HIDE DEF under
  <2> QED
    BY <1>0, <1>2, <1>3, <2>1, <2>2
<1>7. Bottom(S, Page) \in SUBSET S
  BY <1>3
<1> QED
  <2> HIDE DEF under
  <2>1. S # {} => Bottom(S, Page) # {}
    BY <1>0, <1>3, <1>5
  <2> QED
    BY <1>6, <1>7, <2>1

LEMMA SelectedKeeps ==
  ASSUME SyncInv, task.pc = "selected", NEW uids, NEW missing, NEW p,
         Selected(uids, missing, p),
         ProgressSound(p, server), NotReopened(p), Window(p, server) \subseteq uids
  PROVE  SyncInv'
<1>1. SelectedSound(task, server) /\ ServerTyped(server) /\ request.op = "none"
      /\ RequestSound(request, server, db)
  BY SelectedTyped
<1>2. task.gen \in Positive /\ task.validity = server.validity
  BY <1>1 DEF SelectedSound
<1>3. CASE uids = {}
  <2>1. SubmitPage(p, {})
    BY <1>3 DEF Selected
  <2> QED
    BY <1>2, <1>3, <2>1, SubmitPageKeeps
<1>4. CASE uids # {}
  <2>1. task' = [pc |-> "uids", gen |-> task.gen, validity |-> task.validity,
                 view |-> task.view, uids |-> uids, missing |-> missing,
                 progress |-> p]
        /\ UNCHANGED <<request, server, db>>
    BY <1>4 DEF Selected, Rest
  <2>2. UidsSound(task', server)
    BY <1>2, <2>1 DEF UidsSound
  <2>3. TaskSound(task', server, db) /\ OnePage(task', request') /\ task'.pc = "uids"
    BY <1>1, <2>1, <2>2 DEF TaskSound, OnePage
  <2> QED
    BY <1>1, <2>1, <2>3, TaskMoves
<1> QED
  BY <1>3, <1>4

LEMMA FetchesUidsKeeps ==
  ASSUME SyncInv, FetchesUids
  PROVE  SyncInv'
<1> DEFINE got == task.uids \cap server.msgs
<1>1. CASE Fail
  BY <1>1, FailKeeps
<1>2. CASE ~Fail
  <2>1. task.pc = "uids" /\ SubmitPage(task.progress, got)
    BY <1>2 DEF FetchesUids
  <2>2. UidsSound(task, server) /\ ServerTyped(server)
    BY <2>1, Typed DEF SyncInv, TaskSound
  <2>3. got \subseteq 1..(server.next - 1) /\ Window(task.progress, server) \subseteq got
    BY <2>2 DEF UidsSound, ServerTyped, Window
  <2> HIDE DEF got
  <2> QED
    BY <2>1, <2>2, <2>3, SubmitPageKeeps DEF UidsSound
<1> QED
  BY <1>1, <1>2

(* Nothing new up to scanned: a page of history, or none.                  *)
LEMMA HistoryOrKeeps ==
  ASSUME SyncInv, task.pc = "selected", InboxAssumption,
         NEW scanned \in Nat, task.cursor <= scanned, scanned < server.next,
         \A u \in server.msgs : task.cursor < u => ~(u <= scanned),
         HistoryOr(scanned)
  PROVE  SyncInv'
<1>1. SelectedSound(task, server) /\ ServerTyped(server)
  BY SelectedTyped
<1>2. task.cursor \in Nat /\ task.hist \in Nat /\ task.hist < server.next
  BY <1>1 DEF SelectedSound
<1>3. CASE ~Initial /\ task.hist # 0
  <2> DEFINE uids == Top(Older, Page)
             more == uids # Older
             m == Smallest(uids)
             next == IF more THEN Before(m) ELSE 0
             p == History(task.cursor, task.hist, next, ~more)
  <2>1. Selected(uids, FALSE, p)
    BY <1>3 DEF HistoryOr
  <2>2. server.next - 1 \in Nat /\ Older \in SUBSET (1..(server.next - 1))
    BY <1>1 DEF ServerTyped, Older
  <2>3. /\ uids \in SUBSET Older
        /\ \A u \in Older : \A w \in uids : w <= u => u \in uids
        /\ Older # {} => uids # {}
    <3> DEFINE n == server.next - 1
    <3> HIDE DEF n
    <3> QED
      BY <2>2, TopIsAnEnd DEF n
  <2>4. task.cursor \in Positive /\ task.hist \in Positive
    BY <1>2, <1>3 DEF Initial, Positive
  <2>5. more => /\ m \in uids /\ m \in Nat /\ m > 1 /\ m <= task.hist
                /\ \A v \in uids : m <= v
    <3> SUFFICES ASSUME more
                 PROVE  /\ m \in uids /\ m \in Nat /\ m > 1 /\ m <= task.hist
                        /\ \A v \in uids : m <= v
      OBVIOUS
    <3>1. uids # {} /\ uids \in SUBSET Nat
      BY <2>2, <2>3
    <3>2. m \in uids /\ \A v \in uids : m <= v
      <4> HIDE DEF uids
      <4> QED
        BY <3>1, HasSmallest
    <3>3. PICK v \in Older : v \notin uids
      BY <2>3
    <3>4. v \in Nat /\ 1 <= v /\ m \in Nat /\ m \in Older
      <4>1. m \in Older
        BY <2>3, <3>2
      <4>2. ASSUME NEW w \in Older
            PROVE  w \in Nat /\ 1 <= w
        <5>1. w \in 1..(server.next - 1)
          BY <2>2
        <5> QED
          BY <2>2, <5>1
      <4> HIDE DEF m
      <4> QED
        BY <4>1, <4>2
    <3>5. ~(m <= v)
      BY <2>3, <3>2, <3>3
    <3>6. m <= task.hist
      BY <3>4 DEF Older
    <3> HIDE DEF m
    <3> QED
      BY <3>2, <3>4, <3>5, <3>6
  <2> HIDE DEF uids, m
  <2>6. next \in Nat /\ next <= task.hist /\ (next = 0 <=> ~more)
        /\ (more => next = m - 1)
    <3> HIDE DEF more
    <3> QED
      BY <1>2, <2>5 DEF Before
  <2> DEFINE full == ~more
  <2>7. full \in BOOLEAN /\ full = (next = 0)
    BY <2>6
  <2>8. p = [kind |-> "history", cursor |-> task.cursor, hist |-> task.hist,
             next |-> next, complete |-> full]
    BY DEF History
  <2> HIDE DEF p, next, full
  <2>9. ProgressSound(p, server)
    BY <1>2, <2>4, <2>6, <2>7, <2>8 DEF ProgressSound, HistorySound
  <2>10. NotReopened(p) /\ From(p) = next /\ To(p) = task.hist
    BY <2>8 DEF NotReopened, From, To
  <2>11. ASSUME NEW u \in server.msgs, next < u, u <= task.hist
         PROVE  u \in uids
    <3>1. u \in Older /\ u \in Nat
      BY <1>1, <2>11 DEF Older, ServerTyped
    <3>2. CASE more
      <4>1. m <= u
        BY <2>5, <2>6, <2>11, <3>1, <3>2
      <4> QED
        BY <2>3, <2>5, <3>1, <3>2, <4>1
    <3>3. CASE ~more
      BY <3>1, <3>3
    <3> QED
      BY <3>2, <3>3
  <2>12. Window(p, server) \subseteq uids
    BY <2>10, <2>11 DEF Window
  <2> QED
    BY <2>1, <2>9, <2>10, <2>12, SelectedKeeps
<1>4. CASE ~(~Initial /\ task.hist # 0)
  <2> DEFINE b == IF Initial THEN Boot(0, TRUE) ELSE NoBoot
             p == Forward(task.cursor, scanned, b)
  <2>1. Selected({}, FALSE, p)
    BY <1>4 DEF HistoryOr
  <2>2. p = [kind |-> "forward", cursor |-> task.cursor, scanned |-> scanned, boot |-> b]
    BY DEF Forward
  <2>3. b \in [cursor : Nat \cup {-1}, complete : BOOLEAN]
    BY DEF Boot, NoBoot
  <2>4. (task.cursor = 0 => b = [cursor |-> 0, complete |-> TRUE] /\ b # NoBoot)
        /\ (task.cursor # 0 => b = NoBoot)
    BY DEF Initial, Boot, NoBoot
  <2>5. b # NoBoot => b.cursor = 0 /\ b.complete = TRUE
    BY <2>4 DEF Initial, Boot, NoBoot
  <2> HIDE DEF p, b
  <2>6. 0 < server.next
    BY <1>1 DEF ServerTyped
  <2>7. ProgressSound(p, server)
    BY <1>2, <2>2, <2>3, <2>4, <2>5, <2>6 DEF ProgressSound, ForwardSound
  <2>8. NotReopened(p)
    BY <2>2, <2>4 DEF NotReopened
  <2>9. To(p) = scanned /\ From(p) = task.cursor
    BY <2>2, <2>4 DEF To, From
  <2>10. Window(p, server) \subseteq {}
    BY <2>9 DEF Window
  <2> QED
    BY <2>1, <2>7, <2>8, <2>10, SelectedKeeps
<1> QED
  BY <1>3, <1>4

LEMMA SelectsUidsKeeps ==
  ASSUME SyncInv, SelectsUids, InboxAssumption
  PROVE  SyncInv'
<1>1. task.pc = "selected" /\ ~ByLanes
  BY DEF SelectsUids
<1>2. SelectedSound(task, server) /\ ServerTyped(server)
  BY <1>1, SelectedTyped
<1>3. task.cursor \in Nat /\ task.next \in Nat /\ task.cursor < task.next
      /\ task.next <= server.next /\ server.next \in Nat /\ Page \in Nat /\ Page # 0
      /\ server.msgs \subseteq Nat /\ task.next # 0
  BY <1>2 DEF SelectedSound, ServerTyped, InboxAssumption, Positive
<1>4. \A u \in server.msgs : u < task.next => u \in task.view
  BY <1>2 DEF SelectedSound, Below
<1>5. CASE NothingNew
  <2> DEFINE scanned == Max({task.cursor, task.next - 1})
  <2>1. HistoryOr(scanned)
    BY <1>5 DEF SelectsUids
  <2>2. scanned = task.next - 1
    <3>1. task.cursor \in Int /\ task.next - 1 \in Int
      BY <1>3
    <3>2. scanned = IF task.cursor >= task.next - 1 THEN task.cursor ELSE task.next - 1
      BY <3>1, MaxOfTwo
    <3> HIDE DEF scanned
    <3> QED
      BY <1>3, <3>2
  <2> HIDE DEF scanned
  <2>3. scanned \in Nat /\ task.cursor <= scanned /\ scanned < server.next
    BY <1>3, <2>2
  <2>4. ASSUME NEW u \in server.msgs, task.cursor < u, u <= scanned
        PROVE  FALSE
    <3>1. u \in Nat /\ u < task.next /\ task.cursor + 1 < task.next
      BY <1>3, <2>2, <2>4
    <3>2. u \in task.view
      BY <1>4, <3>1
    <3> QED
      BY <1>3, <1>5, <3>1, <3>2 DEF NothingNew, First
  <2> QED
    BY <1>1, <2>1, <2>3, <2>4, HistoryOrKeeps
<1>6. CASE ~NothingNew /\ Narrow
  <2> DEFINE end == Min({First + Page - 1, task.next - 1})
             p == Forward(task.cursor, end, NoBoot)
  <2>1. Selected(First..end, TRUE, p)
    BY <1>6 DEF SelectsUids
  <2>2. First + Page - 1 \in Int /\ task.next - 1 \in Int
    BY <1>3 DEF First
  <2>3. end = IF First + Page - 1 <= task.next - 1 THEN First + Page - 1 ELSE task.next - 1
    BY <2>2, MinOfTwo
  <2> HIDE DEF end
  <2>4. end \in Nat /\ task.cursor <= end /\ end < server.next
    BY <1>3, <2>3 DEF First
  <2>5. task.cursor # 0
    BY <1>1, <1>6 DEF ByLanes, Initial, NothingNew
  <2>6. p = [kind |-> "forward", cursor |-> task.cursor, scanned |-> end, boot |-> NoBoot]
    BY DEF Forward
  <2> HIDE DEF p
  <2>7. ProgressSound(p, server)
    BY <1>3, <2>4, <2>5, <2>6 DEF ProgressSound, ForwardSound, NoBoot
  <2>8. NotReopened(p) /\ From(p) = task.cursor /\ To(p) = end
    BY <2>5, <2>6 DEF NotReopened, From, To
  <2>9. ASSUME NEW u \in server.msgs, task.cursor < u, u <= end
        PROVE  u \in First..end
    BY <1>3, <2>4, <2>9 DEF First
  <2>10. Window(p, server) \subseteq First..end
    BY <2>8, <2>9 DEF Window
  <2> QED
    BY <1>1, <2>1, <2>7, <2>8, <2>10, SelectedKeeps
<1>7. CASE ~NothingNew /\ ~Narrow
  <2> DEFINE uids == Bottom(Found, Page)
             end == IF uids = Found THEN task.next - 1 ELSE Max(uids)
             p == Forward(task.cursor, end, NoBoot)
  <2>1. IF uids = {} THEN HistoryOr(end) ELSE Selected(uids, FALSE, p)
    BY <1>7 DEF SelectsUids
  <2> DEFINE n == server.next - 1
  <2>2. n \in Nat /\ Found \in SUBSET (1..n)
    <3>1. n \in Nat
      BY <1>2 DEF ServerTyped
    <3>2. server.msgs \subseteq 1..n
      BY <1>2 DEF ServerTyped
    <3> QED
      BY <3>1, <3>2 DEF Found
  <2>3. /\ uids \in SUBSET Found
        /\ \A u \in Found : \A w \in uids : u <= w => u \in uids
        /\ Found # {} => uids # {}
    <3> HIDE DEF n
    <3> QED
      BY <2>2, BottomIsAnEnd
  <2>4. ASSUME NEW u \in server.msgs, task.cursor < u, u < task.next
        PROVE  u \in Found
    BY <1>3, <2>4 DEF Found, First
  <2>5. uids # Found =>
          /\ Max(uids) \in uids /\ Max(uids) \in Nat
          /\ task.cursor <= Max(uids) /\ Max(uids) < task.next
    <3> SUFFICES ASSUME uids # Found
                 PROVE  /\ Max(uids) \in uids /\ Max(uids) \in Nat
                        /\ task.cursor <= Max(uids) /\ Max(uids) < task.next
      OBVIOUS
    <3>1. uids # {}
      BY <2>3
    <3>2. uids \in SUBSET (0..n)
      <4>1. ASSUME NEW w \in 1..n
            PROVE  w \in 0..n
        BY <2>2
      <4> HIDE DEF n, uids
      <4> QED
        BY <2>2, <2>3, <4>1
    <3>3. Max(uids) \in uids
      <4> HIDE DEF n, uids
      <4> QED
        BY <2>2, <3>1, <3>2, HasLargest
    <3>4. Max(uids) \in Found
      BY <2>3, <3>3
    <3>5. Max(uids) \in Nat /\ First <= Max(uids) /\ Max(uids) < task.next
      BY <1>3, <3>4 DEF Found
    <3> DEFINE x == Max(uids)
    <3>6. x \in Nat /\ First <= x
      BY <3>5
    <3> HIDE DEF x
    <3>7. task.cursor <= x
      BY <1>3, <3>6 DEF First
    <3> QED
      BY <3>3, <3>5, <3>7 DEF x
  <2>6. end \in Nat /\ task.cursor <= end /\ end < server.next /\ end < task.next
    <3> DEFINE x == Max(uids)
               all == uids = Found
    <3>1. end = IF all THEN task.next - 1 ELSE x
      OBVIOUS
    <3>2. ~all => x \in Nat /\ task.cursor <= x /\ x < task.next
      BY <2>5
    <3> HIDE DEF x, all, end
    <3> QED
      BY <1>3, <3>1, <3>2
  <2>7. ASSUME NEW u \in server.msgs, task.cursor < u, u <= end
        PROVE  u \in uids
    <3>1. u \in Nat /\ u < task.next
      <4> HIDE DEF end
      <4> QED
        BY <1>3, <2>6, <2>7
    <3>2. u \in Found
      BY <2>4, <2>7, <3>1
    <3>3. CASE uids = Found
      BY <3>2, <3>3
    <3>4. CASE uids # Found
      <4>1. u <= Max(uids)
        BY <2>7, <3>4
      <4> QED
        BY <2>3, <2>5, <3>2, <3>4, <4>1
    <3> QED
      BY <3>3, <3>4
  <2> HIDE DEF uids, end
  <2>8. CASE uids = {}
    <3>1. \A u \in server.msgs : task.cursor < u => ~(u <= end)
      BY <2>7, <2>8
    <3>2. HistoryOr(end)
      BY <2>1, <2>8
    <3> QED
      BY <1>1, <2>6, <3>1, <3>2, HistoryOrKeeps
  <2>9. CASE uids # {}
    <3>1. Selected(uids, FALSE, p)
      BY <2>1, <2>9
    <3>2. task.cursor # 0
      BY <1>1, <1>7 DEF ByLanes, Initial, NothingNew
    <3>3. p = [kind |-> "forward", cursor |-> task.cursor, scanned |-> end, boot |-> NoBoot]
      BY DEF Forward
    <3> HIDE DEF p
    <3>4. ProgressSound(p, server)
      BY <1>3, <2>6, <3>2, <3>3 DEF ProgressSound, ForwardSound, NoBoot
    <3>5. NotReopened(p) /\ From(p) = task.cursor /\ To(p) = end
      BY <3>2, <3>3 DEF NotReopened, From, To
    <3>6. Window(p, server) \subseteq uids
      BY <2>7, <3>5 DEF Window
    <3> QED
      BY <1>1, <3>1, <3>4, <3>5, <3>6, SelectedKeeps
  <2> QED
    BY <2>8, <2>9
<1> QED
  BY <1>5, <1>6, <1>7
-----------------------------------------------------------------------------
(* The writer                                                              *)

(* What an answered request leaves is sound if the rows are and a page     *)
(* that was staged is.                                                     *)
LEMMA WriterKeeps ==
  ASSUME SyncInv, server' = server, request' = NoRequest, task'.pc \in {"idle", "staged"},
         task'.pc = "staged" => StagedSound(task', server, db'),
         TypeOK', CheckpointIsReadable', CursorCoversInbox', NoResurrection', DbTyped'
  PROVE  SyncInv'
<1>1. TaskSound(task', server', db') /\ OnePage(task', request')
  BY DEF TaskSound, OnePage, NoRequest
<1>2. RequestSound(request', server', db')
  BY DEF RequestSound, NoRequest
<1> QED
  BY <1>1, <1>2 DEF SyncInv, InboxIsCovered

(* A task that is not waiting for the writer is at rest.                   *)
LEMMA Waiting ==
  ASSUME SyncInv, request.op # "none", NEW next, Answered(next)
  PROVE  task' = next \/ (task' = task /\ task.pc = "idle")
  BY Typed DEF SyncInv, OnePage, Answered

LEMMA SameRows ==
  ASSUME SyncInv, server' = server, db' = db, request' = NoRequest, request.op # "none",
         Answered(Idle)
  PROVE  SyncInv'
<1>1. task'.pc = "idle"
  BY Waiting DEF Idle
<1>2. TaskSound(task', server, db) /\ OnePage(task', request')
  BY <1>1 DEF TaskSound, OnePage, NoRequest
<1>3. RequestSound(request', server, db) /\ request'.op = "none"
  BY DEF RequestSound, NoRequest
<1> QED
  BY <1>1, <1>2, <1>3, TaskMoves

LEMMA ApplyPreviewsKeeps ==
  ASSUME SyncInv, ApplyPreviews
  PROVE  SyncInv'
<1>1. request.op = "previews" /\ request' = NoRequest /\ server' = server /\ Answered(Idle)
  BY DEF ApplyPreviews
<1>2. CASE db' = db
  BY <1>1, <1>2, SameRows
<1>3. CASE db' # db
  <2> DEFINE previews == db.previews \cup (request.msgs \cap db.locs)
  <2>1. db' = [db EXCEPT !.previews = previews]
    BY <1>3 DEF ApplyPreviews
  <2>2. DbTyped /\ db.previews \subseteq db.locs /\ db.locs \in SUBSET Nat
    BY Typed DEF SyncInv, InboxIsCovered, TypeOK, DbTyped
  <2>3. previews \subseteq db.locs /\ previews \in SUBSET Nat
    BY <2>2
  <2> HIDE DEF previews
  <2>4. DbTyped' /\ db'.previews = previews /\ db'.gen = db.gen
        /\ db'.validity = db.validity /\ db'.cursor = db.cursor /\ db'.hist = db.hist
        /\ db'.complete = db.complete /\ db'.locs = db.locs /\ db'.inbox = db.inbox
        /\ db'.tomb = db.tomb
    BY <2>1, <2>2, <2>3 DEF DbTyped
  <2>5. task'.pc = "idle" /\ request'.op = "none"
    BY <1>1, Waiting DEF Idle, NoRequest
  <2>6. TypeOK'
    BY <1>1, <2>3, <2>4, <2>5 DEF SyncInv, InboxIsCovered, TypeOK
  <2>7. CheckpointIsReadable' /\ NoResurrection'
    BY <2>4 DEF SyncInv, InboxIsCovered, CheckpointIsReadable, NoResurrection
  <2>8. CursorCoversInbox'
    BY <1>1, <2>4 DEF SyncInv, InboxIsCovered, CursorCoversInbox, Covered
  <2> QED
    BY <1>1, <2>4, <2>5, <2>6, <2>7, <2>8, WriterKeeps
<1> QED
  BY <1>2, <1>3

(* Storing a page leaves every message of its window here or deleted, and  *)
(* a history that is reopened begins below the oldest of them.             *)
LEMMA StagePageKeeps ==
  ASSUME SyncInv, StagePage
  PROVE  SyncInv'
<1> DEFINE p == request.progress
           new == request.msgs \ db.tomb
           locs == db.locs \cup new
           inbox == db.inbox \cup new
           next == [pc |-> "staged", gen |-> request.gen, validity |-> request.validity,
                    progress |-> Repaired(Staged(db))]
<1>1. request.op = "stage" /\ request' = NoRequest /\ server' = server
  BY DEF StagePage
<1>2. CASE db' = db /\ Answered(Idle)
  BY <1>1, <1>2, SameRows
<1>3. CASE db' = Staged(db) /\ Answered(next) /\ Fence
  <2>1. StageSound(request, server) /\ ServerTyped(server) /\ DbTyped
    BY <1>1, Typed DEF SyncInv, RequestSound
  <2>2. TypeOK /\ CheckpointIsReadable /\ CursorCoversInbox /\ NoResurrection
    BY DEF SyncInv, InboxIsCovered
  <2>3. request.validity \in 1..server.validity /\ server.validity \in Nat
        /\ server.next \in Nat /\ request.msgs \subseteq 1..(server.next - 1)
    BY <2>1 DEF StageSound, ServerTyped
  <2>4. locs \in SUBSET Nat /\ inbox \in SUBSET Nat /\ db.tomb \in SUBSET Nat
        /\ inbox \subseteq locs /\ db.previews \subseteq locs /\ db.tomb \cap locs = {}
        /\ locs \cup db.tomb \subseteq 1..(server.next - 1)
        /\ db.locs \subseteq locs /\ request.msgs \subseteq locs \cup db.tomb
    BY <2>1, <2>2, <2>3 DEF TypeOK, DbTyped, NoResurrection
  <2>5. db' = [db EXCEPT !.validity = request.validity, !.locs = locs, !.inbox = inbox]
    BY <1>3 DEF Staged
  <2> HIDE DEF locs, inbox
  <2>6. request.validity \in Nat /\ request.validity # 0
    BY <2>3
  <2>7. DbTyped' /\ db'.validity = request.validity /\ db'.locs = locs /\ db'.inbox = inbox
        /\ db'.gen = db.gen /\ db'.cursor = db.cursor /\ db'.hist = db.hist
        /\ db'.complete = db.complete /\ db'.tomb = db.tomb /\ db'.previews = db.previews
    BY <2>1, <2>4, <2>5, <2>6 DEF DbTyped
  <2>8. task'.pc \in {"idle", "staged"} /\ (task'.pc = "staged" => task' = next)
    BY <1>1, <1>3, Waiting
  <2>9. TypeOK'
    <3>1. request.validity \in 0..server.validity
      BY <2>3
    <3> QED
      BY <1>1, <2>2, <2>4, <2>7, <2>8, <3>1 DEF TypeOK, NoRequest
  <2>10. CheckpointIsReadable' /\ NoResurrection'
    BY <2>2, <2>4, <2>6, <2>7 DEF CheckpointIsReadable, NoResurrection
  <2>11. CursorCoversInbox'
    <3> SUFFICES ASSUME request.validity = server.validity,
                        NEW u \in server.msgs, u <= db.cursor,
                        db.complete \/ u > db.hist
                 PROVE  u \in locs \cup db.tomb
      BY <1>1, <2>7 DEF CursorCoversInbox, Covered
    <3>1. CASE db.validity = request.validity
      BY <2>2, <2>4, <3>1 DEF CursorCoversInbox, Covered
    <3>2. CASE db.cursor = 0
      BY <2>1, <3>2 DEF ServerTyped
    <3> QED
      BY <1>3, <3>1, <3>2 DEF Fence
  <2>12. StagedSound(next, server, db')
    <3> DEFINE q == Repaired(Staged(db))
    <3>1. ProgressSound(p, server) /\ NotReopened(p)
          /\ Fetched(p, locs \cup db.tomb, request.validity, server)
      BY <2>1, <2>4 DEF StageSound, Fetched
    <3>2. ASSUME q = p
          PROVE  ProgressSound(q, server) /\ Reopens(q, db')
                 /\ Fetched(q, locs \cup db.tomb, request.validity, server)
      BY <3>1, <3>2 DEF Reopens, NotReopened
    <3>3. ASSUME q # p
          PROVE  ProgressSound(q, server) /\ Reopens(q, db')
                 /\ Fetched(q, locs \cup db.tomb, request.validity, server)
      <4> DEFINE oldest == Smallest(locs) - 1
      <4>1. p.kind = "forward" /\ p.boot = NoBoot /\ db.complete /\ locs # {} /\ oldest # 0
            /\ q = [p EXCEPT !.boot = Boot(oldest, FALSE)]
        BY <1>3, <2>7, <3>3 DEF Repaired, Before
      <4>2. Smallest(locs) \in locs /\ \A u \in locs : Smallest(locs) <= u
        BY <2>4, <4>1, HasSmallest
      <4>3. oldest \in Nat /\ oldest < server.next /\ \A u \in locs : oldest < u
        BY <2>3, <2>4, <4>2
      <4>4. ForwardSound(p, server)
        BY <3>1, <4>1 DEF ProgressSound, HistorySound
      <4> HIDE DEF oldest, q
      <4>5. p.cursor # 0 /\ p.cursor \in Nat /\ p.scanned \in Nat /\ p.cursor <= p.scanned
            /\ p.scanned < server.next
        BY <4>1, <4>4 DEF ForwardSound
      <4>6. Boot(oldest, FALSE) \in [cursor : Nat \cup {-1}, complete : BOOLEAN]
            /\ Boot(oldest, FALSE).cursor = oldest /\ Boot(oldest, FALSE).complete = FALSE
            /\ Boot(oldest, FALSE) # NoBoot
        BY <4>3 DEF Boot, NoBoot
      <4>7. q \in [kind : {"forward"}, cursor : Nat, scanned : Nat,
                   boot : [cursor : Nat \cup {-1}, complete : BOOLEAN]]
            /\ q.cursor = p.cursor /\ q.scanned = p.scanned /\ q.boot = Boot(oldest, FALSE)
            /\ q.kind = "forward"
        BY <4>1, <4>4, <4>6 DEF ForwardSound
      <4>8. ForwardSound(q, server)
        <5>1. q.cursor <= q.scanned /\ q.scanned < server.next /\ q.cursor # 0
              /\ q.scanned # 0
          BY <4>5, <4>7
        <5>2. q.boot.cursor \in Nat /\ q.boot.cursor < server.next
              /\ q.boot.complete = (q.boot.cursor = 0)
          BY <4>1, <4>3, <4>6, <4>7
        <5> QED
          BY <4>7, <5>1, <5>2 DEF ForwardSound
      <4>9. Reopens(q, db')
        BY <2>7, <4>1, <4>3, <4>6, <4>7 DEF Reopens
      <4>10. Window(q, server) = Window(p, server)
        BY <4>1, <4>5, <4>7 DEF Window, From, To
      <4> QED
        BY <3>1, <4>8, <4>9, <4>10 DEF ProgressSound, Fetched
    <3>4. ProgressSound(q, server) /\ Reopens(q, db')
          /\ Fetched(q, locs \cup db.tomb, request.validity, server)
      BY <3>2, <3>3
    <3>5. next.gen \in Positive /\ next.validity \in 1..server.validity
          /\ next.progress = q /\ next.validity = request.validity
      BY <2>1, <2>3 DEF StageSound
    <3> HIDE DEF q, next
    <3> QED
      BY <2>7, <3>4, <3>5 DEF StagedSound
  <2> HIDE DEF next
  <2> QED
    BY <1>1, <2>7, <2>8, <2>9, <2>10, <2>11, <2>12, WriterKeeps
<1> QED
  BY <1>2, <1>3 DEF StagePage

(* What moving the cursors makes of the rows                               *)
Moves(p) ==
    /\ db'.validity = request.validity /\ db'.gen = db.gen /\ db'.locs = db.locs
    /\ db'.inbox = db.inbox /\ db'.tomb = db.tomb /\ db'.previews = db.previews
    /\ p.kind = "history" =>
           db'.cursor = db.cursor /\ db'.hist = p.next /\ db'.complete = p.complete
    /\ p.kind = "forward" /\ p.boot = NoBoot =>
           db'.cursor = p.scanned /\ db'.hist = db.hist /\ db'.complete = db.complete
    /\ p.kind = "forward" /\ p.boot # NoBoot =>
           db'.cursor = p.scanned /\ db'.hist = p.boot.cursor
           /\ db'.complete = p.boot.complete

LEMMA CommitMoves ==
  ASSUME SyncInv, CommitCursor, Fence
  PROVE  /\ StagedSound(request, server, db) /\ server' = server
         /\ DbTyped' /\ Moves(request.progress)
         /\ db'.cursor \in 0..(server.next - 1) /\ db'.hist \in 0..(server.next - 1)
<1> DEFINE p == request.progress
<1>1. StagedSound(request, server, db) /\ server' = server /\ DbTyped /\ ServerTyped(server)
      /\ db' = [Committed(p) EXCEPT !.validity = request.validity]
  BY Typed DEF CommitCursor, SyncInv, RequestSound
<1>2. request.validity \in Nat /\ server.next \in Nat
  BY <1>1 DEF StagedSound, ServerTyped
<1>3. db.cursor \in 0..(server.next - 1) /\ db.hist \in 0..(server.next - 1)
  BY Typed
<1>4. ASSUME HistorySound(p, server)
      PROVE  DbTyped' /\ Moves(p) /\ db'.cursor \in 0..(server.next - 1)
             /\ db'.hist \in 0..(server.next - 1)
  <2>1. p.kind = "history" /\ p.next \in Nat /\ p.complete \in BOOLEAN
        /\ p.next <= p.hist /\ p.hist < server.next /\ p.hist \in Nat
    BY <1>4 DEF HistorySound, Positive
  <2>2. p.next \in 0..(server.next - 1)
    BY <1>2, <2>1
  <2>3. db' = [db EXCEPT !.hist = p.next, !.complete = p.complete,
                         !.validity = request.validity]
    BY <1>1, <2>1 DEF Committed, DbTyped
  <2> HIDE DEF p
  <2> QED
    BY <1>1, <1>2, <1>3, <2>1, <2>2, <2>3 DEF DbTyped, Moves
<1>5. ASSUME ForwardSound(p, server)
      PROVE  DbTyped' /\ Moves(p) /\ db'.cursor \in 0..(server.next - 1)
             /\ db'.hist \in 0..(server.next - 1)
  <2> DEFINE hist == IF p.boot = NoBoot THEN db.hist ELSE p.boot.cursor
             complete == IF p.boot = NoBoot THEN db.complete ELSE p.boot.complete
  <2>1. p.kind = "forward" /\ p.scanned \in Nat /\ p.scanned < server.next
        /\ p.boot.complete \in BOOLEAN
        /\ (p.boot # NoBoot => p.boot.cursor \in Nat /\ p.boot.cursor < server.next)
    BY <1>5 DEF ForwardSound
  <2>2. p.scanned \in 0..(server.next - 1) /\ hist \in 0..(server.next - 1) /\ hist \in Nat
    BY <1>2, <1>3, <2>1
  <2>3. complete \in BOOLEAN
    BY <1>1, <2>1 DEF DbTyped
  <2>4. db' = [db EXCEPT !.cursor = p.scanned, !.hist = hist, !.complete = complete,
                         !.validity = request.validity]
    BY <1>1, <2>1 DEF Committed, DbTyped
  <2>5. (p.boot = NoBoot => hist = db.hist /\ complete = db.complete)
        /\ (p.boot # NoBoot => hist = p.boot.cursor /\ complete = p.boot.complete)
    OBVIOUS
  <2> HIDE DEF p, hist, complete
  <2>6. DbTyped' /\ db'.cursor = p.scanned /\ db'.hist = hist /\ db'.complete = complete
        /\ db'.validity = request.validity /\ db'.gen = db.gen /\ db'.locs = db.locs
        /\ db'.inbox = db.inbox /\ db'.tomb = db.tomb /\ db'.previews = db.previews
    BY <1>1, <1>2, <2>1, <2>2, <2>3, <2>4 DEF DbTyped
  <2>7. Moves(p)
    BY <2>1, <2>5, <2>6 DEF Moves
  <2> QED
    BY <2>2, <2>6, <2>7
<1> QED
  BY <1>1, <1>4, <1>5 DEF StagedSound, ProgressSound

(* The five ways the cursors move: the first page, the next page, one that *)
(* reopens the history, and a page of it.                                  *)
LEMMA CommitCursorKeeps ==
  ASSUME SyncInv, CommitCursor
  PROVE  SyncInv'
<1> DEFINE p == request.progress
<1>1. request.op = "commit" /\ request' = NoRequest /\ server' = server /\ Answered(Idle)
  BY DEF CommitCursor
<1>2. CASE ~Fence
  BY <1>1, <1>2, SameRows DEF CommitCursor
<1>3. CASE Fence
  <2>1. StagedSound(request, server, db) /\ DbTyped' /\ Moves(p) /\ ServerTyped(server)
        /\ db'.cursor \in 0..(server.next - 1) /\ db'.hist \in 0..(server.next - 1)
    BY <1>3, CommitMoves, Typed
  <2>2. TypeOK /\ CheckpointIsReadable /\ CursorCoversInbox /\ NoResurrection /\ DbTyped
    BY Typed DEF SyncInv, InboxIsCovered
  <2>3. request.validity \in 1..server.validity /\ server.validity \in Nat
        /\ server.next \in Nat /\ server.msgs \subseteq 1..(server.next - 1)
    BY <2>1 DEF StagedSound, ServerTyped
  <2>4. task'.pc = "idle"
    BY <1>1, Waiting DEF Idle
  <2>5. TypeOK'
    <3>1. request.validity \in 0..server.validity
      BY <2>3
    <3>2. db'.gen \in Nat \ {0} /\ db'.complete \in BOOLEAN
      BY <2>1 DEF DbTyped, Positive
    <3>3. {db'.cursor, db'.hist} \subseteq 0..(server.next - 1)
      BY <2>1
    <3> QED
      BY <1>1, <2>1, <2>2, <2>4, <3>1, <3>2, <3>3 DEF TypeOK, NoRequest, Moves
  <2>6. NoResurrection'
    BY <2>1, <2>2 DEF NoResurrection, Moves
  <2>7. db.cursor = p.cursor /\ db.cursor \in Nat /\ db.hist \in Nat
        /\ (db.validity = request.validity \/ db.cursor = 0)
        /\ (p.kind = "history" => p.hist = db.hist)
    BY <1>3, <2>2 DEF Fence, DbTyped
  <2>8. CheckpointIsReadable'
    <3>1. CASE HistorySound(p, server)
      <4>1. p.kind = "history" /\ p.cursor # 0
            /\ (p.next = 0 => p.complete = TRUE) /\ (p.next # 0 => p.complete = FALSE)
        BY <3>1 DEF HistorySound, Positive
      <4> HIDE DEF p
      <4> QED
        BY <2>1, <2>3, <2>7, <4>1 DEF Moves, CheckpointIsReadable
    <3>2. CASE ForwardSound(p, server)
      <4>1. p.kind = "forward" /\ p.cursor <= p.scanned /\ p.scanned \in Nat
            /\ (p.cursor = 0 => p.boot # NoBoot)
            /\ (p.boot # NoBoot =>
                   /\ p.boot.cursor = 0 => p.boot.complete = TRUE
                   /\ p.boot.cursor # 0 => p.boot.complete = FALSE /\ p.scanned # 0)
        BY <3>2 DEF ForwardSound
      <4> HIDE DEF p
      <4>2. CASE p.boot = NoBoot
        BY <2>1, <2>2, <2>3, <2>7, <4>1, <4>2 DEF Moves, CheckpointIsReadable
      <4>3. CASE p.boot # NoBoot
        BY <2>1, <2>3, <4>1, <4>3 DEF Moves, CheckpointIsReadable
      <4> QED
        BY <4>2, <4>3
    <3> QED
      BY <2>1, <3>1, <3>2 DEF StagedSound, ProgressSound
  <2>9. CursorCoversInbox'
    <3> SUFFICES ASSUME request.validity = server.validity,
                        NEW u \in server.msgs, u <= db'.cursor,
                        db'.complete \/ u > db'.hist
                 PROVE  u \in db.locs \cup db.tomb
      BY <1>1, <2>1 DEF CursorCoversInbox, Covered, Moves
    <3>1. u \in Nat /\ u # 0
      BY <2>3
    <3>2. From(p) < u /\ u <= To(p) => u \in db.locs \cup db.tomb
      BY <2>1 DEF StagedSound, Fetched, Window
    <3>3. ASSUME u <= db.cursor, db.complete \/ u > db.hist
          PROVE  u \in db.locs \cup db.tomb
      <4>1. db.validity = server.validity
        BY <2>7, <3>1, <3>3
      <4> QED
        BY <2>2, <3>3, <4>1 DEF CursorCoversInbox, Covered
    <3>4. CASE HistorySound(p, server)
      <4>1. p.kind = "history" /\ p.next \in Nat
            /\ (p.next = 0 => p.complete = TRUE) /\ (p.next # 0 => p.complete = FALSE)
            /\ From(p) = p.next /\ To(p) = p.hist
        BY <3>4 DEF HistorySound, From, To
      <4> HIDE DEF p
      <4>2. u <= db.cursor /\ p.next < u
        BY <2>1, <3>1, <4>1 DEF Moves
      <4> QED
        BY <2>7, <3>1, <3>2, <3>3, <4>1, <4>2
    <3>5. CASE ForwardSound(p, server)
      <4>1. p.kind = "forward" /\ p.scanned \in Nat /\ To(p) = p.scanned
            /\ (p.cursor = 0 => p.boot # NoBoot /\ From(p) = p.boot.cursor)
            /\ (p.cursor # 0 => From(p) = p.cursor)
            /\ (p.boot # NoBoot =>
                   /\ p.boot.cursor \in Nat
                   /\ p.boot.cursor = 0 => p.boot.complete = TRUE
                   /\ p.boot.cursor # 0 => p.boot.complete = FALSE)
        BY <3>5 DEF ForwardSound, From, To
      <4>2. Reopens(p, db)
        BY <2>1 DEF StagedSound
      <4> HIDE DEF p
      <4>3. u <= p.scanned
        BY <2>1, <4>1 DEF Moves
      <4>4. CASE p.cursor = 0
        BY <2>1, <3>1, <3>2, <4>1, <4>3, <4>4 DEF Moves
      <4>5. CASE p.cursor # 0 /\ p.boot # NoBoot
        BY <2>7, <3>1, <3>2, <3>3, <4>1, <4>2, <4>3, <4>5 DEF Reopens
      <4>6. CASE p.cursor # 0 /\ p.boot = NoBoot
        BY <2>1, <2>7, <3>1, <3>2, <3>3, <4>1, <4>3, <4>6 DEF Moves
      <4> QED
        BY <4>4, <4>5, <4>6
    <3> QED
      BY <2>1, <3>4, <3>5 DEF StagedSound, ProgressSound
  <2> QED
    BY <1>1, <2>1, <2>4, <2>5, <2>6, <2>8, <2>9, WriterKeeps
<1> QED
  BY <1>2, <1>3

-----------------------------------------------------------------------------
(* Every step                                                              *)

LEMMA InitSound ==
  ASSUME Init
  PROVE  SyncInv
<1>1. PICK n \in 0..MaxUid, gone \in SUBSET Uids :
          server = [validity |-> 1, next |-> n + 1, msgs |-> (1..n) \ gone]
  BY DEF Init
<1>2. db = [gen |-> 1, validity |-> 0, cursor |-> 0, hist |-> 0, complete |-> FALSE,
            locs |-> {}, inbox |-> {}, archived |-> {}, tomb |-> {}, previews |-> {}]
      /\ task = Idle /\ request = NoRequest
  BY DEF Init
<1>3. n \in Nat
  OBVIOUS
<1>4. server \in [validity : Nat \ {0}, next : Nat \ {0}, msgs : SUBSET Nat]
      /\ server.msgs \subseteq 1..(server.next - 1) /\ server.validity = 1
      /\ 0 \in 0..(server.next - 1) /\ 0 \in 0..server.validity
  <2>1. (1..n) \ gone \in SUBSET Nat /\ n + 1 \in Nat \ {0} /\ (n + 1) - 1 = n
    BY <1>3
  <2>2. server.validity = 1 /\ server.next = n + 1 /\ server.msgs = (1..n) \ gone
    BY <1>1
  <2>3. server \in [validity : Nat \ {0}, next : Nat \ {0}, msgs : SUBSET Nat]
    BY <1>1, <2>1
  <2>4. server.msgs \subseteq 1..(server.next - 1)
    BY <2>1, <2>2
  <2> QED
    BY <1>3, <2>1, <2>2, <2>3, <2>4
<1>5. TypeOK
  BY <1>2, <1>4 DEF TypeOK, Idle, NoRequest
<1>6. CheckpointIsReadable /\ CursorCoversInbox /\ NoResurrection /\ DbTyped
  BY <1>2, <1>4 DEF CheckpointIsReadable, CursorCoversInbox, NoResurrection, DbTyped, Positive
<1>7. TaskSound(task, server, db) /\ RequestSound(request, server, db)
      /\ OnePage(task, request)
  BY <1>2 DEF TaskSound, RequestSound, OnePage, Idle, NoRequest
<1> QED
  BY <1>5, <1>6, <1>7 DEF SyncInv, InboxIsCovered

LEMMA NextKeeps ==
  ASSUME SyncInv, [Next]_vars, InboxAssumption
  PROVE  SyncInv'
<1>1. CASE World
  BY <1>1, ArriveKeeps, RenumberKeeps, UserKeeps, ExpungeKeeps DEF World
<1>2. CASE Fetch
  BY <1>2, OpenInboxKeeps, OpensSecondKeeps, FetchesFirstKeeps, FetchesSecondKeeps,
     SelectsUidsKeeps, FetchesUidsKeeps, SubmitsCommitKeeps, FetchesPreviewsKeeps DEF Fetch
<1>3. CASE Writer
  BY <1>3, StagePageKeeps, CommitCursorKeeps, ApplyPreviewsKeeps DEF Writer
<1>4. CASE BeginPreviews
  BY <1>4, BeginPreviewsKeeps
<1>5. ASSUME NEW b \in BOOLEAN, Begin(b) \/ Drop(b)
      PROVE  SyncInv'
  BY <1>5, BeginKeeps, DropKeeps
<1>6. CASE UNCHANGED vars
  <2>1. UNCHANGED <<server, db, task, request>>
    BY <1>6 DEF vars
  <2> QED
    BY <2>1, Typed, TaskMoves DEF SyncInv
<1> QED
  BY <1>1, <1>2, <1>3, <1>4, <1>5, <1>6 DEF Next

(* The cursors of the code: every page on its way to the writer has every  *)
(* message of the window its cursors will pass, and the rows are sound.    *)
THEOREM SyncIsSound == Spec => []SyncInv
<1>1. Init => SyncInv
  BY InitSound
<1>2. SyncInv /\ [Next]_vars => SyncInv'
  BY NextKeeps, InboxAssumption
<1> QED
  BY <1>1, <1>2, PTL DEF Spec

(* The cursors sync_account commits never pass a message of the server's   *)
(* inbox that is neither here nor deleted here, and load_inbox_checkpoint  *)
(* can read every checkpoint that was committed.                           *)
THEOREM InboxStaysCovered == Spec => []InboxIsCovered
<1>1. SyncInv => InboxIsCovered
  BY DEF SyncInv
<1> QED
  BY <1>1, SyncIsSound, PTL

(* A page fetched before a permanent deletion does not bring the message   *)
(* back, because stage_inbox_page looks for its tombstone.                 *)
THEOREM DeletedStaysDeleted == Spec => []NoResurrection
<1>1. SyncInv => NoResurrection
  BY DEF SyncInv
<1> QED
  BY <1>1, SyncIsSound, PTL

LEMMA RowsStay ==
  ASSUME SyncInv, db'.cursor = db.cursor, db'.hist = db.hist, db'.complete = db.complete
  PROVE  /\ db.cursor <= db'.cursor
         /\ \A u \in db.locs \cap db'.locs : Covered(u) => Covered(u)'
<1>1. db.cursor \in Nat
  BY Typed DEF DbTyped
<1> QED
  BY <1>1 DEF Covered

LEMMA CommitKeepsWork ==
  ASSUME SyncInv, CommitCursor, Fence
  PROVE  /\ db.cursor <= db'.cursor
         /\ \A u \in db.locs \cap db'.locs : Covered(u) => Covered(u)'
<1> DEFINE p == request.progress
<1>1. StagedSound(request, server, db) /\ Moves(p) /\ db'.cursor \in Nat
      /\ db'.hist \in Nat /\ DbTyped
  BY CommitMoves, Typed DEF DbTyped
<1>2. db.cursor = p.cursor /\ db.cursor \in Nat /\ db.hist \in Nat
      /\ (p.kind = "history" => p.hist = db.hist /\ ~db.complete)
  BY <1>1 DEF Fence, DbTyped
<1>3. db.locs \subseteq 1..(server.next - 1) /\ server.next \in Nat
  BY Typed DEF SyncInv, InboxIsCovered, TypeOK, ServerTyped
<1>4. CASE HistorySound(p, server)
  <2>1. p.kind = "history" /\ p.next <= p.hist /\ p.next \in Nat
    BY <1>4 DEF HistorySound
  <2>2. db'.cursor = db.cursor /\ db'.hist <= db.hist /\ ~db.complete
    BY <1>1, <1>2, <2>1 DEF Moves
  <2> HIDE DEF p
  <2>3. ASSUME NEW u \in db.locs, Covered(u)
        PROVE  Covered(u)'
    <3>1. u \in Nat /\ u <= db.cursor /\ u > db.hist
      BY <1>3, <2>2, <2>3 DEF Covered
    <3> QED
      BY <1>1, <1>2, <2>2, <3>1 DEF Covered
  <2> QED
    BY <1>2, <2>2, <2>3
<1>5. CASE ForwardSound(p, server)
  <2>1. p.kind = "forward" /\ p.scanned \in Nat /\ p.cursor <= p.scanned
        /\ (p.cursor = 0 => p.boot # NoBoot)
    BY <1>5 DEF ForwardSound
  <2>2. db'.cursor = p.scanned /\ db.cursor <= db'.cursor
    BY <1>1, <1>2, <2>1 DEF Moves
  <2>3. p.boot # NoBoot /\ p.cursor # 0 =>
            \A u \in db.locs : db'.hist < u
    BY <1>1, <2>1 DEF StagedSound, Reopens, Moves
  <2>4. p.boot = NoBoot => db'.hist = db.hist /\ db'.complete = db.complete
    BY <1>1, <2>1 DEF Moves
  <2> HIDE DEF p
  <2>5. ASSUME NEW u \in db.locs, Covered(u)
        PROVE  Covered(u)'
    <3>1. u \in Nat /\ u # 0 /\ u <= db.cursor /\ (db.complete \/ u > db.hist)
      BY <1>3, <2>5 DEF Covered
    <3>2. p.cursor # 0 /\ u <= db'.cursor
      BY <1>1, <1>2, <2>2, <3>1
    <3>3. CASE p.boot = NoBoot
      BY <2>4, <3>1, <3>2, <3>3 DEF Covered
    <3>4. CASE p.boot # NoBoot
      BY <1>1, <2>3, <3>1, <3>2, <3>4 DEF Covered
    <3> QED
      BY <3>3, <3>4
  <2> QED
    BY <2>2, <2>5
<1> QED
  BY <1>1, <1>4, <1>5 DEF StagedSound, ProgressSound

LEMMA StepKeepsWork ==
  ASSUME SyncInv, [Next]_vars
  PROVE  [/\ db.cursor <= db'.cursor
          /\ \A u \in db.locs \cap db'.locs : Covered(u) => Covered(u)']_db
<1>1. CASE CommitCursor /\ Fence
  BY <1>1, CommitKeepsWork
<1>2. ASSUME ~(CommitCursor /\ Fence)
      PROVE  db' = db \/ (/\ db'.cursor = db.cursor /\ db'.hist = db.hist
                          /\ db'.complete = db.complete)
  <2>1. DbTyped
    BY Typed
  <2>2. ASSUME World
        PROVE  db' = db \/ (/\ db'.cursor = db.cursor /\ db'.hist = db.hist
                            /\ db'.complete = db.complete)
    BY <2>1, <2>2 DEF World, Arrive, Renumber, Reconfigure, Expunge, Archive, Delete, DbTyped
  <2>3. ASSUME Fetch
        PROVE  db' = db
    BY <2>3 DEF Fetch, OpenInbox, OpensSecond, FetchesFirst, FetchesSecond, SelectsUids,
                HistoryOr, Selected, SubmitPage, FetchesUids, SubmitsCommit, FetchesPreviews,
                Fail, Rest
  <2>4. ASSUME StagePage \/ ApplyPreviews
        PROVE  db' = db \/ (/\ db'.cursor = db.cursor /\ db'.hist = db.hist
                            /\ db'.complete = db.complete)
    BY <2>1, <2>4 DEF StagePage, Staged, ApplyPreviews, DbTyped
  <2>5. ASSUME BeginPreviews \/ \E b \in BOOLEAN : Begin(b) \/ Drop(b)
        PROVE  db' = db
    BY <2>5 DEF BeginPreviews, Begin, Drop, Rest
  <2>6. ASSUME CommitCursor
        PROVE  db' = db
    BY <1>2, <2>6 DEF CommitCursor
  <2>7. ASSUME UNCHANGED vars
        PROVE  db' = db
    BY <2>7 DEF vars
  <2> QED
    BY <2>2, <2>3, <2>4, <2>5, <2>6, <2>7 DEF Next, Writer
<1> QED
  BY <1>1, <1>2, RowsStay

(* Syncing does not start over: no step moves the forward cursor back or   *)
(* opens the history again above a message that is here and was passed.    *)
THEOREM WorkStaysDone == Spec => WorkIsKept
<1>1. SyncInv /\ [Next]_vars =>
          [/\ db.cursor <= db'.cursor
           /\ \A u \in db.locs \cap db'.locs : Covered(u) => Covered(u)']_db
  BY StepKeepsWork
<1> QED
  BY <1>1, SyncIsSound, PTL DEF Spec, WorkIsKept
=============================================================================
