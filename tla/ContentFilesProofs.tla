-------------------------- MODULE ContentFilesProofs --------------------------
(***************************************************************************)
(* Proofs about ContentFiles, for any messages, keys, limits and numbers   *)
(* of faults: no file that a row names is removed, every file has an       *)
(* owner, and reservations stay within their limit.                        *)
(***************************************************************************)
EXTENDS ContentFiles, FiniteSetTheorems, TLAPS

-----------------------------------------------------------------------------
(* The inductive invariant                                                 *)

RowsTyped ==
    /\ row \in [Messages -> [alive : BOOLEAN, current : BOOLEAN, gen : Nat,
                             keys : SUBSET Keys]]
    /\ \A m \in Messages : ~row[m].alive => row[m].keys = {}

(* No batch is of a generation that its message has not reached.           *)
BatchesTyped ==
    /\ \A b \in staged : b \in [msg : Mail, gen : Nat, keys : SUBSET Keys, expired : BOOLEAN]
    /\ \A b \in staged : b.gen <= row[b.msg].gen
    /\ Cardinality(Staged) <= MaxStaged

QueueTyped == gc \in Seq(Keys) /\ IsInjective(gc)

FetchTyped ==
    /\ fetch \in [pc : {"idle", "fetching", "published", "waiting"},
                  msg : Mail \cup {NoMessage}, keys : SUBSET Keys]
    /\ fetch.pc \in {"idle", "fetching"} => fetch.keys = {}
    /\ fetch.pc # "idle" => fetch.msg \in Mail
    /\ import \in [pc : {"none", "queued", "reserved", "done", "failed"},
                   retained : BOOLEAN]
    /\ import.pc # "none" <=> fetch.pc = "waiting"
    /\ import.pc = "none" => import = NoImport

DraftTyped ==
    /\ draft \in [pc : {"idle", "queued", "saved", "failed"},
                  msg : Drafts \cup {NoMessage}, keys : SUBSET Keys]
    /\ draft.pc = "idle" => draft.keys = {}
    /\ draft.pc # "idle" => draft.msg \in Drafts

Typed ==
    /\ disk \in SUBSET Keys /\ lost \in SUBSET Keys
    /\ RowsTyped /\ BatchesTyped /\ QueueTyped /\ FetchTyped /\ DraftTyped
    /\ janitor \in [pc : {"delay", "submitted", "asleep"}, wake : BOOLEAN]

Unowned(S) == \A k \in S : ~Owned(k)

(* The files of a fetch are on disk and its own until its import reserves  *)
(* them; from then on the reservation owns them, and it is the only one of *)
(* the generation that the import will finalize.                           *)
Guarding == fetch.pc = "published" \/ import.pc = "queued"

Reserved ==
    /\ row[fetch.msg].alive
    /\ \A b \in staged : Mine(b) => b.keys = fetch.keys
    /\ \A k \in fetch.keys : k \in Staged /\ ~Referenced(k) /\ k \notin ToSet(gc)

(* Guards that take files away take none that a row names; guards that     *)
(* leave them leave them to an owner.                                      *)
FetchSafe ==
    /\ fetch.keys \cap draft.keys = {}
    /\ Guarding => fetch.keys \subseteq disk /\ Unowned(fetch.keys)
    /\ import.pc = "reserved" => fetch.keys \subseteq disk /\ Reserved
    /\ import.pc = "done" => import.retained
    /\ import.pc \in {"queued", "reserved"} => ~import.retained
    /\ import.pc = "failed" /\ ~import.retained => \A k \in fetch.keys : ~Referenced(k)
    /\ import.retained => \A k \in fetch.keys \cap disk : Owned(k)

DraftSafe ==
    /\ \A m \in Mail : draft.keys \cap row[m].keys = {}
    /\ draft.pc = "queued" => draft.keys \subseteq disk /\ Unowned(draft.keys)
    /\ draft.pc = "saved" => \A k \in draft.keys : Referenced(k)
    /\ draft.pc = "failed" /\ "draft" \notin Doubtful => Unowned(draft.keys)

MailFilesExist == \A m \in Mail : row[m].keys \subseteq disk

DraftFilesExist == "draft" \notin Doubtful => \A d \in Drafts : row[d].keys \subseteq disk

Inv ==
    /\ Typed /\ FetchSafe /\ DraftSafe
    /\ MailFilesExist /\ DraftFilesExist /\ NothingLeaks

-----------------------------------------------------------------------------
(* Queues and sets of keys                                                 *)

LEMMA IntervalSize ==
  ASSUME NEW n \in Nat
  PROVE  Cardinality(1..n) = n
BY FS_Interval

(* The keys of a queue, one place each.                                    *)
LEMMA SetToSeqLists ==
  ASSUME NEW S, IsFiniteSet(S)
  PROVE  /\ SetToSeq(S) \in [1..Cardinality(S) -> S]
         /\ IsInjective(SetToSeq(S))
         /\ \A k \in S : \E i \in 1..Cardinality(S) : SetToSeq(S)[i] = k
<1>1. PICK f : f \in Bijection(1..Cardinality(S), S)
  BY FS_CardinalityType DEF ExistsBijection
<1>2. f \in [1..Cardinality(S) -> S] /\ IsInjective(f)
  BY <1>1 DEF Bijection, Injection, IsInjective
<1>3. SetToSeq(S) \in [1..Cardinality(S) -> S] /\ IsInjective(SetToSeq(S))
  BY <1>2 DEF SetToSeq
<1>4. SetToSeq(S) \in Injection(1..Cardinality(S), S)
  BY <1>3 DEF Injection, IsInjective
<1>5. Cardinality(S) \in Nat
  BY FS_CardinalityType
<1>6. Cardinality(1..Cardinality(S)) = Cardinality(S)
  BY <1>5, IntervalSize
<1>7. SetToSeq(S) \in Surjection(1..Cardinality(S), S)
  BY <1>4, <1>6, FS_Injection
<1> QED
  BY <1>3, <1>7 DEF Surjection

(* What INSERT OR IGNORE leaves in file_gc.                                *)
LEMMA QueuedAdds ==
  ASSUME FilesAssumption, NEW q \in Seq(Keys), IsInjective(q), NEW S \in SUBSET Keys
  PROVE  /\ Queued(q, S) \in Seq(Keys) /\ IsInjective(Queued(q, S))
         /\ ToSet(Queued(q, S)) = ToSet(q) \cup S
<1> DEFINE T == S \ ToSet(q)
           n == Cardinality(T)
           t == SetToSeq(T)
<1>1. IsFiniteSet(T)
  <2>1. T \in SUBSET Keys
    OBVIOUS
  <2> QED
    BY <2>1, FS_Subset DEF FilesAssumption
<1>2. n \in Nat
  BY <1>1, FS_CardinalityType
<1>3. /\ t \in [1..n -> T] /\ IsInjective(t)
      /\ \A k \in T : \E i \in 1..n : t[i] = k
  <2> HIDE DEF T
  <2> QED
    BY <1>1, SetToSeqLists
<1>4. T \in SUBSET S /\ Queued(q, S) = q \o t
  BY DEF Queued
<1>5. \A k \in T : k \notin ToSet(q)
  OBVIOUS
<1>6. \A k \in S : k \in T \/ k \in ToSet(q)
  OBVIOUS
<1> HIDE DEF T, n, t
<1>7. t \in Seq(Keys) /\ Len(t) = n
  BY <1>2, <1>3, <1>4
<1> DEFINE r == q \o t
<1>8. /\ r \in Seq(Keys) /\ Len(r) = Len(q) + n
      /\ \A i \in 1..Len(q) : r[i] = q[i]
      /\ \A i \in (Len(q) + 1)..(Len(q) + n) : i - Len(q) \in 1..n /\ r[i] = t[i - Len(q)]
  BY <1>2, <1>7
<1>9. Len(q) \in Nat /\ DOMAIN q = 1..Len(q) /\ DOMAIN t = 1..n
  BY <1>3
<1>10. DOMAIN r = 1..(Len(q) + n)
  BY <1>8
<1> HIDE DEF r
<1>11. IsInjective(r)
  <2> SUFFICES ASSUME NEW i \in DOMAIN r, NEW j \in DOMAIN r, r[i] = r[j]
               PROVE  i = j
    BY DEF IsInjective
  <2>1. CASE i \in 1..Len(q) /\ j \in 1..Len(q)
    BY <2>1, <1>8, <1>9 DEF IsInjective
  <2>2. CASE i \in (Len(q) + 1)..(Len(q) + n) /\ j \in (Len(q) + 1)..(Len(q) + n)
    <3>1. t[i - Len(q)] = t[j - Len(q)] /\ i - Len(q) \in 1..n /\ j - Len(q) \in 1..n
      BY <2>2, <1>8
    <3>2. i - Len(q) = j - Len(q)
      BY <3>1, <1>3, <1>9 DEF IsInjective
    <3> QED
      BY <3>2, <2>2, <1>2, <1>9
  <2>3. ASSUME NEW a \in 1..Len(q), NEW b \in (Len(q) + 1)..(Len(q) + n)
        PROVE  r[a] # r[b]
    <3>1. r[a] \in ToSet(q)
      BY <1>8, <1>9 DEF ToSet
    <3>2. r[b] \in T
      BY <1>3, <1>8
    <3> QED
      BY <3>1, <3>2, <1>5
  <2>4. i \in 1..Len(q) \/ i \in (Len(q) + 1)..(Len(q) + n)
    BY <1>2, <1>9, <1>10
  <2>5. j \in 1..Len(q) \/ j \in (Len(q) + 1)..(Len(q) + n)
    BY <1>2, <1>9, <1>10
  <2> QED
    BY <2>1, <2>2, <2>3, <2>4, <2>5
<1>12. ToSet(r) = ToSet(q) \cup S
  <2>1. ASSUME NEW i \in DOMAIN r
        PROVE  r[i] \in ToSet(q) \cup S
    <3>1. CASE i \in 1..Len(q)
      BY <3>1, <1>8, <1>9 DEF ToSet
    <3>2. CASE i \in (Len(q) + 1)..(Len(q) + n)
      BY <3>2, <1>8, <1>3, <1>4
    <3> QED
      BY <3>1, <3>2, <1>2, <1>9, <1>10
  <2>2. ASSUME NEW k \in ToSet(q)
        PROVE  k \in ToSet(r)
    <3>1. PICK i \in 1..Len(q) : q[i] = k
      BY <2>2, <1>9 DEF ToSet
    <3>2. i \in DOMAIN r /\ r[i] = k
      BY <3>1, <1>2, <1>8, <1>9, <1>10
    <3> QED
      BY <3>2 DEF ToSet
  <2>3. ASSUME NEW k \in T
        PROVE  k \in ToSet(r)
    <3>1. PICK i \in 1..n : t[i] = k
      BY <2>3, <1>3
    <3>2. Len(q) + i \in (Len(q) + 1)..(Len(q) + n) /\ (Len(q) + i) - Len(q) = i
      BY <1>2, <1>9
    <3>3. r[Len(q) + i] = k
      BY <3>1, <3>2, <1>8
    <3>4. Len(q) + i \in DOMAIN r
      BY <3>2, <1>2, <1>9, <1>10
    <3> QED
      BY <3>3, <3>4 DEF ToSet
  <2>4. \A k \in ToSet(r) : \E i \in DOMAIN r : r[i] = k
    BY DEF ToSet
  <2> QED
    BY <2>1, <2>2, <2>3, <2>4, <1>6
<1> QED
  BY <1>4, <1>8, <1>11, <1>12 DEF r

(* What a run of the collector leaves in it.                               *)
LEMMA RemainingKeeps ==
  ASSUME FilesAssumption, QueueTyped, NEW S \in SUBSET ToSet(gc), NEW q \in Remaining(S)
  PROVE  q \in Seq(Keys) /\ IsInjective(q) /\ ToSet(q) = S
<1>1. ToSet(gc) \subseteq Keys
  BY DEF QueueTyped, ToSet
<1>2. IsFiniteSet(S)
  BY <1>1, FS_Subset DEF FilesAssumption
<1>3. Cardinality(S) \in Nat
  BY <1>2, FS_CardinalityType
<1>4. /\ q \in [1..Cardinality(S) -> S]
      /\ \A i, j \in DOMAIN q : i < j => Position(q[i]) < Position(q[j])
  BY DEF Remaining
<1>5. q \in Seq(Keys)
  BY <1>1, <1>3, <1>4
<1>6. \A k \in ToSet(gc) : Position(k) \in Int
  <2>1. \A k \in ToSet(gc) : Position(k) \in DOMAIN gc
    BY DEF Position, ToSet
  <2> QED
    BY <2>1 DEF QueueTyped
<1>7. IsInjective(q)
  <2> SUFFICES ASSUME NEW i \in 1..Cardinality(S), NEW j \in 1..Cardinality(S), q[i] = q[j]
               PROVE  i = j
    BY <1>4 DEF IsInjective
  <2>1. Position(q[i]) \in Int /\ Position(q[j]) = Position(q[i])
    BY <1>4, <1>6
  <2>2. ~(i < j) /\ ~(j < i)
    BY <1>4, <2>1
  <2> QED
    BY <2>2, <1>3
<1>8. q \in Injection(1..Cardinality(S), S)
  BY <1>4, <1>7 DEF Injection, IsInjective
<1>9. q \in Surjection(1..Cardinality(S), S)
  <2>1. Cardinality(1..Cardinality(S)) = Cardinality(S)
    BY <1>3, IntervalSize
  <2> QED
    BY <1>2, <1>8, <2>1, FS_Injection
<1>10. ToSet(q) = S
  BY <1>4, <1>9 DEF Surjection, ToSet
<1> QED
  BY <1>5, <1>7, <1>10

(* Candidates are keys of the queue.                                       *)
LEMMA CandidatesAreQueued ==
  ASSUME FilesAssumption, QueueTyped
  PROVE  Candidates \subseteq ToSet(gc)
<1>1. Batch \in Nat /\ Len(gc) \in Nat
  BY DEF FilesAssumption, QueueTyped
<1>2. Min({Batch, Len(gc)}) \in Nat /\ Min({Batch, Len(gc)}) <= Len(gc)
  <2>1. \E x \in {Batch, Len(gc)} : \A y \in {Batch, Len(gc)} : x <= y
    <3>1. CASE Batch <= Len(gc)
      BY <1>1, <3>1
    <3>2. CASE ~(Batch <= Len(gc))
      BY <1>1, <3>2
    <3> QED
      BY <3>1, <3>2
  <2>2. /\ Min({Batch, Len(gc)}) \in {Batch, Len(gc)}
        /\ \A y \in {Batch, Len(gc)} : Min({Batch, Len(gc)}) <= y
    BY <2>1 DEF Min
  <2> QED
    BY <1>1, <2>2
<1>3. DOMAIN gc = 1..Len(gc)
  BY DEF QueueTyped
<1> QED
  BY <1>1, <1>2, <1>3 DEF Candidates, ToSet

-----------------------------------------------------------------------------
(* What a step leaves alone                                                *)

LEMMA DataStays ==
  ASSUME UNCHANGED <<row, staged, gc>>
  PROVE  /\ \A k : (Referenced(k) <=> Referenced(k)') /\ (Owned(k) <=> Owned(k)')
         /\ Staged' = Staged
         /\ RowsTyped => RowsTyped'
         /\ BatchesTyped => BatchesTyped'
         /\ QueueTyped => QueueTyped'
<1>1. row' = row /\ staged' = staged /\ gc' = gc
  OBVIOUS
<1>2. \A k : (Referenced(k) <=> Referenced(k)')
  BY <1>1 DEF Referenced
<1>3. Staged' = Staged
  BY <1>1 DEF Staged
<1>4. \A k : (Owned(k) <=> Owned(k)')
  BY <1>1, <1>2, <1>3 DEF Owned
<1>5. RowsTyped => RowsTyped'
  BY <1>1 DEF RowsTyped
<1>6. BatchesTyped => BatchesTyped'
  BY <1>1, <1>3 DEF BatchesTyped
<1>7. QueueTyped => QueueTyped'
  BY <1>1 DEF QueueTyped
<1> QED
  BY <1>2, <1>3, <1>4, <1>5, <1>6, <1>7

LEMMA TasksStay ==
  /\ UNCHANGED <<fetch, import>> => (FetchTyped => FetchTyped')
  /\ UNCHANGED draft => (DraftTyped => DraftTyped')
<1>1. ASSUME UNCHANGED <<fetch, import>>, FetchTyped
      PROVE  FetchTyped'
  BY <1>1 DEF FetchTyped
<1>2. ASSUME UNCHANGED draft, DraftTyped
      PROVE  DraftTyped'
  BY <1>2 DEF DraftTyped
<1> QED
  BY <1>1, <1>2

(* A key that no row names is in no row.                                   *)
LEMMA NoRowNames ==
  ASSUME RowsTyped, NEW k, ~Referenced(k), NEW m \in Messages
  PROVE  k \notin row[m].keys
BY DEF RowsTyped, Referenced

(* The fetch does not move and what happens to its files is nothing: none  *)
(* of them finds an owner, and none that is there loses its owner.         *)
LEMMA FetchStandsBy ==
  ASSUME FetchSafe, UNCHANGED <<fetch, import>>, import.pc # "reserved",
         fetch.keys \cap draft.keys' = {},
         Guarding => fetch.keys \subseteq disk',
         \A k \in fetch.keys : Owned(k)' => Owned(k),
         \A k \in fetch.keys : Referenced(k)' => Referenced(k),
         \A k \in fetch.keys \cap disk' : k \in disk /\ (Owned(k) => Owned(k)')
  PROVE  FetchSafe'
<1>1. fetch' = fetch /\ import' = import
  OBVIOUS
<1>2. Guarding' => Guarding
  BY <1>1 DEF Guarding
<1>3. Guarding' => fetch.keys \subseteq disk' /\ Unowned(fetch.keys)'
  <2>1. ASSUME Guarding
        PROVE  fetch.keys \subseteq disk' /\ \A k \in fetch.keys : ~Owned(k)'
    BY <2>1 DEF FetchSafe, Unowned
  <2> QED
    BY <1>1, <1>2, <2>1 DEF Unowned
<1>4. import.retained => \A k \in fetch.keys \cap disk' : Owned(k)'
  BY DEF FetchSafe
<1>5. /\ import.pc = "done" => import.retained
      /\ import.pc \in {"queued", "reserved"} => ~import.retained
      /\ import.pc = "failed" /\ ~import.retained => \A k \in fetch.keys : ~Referenced(k)'
  BY DEF FetchSafe
<1> QED
  BY <1>1, <1>3, <1>4, <1>5 DEF FetchSafe

(* Files come and go that are not the fetch's.                             *)
LEMMA FetchOutlasts ==
  ASSUME Typed, FetchSafe, UNCHANGED <<row, staged, gc, fetch, import>>,
         fetch.keys \cap draft.keys' = {},
         \A k \in fetch.keys : k \in disk <=> k \in disk'
  PROVE  FetchSafe'
<1>1. /\ fetch' = fetch /\ import' = import /\ row' = row /\ staged' = staged
      /\ gc' = gc /\ Staged' = Staged
  BY DataStays
<1>2. \A k : (Referenced(k) <=> Referenced(k)') /\ (Owned(k) <=> Owned(k)')
  BY DataStays
<1>3. Guarding => fetch.keys \subseteq disk'
  BY DEF FetchSafe
<1>4. CASE import.pc # "reserved"
  BY <1>2, <1>3, <1>4, FetchStandsBy
<1>5. CASE import.pc = "reserved"
  <2>1. ~import.retained /\ ~Guarding
    BY <1>5 DEF FetchSafe, Guarding, Typed, FetchTyped
  <2>2. Reserved'
    <3>1. Reserved
      BY <1>5 DEF FetchSafe
    <3> QED
      BY <1>1, <1>2, <3>1 DEF Reserved, Mine
  <2>3. ~Guarding'
    BY <1>1, <2>1 DEF Guarding
  <2>4. fetch.keys \subseteq disk'
    BY <1>5 DEF FetchSafe
  <2> QED
    BY <1>1, <1>5, <2>1, <2>2, <2>3, <2>4 DEF FetchSafe
<1> QED
  BY <1>4, <1>5

(* The same of the composer's save.                                        *)
LEMMA DraftStandsBy ==
  ASSUME DraftSafe, UNCHANGED draft,
         \A m \in Mail : draft.keys \cap row[m]'.keys = {},
         draft.pc = "queued" => draft.keys \subseteq disk',
         \A k \in draft.keys : Owned(k)' => Owned(k),
         \A k \in draft.keys : Referenced(k) => Referenced(k)'
  PROVE  DraftSafe'
<1>1. draft' = draft
  OBVIOUS
<1>2. /\ draft.pc = "queued" => Unowned(draft.keys)'
      /\ draft.pc = "failed" /\ "draft" \notin Doubtful => Unowned(draft.keys)'
  <2>1. ASSUME Unowned(draft.keys)
        PROVE  \A k \in draft.keys : ~Owned(k)'
    BY <2>1 DEF Unowned
  <2>2. Unowned(draft.keys) => Unowned(draft.keys)'
    BY <1>1, <2>1 DEF Unowned
  <2> QED
    BY <2>2 DEF DraftSafe
<1>3. draft.pc = "saved" => \A k \in draft.keys : Referenced(k)'
  BY DEF DraftSafe
<1> QED
  BY <1>1, <1>2, <1>3 DEF DraftSafe

(* Tasks and the janitor go on while no file, row, batch or queue changes. *)
LEMMA TasksMove ==
  ASSUME Inv, UNCHANGED <<disk, row, staged, gc, lost, draft>>,
         janitor' \in [pc : {"delay", "submitted", "asleep"}, wake : BOOLEAN],
         FetchTyped', fetch.keys \subseteq fetch'.keys, FetchSafe'
  PROVE  Inv'
<1>1. disk' = disk /\ row' = row /\ lost' = lost /\ draft' = draft
  OBVIOUS
<1>2. Typed'
  BY DataStays, TasksStay DEF Inv, Typed
<1>3. DraftSafe'
  BY <1>1, DataStays, DraftStandsBy DEF Inv, DraftSafe
<1>4. MailFilesExist' /\ DraftFilesExist'
  BY <1>1 DEF Inv, MailFilesExist, DraftFilesExist
<1>5. NothingLeaks'
  BY <1>1, DataStays DEF Inv, NothingLeaks
<1> QED
  BY <1>2, <1>3, <1>4, <1>5 DEF Inv

-----------------------------------------------------------------------------
(* Each action preserves the invariant                                     *)

LEMMA JanitorTyped ==
  ASSUME Typed
  PROVE  Wake => janitor' \in [pc : {"delay", "submitted", "asleep"}, wake : BOOLEAN]
BY DEF Typed, Wake

LEMMA StartFetchSafe ==
  ASSUME Inv, NEW m \in Mail, StartFetch(m)
  PROVE  Inv'
<1>1. /\ fetch = Idle /\ import = NoImport /\ import' = import
      /\ fetch' = [pc |-> "fetching", msg |-> m, keys |-> {}]
      /\ UNCHANGED <<disk, row, staged, gc, lost, draft, janitor>>
  BY DEF StartFetch, data, bounds, Idle
<1>2. FetchTyped'
  BY <1>1 DEF FetchTyped, NoImport, Inv, Typed
<1>3. FetchSafe'
  BY <1>1 DEF FetchSafe, Guarding, NoImport, Unowned
<1>4. fetch.keys \subseteq fetch'.keys
  BY <1>1 DEF Idle
<1> QED
  BY <1>1, <1>2, <1>3, <1>4, TasksMove DEF Inv, Typed

LEMMA FetchFailsSafe ==
  ASSUME Inv, FetchFails
  PROVE  Inv'
<1>1. /\ fetch.pc = "fetching" /\ import' = import /\ fetch' = Idle /\ Wake
      /\ UNCHANGED <<disk, row, staged, gc, lost, draft>>
  BY DEF FetchFails, Finishes, data, bounds
<1>2. import = NoImport /\ fetch.keys = {}
  BY <1>1 DEF Inv, Typed, FetchTyped
<1>3. FetchTyped' /\ FetchSafe'
  BY <1>1, <1>2 DEF FetchTyped, FetchSafe, Guarding, Unowned, Idle, NoImport, Inv, Typed
<1> QED
  BY <1>1, <1>2, <1>3, JanitorTyped, TasksMove DEF Inv

LEMMA SubmitImportSafe ==
  ASSUME Inv, SubmitImport
  PROVE  Inv'
<1>1. /\ fetch.pc = "published" /\ fetch' = [fetch EXCEPT !.pc = "waiting"]
      /\ import' = [pc |-> "queued", retained |-> FALSE]
      /\ UNCHANGED <<disk, row, staged, gc, lost, draft, janitor>>
  BY DEF SubmitImport, NoImport, data, bounds
<1>2. FetchTyped'
  BY <1>1 DEF FetchTyped, Inv, Typed
<1>3. fetch'.keys = fetch.keys /\ fetch'.pc = "waiting"
  BY <1>1 DEF FetchTyped, Inv, Typed
<1>4. fetch.keys \subseteq disk /\ (\A k \in fetch.keys : ~Owned(k)) /\ fetch.keys \cap draft.keys = {}
  BY <1>1 DEF Inv, FetchSafe, Guarding, Unowned
<1>5. Unowned(fetch.keys)'
  BY <1>1, <1>3, <1>4, DataStays DEF Unowned
<1>6. FetchSafe'
  BY <1>1, <1>3, <1>4, <1>5 DEF FetchSafe
<1> QED
  BY <1>1, <1>2, <1>3, <1>6, TasksMove DEF Inv, Typed

LEMMA SweepsSafe ==
  ASSUME Inv, Sweeps
  PROVE  Inv'
<1>1. /\ UNCHANGED <<disk, row, staged, gc, lost, fetch, import, draft>>
      /\ janitor' \in [pc : {"delay", "submitted", "asleep"}, wake : BOOLEAN]
  <2>1. CASE DelayEnds
    BY <2>1 DEF DelayEnds, data, bounds
  <2>2. CASE GcBusy
    BY <2>2 DEF GcBusy, data, bounds, Inv, Typed
  <2>3. CASE Wakes
    BY <2>3 DEF Wakes, data, bounds
  <2> QED
    BY <2>1, <2>2, <2>3 DEF Sweeps
<1>2. FetchTyped'
  BY <1>1, TasksStay DEF Inv, Typed
<1>3. FetchSafe'
  BY <1>1, FetchOutlasts DEF Inv, FetchSafe
<1> QED
  BY <1>1, <1>2, <1>3, TasksMove

LEMMA PublishContentSafe ==
  ASSUME Inv, PublishContent
  PROVE  Inv'
<1>1. PICK keys \in SUBSET Fresh :
          disk' = disk \cup keys /\ fetch' = [fetch EXCEPT !.pc = "published", !.keys = keys]
  BY DEF PublishContent
<1>2. /\ fetch.pc = "fetching" /\ import' = import /\ import = NoImport
      /\ row' = row /\ draft' = draft /\ lost' = lost
      /\ UNCHANGED <<row, staged, gc, janitor>>
  BY DEF PublishContent, bounds, Inv, Typed, FetchTyped
<1>3. \A k \in keys : k \in Keys /\ k \notin draft.keys /\ ~Owned(k)
  BY DEF Fresh
<1>4. fetch'.pc = "published" /\ fetch'.keys = keys /\ fetch.keys = {} /\ FetchTyped'
  BY <1>1, <1>2, <1>3 DEF Inv, Typed, FetchTyped
<1>5. \A k : (Referenced(k) <=> Referenced(k)') /\ (Owned(k) <=> Owned(k)')
  BY <1>2, DataStays
<1>6. Typed'
  BY <1>1, <1>2, <1>3, <1>4, DataStays, TasksStay DEF Inv, Typed
<1>7. FetchSafe'
  <2>1. Unowned(keys)'
    BY <1>3, <1>5 DEF Unowned
  <2>2. Unowned(fetch.keys)'
    BY <1>4, <2>1 DEF Unowned
  <2> QED
    BY <1>1, <1>2, <1>3, <1>4, <2>2 DEF FetchSafe, NoImport
<1>8. DraftSafe'
  BY <1>1, <1>2, <1>5, DraftStandsBy DEF Inv, DraftSafe
<1>9. MailFilesExist' /\ DraftFilesExist'
  BY <1>1, <1>2 DEF Inv, MailFilesExist, DraftFilesExist
<1>10. NothingLeaks'
  BY <1>1, <1>2, <1>4, <1>5 DEF Inv, NothingLeaks
<1> QED
  BY <1>6, <1>7, <1>8, <1>9, <1>10 DEF Inv

(* Files that no row names and no save needs go, or nothing goes.          *)
LEMMA FilesGo ==
  ASSUME Inv, UNCHANGED <<row, staged, gc, lost>>, disk' \in SUBSET disk,
         \A m \in Mail : row[m].keys \cap disk \subseteq disk',
         "draft" \notin Doubtful => \A d \in Drafts : row[d].keys \cap disk \subseteq disk',
         \A k \in fetch.keys \cup draft.keys :
             k \in disk' => Owned(k) \/ k \in fetch'.keys \cup draft'.keys,
         janitor' \in [pc : {"delay", "submitted", "asleep"}, wake : BOOLEAN],
         FetchTyped', FetchSafe', DraftTyped', DraftSafe'
  PROVE  Inv'
<1>1. row' = row /\ lost' = lost
  OBVIOUS
<1>2. Typed'
  BY DataStays DEF Inv, Typed
<1>3. MailFilesExist' /\ DraftFilesExist'
  BY <1>1 DEF Inv, MailFilesExist, DraftFilesExist
<1>4. NothingLeaks'
  BY <1>1, DataStays DEF Inv, NothingLeaks
<1> QED
  BY <1>2, <1>3, <1>4 DEF Inv

LEMMA NoFetchIsSafe ==
  ASSUME fetch' = Idle, import' = NoImport
  PROVE  FetchTyped' /\ FetchSafe'
BY DEF FetchTyped, FetchSafe, Guarding, Unowned, Idle, NoImport

LEMMA NoDraftIsSafe ==
  ASSUME draft' = Idle
  PROVE  DraftTyped' /\ DraftSafe'
BY DEF DraftTyped, DraftSafe, Unowned, Idle

(* The save goes on while the data stay.                                   *)
LEMMA DraftOutlasts ==
  ASSUME Inv, UNCHANGED <<row, staged, gc, draft>>,
         draft.pc = "queued" => draft.keys \subseteq disk'
  PROVE  DraftTyped' /\ DraftSafe'
<1>1. row' = row
  OBVIOUS
<1> QED
  BY <1>1, DataStays, TasksStay, DraftStandsBy DEF Inv, Typed, DraftSafe

LEMMA ImportRefusedSafe ==
  ASSUME Inv, ImportRefused
  PROVE  Inv'
<1>1. /\ fetch.pc = "published" /\ fetch' = Idle /\ import' = import /\ Wake
      /\ disk' = disk \ fetch.keys
      /\ draft' = draft /\ UNCHANGED <<row, staged, gc, lost, draft>>
  BY DEF ImportRefused, Finishes, bounds
<1>2. import' = NoImport
  BY <1>1 DEF Inv, Typed, FetchTyped
<1>3. /\ \A k \in fetch.keys : ~Owned(k)
      /\ fetch.keys \cap draft.keys = {}
  BY <1>1 DEF Inv, FetchSafe, Guarding, Unowned
<1>4. \A m \in Messages : row[m].keys \cap fetch.keys = {}
  BY <1>3, NoRowNames DEF Inv, Typed, Owned
<1>5. draft.pc = "queued" => draft.keys \subseteq disk'
  BY <1>1, <1>3 DEF Inv, DraftSafe
<1>6. DraftTyped' /\ DraftSafe'
  BY <1>1, <1>5, DraftOutlasts
<1>7. FetchTyped' /\ FetchSafe'
  BY <1>1, <1>2, NoFetchIsSafe
<1> QED
  BY <1>1, <1>4, <1>6, <1>7, JanitorTyped, FilesGo DEF Inv, Messages

LEMMA ImportEndsSafe ==
  ASSUME Inv, ImportEnds
  PROVE  Inv'
<1>1. /\ import.pc \in {"done", "failed"} /\ fetch' = Idle /\ import' = NoImport /\ Wake
      /\ disk' = IF import.retained THEN disk ELSE disk \ fetch.keys
      /\ draft' = draft /\ UNCHANGED <<row, staged, gc, lost, draft>>
  BY DEF ImportEnds, Finishes, bounds
<1>2. FetchTyped' /\ FetchSafe'
  BY <1>1, NoFetchIsSafe
<1>3. fetch.keys \cap draft.keys = {}
  BY DEF Inv, FetchSafe
<1>4. ~import.retained => \A k \in fetch.keys : ~Referenced(k)
  BY <1>1 DEF Inv, FetchSafe
<1>5. ~import.retained => \A m \in Messages : row[m].keys \cap fetch.keys = {}
  BY <1>4, NoRowNames DEF Inv, Typed
<1>6. \A k \in fetch.keys : k \in disk' => Owned(k)
  BY <1>1 DEF Inv, FetchSafe
<1>7. draft.pc = "queued" => draft.keys \subseteq disk'
  BY <1>1, <1>3 DEF Inv, DraftSafe
<1>8. DraftTyped' /\ DraftSafe'
  BY <1>1, <1>7, DraftOutlasts
<1>9. \A m \in Messages : row[m].keys \cap disk \subseteq disk'
  BY <1>1, <1>5
<1>10. disk' \in SUBSET disk
  BY <1>1
<1> QED
  BY <1>1, <1>2, <1>6, <1>8, <1>9, <1>10, JanitorTyped, FilesGo DEF Inv, Messages

LEMMA SaveDraftSafe ==
  ASSUME Inv, NEW d \in Drafts, SaveDraft(d)
  PROVE  Inv'
<1>1. PICK k \in Fresh : disk' = disk \cup {k} /\ draft' = [pc |-> "queued", msg |-> d, keys |-> {k}]
  BY DEF SaveDraft
<1>2. /\ draft = Idle /\ fetch' = fetch /\ import' = import /\ row' = row /\ lost' = lost
      /\ janitor' = janitor /\ UNCHANGED <<row, staged, gc, fetch, import>>
  BY DEF SaveDraft
<1>3. k \in Keys /\ k \notin disk /\ k \notin fetch.keys /\ ~Owned(k) /\ ~Referenced(k)
  BY DEF Fresh, Owned
<1>4. DraftTyped'
  BY <1>1, <1>3 DEF DraftTyped
<1>5. \A j : (Referenced(j) <=> Referenced(j)') /\ (Owned(j) <=> Owned(j)')
  BY <1>2, DataStays
<1>6. Typed'
  BY <1>1, <1>2, <1>3, <1>4, DataStays, TasksStay DEF Inv, Typed
<1>7. FetchSafe'
  BY <1>1, <1>2, <1>3, FetchOutlasts DEF Inv
<1>8. DraftSafe'
  <2>1. \A m \in Mail : k \notin row[m].keys
    BY <1>3, NoRowNames DEF Inv, Typed, Messages
  <2>2. Unowned({k})'
    BY <1>3, <1>5 DEF Unowned
  <2>3. Unowned(draft.keys)'
    BY <1>1, <2>2 DEF Unowned
  <2> QED
    BY <1>1, <1>2, <2>1, <2>3 DEF DraftSafe
<1>9. MailFilesExist' /\ DraftFilesExist'
  BY <1>1, <1>2 DEF Inv, MailFilesExist, DraftFilesExist
<1>10. NothingLeaks'
  BY <1>1, <1>2, <1>5 DEF Inv, NothingLeaks, Idle
<1> QED
  BY <1>6, <1>7, <1>8, <1>9, <1>10 DEF Inv

LEMMA SaveEndsSafe ==
  ASSUME Inv, SaveEnds
  PROVE  Inv'
<1>1. /\ draft.pc \in {"saved", "failed"} /\ draft' = Idle
      /\ \/ draft.pc = "saved" /\ Wake /\ disk' = disk
         \/ draft.pc = "failed" /\ disk' = disk \ draft.keys /\ janitor' = janitor
      /\ fetch' = fetch /\ UNCHANGED <<row, staged, gc, fetch, import, lost>>
  BY DEF SaveEnds, bounds
<1>2. DraftTyped' /\ DraftSafe'
  BY <1>1, NoDraftIsSafe
<1>3. FetchTyped'
  BY <1>1, TasksStay DEF Inv, Typed
<1>4. \A k \in fetch.keys : k \notin draft.keys /\ (k \in disk <=> k \in disk')
  BY <1>1 DEF Inv, FetchSafe
<1>5. FetchSafe'
  BY <1>1, <1>4, FetchOutlasts DEF Inv, Idle
<1>6. \A m \in Mail : row[m].keys \cap disk \subseteq disk'
  BY <1>1 DEF Inv, DraftSafe
<1>7. "draft" \notin Doubtful => \A m \in Drafts : row[m].keys \cap disk \subseteq disk'
  <2>1. ASSUME "draft" \notin Doubtful, draft.pc = "failed"
        PROVE  \A m \in Messages : row[m].keys \cap draft.keys = {}
    <3>1. \A k \in draft.keys : ~Referenced(k)
      BY <2>1 DEF Inv, DraftSafe, Unowned, Owned
    <3> QED
      BY <3>1, NoRowNames DEF Inv, Typed
  <2> QED
    BY <1>1, <2>1 DEF Messages
<1>8. \A k \in draft.keys : k \in disk' => Owned(k)
  BY <1>1 DEF Inv, DraftSafe, Owned
<1>9. janitor' \in [pc : {"delay", "submitted", "asleep"}, wake : BOOLEAN]
  BY <1>1, JanitorTyped DEF Inv, Typed
<1> QED
  BY <1>1, <1>2, <1>3, <1>5, <1>6, <1>7, <1>8, <1>9, FilesGo

LEMMA ShutdownSafe ==
  ASSUME Inv, Shutdown
  PROVE  Inv'
<1>1. /\ import = NoImport /\ draft = Idle
      /\ fetch' = Idle /\ draft' = Idle /\ import' = NoImport
      /\ janitor' = [pc |-> "delay", wake |-> FALSE]
      /\ disk' = disk \ fetch.keys /\ UNCHANGED <<row, staged, gc, lost>>
  BY DEF Shutdown, Started
<1>2. \A k \in fetch.keys : ~Referenced(k)
  <2>1. fetch.pc \in {"idle", "fetching", "published"}
    BY <1>1 DEF NoImport, Inv, Typed, FetchTyped
  <2>2. CASE fetch.pc = "published"
    BY <2>2 DEF Inv, FetchSafe, Guarding, Unowned, Owned
  <2>3. CASE fetch.pc \in {"idle", "fetching"}
    BY <2>3 DEF Inv, Typed, FetchTyped
  <2> QED
    BY <2>1, <2>2, <2>3
<1>3. \A m \in Messages : row[m].keys \cap fetch.keys = {}
  BY <1>2, NoRowNames DEF Inv, Typed
<1>4. FetchTyped' /\ FetchSafe' /\ DraftTyped' /\ DraftSafe'
  BY <1>1, NoFetchIsSafe, NoDraftIsSafe
<1>5. \A k \in fetch.keys \cup draft.keys : k \notin disk'
  BY <1>1 DEF Idle
<1> QED
  BY <1>1, <1>3, <1>4, <1>5, FilesGo DEF Messages

LEMMA CrashSafe ==
  ASSUME Inv, Crash
  PROVE  Inv'
<1>1. PICK gone \in SUBSET IF janitor.pc = "submitted" /\ WriterFree THEN Removable ELSE {} :
          disk' = disk \ gone
  BY DEF Crash
<1>2. /\ fetch' = Idle /\ draft' = Idle /\ import' = NoImport
      /\ janitor' = [pc |-> "delay", wake |-> FALSE]
      /\ lost' = lost \cup {k \in fetch.keys \cup draft.keys : ~Owned(k)}
      /\ row' = row /\ UNCHANGED <<row, staged, gc>>
  BY DEF Crash, Started
<1>3. \A k \in gone : ~Referenced(k)
  BY <1>1 DEF Removable, Held
<1>4. \A m \in Messages : row[m].keys \cap gone = {}
  BY <1>3, NoRowNames DEF Inv, Typed
<1>5. FetchTyped' /\ FetchSafe' /\ DraftTyped' /\ DraftSafe'
  BY <1>2, NoFetchIsSafe, NoDraftIsSafe
<1>6. fetch.keys \subseteq Keys /\ draft.keys \subseteq Keys
  BY DEF Inv, Typed, FetchTyped, DraftTyped
<1>7. Typed'
  BY <1>1, <1>2, <1>5, <1>6, DataStays DEF Inv, Typed
<1>8. MailFilesExist' /\ DraftFilesExist'
  BY <1>1, <1>2, <1>4 DEF Inv, MailFilesExist, DraftFilesExist, Messages
<1>9. NothingLeaks'
  BY <1>1, <1>2, DataStays DEF Inv, NothingLeaks
<1> QED
  BY <1>5, <1>7, <1>8, <1>9 DEF Inv

(* A run of the collector takes only files that nothing else needs, and    *)
(* forgets a file only when it is gone or has another owner.               *)
LEMMA RunGcSafe ==
  ASSUME FilesAssumption, Inv, RunGc
  PROVE  Inv'
<1>1. PICK end \in CommitEnds("gc") :
          /\ gc' \in Remaining({k \in ToSet(gc) : end = "undone" \/ Kept(k)})
          /\ janitor' = [janitor EXCEPT !.pc = AfterRun(end, gc')]
  BY DEF RunGc
<1>2. /\ WriterFree /\ disk' = disk \ Removable
      /\ row' = row /\ staged' = staged /\ fetch' = fetch /\ import' = import
      /\ draft' = draft /\ lost' = lost
  BY DEF RunGc
<1> DEFINE left == {k \in ToSet(gc) : end = "undone" \/ Kept(k)}
<1>3. gc' \in Seq(Keys) /\ IsInjective(gc') /\ ToSet(gc') = left
  <2>1. left \in SUBSET ToSet(gc) /\ gc' \in Remaining(left)
    BY <1>1
  <2> HIDE DEF left
  <2> QED
    BY <2>1, RemainingKeeps DEF Inv, Typed
<1>4. Staged' = Staged /\ \A k : (Referenced(k) <=> Referenced(k)')
  BY <1>2 DEF Staged, Referenced
<1>5. \A k : Owned(k)' => Owned(k)
  BY <1>3, <1>4 DEF Owned
<1>6. ASSUME NEW k \in disk', Owned(k)
      PROVE  Owned(k)'
  <2>1. k \notin Removable
    BY <1>2
  <2>2. CASE k \in ToSet(gc) /\ Kept(k)
    BY <1>3, <2>2 DEF Owned
  <2>3. CASE ~Kept(k)
    <3>1. Held(k)
      BY <2>1, <2>3 DEF Kept, Removable
    <3> QED
      BY <3>1, <1>4 DEF Held, Owned
  <2>4. CASE k \notin ToSet(gc)
    BY <2>4, <1>6, <1>4 DEF Owned
  <2> QED
    BY <2>2, <2>3, <2>4
<1>7. \A k \in Removable : Owned(k) /\ ~Referenced(k)
  BY CandidatesAreQueued DEF Removable, Held, Owned, Inv, Typed
<1>8. janitor' \in [pc : {"delay", "submitted", "asleep"}, wake : BOOLEAN]
  BY <1>1 DEF AfterRun, Inv, Typed
<1>9. Typed'
  <2>1. RowsTyped' /\ BatchesTyped'
    BY <1>2, <1>4 DEF RowsTyped, BatchesTyped, Inv, Typed
  <2> QED
    BY <1>2, <1>3, <1>8, <2>1, TasksStay DEF QueueTyped, Inv, Typed
<1>10. FetchSafe'
  <2>1. import.pc # "reserved"
    BY <1>2 DEF WriterFree
  <2>2. Guarding => fetch.keys \subseteq disk'
    BY <1>2, <1>7 DEF Inv, FetchSafe, Unowned
  <2>3. \A k \in fetch.keys \cap disk' : k \in disk /\ (Owned(k) => Owned(k)')
    BY <1>2, <1>6
  <2>4. fetch.keys \cap draft.keys' = {}
    BY <1>2 DEF Inv, FetchSafe
  <2> QED
    BY <1>2, <1>4, <1>5, <2>1, <2>2, <2>3, <2>4, FetchStandsBy DEF Inv
<1>11. DraftSafe'
  <2>1. draft.pc = "queued" => draft.keys \subseteq disk'
    BY <1>2, <1>7 DEF Inv, DraftSafe, Unowned
  <2>2. \A m \in Mail : draft.keys \cap row[m]'.keys = {}
    BY <1>2 DEF Inv, DraftSafe
  <2> QED
    BY <1>2, <1>4, <1>5, <2>1, <2>2, DraftStandsBy DEF Inv
<1>12. MailFilesExist' /\ DraftFilesExist'
  <2>1. \A m \in Messages : row[m].keys \cap Removable = {}
    BY <1>7, NoRowNames DEF Inv, Typed
  <2> QED
    BY <1>2, <2>1 DEF Inv, MailFilesExist, DraftFilesExist, Messages
<1>13. NothingLeaks'
  BY <1>2, <1>6 DEF Inv, NothingLeaks
<1> QED
  BY <1>9, <1>10, <1>11, <1>12, <1>13 DEF Inv

LEMMA ExpireSafe ==
  ASSUME Inv, NEW b \in staged, Expire(b)
  PROVE  Inv'
<1> DEFINE old == [b EXCEPT !.expired = TRUE]
<1>1. /\ staged' = (staged \ {b}) \cup {old} /\ WriterFree
      /\ disk' = disk /\ row' = row /\ gc' = gc /\ fetch' = fetch /\ import' = import
      /\ draft' = draft /\ janitor' = janitor /\ lost' = lost
  BY DEF Expire, tasks, bounds
<1>2. /\ old \in [msg : Mail, gen : Nat, keys : SUBSET Keys, expired : BOOLEAN]
      /\ old.msg = b.msg /\ old.gen = b.gen /\ old.keys = b.keys
  BY DEF Inv, Typed, BatchesTyped
<1> HIDE DEF old
<1>3. Staged' = Staged
  <2>1. ASSUME NEW k
        PROVE  (\E c \in staged' : k \in c.keys) <=> (\E c \in staged : k \in c.keys)
    BY <1>1, <1>2
  <2> QED
    BY <2>1 DEF Staged
<1>4. \A k : (Referenced(k) <=> Referenced(k)') /\ (Owned(k) <=> Owned(k)')
  BY <1>1, <1>3 DEF Referenced, Owned
<1>5. BatchesTyped'
  BY <1>1, <1>2, <1>3 DEF BatchesTyped, Inv, Typed
<1>6. Typed'
  BY <1>1, <1>5, TasksStay DEF Inv, Typed, RowsTyped, QueueTyped
<1>7. FetchSafe'
  BY <1>1, <1>4, FetchStandsBy DEF Inv, FetchSafe, WriterFree
<1>8. DraftSafe'
  BY <1>1, <1>4, DraftStandsBy DEF Inv, DraftSafe
<1>9. MailFilesExist' /\ DraftFilesExist' /\ NothingLeaks'
  BY <1>1, <1>4 DEF Inv, MailFilesExist, DraftFilesExist, NothingLeaks
<1> QED
  BY <1>6, <1>7, <1>8, <1>9 DEF Inv

-----------------------------------------------------------------------------
(* The transactions that change rows                                       *)

LEMMA RowWritten ==
  ASSUME RowsTyped, NEW m \in Messages, NEW a \in BOOLEAN, NEW S \in SUBSET Keys,
         row' = [row EXCEPT ![m].alive = a, ![m].keys = S]
  PROVE  /\ row' \in [Messages -> [alive : BOOLEAN, current : BOOLEAN, gen : Nat,
                                   keys : SUBSET Keys]]
         /\ row'[m].alive = a /\ row'[m].keys = S /\ row'[m].gen = row[m].gen
         /\ \A n \in Messages : n # m => row'[n] = row[n]
<1>1. PICK r : r = row[m] /\ r \in [alive : BOOLEAN, current : BOOLEAN, gen : Nat,
                                    keys : SUBSET Keys]
  BY DEF RowsTyped
<1>2. PICK s : s = [r EXCEPT !.alive = a, !.keys = S]
  OBVIOUS
<1>3. /\ s \in [alive : BOOLEAN, current : BOOLEAN, gen : Nat, keys : SUBSET Keys]
      /\ s.alive = a /\ s.keys = S /\ s.gen = r.gen
  BY <1>1, <1>2
<1>4. row' = [row EXCEPT ![m] = s]
  BY <1>1, <1>2 DEF RowsTyped
<1> QED
  BY <1>1, <1>3, <1>4 DEF RowsTyped

(* delete_permanently: the files of the row go to the collector.           *)
LEMMA DeleteSafe ==
  ASSUME FilesAssumption, Inv, NEW m \in Mail, Delete(m)
  PROVE  Inv'
<1>1. /\ WriterFree /\ gc' = Queued(gc, row[m].keys) /\ Wake
      /\ row' = [row EXCEPT ![m].alive = FALSE, ![m].keys = {}]
      /\ disk' = disk /\ staged' = staged /\ fetch' = fetch /\ import' = import
      /\ draft' = draft /\ lost' = lost
  BY DEF Delete
<1>2. m \in Messages /\ row[m].keys \in SUBSET Keys
  BY DEF Messages, Inv, Typed, RowsTyped
<1>3. /\ row' \in [Messages -> [alive : BOOLEAN, current : BOOLEAN, gen : Nat,
                                keys : SUBSET Keys]]
      /\ row'[m].alive = FALSE /\ row'[m].keys = {} /\ row'[m].gen = row[m].gen
      /\ \A n \in Messages : n # m => row'[n] = row[n]
  BY <1>1, <1>2, RowWritten DEF Inv, Typed
<1>4. gc' \in Seq(Keys) /\ IsInjective(gc') /\ ToSet(gc') = ToSet(gc) \cup row[m].keys
  BY <1>1, <1>2, QueuedAdds DEF Inv, Typed, QueueTyped
<1>5. Staged' = Staged
  BY <1>1 DEF Staged
<1>6. \A k : Referenced(k)' => Referenced(k)
  BY <1>3 DEF Referenced
<1>7. \A k : Referenced(k) => Referenced(k)' \/ k \in row[m].keys
  BY <1>3 DEF Referenced
<1>8. \A k : Owned(k) <=> Owned(k)'
  <2>1. \A k \in row[m].keys : Referenced(k)
    BY <1>2 DEF Referenced, Inv, Typed, RowsTyped
  <2> QED
    BY <1>4, <1>5, <1>6, <1>7, <2>1 DEF Owned
<1>9. Typed'
  <2>1. RowsTyped'
    BY <1>3 DEF RowsTyped, Inv, Typed
  <2>2. BatchesTyped'
    <3>1. \A b \in staged : b.msg \in Messages /\ row'[b.msg].gen = row[b.msg].gen
      BY <1>3 DEF Inv, Typed, BatchesTyped, Messages
    <3> QED
      BY <1>1, <1>5, <3>1 DEF Inv, Typed, BatchesTyped
  <2> QED
    BY <1>1, <1>4, <2>1, <2>2, TasksStay, JanitorTyped DEF Inv, Typed, QueueTyped
<1>10. FetchSafe'
  BY <1>1, <1>6, <1>8, FetchStandsBy DEF Inv, FetchSafe, WriterFree
<1>11. DraftSafe'
  <2>1. \A n \in Mail : draft.keys \cap row'[n].keys = {}
    BY <1>3 DEF Inv, DraftSafe, Messages
  <2>2. \A k \in draft.keys : Referenced(k) => Referenced(k)'
    BY <1>7 DEF Inv, DraftSafe
  <2> QED
    BY <1>1, <1>8, <2>1, <2>2, DraftStandsBy DEF Inv, DraftSafe
<1>12. MailFilesExist' /\ DraftFilesExist'
  BY <1>1, <1>3 DEF Inv, MailFilesExist, DraftFilesExist, Messages
<1>13. NothingLeaks'
  BY <1>1, <1>8 DEF Inv, NothingLeaks
<1> QED
  BY <1>9, <1>10, <1>11, <1>12, <1>13 DEF Inv

LEMMA CommitIsKnown ==
  ASSUME NEW kind, NEW end \in CommitEnds(kind)
  PROVE  end \in {"done", "undone", "doubt"} /\ (end = "doubt" => kind \in Doubtful)
<1>1. CASE doubts = MaxDoubts
  BY <1>1 DEF CommitEnds
<1>2. CASE doubts # MaxDoubts
  BY <1>2 DEF CommitEnds
<1> QED
  BY <1>1, <1>2

(* update_draft: the body that was there goes to the collector.            *)
LEMMA WriteDraftSafe ==
  ASSUME FilesAssumption, Inv, WriteDraft
  PROVE  Inv'
<1> DEFINE d == draft.msg
<1>1. PICK end \in CommitEnds("draft") :
          /\ IF end = "undone" THEN UNCHANGED <<row, gc>>
             ELSE /\ row' = [row EXCEPT ![d].alive = TRUE, ![d].keys = draft.keys]
                  /\ gc' = Queued(gc, row[d].keys)
          /\ draft' = [draft EXCEPT !.pc = IF end = "done" THEN "saved" ELSE "failed"]
  BY DEF WriteDraft
<1>2. /\ draft.pc = "queued" /\ WriterFree
      /\ disk' = disk /\ staged' = staged /\ fetch' = fetch /\ import' = import
      /\ janitor' = janitor /\ lost' = lost
  BY DEF WriteDraft
<1>3. /\ d \in Drafts /\ d \in Messages /\ d \notin Mail
      /\ draft.keys \in SUBSET Keys /\ row[d].keys \in SUBSET Keys
  BY <1>2 DEF Inv, Typed, DraftTyped, RowsTyped, Messages, FilesAssumption
<1>4. /\ draft'.keys = draft.keys /\ draft'.pc = IF end = "done" THEN "saved" ELSE "failed"
      /\ DraftTyped'
  BY <1>1, <1>3 DEF Inv, Typed, DraftTyped
<1>5. draft.keys \subseteq disk /\ Unowned(draft.keys) /\ fetch.keys \cap draft.keys = {}
  BY <1>2 DEF Inv, DraftSafe, FetchSafe
<1>6. Staged' = Staged
  BY <1>2 DEF Staged
<1>7. CASE end = "undone"
  <2>1. row' = row /\ gc' = gc /\ UNCHANGED <<row, staged, gc, fetch, import>>
    BY <1>1, <1>2, <1>7
  <2>2. \A k : (Referenced(k) <=> Referenced(k)') /\ (Owned(k) <=> Owned(k)')
    BY <2>1, DataStays
  <2>3. Typed'
    BY <1>2, <1>4, <2>1, DataStays, TasksStay DEF Inv, Typed
  <2>4. FetchSafe'
    BY <1>2, <1>4, <1>5, <2>1, FetchOutlasts DEF Inv
  <2>5. Unowned(draft.keys)'
    BY <1>4, <1>5, <2>2 DEF Unowned
  <2>6. DraftSafe'
    BY <1>4, <1>7, <2>1, <2>5 DEF Inv, DraftSafe
  <2>7. MailFilesExist' /\ DraftFilesExist'
    BY <1>2, <2>1 DEF Inv, MailFilesExist, DraftFilesExist
  <2>8. NothingLeaks'
    BY <1>2, <1>4, <2>2 DEF Inv, NothingLeaks
  <2> QED
    BY <2>3, <2>4, <2>6, <2>7, <2>8 DEF Inv
<1>8. CASE end # "undone"
  <2>1. /\ row' \in [Messages -> [alive : BOOLEAN, current : BOOLEAN, gen : Nat,
                                  keys : SUBSET Keys]]
        /\ row'[d].alive = TRUE /\ row'[d].keys = draft.keys /\ row'[d].gen = row[d].gen
        /\ \A n \in Messages : n # d => row'[n] = row[n]
    <3>1. row' = [row EXCEPT ![d].alive = TRUE, ![d].keys = draft.keys]
      BY <1>1, <1>8
    <3> HIDE DEF d
    <3> QED
      BY <1>3, <3>1, RowWritten DEF Inv, Typed
  <2>2. gc' \in Seq(Keys) /\ IsInjective(gc') /\ ToSet(gc') = ToSet(gc) \cup row[d].keys
    BY <1>1, <1>3, <1>8, QueuedAdds DEF Inv, Typed, QueueTyped
  <2> HIDE DEF d
  <2>3. \A k : Referenced(k)' => Referenced(k) \/ k \in draft.keys
    BY <1>3, <2>1 DEF Referenced
  <2>4. \A k : Referenced(k) => Referenced(k)' \/ k \in row[d].keys
    BY <1>3, <2>1 DEF Referenced
  <2>5. \A k \in row[d].keys : Referenced(k)
    BY <1>3 DEF Referenced, Inv, Typed, RowsTyped
  <2>6. \A k : Owned(k) => Owned(k)'
    BY <1>6, <2>2, <2>4 DEF Owned
  <2>7. \A k : Owned(k)' => Owned(k) \/ k \in draft.keys
    BY <1>6, <2>2, <2>3, <2>5 DEF Owned
  <2>8. Typed'
    <3>1. RowsTyped'
      BY <1>3, <2>1 DEF RowsTyped, Inv, Typed
    <3>2. BatchesTyped'
      <4>1. \A b \in staged : b.msg \in Messages /\ row'[b.msg].gen = row[b.msg].gen
        BY <1>3, <2>1 DEF Inv, Typed, BatchesTyped, Messages
      <4> QED
        BY <1>2, <1>6, <4>1 DEF Inv, Typed, BatchesTyped
    <3> QED
      BY <1>2, <1>4, <2>2, <3>1, <3>2, TasksStay DEF Inv, Typed, QueueTyped
  <2>9. FetchSafe'
    <3>1. \A k \in fetch.keys : (Owned(k)' => Owned(k)) /\ (Referenced(k)' => Referenced(k))
      BY <1>5, <2>3, <2>7
    <3>2. \A k \in fetch.keys \cap disk' : k \in disk /\ (Owned(k) => Owned(k)')
      BY <1>2, <2>6
    <3>3. Guarding => fetch.keys \subseteq disk'
      BY <1>2 DEF Inv, FetchSafe
    <3> QED
      BY <1>2, <1>4, <1>5, <3>1, <3>2, <3>3, FetchStandsBy DEF Inv, WriterFree
  <2>10. DraftSafe'
    <3>1. \A n \in Mail : draft.keys \cap row'[n].keys = {}
      BY <1>3, <2>1 DEF Inv, DraftSafe, Messages
    <3>2. \A k \in draft.keys : Referenced(k)'
      BY <1>3, <2>1 DEF Referenced
    <3>3. end = "done" \/ "draft" \in Doubtful
      BY <1>8, CommitIsKnown
    <3> QED
      BY <1>4, <3>1, <3>2, <3>3 DEF DraftSafe
  <2>11. MailFilesExist' /\ DraftFilesExist'
    BY <1>2, <1>3, <1>5, <2>1 DEF Inv, MailFilesExist, DraftFilesExist, Messages
  <2>12. NothingLeaks'
    BY <1>2, <1>4, <2>6 DEF Inv, NothingLeaks
  <2> QED
    BY <2>8, <2>9, <2>10, <2>11, <2>12 DEF Inv
<1> QED
  BY <1>7, <1>8

(* Reaping hands what only a reservation owned to the collector.           *)
LEMMA ReapedAreQueued ==
  ASSUME FilesAssumption, Inv, NEW S \in Reaped
  PROVE  /\ S \in SUBSET staged
         /\ Released(S) \in Seq(Keys) /\ IsInjective(Released(S))
         /\ \A k : k \in ToSet(Released(S)) => Owned(k)
         /\ \A k : Owned(k) => \/ Referenced(k) \/ k \in ToSet(Released(S))
                               \/ k \in UNION {b.keys : b \in staged \ S}
<1>1. S \in SUBSET staged
  BY DEF Reaped, Expired
<1> DEFINE T == {k \in UNION {b.keys : b \in S} : ~Referenced(k)}
<1>2. T \in SUBSET Keys
  BY <1>1 DEF Inv, Typed, BatchesTyped
<1>3. Released(S) = Queued(gc, T)
  BY DEF Released
<1>4. \A k \in T : k \in Staged
  BY <1>1 DEF Staged
<1>5. \A k \in Staged : Referenced(k) \/ k \in T \/ k \in UNION {b.keys : b \in staged \ S}
  BY DEF Staged
<1> HIDE DEF T
<1>6. /\ Released(S) \in Seq(Keys) /\ IsInjective(Released(S))
      /\ ToSet(Released(S)) = ToSet(gc) \cup T
  BY <1>2, <1>3, QueuedAdds DEF Inv, Typed, QueueTyped
<1> QED
  BY <1>1, <1>4, <1>5, <1>6 DEF Owned

LEMMA StagedIsFinite ==
  ASSUME FilesAssumption, Typed, NEW B \in SUBSET staged
  PROVE  /\ UNION {b.keys : b \in B} \in SUBSET Staged
         /\ IsFiniteSet(UNION {b.keys : b \in B})
         /\ Cardinality(UNION {b.keys : b \in B}) \in Nat
         /\ Cardinality(UNION {b.keys : b \in B}) <= MaxStaged
<1> DEFINE U == UNION {b.keys : b \in B}
<1>1. U \in SUBSET Staged
  BY DEF Staged
<1>2. Staged \in SUBSET Keys
  BY DEF Staged, Typed, BatchesTyped
<1>3. IsFiniteSet(Staged)
  BY <1>2, FS_Subset DEF FilesAssumption
<1> HIDE DEF U
<1>4. IsFiniteSet(U) /\ Cardinality(U) <= Cardinality(Staged)
  BY <1>1, <1>3, FS_Subset
<1>5. Cardinality(U) \in Nat /\ Cardinality(Staged) \in Nat
  BY <1>3, <1>4, FS_CardinalityType
<1>6. Cardinality(Staged) <= MaxStaged /\ MaxStaged \in Nat
  BY DEF Typed, BatchesTyped, FilesAssumption
<1>7. Cardinality(U) <= MaxStaged
  BY <1>4, <1>5, <1>6
<1> QED
  BY <1>1, <1>4, <1>5, <1>7 DEF U

(* An import that fails before it has a reservation: at most, expired      *)
(* batches have gone to the collector.                                     *)
LEMMA RefusalIsSafe ==
  ASSUME FilesAssumption, Inv, import.pc = "queued", import' = [import EXCEPT !.pc = "failed"],
         UNCHANGED <<disk, row, fetch, draft, janitor, lost>>,
         staged' \in SUBSET staged, QueueTyped',
         \A k : Owned(k) <=> Owned(k)'
  PROVE  Inv'
<1>1. /\ disk' = disk /\ row' = row /\ fetch' = fetch /\ draft' = draft
      /\ janitor' = janitor /\ lost' = lost
  OBVIOUS
<1>2. import'.pc = "failed" /\ import'.retained = FALSE /\ fetch.pc = "waiting" /\ FetchTyped'
  BY <1>1 DEF Inv, Typed, FetchTyped, FetchSafe
<1>3. \A k : Referenced(k) <=> Referenced(k)'
  BY <1>1 DEF Referenced
<1>4. BatchesTyped'
  <2>1. Staged' = UNION {b.keys : b \in staged'}
    BY DEF Staged
  <2>2. Cardinality(Staged') <= MaxStaged
    <3> DEFINE B == staged'
    <3>1. B \in SUBSET staged /\ Staged' = UNION {b.keys : b \in B}
      BY <2>1
    <3> HIDE DEF B
    <3> QED
      BY <3>1, StagedIsFinite DEF Inv
  <2> QED
    BY <1>1, <2>2 DEF BatchesTyped, Inv, Typed
<1>5. Typed'
  BY <1>1, <1>2, <1>4, TasksStay DEF Inv, Typed, RowsTyped
<1>6. FetchSafe'
  <2>1. \A k \in fetch.keys : ~Referenced(k)'
    BY <1>3 DEF Inv, FetchSafe, Guarding, Unowned, Owned
  <2>2. ~Guarding'
    BY <1>1, <1>2 DEF Guarding
  <2>3. fetch.keys \cap draft.keys = {}
    BY DEF Inv, FetchSafe
  <2> QED
    BY <1>1, <1>2, <2>1, <2>2, <2>3 DEF FetchSafe
<1>7. DraftSafe'
  BY <1>1, <1>3, DraftStandsBy DEF Inv, DraftSafe
<1>8. MailFilesExist' /\ DraftFilesExist' /\ NothingLeaks'
  BY <1>1 DEF Inv, MailFilesExist, DraftFilesExist, NothingLeaks
<1> QED
  BY <1>5, <1>6, <1>7, <1>8 DEF Inv

LEMMA GenerationAdvances ==
  ASSUME RowsTyped, NEW m \in Messages, NEW g \in Nat, row' = [row EXCEPT ![m].gen = g]
  PROVE  /\ RowsTyped'
         /\ row'[m].gen = g
         /\ \A n \in Messages : row'[n].keys = row[n].keys /\ row'[n].alive = row[n].alive
         /\ \A n \in Messages : n # m => row'[n] = row[n]
<1>1. PICK r : r = row[m] /\ r \in [alive : BOOLEAN, current : BOOLEAN, gen : Nat,
                                    keys : SUBSET Keys]
  BY DEF RowsTyped
<1>2. PICK s : s = [r EXCEPT !.gen = g]
  OBVIOUS
<1>3. /\ s \in [alive : BOOLEAN, current : BOOLEAN, gen : Nat, keys : SUBSET Keys]
      /\ s.alive = r.alive /\ s.keys = r.keys /\ s.gen = g
  BY <1>1, <1>2
<1>4. row' = [row EXCEPT ![m] = s]
  BY <1>1, <1>2 DEF RowsTyped
<1> QED
  BY <1>1, <1>3, <1>4 DEF RowsTyped

(* The reservation owns the files of the fetch from its commit on, also    *)
(* when the commit is in doubt; no older batch is of its generation.       *)
LEMMA ReservationIsSafe ==
  ASSUME FilesAssumption, Inv, NEW S \in Reaped, NEW done \in BOOLEAN, NEW b,
         import.pc = "queued", row[fetch.msg].alive, Fits(staged \ S),
         b = [msg |-> fetch.msg, gen |-> row[fetch.msg].gen + 1,
              keys |-> fetch.keys, expired |-> FALSE],
         staged' = (staged \ S) \cup {b}, gc' = Released(S),
         row' = [row EXCEPT ![b.msg].gen = b.gen],
         import' = [import EXCEPT !.pc = IF done THEN "reserved" ELSE "failed"],
         UNCHANGED <<disk, fetch, draft, janitor, lost>>
  PROVE  Inv'
<1>1. /\ disk' = disk /\ fetch' = fetch /\ draft' = draft
      /\ janitor' = janitor /\ lost' = lost
  OBVIOUS
<1>2. /\ fetch.pc = "waiting" /\ fetch.msg \in Mail /\ fetch.msg \in Messages
      /\ fetch.keys \in SUBSET Keys /\ row[fetch.msg].gen \in Nat
      /\ import.retained = FALSE
  BY DEF Inv, Typed, FetchTyped, FetchSafe, RowsTyped, Messages
<1>3. /\ b \in [msg : Mail, gen : Nat, keys : SUBSET Keys, expired : BOOLEAN]
      /\ b.msg = fetch.msg /\ b.gen = row[fetch.msg].gen + 1 /\ b.keys = fetch.keys
  BY <1>2
<1>4. /\ import'.pc = IF done THEN "reserved" ELSE "failed"
      /\ import'.retained = FALSE /\ FetchTyped'
  BY <1>1, <1>2 DEF Inv, Typed, FetchTyped
<1>5. /\ fetch.keys \subseteq disk /\ (\A k \in fetch.keys : ~Owned(k))
      /\ fetch.keys \cap draft.keys = {}
  BY DEF Inv, FetchSafe, Guarding, Unowned
<1>6. /\ RowsTyped'
      /\ row'[fetch.msg].gen = row[fetch.msg].gen + 1
      /\ \A n \in Messages : row'[n].keys = row[n].keys /\ row'[n].alive = row[n].alive
      /\ \A n \in Messages : n # fetch.msg => row'[n] = row[n]
  <2>1. PICK g : g = row[fetch.msg].gen + 1 /\ g \in Nat
    BY <1>2
  <2>2. PICK m : m = fetch.msg
    OBVIOUS
  <2>3. m \in Messages /\ row' = [row EXCEPT ![m].gen = g]
    BY <1>2, <1>3, <2>1, <2>2
  <2>4. /\ RowsTyped'
        /\ row'[m].gen = g
        /\ \A n \in Messages : row'[n].keys = row[n].keys /\ row'[n].alive = row[n].alive
        /\ \A n \in Messages : n # m => row'[n] = row[n]
    BY <2>1, <2>3, GenerationAdvances DEF Inv, Typed
  <2> QED
    BY <2>1, <2>2, <2>4
<1>7. \A k : Referenced(k) <=> Referenced(k)'
  BY <1>6 DEF Referenced
<1> DEFINE U == UNION {c.keys : c \in staged \ S}
<1>8. Staged' = U \cup fetch.keys
  BY <1>3 DEF Staged
<1>9. /\ gc' \in Seq(Keys) /\ IsInjective(gc')
      /\ \A k : k \in ToSet(gc') => Owned(k)
      /\ \A k : Owned(k) => Referenced(k) \/ k \in ToSet(gc') \/ k \in U
  BY ReapedAreQueued
<1>10. /\ U \in SUBSET Staged /\ IsFiniteSet(U) /\ Cardinality(U) \in Nat
  <2>1. staged \ S \in SUBSET staged
    OBVIOUS
  <2> QED
    BY <2>1, StagedIsFinite DEF Inv
<1>11. Cardinality(U) + Cardinality(fetch.keys) <= MaxStaged
  BY DEF Fits
<1> HIDE DEF U
<1>12. BatchesTyped'
  <2>1. Cardinality(Staged') <= MaxStaged
    <3>1. IsFiniteSet(fetch.keys)
      BY <1>2, FS_Subset DEF FilesAssumption
    <3>2. /\ Cardinality(fetch.keys) \in Nat /\ Cardinality(U \cap fetch.keys) \in Nat
          /\ Cardinality(U \cup fetch.keys)
                = Cardinality(U) + Cardinality(fetch.keys) - Cardinality(U \cap fetch.keys)
      BY <1>10, <3>1, FS_Union, FS_Intersection, FS_CardinalityType
    <3> QED
      BY <1>8, <1>10, <1>11, <3>2 DEF FilesAssumption
  <2>2. \A c \in staged : c \in [msg : Mail, gen : Nat, keys : SUBSET Keys, expired : BOOLEAN]
                          /\ c.gen <= row[c.msg].gen
    BY DEF Inv, Typed, BatchesTyped
  <2>3. ASSUME NEW c \in staged
        PROVE  c.gen <= row'[c.msg].gen
    <3>1. CASE c.msg = fetch.msg
      BY <1>2, <1>6, <2>2, <3>1
    <3>2. CASE c.msg # fetch.msg
      <4>1. c.msg \in Messages
        BY <2>2 DEF Messages
      <4> QED
        BY <1>6, <2>2, <3>2, <4>1
    <3> QED
      BY <3>1, <3>2
  <2>4. b.gen <= row'[b.msg].gen
    BY <1>2, <1>3, <1>6
  <2>5. ASSUME NEW c \in staged'
        PROVE  /\ c \in [msg : Mail, gen : Nat, keys : SUBSET Keys, expired : BOOLEAN]
               /\ c.gen <= row'[c.msg].gen
    BY <1>3, <2>2, <2>3, <2>4
  <2> QED
    BY <2>1, <2>5 DEF BatchesTyped
<1>13. Typed'
  BY <1>1, <1>4, <1>6, <1>9, <1>12, TasksStay DEF Inv, Typed, QueueTyped
<1>14. \A k : Owned(k) => Owned(k)'
  BY <1>7, <1>8, <1>9 DEF Owned
<1>15. \A k : Owned(k)' => Owned(k) \/ k \in fetch.keys
  BY <1>7, <1>8, <1>9, <1>10 DEF Owned
<1>16. FetchSafe'
  <2>1. \A k \in fetch.keys : ~Referenced(k)' /\ k \notin ToSet(gc') /\ k \in Staged'
    BY <1>5, <1>7, <1>8, <1>9 DEF Owned
  <2>2. ~Guarding'
    BY <1>1, <1>2, <1>4 DEF Guarding
  <2>3. ASSUME NEW c \in staged', c.msg = fetch.msg, c.gen = row'[fetch.msg].gen
        PROVE  c.keys = fetch.keys
    <3>1. CASE c = b
      BY <1>3, <3>1
    <3>2. CASE c \in staged
      <4>1. c.gen <= row[fetch.msg].gen /\ c.gen \in Nat
        BY <2>3, <3>2 DEF Inv, Typed, BatchesTyped
      <4> QED
        BY <1>2, <1>6, <2>3, <4>1
    <3> QED
      BY <3>1, <3>2
  <2>4. Reserved'
    BY <1>1, <1>2, <1>6, <2>1, <2>3 DEF Reserved, Mine
  <2> QED
    BY <1>1, <1>4, <1>5, <2>1, <2>2, <2>4 DEF FetchSafe
<1>17. DraftSafe'
  <2>1. \A n \in Mail : draft.keys \cap row'[n].keys = {}
    BY <1>6 DEF Inv, DraftSafe, Messages
  <2>2. \A k \in draft.keys : (Owned(k)' => Owned(k)) /\ (Referenced(k) => Referenced(k)')
    BY <1>5, <1>7, <1>15
  <2>3. draft.pc = "queued" => draft.keys \subseteq disk'
    BY <1>1 DEF Inv, DraftSafe
  <2> QED
    BY <1>1, <2>1, <2>2, <2>3, DraftStandsBy DEF Inv
<1>18. MailFilesExist' /\ DraftFilesExist'
  BY <1>1, <1>6 DEF Inv, MailFilesExist, DraftFilesExist, Messages
<1>19. NothingLeaks'
  BY <1>1, <1>14 DEF Inv, NothingLeaks
<1> QED
  BY <1>13, <1>16, <1>17, <1>18, <1>19 DEF Inv

LEMMA ReserveContentSafe ==
  ASSUME FilesAssumption, Inv, ReserveContent
  PROVE  Inv'
<1>1. /\ import.pc = "queued" /\ UNCHANGED <<disk, fetch, draft, janitor, lost>>
  BY DEF ReserveContent
<1>2. CASE ~row[fetch.msg].alive
  <2>1. ImportIs("failed") /\ UNCHANGED <<row, staged, gc>>
    BY <1>2 DEF ReserveContent
  <2> QED
    BY <1>1, <2>1, DataStays, RefusalIsSafe DEF ImportIs, Inv, Typed
<1>3. CASE row[fetch.msg].alive
  <2>1. PICK S \in Reaped, end \in CommitEnds("import") :
        LET kept == staged \ S
            b == [msg |-> fetch.msg, gen |-> row[fetch.msg].gen + 1,
                  keys |-> fetch.keys, expired |-> FALSE]
        IN  /\ IF end = "undone" THEN UNCHANGED <<row, staged, gc>>
               ELSE /\ gc' = Released(S)
                    /\ IF Fits(kept)
                       THEN /\ staged' = kept \cup {b}
                            /\ row' = [row EXCEPT ![b.msg].gen = b.gen]
                       ELSE staged' = kept /\ UNCHANGED row
            /\ ImportIs(IF end = "done" /\ Fits(kept) THEN "reserved" ELSE "failed")
    BY <1>3 DEF ReserveContent
  <2>2. CASE end = "undone"
    <3>1. ImportIs("failed") /\ UNCHANGED <<row, staged, gc>>
      BY <2>1, <2>2
    <3> QED
      BY <1>1, <3>1, DataStays, RefusalIsSafe DEF ImportIs, Inv, Typed
  <2>3. CASE end # "undone" /\ ~Fits(staged \ S)
    <3>1. /\ ImportIs("failed") /\ row' = row /\ UNCHANGED row
          /\ staged' = staged \ S /\ gc' = Released(S)
      BY <2>1, <2>3
    <3>2. QueueTyped'
      BY <3>1, ReapedAreQueued DEF QueueTyped
    <3>3. \A k : Owned(k) <=> Owned(k)'
      <4>1. \A k : Referenced(k) <=> Referenced(k)'
        BY <3>1 DEF Referenced
      <4>2. Staged' = UNION {b.keys : b \in staged \ S} /\ Staged' \in SUBSET Staged
        BY <3>1 DEF Staged
      <4>3. \A k : k \in ToSet(gc') => Owned(k)
        BY <3>1, ReapedAreQueued
      <4>4. \A k : Owned(k) => Referenced(k) \/ k \in ToSet(gc') \/ k \in Staged'
        BY <3>1, <4>2, ReapedAreQueued
      <4> QED
        BY <4>1, <4>2, <4>3, <4>4 DEF Owned
    <3>4. staged' \in SUBSET staged
      BY <3>1
    <3> QED
      BY <1>1, <3>1, <3>2, <3>3, <3>4, RefusalIsSafe DEF ImportIs
  <2>4. CASE end # "undone" /\ Fits(staged \ S)
    <3>1. PICK b : b = [msg |-> fetch.msg, gen |-> row[fetch.msg].gen + 1,
                        keys |-> fetch.keys, expired |-> FALSE]
      OBVIOUS
    <3>2. PICK done \in BOOLEAN : done = (end = "done")
      OBVIOUS
    <3>3. /\ staged' = (staged \ S) \cup {b} /\ gc' = Released(S)
          /\ row' = [row EXCEPT ![b.msg].gen = b.gen]
          /\ import' = [import EXCEPT !.pc = IF done THEN "reserved" ELSE "failed"]
      BY <2>1, <2>4, <3>1, <3>2 DEF ImportIs
    <3> QED
      BY <1>1, <1>3, <2>4, <3>1, <3>3, ReservationIsSafe
  <2> QED
    BY <2>2, <2>3, <2>4
<1> QED
  BY <1>2, <1>3

LEMMA ContentReplaced ==
  ASSUME RowsTyped, NEW m \in Messages, row[m].alive, NEW S \in SUBSET Keys,
         row' = [row EXCEPT ![m].keys = S, ![m].current = TRUE]
  PROVE  /\ RowsTyped'
         /\ row'[m].keys = S /\ row'[m].alive /\ row'[m].gen = row[m].gen
         /\ \A n \in Messages : n # m => row'[n] = row[n]
<1>1. PICK r : r = row[m] /\ r.alive /\ r \in [alive : BOOLEAN, current : BOOLEAN, gen : Nat,
                                              keys : SUBSET Keys]
  BY DEF RowsTyped
<1>2. PICK s : s = [r EXCEPT !.keys = S, !.current = TRUE]
  OBVIOUS
<1>3. /\ s \in [alive : BOOLEAN, current : BOOLEAN, gen : Nat, keys : SUBSET Keys]
      /\ s.alive /\ s.keys = S /\ s.gen = r.gen
  BY <1>1, <1>2
<1>4. row' = [row EXCEPT ![m] = s]
  BY <1>1, <1>2 DEF RowsTyped
<1> QED
  BY <1>1, <1>3, <1>4 DEF RowsTyped

(* The second transaction of an import: whether it commits or not, its     *)
(* files have an owner when the guards let go of them.                     *)
LEMMA FinalizeContentSafe ==
  ASSUME FilesAssumption, Inv, FinalizeContent
  PROVE  Inv'
<1>1. PICK end \in CommitEnds("import") :
          /\ IF end = "undone" THEN UNCHANGED <<row, staged, gc>> ELSE Replaces(fetch.keys)
          /\ import' = [pc |-> IF end = "done" THEN "done" ELSE "failed", retained |-> TRUE]
  BY DEF FinalizeContent
<1>2. /\ import.pc = "reserved" /\ disk' = disk /\ fetch' = fetch /\ draft' = draft
      /\ janitor' = janitor /\ lost' = lost
  BY DEF FinalizeContent
<1>3. PICK m : m = fetch.msg
  OBVIOUS
<1>4. /\ fetch.pc = "waiting" /\ m \in Mail /\ m \in Messages
      /\ fetch.keys \in SUBSET Keys /\ row[m].keys \in SUBSET Keys
  BY <1>2, <1>3 DEF Inv, Typed, FetchTyped, RowsTyped, Messages
<1>5. /\ row[m].alive /\ fetch.keys \subseteq disk /\ fetch.keys \cap draft.keys = {}
      /\ \A b \in staged : Mine(b) => b.keys = fetch.keys
      /\ \A k \in fetch.keys : k \in Staged
  BY <1>2, <1>3 DEF Inv, FetchSafe, Reserved
<1>6. /\ import'.retained = TRUE /\ import'.pc \in {"done", "failed"} /\ FetchTyped'
  BY <1>1, <1>2, <1>4 DEF Inv, Typed, FetchTyped
<1>7. ~Guarding'
  BY <1>2, <1>4, <1>6 DEF Guarding
<1>8. CASE end = "undone"
  <2>1. row' = row /\ UNCHANGED <<row, staged, gc>>
    BY <1>1, <1>8
  <2>2. Typed'
    BY <1>2, <1>6, <2>1, DataStays, TasksStay DEF Inv, Typed
  <2>3. \A k \in fetch.keys : Owned(k)'
    BY <1>5, <2>1, DataStays DEF Owned
  <2>4. FetchSafe'
    BY <1>2, <1>5, <1>6, <1>7, <2>3 DEF FetchSafe
  <2>5. draft.pc = "queued" => draft.keys \subseteq disk'
    BY <1>2 DEF Inv, DraftSafe
  <2>6. DraftSafe'
    BY <1>2, <2>1, <2>5, DraftOutlasts
  <2>7. MailFilesExist' /\ DraftFilesExist' /\ NothingLeaks'
    BY <1>2, <2>1, DataStays DEF Inv, MailFilesExist, DraftFilesExist, NothingLeaks
  <2> QED
    BY <2>2, <2>4, <2>6, <2>7 DEF Inv
<1>9. CASE end # "undone"
  <2> DEFINE T == {k \in row[m].keys \ fetch.keys :
                       ~\E n \in Messages \ {m} : row[n].alive /\ k \in row[n].keys}
  <2>1. /\ row' = [row EXCEPT ![m].keys = fetch.keys, ![m].current = TRUE]
        /\ staged' = {b \in staged : ~Mine(b)}
        /\ gc' = Queued(gc, T)
    BY <1>1, <1>3, <1>9 DEF Replaces
  <2>2. /\ RowsTyped' /\ row'[m].keys = fetch.keys /\ row'[m].alive
        /\ row'[m].gen = row[m].gen
        /\ \A n \in Messages : n # m => row'[n] = row[n]
    <3>1. PICK S \in SUBSET Keys : S = fetch.keys
      BY <1>4
    <3>2. row' = [row EXCEPT ![m].keys = S, ![m].current = TRUE]
      BY <2>1, <3>1
    <3> QED
      BY <1>4, <1>5, <3>1, <3>2, ContentReplaced DEF Inv, Typed
  <2>3. T \in SUBSET Keys
    BY <1>4
  <2>4. gc' \in Seq(Keys) /\ IsInjective(gc') /\ ToSet(gc') = ToSet(gc) \cup T
    <3> HIDE DEF T
    <3> QED
      BY <2>1, <2>3, QueuedAdds DEF Inv, Typed, QueueTyped
  <2>5. \A k : Referenced(k)' => Referenced(k) \/ k \in fetch.keys
    BY <2>2 DEF Referenced
  <2>6. \A k : Referenced(k) => Referenced(k)' \/ k \in T
    <3>1. ASSUME NEW k, NEW n \in Messages, row[n].alive, k \in row[n].keys
          PROVE  Referenced(k)' \/ k \in T
      <4>1. CASE n # m
        BY <2>2, <3>1, <4>1 DEF Referenced
      <4>2. CASE k \in fetch.keys
        BY <1>4, <2>2, <4>2 DEF Referenced
      <4>3. CASE n = m /\ k \notin fetch.keys /\ k \notin T
        <5>1. PICK o \in Messages \ {m} : row[o].alive /\ k \in row[o].keys
          BY <3>1, <4>3
        <5> QED
          BY <2>2, <5>1 DEF Referenced
      <4> QED
        BY <4>1, <4>2, <4>3
    <3> QED
      BY <3>1 DEF Referenced
  <2>7. \A k \in T : Referenced(k)
    BY <1>4, <1>5 DEF Referenced
  <2> HIDE DEF T
  <2>8. \A k \in fetch.keys : Referenced(k)'
    BY <1>4, <2>2 DEF Referenced
  <2>9. staged' \in SUBSET staged /\ Staged' \in SUBSET Staged
    BY <2>1 DEF Staged
  <2>10. \A k \in Staged : k \in Staged' \/ k \in fetch.keys
    <3>1. ASSUME NEW b \in staged, NEW k \in b.keys
          PROVE  k \in Staged' \/ k \in fetch.keys
      <4>1. CASE Mine(b)
        BY <1>5, <3>1, <4>1
      <4>2. CASE ~Mine(b)
        BY <2>1, <3>1, <4>2 DEF Staged
      <4> QED
        BY <4>1, <4>2
    <3> QED
      BY <3>1 DEF Staged
  <2>11. \A k : Owned(k) => Owned(k)'
    BY <2>4, <2>6, <2>8, <2>10 DEF Owned
  <2>12. \A k : Owned(k)' => Owned(k)
    BY <1>5, <2>4, <2>5, <2>7, <2>9 DEF Owned
  <2>13. BatchesTyped'
    <3>1. Cardinality(Staged') <= MaxStaged
      <4>1. PICK B \in SUBSET staged : B = staged'
        BY <2>9
      <4>2. Staged' = UNION {b.keys : b \in B}
        BY <4>1 DEF Staged
      <4> QED
        BY <4>2, StagedIsFinite DEF Inv
    <3>2. \A b \in staged : b.msg \in Messages /\ row'[b.msg].gen = row[b.msg].gen
      BY <2>2 DEF Inv, Typed, BatchesTyped, Messages
    <3> QED
      BY <2>9, <3>1, <3>2 DEF Inv, Typed, BatchesTyped
  <2>14. Typed'
    BY <1>2, <1>6, <2>2, <2>4, <2>13, TasksStay DEF Inv, Typed, QueueTyped
  <2>15. FetchSafe'
    BY <1>2, <1>5, <1>6, <1>7, <2>8 DEF FetchSafe, Owned
  <2>16. DraftSafe'
    <3>1. \A n \in Mail : draft.keys \cap row'[n].keys = {}
      BY <1>5, <2>2 DEF Inv, DraftSafe, Messages
    <3>2. \A k \in draft.keys : k \notin T
      <4>1. \A k \in T : k \in row[m].keys
        BY DEF T
      <4> QED
        BY <1>4, <4>1 DEF Inv, DraftSafe
    <3>3. draft.pc = "queued" => draft.keys \subseteq disk'
      BY <1>2 DEF Inv, DraftSafe
    <3> QED
      BY <1>2, <2>6, <2>12, <3>1, <3>2, <3>3, DraftStandsBy DEF Inv
  <2>17. MailFilesExist' /\ DraftFilesExist'
    <3>1. \A n \in Messages : n # m => row'[n].keys = row[n].keys
      BY <2>2
    <3> QED
      BY <1>2, <1>4, <1>5, <2>2, <3>1 DEF Inv, MailFilesExist, DraftFilesExist, Messages
  <2>18. NothingLeaks'
    BY <1>2, <2>11 DEF Inv, NothingLeaks
  <2> QED
    BY <2>14, <2>15, <2>16, <2>17, <2>18 DEF Inv
<1> QED
  BY <1>8, <1>9

-----------------------------------------------------------------------------
(* The theorems                                                            *)

LEMMA InitIsSafe ==
  ASSUME FilesAssumption, Init
  PROVE  Inv
<1>1. PICK old \in [Mail -> SUBSET Keys] :
          /\ disk = UNION {old[m] : m \in Mail}
          /\ row = [m \in Messages |->
                 [alive |-> m \in Mail, current |-> FALSE, gen |-> 0,
                  keys |-> IF m \in Mail THEN old[m] ELSE {}]]
  BY DEF Init
<1>2. /\ staged = {} /\ gc = <<>> /\ fetch = Idle /\ draft = Idle /\ import = NoImport
      /\ janitor = [pc |-> "delay", wake |-> FALSE] /\ lost = {}
  BY DEF Init
<1>3. /\ RowsTyped
      /\ \A m \in Mail : row[m].alive /\ row[m].keys = old[m]
      /\ \A d \in Drafts : row[d].keys = {}
  <2>1. \A d \in Drafts : d \notin Mail
    BY DEF FilesAssumption
  <2>2. RowsTyped
    <3> DEFINE R == [alive : BOOLEAN, current : BOOLEAN, gen : Nat, keys : SUBSET Keys]
    <3>1. \A m \in Messages : row[m] \in R
      BY <1>1
    <3>2. row = [m \in Messages |-> row[m]]
      BY <1>1
    <3>3. \A m \in Messages : ~row[m].alive => row[m].keys = {}
      BY <1>1
    <3>4. row \in [Messages -> R]
      <4> HIDE DEF R
      <4> QED
        BY <3>1, <3>2
    <3> QED
      BY <3>3, <3>4 DEF RowsTyped
  <2> QED
    BY <1>1, <2>1, <2>2 DEF Messages
<1>4. Staged = {}
  BY <1>2 DEF Staged
<1>5. BatchesTyped
  BY <1>2, <1>4, FS_EmptySet DEF BatchesTyped, FilesAssumption
<1>6. QueueTyped
  BY <1>2 DEF QueueTyped, IsInjective
<1>7. disk \in SUBSET Keys
  BY <1>1
<1>8. FetchTyped /\ DraftTyped
  BY <1>2 DEF FetchTyped, DraftTyped, Idle, NoImport
<1>9. FetchSafe
  BY <1>2 DEF FetchSafe, Guarding, Unowned, Idle, NoImport
<1>10. DraftSafe
  BY <1>2 DEF DraftSafe, Unowned, Idle
<1>11. MailFilesExist /\ DraftFilesExist
  BY <1>1, <1>3 DEF MailFilesExist, DraftFilesExist
<1>12. NothingLeaks
  <2>1. ASSUME NEW k \in disk
        PROVE  Referenced(k)
    <3>1. PICK m \in Mail : k \in old[m]
      BY <1>1
    <3> QED
      BY <1>3, <3>1 DEF Referenced, Messages
  <2> QED
    BY <2>1 DEF NothingLeaks, Owned
<1> QED
  BY <1>2, <1>3, <1>5, <1>6, <1>7, <1>8, <1>9, <1>10, <1>11, <1>12 DEF Inv, Typed

LEMMA NextIsSafe ==
  ASSUME FilesAssumption, Inv, Next
  PROVE  Inv'
<1>1. CASE Fetches
  BY <1>1, FetchFailsSafe, PublishContentSafe, SubmitImportSafe, ImportRefusedSafe,
     ImportEndsSafe DEF Fetches
<1>2. CASE Writer
  BY <1>2, ReserveContentSafe, FinalizeContentSafe, WriteDraftSafe, RunGcSafe DEF Writer
<1>3. CASE SaveEnds \/ Sweeps \/ Shutdown \/ Crash
  BY <1>3, SaveEndsSafe, SweepsSafe, ShutdownSafe, CrashSafe
<1>4. CASE \E m \in Mail : StartFetch(m) \/ Delete(m)
  BY <1>4, StartFetchSafe, DeleteSafe
<1>5. CASE \E d \in Drafts : SaveDraft(d)
  BY <1>5, SaveDraftSafe
<1>6. CASE \E b \in staged : Expire(b)
  BY <1>6, ExpireSafe
<1> QED
  BY <1>1, <1>2, <1>3, <1>4, <1>5, <1>6 DEF Next

LEMMA StutteringIsSafe ==
  ASSUME Inv, UNCHANGED vars
  PROVE  Inv'
<1>1. /\ disk' = disk /\ row' = row /\ staged' = staged /\ gc' = gc /\ fetch' = fetch
      /\ import' = import /\ draft' = draft /\ janitor' = janitor /\ lost' = lost
  BY DEF vars, data, tasks, bounds
<1>2. Typed'
  BY <1>1, DataStays, TasksStay DEF Inv, Typed
<1>3. FetchSafe'
  BY <1>1, FetchOutlasts DEF Inv, FetchSafe
<1>4. DraftSafe'
  BY <1>1, DraftOutlasts DEF Inv, DraftSafe
<1>5. MailFilesExist' /\ DraftFilesExist' /\ NothingLeaks'
  BY <1>1, DataStays DEF Inv, MailFilesExist, DraftFilesExist, NothingLeaks
<1> QED
  BY <1>2, <1>3, <1>4, <1>5 DEF Inv

LEMMA InvariantHolds ==
  ASSUME FilesAssumption
  PROVE  Spec => []Inv
<1>1. Init => Inv
  BY InitIsSafe
<1>2. Inv /\ [Next]_vars => Inv'
  BY NextIsSafe, StutteringIsSafe
<1> QED
  BY <1>1, <1>2, PTL DEF Spec

LEMMA InvariantIsTyped ==
  ASSUME FilesAssumption, Inv
  PROVE  TypeOK
<1>1. Staged \in SUBSET Keys /\ Cardinality(Staged) <= MaxStaged
  BY DEF Inv, Typed, BatchesTyped, Staged
<1>2. gc \in Seq(Keys) /\ IsInjective(gc)
  BY DEF Inv, Typed, QueueTyped
<1>3. ToSet(gc) \in SUBSET Keys
  BY <1>2 DEF ToSet
<1>4. Len(gc) = Cardinality(ToSet(gc))
  <2>1. Len(gc) \in Nat /\ gc \in [1..Len(gc) -> Keys]
    BY <1>2
  <2>2. gc \in Bijection(1..Len(gc), ToSet(gc))
    BY <1>2, <2>1 DEF Bijection, Injection, Surjection, IsInjective, ToSet
  <2>3. ExistsBijection(1..Len(gc), ToSet(gc))
    BY <2>2 DEF ExistsBijection
  <2> QED
    BY <2>1, <2>3, FS_CountingElements
<1>5. \A m \in Messages : row[m].keys \subseteq Keys /\ row[m].gen \in Nat
  BY DEF Inv, Typed, RowsTyped
<1>6. \A b \in staged : b.msg \in Mail /\ b.keys \subseteq Keys
  BY DEF Inv, Typed, BatchesTyped
<1>7. /\ fetch.pc \in {"idle", "fetching", "published", "waiting"}
      /\ import.pc \in {"none", "queued", "reserved", "done", "failed"}
      /\ draft.pc \in {"idle", "queued", "saved", "failed"}
      /\ janitor.pc \in {"delay", "submitted", "asleep"}
  BY DEF Inv, Typed, FetchTyped, DraftTyped
<1> QED
  BY <1>1, <1>3, <1>4, <1>5, <1>6, <1>7 DEF TypeOK, Inv, Typed

(* The types of the tables and tasks; file_staging never holds more files  *)
(* than MAX_STAGED_FILES, and file_gc has a key once at most.              *)
THEOREM FilesAreTyped ==
  ASSUME FilesAssumption
  PROVE  Spec => []TypeOK
<1>1. Inv => TypeOK
  BY InvariantIsTyped
<1> QED
  BY <1>1, InvariantHolds, PTL

(* A received message never names a file that is not there, whatever       *)
(* commits leave in doubt, for messages and for drafts.                    *)
THEOREM MailKeepsItsFiles ==
  ASSUME FilesAssumption
  PROVE  Spec => []MailFilesExist
<1>1. Inv => MailFilesExist
  BY DEF Inv
<1> QED
  BY <1>1, InvariantHolds, PTL

(* Drafts keep theirs too, unless the commit of a save is durable though   *)
(* it was reported as failed: then save_draft drops the guard of a file    *)
(* that the draft names.                                                   *)
THEOREM NamedFilesAreThere ==
  ASSUME FilesAssumption, "draft" \notin Doubtful
  PROVE  Spec => []NamedFilesExist
<1>1. Inv => NamedFilesExist
  <2> SUFFICES ASSUME Inv
               PROVE  NamedFilesExist
    OBVIOUS
  <2>1. \A m \in Messages : row[m].keys \subseteq disk
    BY DEF Inv, MailFilesExist, DraftFilesExist, Messages
  <2> QED
    BY <2>1, InvariantIsTyped DEF NamedFilesExist, ReferencedFilesExist
<1> QED
  BY <1>1, InvariantHolds, PTL

(* No file is left behind: a row, a reservation, the collector's queue or  *)
(* a guard owns it, or a crash took its guard before any of them did.      *)
THEOREM EveryFileHasAnOwner ==
  ASSUME FilesAssumption
  PROVE  Spec => []NothingLeaks
<1>1. Inv => NothingLeaks
  BY DEF Inv
<1> QED
  BY <1>1, InvariantHolds, PTL
===============================================================================
