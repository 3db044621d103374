----------------------------- MODULE ContentFiles -----------------------------
(***************************************************************************)
(* The private files of message bodies and attachments and the rows that   *)
(* own them: publication and its guards (mail/src/content.rs), the         *)
(* reservation and finalization of an import                               *)
(* (mail/src/store/sqlite/content.rs), the bodies of drafts                *)
(* (mail/src/core/compose.rs, store/sqlite/draft.rs), collection           *)
(* (store/sqlite/file_gc.rs) and its janitor (core/runtime.rs).  A file is *)
(* its key, a random token: one that nothing knows any more may be drawn   *)
(* again.  A commit may fail, or fail to say that it succeeded; the        *)
(* process may crash.                                                      *)
(***************************************************************************)
EXTENDS Integers, FiniteSets, SequencesExt

CONSTANTS
    Mail,       \* messages of an inbox, whose content is fetched
    Drafts,     \* local drafts
    Keys,       \* the pool of file keys
    Stuck,      \* keys whose file cannot be removed
    NoMessage,
    Batch,      \* MAX_FILES_PER_RUN
    MaxStaged,  \* MAX_STAGED_FILES
    MaxReap,    \* MAX_EXPIRED_BATCHES_PER_RESERVE
    Doubtful,   \* which commits may leave doubt: "import", "draft", "gc"
    MaxDoubts,  \* bound on commits that fail or leave doubt
    MaxCrashes, \* bound on crashes
    MaxStops,   \* bound on clean restarts
    MaxEdits    \* bound on deletions and draft saves

ASSUME FilesAssumption ==
    /\ Mail \cap Drafts = {} /\ NoMessage \notin Mail \cup Drafts
    /\ IsFiniteSet(Keys) /\ Stuck \subseteq Keys
    /\ Doubtful \subseteq {"import", "draft", "gc"}
    /\ {Batch, MaxStaged, MaxReap} \subseteq Nat \ {0}
    /\ {MaxDoubts, MaxCrashes, MaxStops, MaxEdits} \subseteq Nat

VARIABLES
    disk,    \* keys of the published files
    row,     \* message_content and attachments of each message
    staged,  \* file_staging: the batches of reservations
    gc,      \* file_gc in its order
    fetch,   \* the task that fetches the content of one message
    import,  \* its submission, once the writer has it
    draft,   \* the composer's save
    janitor, \* where the janitor is and whether a wakeup waits
    doubts, crashes, stops, edits,
    lost     \* history: files whose guard died with the process

data == <<disk, row, staged, gc>>
tasks == <<fetch, import, draft, janitor>>
bounds == <<doubts, crashes, stops, edits, lost>>
vars == <<data, tasks, bounds>>

Messages == Mail \cup Drafts

Idle == [pc |-> "idle", msg |-> NoMessage, keys |-> {}]

NoImport == [pc |-> "none", retained |-> FALSE]

(* An inbox message has no content, or content of an older version.        *)
Init ==
    /\ \E old \in [Mail -> SUBSET Keys] :
           /\ \A m \in Mail : Cardinality(old[m]) <= 1
           /\ \A m, n \in Mail : m # n => old[m] \cap old[n] = {}
           /\ disk = UNION {old[m] : m \in Mail}
           /\ row = [m \in Messages |->
                  [alive |-> m \in Mail, current |-> FALSE, gen |-> 0,
                   keys |-> IF m \in Mail THEN old[m] ELSE {}]]
    /\ staged = {} /\ gc = <<>>
    /\ fetch = Idle /\ draft = Idle /\ import = NoImport
    /\ janitor = [pc |-> "delay", wake |-> FALSE]
    /\ doubts = 0 /\ crashes = 0 /\ stops = 0 /\ edits = 0 /\ lost = {}

-----------------------------------------------------------------------------
(* Helpers                                                                 *)

Referenced(k) == \E m \in Messages : row[m].alive /\ k \in row[m].keys

Staged == UNION {b.keys : b \in staged}

Owned(k) == Referenced(k) \/ k \in Staged \/ k \in ToSet(gc)

(* FileKey::random                                                         *)
Fresh == {k \in Keys \ (disk \cup fetch.keys \cup draft.keys) : ~Owned(k)}

(* INSERT OR IGNORE INTO file_gc                                           *)
Queued(queue, S) == queue \o SetToSeq(S \ ToSet(queue))

WriterFree == import.pc # "reserved"

(* How a commit ends: done, rolled back, or durable but reported as failed. *)
CommitEnds(kind) ==
    IF doubts = MaxDoubts THEN {"done"}
    ELSE {"done", "undone"} \cup {end \in {"doubt"} : kind \in Doubtful}

Counts(end) == doubts' = doubts + IF end = "done" THEN 0 ELSE 1

Wake == janitor' = [janitor EXCEPT !.wake = TRUE]

-----------------------------------------------------------------------------
(* Fetching the content of a message                                       *)

(* Its target is a request of the writer's queue, behind earlier imports.  *)
StartFetch(m) ==
    /\ fetch = Idle /\ import = NoImport
    /\ m \in Mail /\ row[m].alive /\ ~row[m].current
    /\ fetch' = [Idle EXCEPT !.pc = "fetching", !.msg = m]
    /\ UNCHANGED <<data, import, draft, janitor, bounds>>

Finishes == fetch' = Idle /\ Wake

FetchFails ==
    /\ fetch.pc = "fetching" /\ Finishes
    /\ UNCHANGED <<data, import, draft, bounds>>

(* PreparedContent::publish: a body, an attachment, or both.               *)
PublishContent ==
    /\ fetch.pc = "fetching"
    /\ \E keys \in SUBSET Fresh :
           /\ Cardinality(keys) \in {1, 2}
           /\ disk' = disk \cup keys
           /\ fetch' = [fetch EXCEPT !.pc = "published", !.keys = keys]
    /\ UNCHANGED <<row, staged, gc, import, draft, janitor, bounds>>

SubmitImport ==
    /\ fetch.pc = "published"
    /\ fetch' = [fetch EXCEPT !.pc = "waiting"]
    /\ import' = [NoImport EXCEPT !.pc = "queued"]
    /\ UNCHANGED <<data, draft, janitor, bounds>>

(* The queue is full: the guards take the files away.                      *)
ImportRefused ==
    /\ fetch.pc = "published" /\ Finishes
    /\ disk' = disk \ fetch.keys
    /\ UNCHANGED <<row, staged, gc, import, draft, bounds>>

(* Expired reservations, at most MaxReap of them, go first; what they free *)
(* is committed even when the new one does not fit.                        *)
Expired == {b \in staged : b.expired}

Reaped == {S \in SUBSET Expired : Cardinality(S) = Min({MaxReap, Cardinality(Expired)})}

Fits_Ignored(kept) == TRUE

Fits(kept) == Cardinality(UNION {b.keys : b \in kept}) + Cardinality(fetch.keys) <= MaxStaged

Released(S) == Queued(gc, {k \in UNION {b.keys : b \in S} : ~Referenced(k)})

ImportIs(pc) == import' = [import EXCEPT !.pc = pc]

ReserveContent_RollsBack ==
    /\ import.pc = "queued" /\ UNCHANGED <<disk, fetch, draft, janitor,
                                           crashes, stops, edits, lost>>
    /\ IF ~row[fetch.msg].alive
       THEN ImportIs("failed") /\ UNCHANGED <<row, staged, gc, doubts>>
       ELSE \E S \in Reaped, end \in CommitEnds("import") :
            LET kept == staged \ S
                b == [msg |-> fetch.msg, gen |-> row[fetch.msg].gen + 1,
                      keys |-> fetch.keys, expired |-> FALSE]
            IN  /\ Counts(end)
                /\ IF end = "undone" \/ ~Fits(kept) THEN UNCHANGED <<row, staged, gc>>
                   ELSE /\ staged' = kept \cup {b} /\ gc' = Released(S)
                        /\ row' = [row EXCEPT ![b.msg].gen = b.gen]
                /\ ImportIs(IF end = "done" /\ Fits(kept) THEN "reserved" ELSE "failed")

ReserveContent ==
    /\ import.pc = "queued" /\ UNCHANGED <<disk, fetch, draft, janitor,
                                           crashes, stops, edits, lost>>
    /\ IF ~row[fetch.msg].alive
       THEN ImportIs("failed") /\ UNCHANGED <<row, staged, gc, doubts>>
       ELSE \E S \in Reaped, end \in CommitEnds("import") :
            LET kept == staged \ S
                b == [msg |-> fetch.msg, gen |-> row[fetch.msg].gen + 1,
                      keys |-> fetch.keys, expired |-> FALSE]
            IN  /\ Counts(end)
                /\ IF end = "undone" THEN UNCHANGED <<row, staged, gc>>
                   ELSE /\ gc' = Released(S)
                        /\ IF Fits(kept)
                           THEN /\ staged' = kept \cup {b}
                                /\ row' = [row EXCEPT ![b.msg].gen = b.gen]
                           ELSE staged' = kept /\ UNCHANGED row
                /\ ImportIs(IF end = "done" /\ Fits(kept) THEN "reserved" ELSE "failed")

(* The second transaction of the import: the files are retained before it  *)
(* commits, since staging owns them whatever becomes of the commit.        *)
Mine(b) == b.msg = fetch.msg /\ b.gen = row[fetch.msg].gen

Replaces(keys) ==
    LET m == fetch.msg IN
    /\ row' = [row EXCEPT ![m].keys = keys, ![m].current = TRUE]
    /\ staged' = {b \in staged : ~Mine(b)}
    /\ gc' = Queued(gc, {k \in row[m].keys \ keys :
                             ~\E n \in Messages \ {m} : row[n].alive /\ k \in row[n].keys})

FinalizeContent_RetainsLate ==
    /\ import.pc = "reserved"
    /\ \E end \in CommitEnds("import") :
           /\ Counts(end)
           /\ IF end = "undone" THEN UNCHANGED <<row, staged, gc>> ELSE Replaces(fetch.keys)
           /\ import' = [pc |-> IF end = "done" THEN "done" ELSE "failed",
                         retained |-> end = "done"]
    /\ UNCHANGED <<disk, fetch, draft, janitor, crashes, stops, edits, lost>>

FinalizeContent ==
    /\ import.pc = "reserved"
    /\ \E end \in CommitEnds("import") :
           /\ Counts(end)
           /\ IF end = "undone" THEN UNCHANGED <<row, staged, gc>> ELSE Replaces(fetch.keys)
           /\ import' = [pc |-> IF end = "done" THEN "done" ELSE "failed", retained |-> TRUE]
    /\ UNCHANGED <<disk, fetch, draft, janitor, crashes, stops, edits, lost>>

(* The reply: a submission that comes back is dropped with its guards.     *)
ImportEnds ==
    /\ import.pc \in {"done", "failed"} /\ Finishes
    /\ disk' = IF import.retained THEN disk ELSE disk \ fetch.keys
    /\ import' = NoImport
    /\ UNCHANGED <<row, staged, gc, draft, bounds>>

-----------------------------------------------------------------------------
(* Drafts and deletion                                                     *)

SaveDraft(d) ==
    /\ draft = Idle /\ edits < MaxEdits /\ edits' = edits + 1
    /\ \E k \in Fresh :
           /\ disk' = disk \cup {k}
           /\ draft' = [pc |-> "queued", msg |-> d, keys |-> {k}]
    /\ UNCHANGED <<row, staged, gc, fetch, import, janitor, doubts, crashes, stops, lost>>

WriteDraft ==
    /\ draft.pc = "queued" /\ WriterFree
    /\ \E end \in CommitEnds("draft") :
           /\ Counts(end)
           /\ IF end = "undone" THEN UNCHANGED <<row, gc>>
              ELSE /\ row' = [row EXCEPT ![draft.msg].alive = TRUE,
                                         ![draft.msg].keys = draft.keys]
                   /\ gc' = Queued(gc, row[draft.msg].keys)
           /\ draft' = [draft EXCEPT !.pc = IF end = "done" THEN "saved" ELSE "failed"]
    /\ UNCHANGED <<disk, staged, fetch, import, janitor, crashes, stops, edits, lost>>

SaveEnds ==
    /\ draft.pc \in {"saved", "failed"} /\ draft' = Idle
    /\ IF draft.pc = "saved" THEN Wake /\ UNCHANGED disk
       ELSE disk' = disk \ draft.keys /\ UNCHANGED janitor
    /\ UNCHANGED <<row, staged, gc, fetch, import, bounds>>

(* delete_permanently; its reply wakes the janitor.                        *)
Delete_KeepsFiles(m) ==
    /\ WriterFree /\ row[m].alive /\ m \in Mail
    /\ edits < MaxEdits /\ edits' = edits + 1
    /\ row' = [row EXCEPT ![m].alive = FALSE, ![m].keys = {}] /\ Wake
    /\ UNCHANGED <<disk, staged, gc, fetch, import, draft, doubts, crashes, stops, lost>>

Delete(m) ==
    /\ WriterFree /\ row[m].alive /\ m \in Mail
    /\ edits < MaxEdits /\ edits' = edits + 1
    /\ gc' = Queued(gc, row[m].keys)
    /\ row' = [row EXCEPT ![m].alive = FALSE, ![m].keys = {}] /\ Wake
    /\ UNCHANGED <<disk, staged, fetch, import, draft, doubts, crashes, stops, lost>>

(* CONTENT_IMPORT_TTL_MS has passed.                                       *)
Expire(b) ==
    /\ ~b.expired /\ WriterFree
    /\ staged' = (staged \ {b}) \cup {[b EXCEPT !.expired = TRUE]}
    /\ UNCHANGED <<disk, row, gc, tasks, bounds>>

-----------------------------------------------------------------------------
(* The janitor and its transaction                                         *)

Candidates == {gc[i] : i \in 1..Min({Batch, Len(gc)})}

Held(k) == Referenced(k) \/ k \in Staged

Removable == {k \in Candidates : ~Held(k) /\ k \notin Stuck}

(* Referenced, removed and missing ones leave the queue, failed ones stay. *)
Kept(k) == k \notin Candidates \/ (k \in Stuck /\ ~Held(k))

Position(k) == CHOOSE i \in DOMAIN gc : gc[i] = k

(* Some of the queue, in its order.                                        *)
Remaining(S) ==
    {q \in [1..Cardinality(S) -> S] :
        \A i, j \in DOMAIN q : i < j => Position(q[i]) < Position(q[j])}

AfterRun_Sleeps(end, queue) == "asleep"

AfterRun(end, queue) == IF end = "done" /\ queue = <<>> THEN "asleep" ELSE "delay"

DelayEnds ==
    /\ janitor.pc = "delay" /\ janitor' = [pc |-> "submitted", wake |-> FALSE]
    /\ UNCHANGED <<data, fetch, import, draft, bounds>>

(* Files go before the commit; if it fails they are found missing later.   *)
RunGc ==
    /\ janitor.pc = "submitted" /\ WriterFree
    /\ disk' = disk \ Removable
    /\ \E end \in CommitEnds("gc") :
           /\ Counts(end)
           /\ gc' \in Remaining({k \in ToSet(gc) : end = "undone" \/ Kept(k)})
           /\ janitor' = [janitor EXCEPT !.pc = AfterRun(end, gc')]
    /\ UNCHANGED <<row, staged, fetch, import, draft, crashes, stops, edits, lost>>

GcBusy ==
    /\ janitor.pc = "submitted" /\ import.pc # "none"
    /\ janitor' = [janitor EXCEPT !.pc = "delay"]
    /\ UNCHANGED <<data, fetch, import, draft, bounds>>

Wakes ==
    /\ janitor = [pc |-> "asleep", wake |-> TRUE]
    /\ janitor' = [pc |-> "delay", wake |-> FALSE]
    /\ UNCHANGED <<data, fetch, import, draft, bounds>>

-----------------------------------------------------------------------------
(* Restarts                                                                *)

Started == fetch' = Idle /\ draft' = Idle /\ import' = NoImport
           /\ janitor' = [pc |-> "delay", wake |-> FALSE]

(* Tasks are dropped with their guards, accepted writes and composer       *)
(* commands have ended.                                                    *)
Shutdown ==
    /\ import = NoImport /\ draft = Idle
    /\ stops < MaxStops /\ stops' = stops + 1 /\ Started
    /\ disk' = disk \ fetch.keys
    /\ UNCHANGED <<row, staged, gc, doubts, crashes, edits, lost>>

(* Nothing is dropped; a collection may be cut between unlink and commit.  *)
Crash ==
    /\ crashes < MaxCrashes /\ crashes' = crashes + 1 /\ Started
    /\ lost' = lost \cup {k \in fetch.keys \cup draft.keys : ~Owned(k)}
    /\ \E gone \in SUBSET IF janitor.pc = "submitted" /\ WriterFree THEN Removable ELSE {} :
           disk' = disk \ gone
    /\ UNCHANGED <<row, staged, gc, doubts, stops, edits>>

-----------------------------------------------------------------------------

Fetches == FetchFails \/ PublishContent \/ SubmitImport \/ ImportRefused \/ ImportEnds

Writer == ReserveContent \/ FinalizeContent \/ WriteDraft \/ RunGc

Sweeps == DelayEnds \/ GcBusy \/ Wakes

Next ==
    \/ Fetches \/ Writer \/ SaveEnds \/ Sweeps \/ Shutdown \/ Crash
    \/ \E m \in Mail : StartFetch(m) \/ Delete(m)
    \/ \E d \in Drafts : SaveDraft(d)
    \/ \E b \in staged : Expire(b)

Spec == Init /\ [][Next]_vars

(* The writer and the tasks run, the queue has room again and again,       *)
(* clocks advance, and the user asks again for content that is missing.    *)
Fairness ==
    /\ WF_vars(ReserveContent) /\ WF_vars(FinalizeContent) /\ WF_vars(WriteDraft)
    /\ SF_vars(RunGc) /\ WF_vars(DelayEnds) /\ WF_vars(Wakes) /\ WF_vars(SaveEnds)
    /\ WF_vars(ImportEnds) /\ SF_vars(SubmitImport)
    /\ SF_vars(PublishContent)
    /\ \A m \in Mail : SF_vars(StartFetch(m))
    /\ WF_vars(\E b \in staged : Expire(b))

FairSpec == Spec /\ Fairness

-----------------------------------------------------------------------------
(* Properties                                                              *)

(* Rows, batches and tasks are those of the code, and the files of all     *)
(* reservations stay within the limit of file_staging.                     *)
TypeOK ==
    /\ disk \cup lost \subseteq Keys
    /\ \A m \in Messages : row[m].keys \subseteq Keys /\ row[m].gen \in Nat
    /\ \A b \in staged : b.msg \in Mail /\ b.keys \subseteq Keys
    /\ Cardinality(Staged) <= MaxStaged
    /\ ToSet(gc) \subseteq Keys /\ Len(gc) = Cardinality(ToSet(gc))
    /\ fetch.pc \in {"idle", "fetching", "published", "waiting"}
    /\ import.pc \in {"none", "queued", "reserved", "done", "failed"}
    /\ draft.pc \in {"idle", "queued", "saved", "failed"}
    /\ janitor.pc \in {"delay", "submitted", "asleep"}

ReferencedFilesExist ==
    \A m \in Messages : row[m].alive => row[m].keys \subseteq disk

(* What a row names can be opened: no guard, no collection and no restart  *)
(* removes the file of a message, also when its commit left doubt.         *)
NamedFilesExist == TypeOK /\ ReferencedFilesExist

(* Every file has an owner that will remove it when it is no longer        *)
(* wanted: a row, a reservation, the queue of the collector or a guard.    *)
(* Only a crash between publication and reservation leaves one behind.     *)
NothingLeaks ==
    \A k \in disk : Owned(k) \/ k \in fetch.keys \cup draft.keys \cup lost

(* What is queued is collected, also what was queued while a run was going *)
(* on, as long as a batch is not full of files that cannot be removed.     *)
Collected == \A k \in Keys \ Stuck : []<>(k \notin ToSet(gc))

(* Reservations left behind by failed commits do not block new ones for    *)
(* good: content that is asked for again and again arrives.                *)
ContentArrives == \A m \in Mail : []<>(row[m].current \/ ~row[m].alive)
===============================================================================
