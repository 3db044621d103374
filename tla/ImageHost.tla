------------------------------ MODULE ImageHost ------------------------------
(***************************************************************************)
(* The worker of the image host: the rows of its database, the objects of  *)
(* its bucket and the messages of its Telegram channel, under the requests *)
(* of the browser, the daily cleanup and the script that moves originals   *)
(* from the bucket to the channel.  No transaction spans two statements,   *)
(* so every await is a place where another request takes a step.           *)
(*                                                                         *)
(* A request is the record of what it does (op), of its next statement     *)
(* (at), and of what it read earlier and still relies on (id, row).        *)
(* Handlers that read a row and update it without an await on anything     *)
(* but the database in between are one step, at their update.              *)
(***************************************************************************)
EXTENDS Naturals, FiniteSets

CONSTANTS
    Requests,       \* places for requests under way at one time
    Contents,       \* the hashes of the images of one owner
    MaxId,          \* bound: rows that are ever inserted
    MaxImages,      \* MAX_OWNER_IMAGES
    Storage,        \* IMAGE_STORAGE: "r2" or "telegram"
    Overlap,        \* may a removal overlap another request on its image?
    Faulty,         \* operations the platform may cut off
    MaxFaults,      \* bound: requests that are cut off
    MaxAsks,        \* bound: requests of a user on an image
    Migrated,       \* images that are there when the script is first started
    DeleteBackups   \* is the script run with --delete-r2?

ASSUME BoundsAssumption ==
    /\ MaxId \in Nat
    /\ \E n \in 0..MaxId : Migrated = 1..n
    /\ Storage \in {"r2", "telegram"}
    /\ Overlap \in BOOLEAN

VARIABLES
    images,     \* the table images
    objects,    \* the table telegram_objects; its rows are never deleted
    bucket,     \* the images whose object is in R2
    channel,    \* the messages of the channel
    lost,       \* messages no row will ever name (history)
    links,      \* the signed links handed out
    dead,       \* the links that were revoked (history)
    crowded,    \* images on which a removal has met another request (history)
    req,        \* the requests
    script,     \* the migration script
    nextId, faults, asks

vars == <<images, objects, bucket, channel, lost, links, dead, crowded, req,
          script, nextId, faults, asks>>

Ids == 1..MaxId
NoRow == [status |-> "none"]
NoObject == [message |-> <<>>]

Has(i) == images[i] # NoRow
Is(i, status) == images[i].status = status

Row(c) == [content |-> c, status |-> "uploading", visibility |-> "public", version |-> 1,
           backend |-> "r2", claim |-> "none", old |-> FALSE]

Idle == [op |-> "none", at |-> "idle", id |-> 0, row |-> NoRow]

\* A message is known by its image and its sender.
Message(i, p) == <<i, p>>
Object(m, backup) == [message |-> m, verified |-> FALSE, backup |-> backup,
                      deleted |-> FALSE, error |-> FALSE]

Init ==
    /\ \E hash \in [Migrated -> Contents] :
          /\ \A i, j \in Migrated : hash[i] = hash[j] => i = j
          /\ images = [i \in Ids |->
                IF i \in Migrated THEN [Row(hash[i]) EXCEPT !.status = "active"] ELSE NoRow]
    /\ objects = [i \in Ids |-> NoObject]
    /\ bucket = Migrated
    /\ channel = {} /\ lost = {} /\ links = {} /\ dead = {} /\ crowded = {}
    /\ req = [p \in Requests |-> Idle]
    /\ script = [at |-> "idle", id |-> 0]
    /\ nextId = 1 + Cardinality(Migrated)
    /\ faults = 0 /\ asks = 0

-----------------------------------------------------------------------------
(* What a delivery finds.                                                  *)

\* getStoredImage
Readable(i) ==
    IF images[i].backend = "r2"
    THEN i \in bucket
    ELSE /\ objects[i] # NoObject
         /\ objects[i].verified /\ ~objects[i].deleted
         /\ objects[i].message \in channel \/ (objects[i].backup /\ i \in bucket)

\* deliverImage with a signed link
Opens(link) ==
    /\ Is(link.id, "active")
    /\ images[link.id].visibility = "private"
    /\ images[link.id].version = link.version

-----------------------------------------------------------------------------
(* Requests.                                                               *)

On(p, i) == req[p].at # "idle" /\ req[p].id = i

Removals == {"delete", "discard", "cleanup"}

\* Nothing in the code keeps a removal from overlapping another request on
\* its image; the front end does for the requests of one window.
Crowd(i, busy) ==
    /\ busy => Overlap
    /\ crowded' = IF busy THEN crowded \cup {i} ELSE crowded

Admit(op, i) ==
    Crowd(i, \E q \in Requests : On(q, i) /\ {op, req[q].op} \cap Removals # {})

Start(p, op, at, i) ==
    /\ req[p] = Idle
    /\ Admit(op, i)
    /\ req' = [req EXCEPT ![p] = [op |-> op, at |-> at, id |-> i, row |-> images[i]]]

Go(p, at) == req' = [req EXCEPT ![p].at = at]
Answer(p) == req' = [req EXCEPT ![p] = Idle]

Update(i, row) == images' = [images EXCEPT ![i] = row]

\* The links of an image that were handed out so far are revoked.
Revoked(i) == dead' = dead \cup {l \in links : l.id = i}

Asked == asks < MaxAsks /\ asks' = asks + 1

files == <<objects, bucket, channel, lost>>
world == <<files, links, dead, script, nextId, faults>>

\* POST /uploads: the row of an earlier upload of the same content decides.
\* An active image and a young upload are answered at once.
Create(p, c) ==
    /\ LET same == {i \in Ids : Has(i) /\ images[i].content = c}
       IN \/ /\ same = {} /\ nextId <= MaxId
             /\ req[p] = Idle
             /\ req' = [req EXCEPT ![p] = [op |-> "create", at |-> "quota", id |-> 0,
                                           row |-> Row(c)]]
             /\ crowded' = crowded
          \/ \E i \in same :
                \/ Is(i, "trashed") /\ Start(p, "reactivate", "reactivate", i)
                \/ Is(i, "uploading") /\ images[i].old /\ nextId <= MaxId
                   /\ Start(p, "discard", "drop", i)
    /\ UNCHANGED <<images, world, asks>>

\* The update names the row by its id alone.
Reactivate(p) ==
    LET i == req[p].id IN
    /\ req[p].at = "reactivate"
    /\ IF Has(i)
       THEN /\ Update(i, [images[i] EXCEPT !.status = "active", !.visibility = "public",
                                           !.version = @ + 1])
            /\ Revoked(i)
       ELSE UNCHANGED <<images, dead>>
    /\ Answer(p)
    /\ UNCHANGED <<crowded, files, links, script, nextId, faults, asks>>

Count == Cardinality({i \in Ids : Has(i)})

CheckQuota(p) ==
    /\ req[p].at = "quota"
    /\ IF Count < MaxImages THEN Go(p, "insert") ELSE Answer(p)
    /\ UNCHANGED <<crowded, images, world, asks>>

\* The table admits one row for a content.
Insert(p) ==
    LET c == req[p].row.content IN
    /\ req[p].at = "insert"
    /\ nextId <= MaxId
    /\ IF \E i \in Ids : Has(i) /\ images[i].content = c
       THEN UNCHANGED <<images, nextId>>
       ELSE Update(nextId, Row(c)) /\ nextId' = nextId + 1
    /\ Answer(p)
    /\ UNCHANGED <<crowded, files, links, dead, script, faults, asks>>

\* PUT /uploads/:id: one request claims the upload for ten minutes.
Put(p, i) ==
    /\ Is(i, "uploading") /\ images[i].claim # "fresh"
    /\ Start(p, "put", "body", i)
    /\ Update(i, [images[i] EXCEPT !.claim = "fresh"])
    /\ UNCHANGED <<world, asks>>

\* The body arrives whole and as announced, or the upload is given up.
ReadBody(p) ==
    /\ req[p].at = "body"
    /\ \E good \in BOOLEAN : Go(p, IF good THEN "store" ELSE "drop")
    /\ UNCHANGED <<crowded, images, world, asks>>

\* putStoredImage.  The answer to a send may be lost, and the message there.
Store(p) ==
    LET i == req[p].id IN
    /\ req[p].at = "store"
    /\ \/ /\ Storage = "r2"
          /\ \/ bucket' = bucket \cup {i} /\ \E ok \in BOOLEAN : Go(p, IF ok THEN "activate" ELSE "drop")
             \/ bucket' = bucket /\ Go(p, "drop")
          /\ UNCHANGED <<channel, lost>>
       \/ /\ Storage = "telegram"
          /\ \/ channel' = channel \cup {Message(i, p)} /\ lost' = lost /\ Go(p, "checkpoint")
             \/ /\ \E M \in SUBSET {Message(i, p)} :
                      channel' = channel \cup M /\ lost' = lost \cup M
                /\ Go(p, "drop")
          /\ bucket' = bucket
    /\ UNCHANGED <<crowded, images, objects, links, dead, script, nextId, faults, asks>>

\* A message that is taken back; nobody notes when that fails.
TakeBack(m) ==
    \E gone \in BOOLEAN :
        /\ channel' = IF gone THEN channel \ {m} ELSE channel
        /\ lost' = IF gone THEN lost ELSE lost \cup {m}

\* The reference is written before the message is verified, once for an image.
Checkpoint(p) ==
    LET i == req[p].id IN
    /\ req[p].at = "checkpoint"
    /\ IF objects[i] = NoObject
       THEN /\ objects' = [objects EXCEPT ![i] = Object(Message(i, p), FALSE)]
            /\ Go(p, "verify")
            /\ UNCHANGED <<channel, lost>>
       ELSE TakeBack(Message(i, p)) /\ Go(p, "drop") /\ objects' = objects
    /\ UNCHANGED <<crowded, images, bucket, links, dead, script, nextId, faults, asks>>

\* The file is read back; a message that is gone cannot be.
Verify(p) ==
    LET i == req[p].id IN
    /\ req[p].at = "verify"
    /\ \/ /\ Message(i, p) \in channel
          /\ objects' = [objects EXCEPT ![i].verified = TRUE]
          /\ Go(p, "activate")
       \/ objects' = objects /\ Go(p, "drop")
    /\ UNCHANGED <<crowded, images, bucket, channel, lost, links, dead, script, nextId, faults, asks>>

\* Only an upload becomes active; a row that is gone fails the request.
Activate(p) ==
    LET i == req[p].id IN
    /\ req[p].at = "activate"
    /\ \/ /\ IF Is(i, "uploading")
             THEN Update(i, [images[i] EXCEPT !.status = "active", !.backend = Storage])
             ELSE UNCHANGED images
          /\ IF Has(i) THEN Answer(p) ELSE Go(p, "drop")
       \/ UNCHANGED images /\ Go(p, "drop")
    /\ UNCHANGED <<crowded, world, asks>>

-----------------------------------------------------------------------------
(* deleteStoredImage and the deletion of the row: the end of a failed      *)
(* upload, of an upload that was given up, and of an image.                *)

\* The bucket is cleared by the backend the request read, or for a backup.
Drop_BackendOnly(p) ==
    LET i == req[p].id IN
    /\ req[p].at = "drop"
    /\ bucket' = IF req[p].row.backend = "r2" THEN bucket \ {i} ELSE bucket
    /\ Go(p, IF objects[i] = NoObject THEN "forget" ELSE "unsend")
    /\ UNCHANGED <<crowded, images, objects, channel, lost, links, dead, script, nextId, faults, asks>>
Drop(p) ==
    LET i == req[p].id
        object == objects[i]
    IN
    /\ req[p].at = "drop"
    /\ bucket' = IF req[p].row.backend = "r2" \/ (object # NoObject /\ object.backup)
                 THEN bucket \ {i}
                 ELSE bucket
    /\ Go(p, IF object = NoObject THEN "forget" ELSE "unsend")
    /\ UNCHANGED <<crowded, images, objects, channel, lost, links, dead, script, nextId, faults, asks>>

\* A message that is too old, or a channel that refuses, is noted in the row.
Unsend_Silent(p) ==
    LET i == req[p].id IN
    /\ req[p].at = "unsend"
    /\ \E gone \in BOOLEAN :
          /\ channel' = IF gone THEN channel \ {objects[i].message} ELSE channel
          /\ objects' = [objects EXCEPT ![i].deleted = TRUE, ![i].backup = FALSE]
    /\ Go(p, "forget")
    /\ UNCHANGED <<crowded, images, bucket, lost, links, dead, script, nextId, faults, asks>>
Unsend(p) ==
    LET i == req[p].id IN
    /\ req[p].at = "unsend"
    /\ \E gone \in BOOLEAN :
          /\ channel' = IF gone THEN channel \ {objects[i].message} ELSE channel
          /\ objects' = [objects EXCEPT ![i].deleted = TRUE, ![i].backup = FALSE,
                                        ![i].error = ~gone]
    /\ Go(p, "forget")
    /\ UNCHANGED <<crowded, images, bucket, lost, links, dead, script, nextId, faults, asks>>

\* The row goes, whatever it has become; an upload that replaces it goes on.
Forget(p) ==
    /\ req[p].at = "forget"
    /\ Update(req[p].id, NoRow)
    /\ IF req[p].op = "discard"
       THEN req' = [req EXCEPT ![p] = [@ EXCEPT !.op = "create", !.at = "quota", !.id = 0]]
       ELSE Answer(p)
    /\ UNCHANGED <<crowded, world, asks>>

-----------------------------------------------------------------------------
(* The requests of a user on an image.                                     *)

\* POST /images/:id/trash
Trash(p, i) ==
    /\ Is(i, "active")
    /\ Asked
    /\ Start(p, "trash", "purge", i)
    /\ Update(i, [images[i] EXCEPT !.status = "trashed", !.old = FALSE, !.version = @ + 1])
    /\ Revoked(i)
    /\ UNCHANGED <<files, links, script, nextId, faults>>

\* POST /images/:id/restore
Restore(i) ==
    /\ Is(i, "trashed")
    /\ Admit("restore", i)
    /\ Asked
    /\ Update(i, [images[i] EXCEPT !.status = "active", !.visibility = "private",
                                   !.version = @ + 1])
    /\ Revoked(i)
    /\ UNCHANGED <<files, links, req, script, nextId, faults>>

\* PATCH /images/:id: what becomes private is purged from the edge.
Patch(p, i) ==
    /\ Is(i, "active")
    /\ Asked
    /\ \/ /\ images[i].visibility = "public"
          /\ Update(i, [images[i] EXCEPT !.visibility = "private"])
          /\ Start(p, "patch", "purge", i)
       \/ /\ images[i].visibility = "private"
          /\ Admit("patch", i)
          /\ Update(i, [images[i] EXCEPT !.visibility = "public"])
          /\ req' = req
    /\ UNCHANGED world

\* DELETE /images/:id
Delete_AnyState(p, i) ==
    /\ Has(i)
    /\ Asked
    /\ Start(p, "delete", "purge", i)
    /\ UNCHANGED <<images, world>>
Delete(p, i) ==
    /\ Is(i, "trashed")
    /\ Asked
    /\ Start(p, "delete", "purge", i)
    /\ UNCHANGED <<images, world>>

\* A purge that fails takes the change back, whatever the row has become.
Purge_AnyRow(p) ==
    LET i == req[p].id IN
    /\ req[p].at = "purge"
    /\ \/ /\ IF req[p].op = "delete" THEN Go(p, "drop") ELSE Answer(p)
          /\ UNCHANGED images
       \/ /\ CASE req[p].op = "trash" -> Update(i, [req[p].row EXCEPT !.status = "active"])
               [] req[p].op = "patch" /\ Has(i) ->
                    Update(i, [images[i] EXCEPT !.visibility = "public"])
               [] OTHER -> UNCHANGED images
          /\ Answer(p)
    /\ UNCHANGED <<crowded, world, asks>>
Purge(p) ==
    LET i == req[p].id IN
    /\ req[p].at = "purge"
    /\ \/ /\ IF req[p].op = "delete" THEN Go(p, "drop") ELSE Answer(p)
          /\ UNCHANGED images
       \/ /\ CASE req[p].op = "trash" /\ Has(i) ->
                    Update(i, [images[i] EXCEPT !.status = "active"])
               [] req[p].op = "patch" /\ Has(i) ->
                    Update(i, [images[i] EXCEPT !.visibility = "public"])
               [] OTHER -> UNCHANGED images
          /\ Answer(p)
    /\ UNCHANGED <<crowded, world, asks>>

\* POST /images/:id/share-links: the version of the row is signed.
Share(i) ==
    /\ Is(i, "active") /\ images[i].visibility = "private"
    /\ links' = links \cup {[id |-> i, version |-> images[i].version]}
    /\ UNCHANGED <<crowded, images, files, dead, req, script, nextId, faults, asks>>

\* POST /images/:id/revoke-links
Revoke(i) ==
    /\ Has(i)
    /\ Asked
    /\ Update(i, [images[i] EXCEPT !.version = @ + 1])
    /\ Revoked(i)
    /\ UNCHANGED <<crowded, files, links, req, script, nextId, faults>>

-----------------------------------------------------------------------------
(* The daily cleanup, and time.                                            *)

\* cleanupExpiredImages: an upload of a day, an image a month in the trash.
Cleanup_OnlyTrash(p, i) ==
    /\ Is(i, "trashed")
    /\ images[i].old
    /\ Start(p, "cleanup", "drop", i)
    /\ UNCHANGED <<images, world, asks>>
Cleanup(p, i) ==
    /\ Is(i, "uploading") \/ Is(i, "trashed")
    /\ images[i].old
    /\ Start(p, "cleanup", "drop", i)
    /\ UNCHANGED <<images, world, asks>>

GrowOld(i) ==
    /\ Is(i, "uploading") \/ Is(i, "trashed")
    /\ ~images[i].old
    /\ Update(i, [images[i] EXCEPT !.old = TRUE])
    /\ UNCHANGED <<crowded, world, req, asks>>

\* Ten minutes; an upload outlasts them only where requests overlap freely.
ClaimExpires(i) ==
    /\ Is(i, "uploading") /\ images[i].claim = "fresh"
    /\ Crowd(i, \E p \in Requests : On(p, i))
    /\ Update(i, [images[i] EXCEPT !.claim = "stale"])
    /\ UNCHANGED <<world, req, asks>>

\* The platform ends a request, or one of its statements fails.
CutOff(p) ==
    /\ faults < MaxFaults /\ faults' = faults + 1
    /\ req[p].op \in Faulty /\ req[p] # Idle
    /\ lost' = lost \cup (IF req[p].at = "checkpoint" THEN {Message(req[p].id, p)} ELSE {})
    /\ Answer(p)
    /\ UNCHANGED <<crowded, images, objects, bucket, channel, links, dead, script, nextId, asks>>

-----------------------------------------------------------------------------
(* The migration script.  It works on one image at a time, it may be       *)
(* interrupted anywhere and is run again.                                  *)

Rest == [at |-> "idle", id |-> 0]
GoOn(at) == script' = [script EXCEPT !.at = at]
byScript == <<links, dead, crowded, req, nextId, faults, asks>>

MigrateBegin(i) ==
    /\ script = Rest
    /\ i \in Migrated
    /\ Is(i, "active") /\ images[i].backend = "r2"
    /\ objects[i] # NoObject => ~objects[i].deleted
    /\ script' = [at |-> IF objects[i] = NoObject THEN "send" ELSE "verify", id |-> i]
    /\ UNCHANGED <<images, files, byScript>>

\* The original is read from the bucket and sent.
MigrateSend ==
    LET i == script.id
        m == Message(i, "script")
    IN
    /\ script.at = "send"
    /\ \/ /\ i \in bucket
          /\ channel' = channel \cup {m} /\ lost' = lost \ {m}
          /\ GoOn("insert")
       \/ UNCHANGED <<channel, lost>> /\ script' = Rest
    /\ UNCHANGED <<images, objects, bucket, byScript>>

\* The reference is written while the image is still active and in the bucket.
MigrateInsert ==
    LET i == script.id
        m == Message(i, "script")
    IN
    /\ script.at = "insert"
    /\ IF Is(i, "active") /\ images[i].backend = "r2" /\ objects[i] = NoObject
       THEN /\ objects' = [objects EXCEPT ![i] = Object(m, TRUE)]
            /\ GoOn("verify")
            /\ UNCHANGED <<channel, lost>>
       ELSE TakeBack(m) /\ script' = Rest /\ objects' = objects
    /\ UNCHANGED <<images, bucket, byScript>>

MigrateVerify ==
    LET i == script.id IN
    /\ script.at = "verify"
    /\ \/ /\ objects[i].message \in channel
          /\ objects' = [objects EXCEPT ![i].verified = @ \/ ~objects[i].deleted]
          /\ GoOn("switch")
       \/ objects' = objects /\ script' = Rest
    /\ UNCHANGED <<images, bucket, channel, lost, byScript>>

\* The image is switched while it is active and its copy verified.
MigrateSwitch ==
    LET i == script.id IN
    /\ script.at = "switch"
    /\ IF /\ Is(i, "active") /\ images[i].backend = "r2"
          /\ objects[i].verified /\ ~objects[i].deleted
       THEN /\ Update(i, [images[i] EXCEPT !.backend = "telegram"])
            /\ script' = IF DeleteBackups THEN [script EXCEPT !.at = "confirm"] ELSE Rest
       ELSE UNCHANGED images /\ script' = Rest
    /\ UNCHANGED <<files, byScript>>

\* --prune-backups takes the images that were switched in an earlier run.
Prune(i) ==
    /\ script = Rest
    /\ Is(i, "active") /\ images[i].backend = "telegram"
    /\ objects[i].verified /\ objects[i].backup /\ ~objects[i].deleted
    /\ script' = [at |-> "confirm", id |-> i]
    /\ UNCHANGED <<images, files, byScript>>

\* removeBackup: the copy is read once more, the row, and then the bucket.
ConfirmCopy ==
    LET i == script.id IN
    /\ script.at = "confirm"
    /\ IF /\ objects[i].message \in channel
          /\ Is(i, "active") /\ images[i].backend = "telegram"
       THEN GoOn("remove")
       ELSE script' = Rest
    /\ UNCHANGED <<images, files, byScript>>

RemoveBackup ==
    /\ script.at = "remove"
    /\ bucket' = bucket \ {script.id}
    /\ GoOn("flag")
    /\ UNCHANGED <<images, objects, channel, lost, byScript>>

FlagBackup ==
    /\ script.at = "flag"
    /\ objects' = [objects EXCEPT ![script.id].backup = FALSE]
    /\ script' = Rest
    /\ UNCHANGED <<images, bucket, channel, lost, byScript>>

Interrupt ==
    /\ script # Rest
    /\ lost' = lost \cup (IF script.at = "insert" THEN {Message(script.id, "script")} ELSE {})
    /\ script' = Rest
    /\ UNCHANGED <<images, objects, bucket, channel, byScript>>

-----------------------------------------------------------------------------
\* One step of the request at place p.
Step(p) ==
    \/ Reactivate(p) \/ CheckQuota(p) \/ Insert(p)
    \/ ReadBody(p) \/ Store(p) \/ Checkpoint(p) \/ Verify(p) \/ Activate(p)
    \/ Drop(p) \/ Unsend(p) \/ Forget(p)
    \/ Purge(p)

\* What a user asks for, at any time.
Ask(p) ==
    \/ \E c \in Contents : Create(p, c)
    \/ \E i \in Ids : Put(p, i) \/ Trash(p, i) \/ Patch(p, i) \/ Delete(p, i)

Script ==
    \/ \E i \in Ids : MigrateBegin(i) \/ Prune(i)
    \/ MigrateSend \/ MigrateInsert \/ MigrateVerify \/ MigrateSwitch
    \/ ConfirmCopy \/ RemoveBackup \/ FlagBackup
    \/ Interrupt

Next ==
    \/ \E p \in Requests :
          \/ Ask(p) \/ Step(p) \/ CutOff(p)
          \/ \E i \in Ids : Cleanup(p, i)
    \/ \E i \in Ids : Restore(i) \/ Share(i) \/ Revoke(i) \/ GrowOld(i) \/ ClaimExpires(i)
    \/ Script

\* Requests end, time passes, and the cleanup runs every day.
Fairness ==
    /\ \A p \in Requests : WF_vars(Step(p))
    /\ \A i \in Ids :
          /\ WF_vars(GrowOld(i))
          /\ SF_vars(\E p \in Requests : Cleanup(p, i))

Spec == Init /\ [][Next]_vars /\ Fairness

-----------------------------------------------------------------------------
\* An image the user is shown can be read.  Where a removal met another
\* request it may lack its bytes for as long as the removal takes, and then
\* it is gone.
ImagesHaveBytes ==
    \A i \in DOMAIN images : Is(i, "active") =>
        \/ Readable(i)
        \/ i \in crowded /\ \E p \in Requests : On(p, i) /\ req[p].at \in {"unsend", "forget"}

\* Where no removal met another request, everything that is stored belongs to
\* a row or to a request under way, or its row says that it has to be removed
\* by hand; a copy in the bucket of an image in the channel is known as its
\* backup.
StorageIsOwned ==
    /\ \A i \in bucket \ crowded :
          /\ Has(i)
          /\ images[i].backend = "telegram" => objects[i].backup
    /\ \A m \in channel \ lost :
          LET i == m[1] IN
          \/ i \in crowded
          \/ objects[i].message = m /\ (objects[i].deleted => objects[i].error)
          \/ \E p \in Requests : m[2] = p /\ On(p, i)
          \/ script.at = "insert" /\ script.id = i
    /\ \A i \in DOMAIN objects \ crowded :
          objects[i] # NoObject /\ ~objects[i].deleted => Has(i)

\* The images, the bucket and the channel agree.
StorageIsSound == ImagesHaveBytes /\ StorageIsOwned

\* A link that was revoked, by the user, the trash or a restore, never opens
\* its image again.
LinksStayDead == \A l \in dead : ~Opens(l)

\* "Permanent deletion is only for images in the trash": no row of an active
\* image is deleted, by no path, unless a removal met another request on it.
DeletedFromTrash ==
    [][\A i \in DOMAIN images \ crowded : Is(i, "active") => images'[i] # NoRow]_vars

\* An upload becomes an image or goes, whatever was cut off, and an image in
\* the trash leaves it one way or the other.
UploadsSettle ==
    \A i \in Ids :
        (Is(i, "uploading") \/ Is(i, "trashed")) ~> ~(Is(i, "uploading") \/ Is(i, "trashed"))
=============================================================================
