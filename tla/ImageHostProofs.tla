--------------------------- MODULE ImageHostProofs ---------------------------
(***************************************************************************)
(* Proof that the worker of the image host keeps its promises for any      *)
(* number of requests and images: a link that was revoked stays dead, no   *)
(* image is deleted but from the trash, and rows, bucket and channel       *)
(* agree.                                                                  *)
(***************************************************************************)
EXTENDS ImageHost, FiniteSetTheorems, TLAPS

Live(i) == Has(i) /\ ~Is(i, "uploading")

-----------------------------------------------------------------------------
(* What the variables hold.                                                *)

RowType ==
    [content : Contents, status : {"uploading", "active", "trashed"},
     visibility : {"public", "private"}, version : Nat,
     backend : {"r2", "telegram"}, claim : {"none", "fresh", "stale"}, old : BOOLEAN]

Senders == Requests \cup {"script"}

ObjectType(i) ==
    [message : {i} \X Senders, verified : BOOLEAN, backup : BOOLEAN,
     deleted : BOOLEAN, error : BOOLEAN]

\* The identities some row has had.
Used == {i \in Ids : i < nextId}

RequestType ==
    [op : {"none", "create", "reactivate", "discard", "put", "trash", "patch",
           "delete", "cleanup"},
     at : {"idle", "quota", "reactivate", "insert", "body", "store", "checkpoint",
           "verify", "activate", "purge", "drop", "unsend", "forget"},
     id : Used \cup {0}, row : RowType \cup {NoRow}]

ScriptType ==
    [at : {"idle", "send", "insert", "verify", "switch", "confirm", "remove", "flag"},
     id : Used \cup {0}]

(* A request is where its kind takes it, and relies on the row it read.    *)
Stages(r) ==
    \/ r = Idle
    \/ /\ r.op = "create" /\ r.at \in {"quota", "insert"}
       /\ r.id = 0 /\ r.row \in RowType
    \/ /\ r.id \in Used /\ r.row \in RowType
       /\ \/ r.op = "reactivate" /\ r.at = "reactivate"
          \/ r.op \in {"trash", "patch"} /\ r.at = "purge"
          \/ r.op = "delete" /\ r.at \in {"purge", "drop", "unsend", "forget"}
          \/ r.op \in {"discard", "cleanup"} /\ r.at \in {"drop", "unsend", "forget"}
          \/ r.op = "put" /\ r.at \in {"body", "store", "checkpoint", "verify",
                                       "activate", "drop", "unsend", "forget"}

RowsOK ==
    /\ images \in [Ids -> RowType \cup {NoRow}]
    /\ \A i \in Ids : Has(i) => i \in Used

FilesOK ==
    /\ DOMAIN objects = Ids
    /\ \A i \in Ids : \/ objects[i] = NoObject
                      \/ i \in Used /\ objects[i] \in ObjectType(i)
    /\ objects = [i \in Ids |-> objects[i]]
    /\ bucket \subseteq Used
    /\ channel \subseteq Used \X Senders

LinksOK ==
    /\ links \subseteq [id : Used, version : Nat]
    /\ dead \subseteq links

RequestsOK == req \in [Requests -> RequestType] /\ \A p \in Requests : Stages(req[p])

CrowdedOK == crowded \subseteq Ids /\ (Overlap \/ crowded = {})

TypeOK ==
    /\ RowsOK /\ FilesOK /\ LinksOK /\ RequestsOK
    /\ CrowdedOK
    /\ script \in ScriptType
    /\ nextId \in Nat \ {0}

(* The version of a row is ahead of its revoked links.                     *)
Versions ==
    \A l \in links : Has(l.id) =>
        /\ l.version <= images[l.id].version
        /\ l \in dead => l.version < images[l.id].version

LinkInv == TypeOK /\ Versions

-----------------------------------------------------------------------------
(* Where no removal met another request, requests are orderly.             *)

Orderly(p) ==
    LET i == req[p].id IN
    req[p].at # "idle" /\ i \in Ids \ crowded =>
        /\ Has(i)
        /\ req[p].op \in Removals =>
              ~Is(i, "active") /\ \A q \in Requests : On(q, i) => q = p
        /\ req[p].op = "discard" => Is(i, "uploading")
        /\ req[p].op = "delete" => Is(i, "trashed")
        /\ req[p].op = "put" =>
              /\ Is(i, "uploading") /\ images[i].claim = "fresh"
              /\ \A q \in Requests : On(q, i) /\ req[q].op = "put" => q = p
        /\ req[p].op \in {"trash", "patch", "reactivate"} => ~Is(i, "uploading")

OrderInv == LinkInv /\ \A p \in Requests : Orderly(p)

-----------------------------------------------------------------------------
(* Rows, references, bucket and channel.                                   *)

(* The script works on an image, with the reference it wrote or found.     *)
ScriptKnows ==
    LET i == script.id IN
    /\ script.at = "idle" <=> i = 0
    /\ script.at # "idle" =>
          /\ ~Is(i, "uploading")
          /\ script.at \in {"send", "insert"} => objects[i] = NoObject
          /\ script.at \notin {"send", "insert"} => objects[i] # NoObject
          /\ script.at \in {"send", "insert", "verify", "switch"} => i \in Migrated
          /\ script.at \in {"confirm", "remove", "flag"} /\ Has(i) =>
                images[i].backend = "telegram"
          /\ script.at = "flag" /\ i \notin crowded => i \notin bucket

(* The reference of a row comes before its backend.                        *)
Referenced(i) ==
    /\ Has(i) /\ images[i].backend = "telegram" =>
          objects[i] # NoObject /\ (Storage = "r2" => i \in Migrated)
    /\ Is(i, "uploading") =>
          /\ images[i].backend = "r2" /\ i \notin Migrated
          /\ Storage = "r2" => objects[i] = NoObject

(* What request p relies on when it works on image i.                      *)
Relies(p, i) ==
    /\ req[p].at \in {"checkpoint", "verify"} => Storage = "telegram"
    /\ \/ req[p].at \in {"verify", "unsend"}
       \/ req[p].at = "activate" /\ Storage = "telegram"
       => objects[i] # NoObject
    /\ Has(i) /\ req[p].row.backend = "telegram" => images[i].backend = "telegram"
    /\ i \in Migrated => req[p].op \notin {"put", "discard"}
    /\ Has(i) /\ req[p].op \in {"trash", "patch", "reactivate", "delete"} =>
          ~Is(i, "uploading")

(* A removal of the bytes of image i is past the bucket.                   *)
Gutted(i) == \E p \in Requests : On(p, i) /\ req[p].at \in {"unsend", "forget"}

Sent(i) == objects[i].message \in channel

(* An image has its bytes until a removal takes them.                      *)
Whole(i) ==
    Live(i) /\ ~Gutted(i) =>
        /\ images[i].backend = "r2" => i \in bucket
        /\ images[i].backend = "telegram" => objects[i].verified /\ ~objects[i].deleted
        /\ objects[i] # NoObject /\ objects[i].verified /\ ~objects[i].deleted => Sent(i)

(* An upload has written what it is about to activate.                     *)
Written(p, i) ==
    req[p].op = "put" /\ Has(i) /\ ~Gutted(i) =>
        /\ req[p].at = "activate" /\ Storage = "r2" => i \in bucket
        /\ req[p].at \in {"verify", "activate"} /\ Storage = "telegram" =>
              objects[i].message = Message(i, p) /\ ~objects[i].deleted
        /\ req[p].at = "activate" /\ Storage = "telegram" => objects[i].verified /\ Sent(i)

(* No upload takes back the message another upload of its image relies on. *)
Recorded(p, i) == objects[i] # NoObject /\ objects[i].message = Message(i, p)

NoClash(p, i) ==
    Overlap /\ Recorded(p, i) /\ Has(i) /\ ~Gutted(i) =>
        /\ Is(i, "uploading") =>
              /\ req[p].op = "put" /\ req[p].id = i
              /\ req[p].at \in {"verify", "activate", "drop"}
        /\ ~(/\ req[p].op = "put" /\ req[p].id = i
             /\ req[p].at \in {"body", "store", "checkpoint"})

(* What is stored has an owner.                                            *)
BucketOwned(i) ==
    /\ i \in bucket => Has(i) /\ (images[i].backend = "telegram" => objects[i].backup)
    /\ Gutted(i) => i \notin bucket
    /\ Live(i) /\ images[i].backend = "r2" /\ objects[i] # NoObject =>
          objects[i].backup \/ objects[i].deleted
    /\ Is(i, "uploading") /\ Storage = "telegram" => i \notin bucket

ReferenceOwned(i) ==
    /\ objects[i] # NoObject /\ ~objects[i].deleted => Has(i)
    /\ \A p \in Requests : On(p, i) /\ req[p].at = "forget" =>
          objects[i] = NoObject \/ objects[i].deleted

MessageOwned(m, i) ==
    \/ /\ objects[i] # NoObject /\ objects[i].message = m
       /\ objects[i].deleted => objects[i].error
    \/ \E p \in Requests : m[2] = p /\ On(p, i) /\ req[p].at = "checkpoint"
    \/ script.at = "insert" /\ script.id = i /\ m[2] = "script"

(* Row, reference, bucket and channel agree on image i.                    *)
Agrees(i) ==
    /\ Referenced(i) /\ Whole(i)
    /\ \A p \in Requests : On(p, i) => Relies(p, i) /\ Written(p, i)
    /\ \A p \in Requests : NoClash(p, i)
    /\ i \notin crowded =>
          /\ BucketOwned(i) /\ ReferenceOwned(i)
          /\ \A m \in channel \ lost : m[1] = i => MessageOwned(m, i)

StorageInv ==
    /\ OrderInv
    /\ Migrated \subseteq Used
    /\ ScriptKnows
    /\ \A i \in Ids : Agrees(i)

-----------------------------------------------------------------------------
(* Rows, references and requests that are there.                           *)

LEMMA NoRowIsNone ==
  /\ NoRow \notin RowType
  /\ NoRow.status = "none"
  BY DEF NoRow, RowType

LEMMA NoObjectIsNone ==
  ASSUME NEW i
  PROVE  NoObject \notin ObjectType(i)
<1>1. SUFFICES ASSUME NoObject \in ObjectType(i)
               PROVE  FALSE
  OBVIOUS
<1>2. DOMAIN NoObject = {"message"}
  BY DEF NoObject
<1>3. "verified" \in DOMAIN NoObject
  BY <1>1 DEF ObjectType
<1> QED
  BY <1>2, <1>3

LEMMA RowFacts ==
  ASSUME RowsOK, NEW i \in Ids
  PROVE  /\ Has(i) <=> images[i] \in RowType
         /\ Has(i) => i \in Used
         /\ Is(i, "uploading") \/ Is(i, "active") \/ Is(i, "trashed") <=> Has(i)
  BY NoRowIsNone DEF RowsOK, Has, Is, RowType

LEMMA ObjectFacts ==
  ASSUME FilesOK, NEW i \in Ids, objects[i] # NoObject
  PROVE  objects[i] \in ObjectType(i) /\ i \in Used
  BY DEF FilesOK

LEMMA RequestFacts ==
  ASSUME RequestsOK, NEW p \in Requests
  PROVE  /\ req[p] \in RequestType
         /\ Stages(req[p])
         /\ req[p].id \in Used \cup {0}
  BY DEF RequestsOK, RequestType

LEMMA IdleRequest ==
  ASSUME RequestsOK, NEW p \in Requests
  PROVE  req[p] = Idle <=> req[p].at = "idle"
  BY DEF RequestsOK, Stages, Idle

(* A row is written.                                                       *)
LEMMA RowWritten ==
  ASSUME RowsOK, NEW i \in Used, NEW row \in RowType \cup {NoRow},
         nextId' = nextId, Update(i, row)
  PROVE  RowsOK'
<1>1. i \in Ids
  BY DEF Used
<1>2. images' \in [Ids -> RowType \cup {NoRow}]
  BY <1>1 DEF RowsOK, Update
<1>3. ASSUME NEW j \in Ids, Has(j)'
      PROVE  j \in Used'
  <2>1. CASE j = i
    BY <2>1 DEF Used
  <2>2. CASE j # i
    BY <1>1, <1>3, <2>2 DEF Used, RowsOK, Update, Has
  <2> QED
    BY <2>1, <2>2
<1> QED
  BY <1>2, <1>3 DEF RowsOK

LEMMA RowsStay ==
  ASSUME RowsOK, UNCHANGED <<images, nextId>>
  PROVE  RowsOK'
  BY DEF RowsOK, Used, Has

LEMMA FilesStay ==
  ASSUME FilesOK, UNCHANGED <<files, nextId>>
  PROVE  FilesOK'
  BY DEF FilesOK, Used, files

LEMMA LinksStay ==
  ASSUME LinksOK, UNCHANGED <<links, nextId>>,
         dead' = dead \/ \E i \in Ids : Revoked(i)
  PROVE  LinksOK'
  BY DEF LinksOK, Used, Revoked

LEMMA ScriptStays ==
  ASSUME script \in ScriptType, UNCHANGED <<script, nextId>>
  PROVE  script' \in ScriptType'
  BY DEF ScriptType, Used

LEMMA RequestsStay ==
  ASSUME RequestsOK, UNCHANGED <<req, nextId>>
  PROVE  RequestsOK'
  BY DEF RequestsOK, RequestType, Stages, Used

(* A request moves.                                                        *)
LEMMA RequestSet ==
  ASSUME RequestsOK, NEW p \in Requests, NEW r \in RequestType, Stages(r),
         req' = [req EXCEPT ![p] = r], nextId' = nextId
  PROVE  RequestsOK'
<1>1. RequestType' = RequestType /\ \A q : Stages(q) <=> Stages(q)'
  BY DEF RequestType, Stages, Used
<1> QED
  BY <1>1 DEF RequestsOK

LEMMA IdleStages ==
  Idle \in RequestType /\ Stages(Idle)
  BY DEF Idle, RequestType, Stages

LEMMA Answered ==
  ASSUME RequestsOK, NEW p \in Requests, Answer(p), nextId' = nextId
  PROVE  RequestsOK'
  BY IdleStages, RequestSet DEF Answer

LEMMA Went ==
  ASSUME RequestsOK, NEW p \in Requests,
         NEW at, Go(p, at), nextId' = nextId,
         [req[p] EXCEPT !.at = at] \in RequestType,
         Stages([req[p] EXCEPT !.at = at])
  PROVE  RequestsOK'
  BY RequestSet DEF Go, RequestsOK

LEMMA Started ==
  ASSUME RequestsOK, RowsOK, NEW p \in Requests, NEW op, NEW at, NEW i \in Ids,
         Has(i), Start(p, op, at, i), nextId' = nextId,
         \/ op = "reactivate" /\ at = "reactivate"
         \/ op \in {"trash", "patch", "delete"} /\ at = "purge"
         \/ op \in {"discard", "cleanup"} /\ at = "drop"
         \/ op = "put" /\ at = "body"
  PROVE  RequestsOK'
<1> DEFINE r == [op |-> op, at |-> at, id |-> i, row |-> images[i]]
<1>1. images[i] \in RowType /\ i \in Used
  BY RowFacts
<1>2. r \in RequestType /\ Stages(r)
  BY <1>1 DEF RequestType, Stages
<1>3. req' = [req EXCEPT ![p] = r]
  BY DEF Start
<1> HIDE DEF r
<1> QED
  BY <1>2, <1>3, RequestSet

(* A removal may meet another request.                                     *)
LEMMA Crowding ==
  ASSUME CrowdedOK, NEW i \in Ids, NEW busy \in BOOLEAN, Crowd(i, busy)
  PROVE  CrowdedOK'
  BY DEF CrowdedOK, Crowd

LEMMA Admitting ==
  ASSUME CrowdedOK, NEW i \in Ids, NEW op, Admit(op, i)
  PROVE  CrowdedOK'
  BY DEF CrowdedOK, Admit, Crowd

LEMMA RowsAndLinksStay ==
  ASSUME LinkInv, UNCHANGED <<images, links, dead, nextId>>
  PROVE  RowsOK' /\ LinksOK' /\ Versions' /\ nextId' \in Nat \ {0}
<1>1. RowsOK' /\ LinksOK'
  BY RowsStay, LinksStay DEF LinkInv, TypeOK
<1> QED
  BY <1>1 DEF LinkInv, TypeOK, Versions, Has

(* A row is deleted, or written with the version it had or a later one; an *)
(* edit that revokes links raises the version.                             *)
Aged(i, row) ==
    \/ dead' = dead /\ row = NoRow
    \/ /\ dead' = dead /\ Has(i) /\ row \in RowType
       /\ row.version >= images[i].version
    \/ /\ Revoked(i) /\ Has(i) /\ row \in RowType
       /\ row.version > images[i].version

LEMMA RowChanges ==
  ASSUME LinkInv, NEW i \in Ids, i \in Used, NEW row,
         UNCHANGED <<links, nextId>>, Update(i, row), Aged(i, row)
  PROVE  RowsOK' /\ LinksOK' /\ Versions' /\ nextId' \in Nat \ {0}
<1> USE DEF LinkInv, TypeOK
<1>1. row \in RowType \cup {NoRow}
  BY DEF Aged
<1>2. RowsOK'
  BY <1>1, RowWritten
<1>3. LinksOK'
  BY LinksStay DEF Aged
<1>4. ASSUME NEW l \in links, Has(l.id)'
      PROVE  /\ l.version <= images'[l.id].version
             /\ l \in dead' => l.version < images'[l.id].version
  <2>1. l.id \in Ids /\ l.version \in Nat
    BY DEF LinksOK, Used
  <2>2. CASE l.id # i
    <3>1. images'[l.id] = images[l.id] /\ (l \in dead' => l \in dead)
      BY <2>1, <2>2 DEF Update, RowsOK, Aged, Revoked
    <3> QED
      BY <3>1, <1>4 DEF Versions, Has
  <2>3. CASE l.id = i
    <3>1. images'[i] = row
      BY DEF Update, RowsOK
    <3>2. row # NoRow
      BY <1>4, <2>3, <3>1 DEF Has
    <3>3. Has(i) /\ row \in RowType /\ images[i] \in RowType
      BY <3>2, RowFacts DEF Aged
    <3>4. l.version <= images[i].version /\ (l \in dead => l.version < images[i].version)
      BY <2>3, <3>3 DEF Versions
    <3>5. row.version \in Nat /\ images[i].version \in Nat
      BY <3>3 DEF RowType
    <3>6. CASE dead' = dead /\ row.version >= images[i].version
      BY <3>1, <3>4, <3>5, <3>6, <2>1, <2>3
    <3>7. CASE row.version > images[i].version
      BY <3>1, <3>4, <3>5, <3>7, <2>1, <2>3
    <3> QED
      BY <3>2, <3>6, <3>7 DEF Aged
  <2> QED
    BY <2>2, <2>3
<1>5. Versions'
  BY <1>4 DEF Versions
<1> QED
  BY <1>2, <1>3, <1>5

-----------------------------------------------------------------------------
(* Steps that leave the rows as they are.                                  *)

LEMMA LinkCreate ==
  ASSUME LinkInv, NEW p \in Requests, NEW c \in Contents, Create(p, c)
  PROVE  LinkInv'
<1> USE DEF LinkInv, TypeOK
<1>1. UNCHANGED <<images, links, dead, nextId, script, files>>
  BY DEF Create, world
<1>2. RowsOK' /\ LinksOK' /\ Versions' /\ nextId' \in Nat \ {0}
  BY <1>1, RowsAndLinksStay
<1>3. FilesOK' /\ script' \in ScriptType'
  BY <1>1, FilesStay, ScriptStays
<1>4. RequestsOK' /\ CrowdedOK'
  <2>1. CASE crowded' = crowded /\ req' = [req EXCEPT ![p] =
                 [op |-> "create", at |-> "quota", id |-> 0, row |-> Row(c)]]
    <3> DEFINE r == [op |-> "create", at |-> "quota", id |-> 0, row |-> Row(c)]
    <3>1. r \in RequestType /\ Stages(r)
      BY DEF RequestType, Stages, Row, RowType
    <3>2. req' = [req EXCEPT ![p] = r]
      BY <2>1
    <3> HIDE DEF r
    <3>3. RequestsOK'
      BY <1>1, <3>1, <3>2, RequestSet
    <3> QED
      BY <2>1, <3>3 DEF CrowdedOK
  <2>2. ASSUME NEW i \in Ids, Has(i),
               \/ Start(p, "reactivate", "reactivate", i)
               \/ Start(p, "discard", "drop", i)
        PROVE  RequestsOK' /\ CrowdedOK'
    <3>1. RequestsOK'
      BY <1>1, <2>2, Started
    <3> QED
      BY <2>2, <3>1, Admitting DEF Start
  <2> QED
    BY <2>1, <2>2 DEF Create
<1> QED
  BY <1>1, <1>2, <1>3, <1>4

LEMMA LinkDeleteCleanup ==
  ASSUME LinkInv, NEW p \in Requests, NEW i \in Ids, Delete(p, i) \/ Cleanup(p, i)
  PROVE  LinkInv'
<1> USE DEF LinkInv, TypeOK
<1>1. UNCHANGED <<images, links, dead, nextId, script, files>>
  BY DEF Delete, Cleanup, world
<1>2. RowsOK' /\ LinksOK' /\ Versions' /\ nextId' \in Nat \ {0}
  BY <1>1, RowsAndLinksStay
<1>3. FilesOK' /\ script' \in ScriptType'
  BY <1>1, FilesStay, ScriptStays
<1>4. Start(p, "delete", "purge", i) \/ Start(p, "cleanup", "drop", i)
  BY DEF Delete, Cleanup
<1>5. Has(i)
  BY RowFacts DEF Delete, Cleanup
<1>6. RequestsOK'
  BY <1>1, <1>4, <1>5, Started
<1>7. CrowdedOK'
  BY <1>4, Admitting DEF Start
<1> QED
  BY <1>1, <1>2, <1>3, <1>6, <1>7

LEMMA LinkMoves ==
  ASSUME LinkInv, NEW p \in Requests,
         CheckQuota(p) \/ ReadBody(p) \/ Store(p) \/ Checkpoint(p) \/ Verify(p)
            \/ Drop(p) \/ Unsend(p) \/ CutOff(p)
  PROVE  LinkInv'
<1> USE DEF LinkInv, TypeOK
<1>1. UNCHANGED <<images, links, dead, nextId, script, crowded>>
  BY DEF CheckQuota, ReadBody, Store, Checkpoint, Verify, Drop, Unsend, CutOff, world
<1>2. RowsOK' /\ LinksOK' /\ Versions' /\ nextId' \in Nat \ {0}
  BY <1>1, RowsAndLinksStay
<1>3. script' \in ScriptType' /\ CrowdedOK'
  BY <1>1, ScriptStays DEF CrowdedOK
<1>4. req[p] \in RequestType /\ Stages(req[p])
  BY RequestFacts
<1>5. RequestsOK'
  <2>1. ASSUME NEW at, Go(p, at),
               \/ req[p].at = "quota" /\ at = "insert"
               \/ req[p].at = "body" /\ at \in {"store", "drop"}
               \/ req[p].at = "store" /\ at \in {"checkpoint", "activate", "drop"}
               \/ req[p].at = "checkpoint" /\ at \in {"verify", "drop"}
               \/ req[p].at = "verify" /\ at \in {"activate", "drop"}
               \/ req[p].at = "drop" /\ at \in {"unsend", "forget"}
               \/ req[p].at = "unsend" /\ at = "forget"
        PROVE  RequestsOK'
    <3>1. [req[p] EXCEPT !.at = at] \in RequestType
      BY <1>4, <2>1 DEF RequestType
    <3>2. Stages([req[p] EXCEPT !.at = at])
      BY <1>4, <2>1 DEF RequestType, Stages, Idle
    <3> QED
      BY <1>1, <2>1, <3>1, <3>2, Went
  <2>2. CASE Answer(p)
    BY <1>1, <2>2, Answered
  <2> QED
    BY <2>1, <2>2 DEF CheckQuota, ReadBody, Store, Checkpoint, Verify, Drop, Unsend, CutOff
<1>6. FilesOK'
  <2>1. CASE UNCHANGED <<objects, bucket, channel>>
    BY <1>1, <2>1 DEF FilesOK, Used
  <2>2. CASE Store(p)
    <3>1. req[p].id \in Used
      BY <1>4, <2>2 DEF Store, Stages, Idle
    <3>2. objects' = objects /\ bucket' \subseteq bucket \cup {req[p].id}
          /\ channel' \subseteq channel \cup {Message(req[p].id, p)}
      BY <2>2 DEF Store
    <3> QED
      BY <1>1, <3>1, <3>2 DEF FilesOK, Used, Senders, Message
  <2>3. CASE Checkpoint(p)
    <3>1. req[p].id \in Used
      BY <1>4, <2>3 DEF Checkpoint, Stages, Idle
    <3>2. bucket' = bucket /\ channel' \subseteq channel
      BY <2>3 DEF Checkpoint, TakeBack
    <3>3. \/ objects' = objects
          \/ objects' = [objects EXCEPT ![req[p].id] = Object(Message(req[p].id, p), FALSE)]
      BY <2>3 DEF Checkpoint
    <3>4. Object(Message(req[p].id, p), FALSE) \in ObjectType(req[p].id)
      BY DEF Object, Message, ObjectType, Senders
    <3>5. objects' = [i \in Ids |-> objects'[i]] /\ DOMAIN objects' = Ids
      BY <3>3 DEF FilesOK
    <3>6. \A i \in Ids : \/ objects'[i] = NoObject
                         \/ i \in Used /\ objects'[i] \in ObjectType(i)
      BY <3>1, <3>3, <3>4 DEF FilesOK
    <3> QED
      BY <1>1, <3>2, <3>5, <3>6 DEF FilesOK, Used
  <2>4. ASSUME NEW i \in Ids, i = req[p].id, Verify(p) \/ Unsend(p)
        PROVE  FilesOK'
    <3>1. bucket' = bucket /\ channel' \subseteq channel
      BY <2>4 DEF Verify, Unsend
    <3>2. \/ objects' = objects
          \/ objects' = [objects EXCEPT ![i].verified = TRUE]
          \/ \E gone \in BOOLEAN :
                objects' = [objects EXCEPT ![i].deleted = TRUE, ![i].backup = FALSE,
                                           ![i].error = ~gone]
      BY <2>4 DEF Verify, Unsend
    <3>3. objects' = [j \in Ids |-> objects'[j]] /\ DOMAIN objects' = Ids
      BY <3>2 DEF FilesOK
    <3>4. \A j \in Ids \ {i} : objects'[j] = objects[j]
      BY <3>2 DEF FilesOK
    <3>5. objects'[i] = NoObject \/ (i \in Used /\ objects'[i] \in ObjectType(i))
      <4>1. CASE objects[i] = NoObject
        <5>1. \/ objects'[i] = NoObject
              \/ objects'[i] = [NoObject EXCEPT !.verified = TRUE]
              \/ \E gone \in BOOLEAN :
                   objects'[i] = [NoObject EXCEPT !.deleted = TRUE, !.backup = FALSE,
                                                  !.error = ~gone]
          BY <3>2, <4>1 DEF FilesOK
        <5> QED
          BY <5>1 DEF NoObject
      <4>2. CASE objects[i] # NoObject
        <5>1. objects[i] \in ObjectType(i) /\ i \in Used
          BY <4>2, ObjectFacts
        <5>2. \/ objects'[i] = objects[i]
              \/ objects'[i] = [objects[i] EXCEPT !.verified = TRUE]
              \/ \E gone \in BOOLEAN :
                   objects'[i] = [objects[i] EXCEPT !.deleted = TRUE, !.backup = FALSE,
                                                    !.error = ~gone]
          BY <3>2 DEF FilesOK
        <5> QED
          BY <5>1, <5>2 DEF ObjectType
      <4> QED
        BY <4>1, <4>2
    <3>6. \A j \in Ids : \/ objects'[j] = NoObject
                         \/ j \in Used /\ objects'[j] \in ObjectType(j)
      BY <3>4, <3>5 DEF FilesOK
    <3> QED
      BY <1>1, <3>1, <3>3, <3>6 DEF FilesOK, Used
  <2>5. CASE Drop(p)
    BY <1>1, <2>5 DEF Drop, FilesOK, Used
  <2>6. Verify(p) \/ Unsend(p) => req[p].id \in Ids
    BY <1>4 DEF Verify, Unsend, Stages, Idle, Used
  <2> QED
    BY <2>1, <2>2, <2>3, <2>4, <2>5, <2>6
       DEF CheckQuota, ReadBody, CutOff, world, files
<1> QED
  BY <1>1, <1>2, <1>3, <1>5, <1>6
-----------------------------------------------------------------------------
(* Steps that write a row.                                                 *)

LEMMA LinkRowSteps ==
  ASSUME LinkInv, NEW i \in Ids, i \in Used, NEW row,
         UNCHANGED <<links, nextId>>, Update(i, row), Aged(i, row),
         RequestsOK', CrowdedOK', FilesOK', script' \in ScriptType'
  PROVE  LinkInv'
  BY RowChanges DEF LinkInv, TypeOK

(* What the edits of a row make of it.                                     *)
LEMMA RowEdits ==
  ASSUME NEW row \in RowType
  PROVE  /\ \A status \in {"uploading", "active", "trashed"} :
               /\ [row EXCEPT !.status = status] \in RowType
               /\ [row EXCEPT !.status = status].version = row.version
         /\ \A backend \in {"r2", "telegram"} :
               /\ [row EXCEPT !.backend = backend] \in RowType
               /\ [row EXCEPT !.backend = backend].version = row.version
               /\ [row EXCEPT !.status = "active", !.backend = backend] \in RowType
               /\ [row EXCEPT !.status = "active", !.backend = backend].version = row.version
         /\ \A visibility \in {"public", "private"} :
               /\ [row EXCEPT !.visibility = visibility] \in RowType
               /\ [row EXCEPT !.visibility = visibility].version = row.version
         /\ \A claim \in {"none", "fresh", "stale"} :
               /\ [row EXCEPT !.claim = claim] \in RowType
               /\ [row EXCEPT !.claim = claim].version = row.version
         /\ \A old \in BOOLEAN :
               /\ [row EXCEPT !.old = old] \in RowType
               /\ [row EXCEPT !.old = old].version = row.version
  BY DEF RowType

LEMMA RowRenewals ==
  ASSUME NEW row \in RowType
  PROVE  /\ [row EXCEPT !.version = @ + 1] \in RowType
         /\ [row EXCEPT !.version = @ + 1].version = row.version + 1
         /\ \A visibility \in {"public", "private"} :
               /\ [row EXCEPT !.status = "active", !.visibility = visibility,
                              !.version = @ + 1] \in RowType
               /\ [row EXCEPT !.status = "active", !.visibility = visibility,
                              !.version = @ + 1].version = row.version + 1
         /\ [row EXCEPT !.status = "trashed", !.old = FALSE, !.version = @ + 1] \in RowType
         /\ [row EXCEPT !.status = "trashed", !.old = FALSE,
                        !.version = @ + 1].version = row.version + 1
<1>1. row.version \in Nat /\ row.version + 1 \in Nat
  BY DEF RowType
<1>2. ASSUME NEW n \in Nat
      PROVE  /\ [row EXCEPT !.version = n] \in RowType
             /\ [row EXCEPT !.version = n].version = n
  BY DEF RowType
<1>3. ASSUME NEW n \in Nat, NEW visibility \in {"public", "private"}
      PROVE  /\ [row EXCEPT !.status = "active", !.visibility = visibility,
                             !.version = n] \in RowType
             /\ [row EXCEPT !.status = "active", !.visibility = visibility,
                            !.version = n].version = n
  BY DEF RowType
<1>4. ASSUME NEW n \in Nat
      PROVE  /\ [row EXCEPT !.status = "trashed", !.old = FALSE, !.version = n] \in RowType
             /\ [row EXCEPT !.status = "trashed", !.old = FALSE, !.version = n].version = n
  BY DEF RowType
<1> QED
  BY <1>1, <1>2, <1>3, <1>4

(* An edit that keeps the version, and one that revokes the links.         *)
LEMMA Edited ==
  ASSUME LinkInv, NEW i \in Ids, Has(i), NEW row \in RowType,
         row.version = images[i].version, dead' = dead
  PROVE  Aged(i, row) /\ i \in Used
  BY RowFacts DEF LinkInv, TypeOK, Aged, RowType

LEMMA Renewed ==
  ASSUME LinkInv, NEW i \in Ids, Has(i), NEW row \in RowType,
         row.version = images[i].version + 1, Revoked(i)
  PROVE  Aged(i, row) /\ i \in Used
<1>1. images[i] \in RowType /\ i \in Used
  BY RowFacts DEF LinkInv, TypeOK
<1>2. images[i].version \in Nat
  BY <1>1 DEF RowType
<1> QED
  BY <1>1, <1>2 DEF Aged

LEMMA LinkReactivate ==
  ASSUME LinkInv, NEW p \in Requests, Reactivate(p)
  PROVE  LinkInv'
<1> USE DEF LinkInv, TypeOK
<1>1. UNCHANGED <<links, nextId, files, script, crowded>>
  BY DEF Reactivate
<1>2. RequestsOK'
  BY <1>1, Answered DEF Reactivate
<1>3. CrowdedOK' /\ FilesOK' /\ script' \in ScriptType'
  BY <1>1, FilesStay, ScriptStays DEF CrowdedOK
<1>4. PICK i : i = req[p].id
  OBVIOUS
<1>5. i \in Ids
  BY <1>4, RequestFacts DEF Reactivate, Stages, Idle, Used
<1>6. CASE Has(i)
  <2> DEFINE row == [images[i] EXCEPT !.status = "active", !.visibility = "public",
                                      !.version = @ + 1]
  <2>1. row \in RowType /\ row.version = images[i].version + 1
    BY <1>5, <1>6, RowFacts, RowRenewals
  <2>2. Update(i, row) /\ Revoked(i)
    BY <1>4, <1>6 DEF Reactivate
  <2> HIDE DEF row
  <2>3. Aged(i, row) /\ i \in Used
    BY <1>5, <1>6, <2>1, <2>2, Renewed
  <2> QED
    BY <1>1, <1>2, <1>3, <1>5, <2>2, <2>3, LinkRowSteps
<1>7. CASE ~Has(i)
  <2>1. UNCHANGED <<images, links, dead, nextId>>
    BY <1>1, <1>4, <1>7 DEF Reactivate
  <2> QED
    BY <1>2, <1>3, <2>1, RowsAndLinksStay
<1> QED
  BY <1>6, <1>7
LEMMA LinkActivate ==
  ASSUME LinkInv, NEW p \in Requests, Activate(p)
  PROVE  LinkInv'
<1> USE DEF LinkInv, TypeOK
<1>1. UNCHANGED <<links, dead, nextId, files, script, crowded>>
  BY DEF Activate, world
<1>2. req[p] \in RequestType /\ Stages(req[p]) /\ req[p].at = "activate"
  BY RequestFacts DEF Activate
<1>3. req[p].id \in Used /\ req[p].op = "put"
  BY <1>2 DEF Stages, Idle
<1>4. RequestsOK'
  <2>1. CASE Go(p, "drop")
    <3>1. [req[p] EXCEPT !.at = "drop"] \in RequestType
      BY <1>2 DEF RequestType
    <3>2. Stages([req[p] EXCEPT !.at = "drop"])
      BY <1>2 DEF RequestType, Stages, Idle
    <3> QED
      BY <1>1, <2>1, <3>1, <3>2, Went
  <2> QED
    BY <1>1, <2>1, Answered DEF Activate
<1>5. CrowdedOK' /\ FilesOK' /\ script' \in ScriptType'
  BY <1>1, FilesStay, ScriptStays DEF CrowdedOK
<1>6. PICK i \in Ids : i = req[p].id
  BY <1>3 DEF Used
<1>7. CASE Update(i, [images[i] EXCEPT !.status = "active", !.backend = Storage])
           /\ Is(i, "uploading")
  <2> DEFINE row == [images[i] EXCEPT !.status = "active", !.backend = Storage]
  <2>1. Has(i) /\ images[i] \in RowType
    BY <1>7, RowFacts
  <2>2. row \in RowType /\ row.version = images[i].version
    BY <2>1, RowEdits, BoundsAssumption
  <2>3. Update(i, row)
    BY <1>7
  <2> HIDE DEF row
  <2> QED
    BY <1>1, <1>4, <1>5, <2>1, <2>2, <2>3, Edited, LinkRowSteps
<1>8. CASE UNCHANGED images
  BY <1>1, <1>4, <1>5, <1>8, RowsAndLinksStay
<1> QED
  BY <1>6, <1>7, <1>8 DEF Activate

LEMMA LinkForget ==
  ASSUME LinkInv, NEW p \in Requests, Forget(p)
  PROVE  LinkInv'
<1> USE DEF LinkInv, TypeOK
<1>1. UNCHANGED <<links, dead, nextId, files, script, crowded>>
  BY DEF Forget, world
<1>2. req[p] \in RequestType /\ Stages(req[p]) /\ req[p].at = "forget"
  BY RequestFacts DEF Forget
<1>3. req[p].id \in Used /\ req[p].row \in RowType
  BY <1>2 DEF Stages, Idle
<1>4. RequestsOK'
  <2> DEFINE r == [req[p] EXCEPT !.op = "create", !.at = "quota", !.id = 0]
  <2>1. r \in RequestType /\ Stages(r)
    BY <1>2, <1>3 DEF RequestType, Stages
  <2>2. Answer(p) \/ req' = [req EXCEPT ![p] = r]
    BY DEF Forget
  <2> HIDE DEF r
  <2> QED
    BY <1>1, <2>1, <2>2, Answered, RequestSet
<1>5. CrowdedOK' /\ FilesOK' /\ script' \in ScriptType'
  BY <1>1, FilesStay, ScriptStays DEF CrowdedOK
<1>6. Update(req[p].id, NoRow) /\ req[p].id \in Ids
  BY <1>3 DEF Forget, Used
<1>7. Aged(req[p].id, NoRow)
  BY <1>1 DEF Aged
<1> QED
  BY <1>1, <1>3, <1>4, <1>5, <1>6, <1>7, LinkRowSteps

LEMMA LinkPurge ==
  ASSUME LinkInv, NEW p \in Requests, Purge(p)
  PROVE  LinkInv'
<1> USE DEF LinkInv, TypeOK
<1>1. UNCHANGED <<links, dead, nextId, files, script, crowded>>
  BY DEF Purge, world
<1>2. req[p] \in RequestType /\ Stages(req[p]) /\ req[p].at = "purge"
  BY RequestFacts DEF Purge
<1>3. req[p].id \in Used /\ req[p].op \in {"trash", "patch", "delete"}
  BY <1>2 DEF Stages, Idle
<1>4. RequestsOK'
  <2>1. CASE Go(p, "drop") /\ req[p].op = "delete"
    <3>1. [req[p] EXCEPT !.at = "drop"] \in RequestType
      BY <1>2 DEF RequestType
    <3>2. Stages([req[p] EXCEPT !.at = "drop"])
      BY <1>2, <2>1 DEF RequestType, Stages, Idle
    <3> QED
      BY <1>1, <2>1, <3>1, <3>2, Went
  <2> QED
    BY <1>1, <2>1, Answered DEF Purge
<1>5. CrowdedOK' /\ FilesOK' /\ script' \in ScriptType'
  BY <1>1, FilesStay, ScriptStays DEF CrowdedOK
<1>6. PICK i \in Ids : i = req[p].id
  BY <1>3 DEF Used
<1>7. CASE Update(i, [images[i] EXCEPT !.status = "active"]) /\ Has(i)
  <2> DEFINE row == [images[i] EXCEPT !.status = "active"]
  <2>1. row \in RowType /\ row.version = images[i].version
    BY <1>7, RowFacts, RowEdits
  <2>2. Update(i, row)
    BY <1>7
  <2> HIDE DEF row
  <2> QED
    BY <1>1, <1>4, <1>5, <1>7, <2>1, <2>2, Edited, LinkRowSteps
<1>8. CASE Update(i, [images[i] EXCEPT !.visibility = "public"]) /\ Has(i)
  <2> DEFINE row == [images[i] EXCEPT !.visibility = "public"]
  <2>1. row \in RowType /\ row.version = images[i].version
    BY <1>8, RowFacts, RowEdits
  <2>2. Update(i, row)
    BY <1>8
  <2> HIDE DEF row
  <2> QED
    BY <1>1, <1>4, <1>5, <1>8, <2>1, <2>2, Edited, LinkRowSteps
<1>9. CASE UNCHANGED images
  BY <1>1, <1>4, <1>5, <1>9, RowsAndLinksStay
<1>10. \/ UNCHANGED images
       \/ CASE req[p].op = "trash" /\ Has(i) ->
                    Update(i, [images[i] EXCEPT !.status = "active"])
            [] req[p].op = "patch" /\ Has(i) ->
                    Update(i, [images[i] EXCEPT !.visibility = "public"])
            [] OTHER -> UNCHANGED images
  BY <1>6 DEF Purge
<1> QED
  BY <1>7, <1>8, <1>9, <1>10

(* A request of a user that starts with an edit.                           *)
LEMMA LinkPutTrashPatch ==
  ASSUME LinkInv, NEW p \in Requests, NEW i \in Ids,
         Put(p, i) \/ Trash(p, i) \/ Patch(p, i)
  PROVE  LinkInv'
<1> USE DEF LinkInv, TypeOK
<1>1. UNCHANGED <<links, nextId, files, script>>
  BY DEF Put, Trash, Patch, world
<1>2. Has(i) /\ images[i] \in RowType
  BY RowFacts DEF Put, Trash, Patch
<1>3. RequestsOK' /\ CrowdedOK'
  <2>1. CASE Start(p, "put", "body", i) \/ Start(p, "trash", "purge", i)
             \/ Start(p, "patch", "purge", i)
    <3>1. RequestsOK'
      BY <1>1, <1>2, <2>1, Started
    <3> QED
      BY <2>1, <3>1, Admitting DEF Start
  <2>2. CASE req' = req /\ Admit("patch", i)
    BY <1>1, <2>2, RequestsStay, Admitting
  <2> QED
    BY <2>1, <2>2 DEF Put, Trash, Patch
<1>4. FilesOK' /\ script' \in ScriptType'
  BY <1>1, FilesStay, ScriptStays
<1>5. ASSUME NEW row \in RowType, Update(i, row), Aged(i, row), i \in Used
      PROVE  LinkInv'
  BY <1>1, <1>3, <1>4, <1>5, LinkRowSteps
<1> HIDE DEF LinkInv, TypeOK
<1>6. CASE Put(p, i)
  <2> DEFINE row == [images[i] EXCEPT !.claim = "fresh"]
  <2>1. row \in RowType /\ row.version = images[i].version
    BY <1>2, RowEdits
  <2>2. Update(i, row) /\ dead' = dead
    BY <1>6 DEF Put, world
  <2> HIDE DEF row
  <2> QED
    BY <1>2, <1>5, <2>1, <2>2, Edited
<1>7. CASE Trash(p, i)
  <2> DEFINE row == [images[i] EXCEPT !.status = "trashed", !.old = FALSE, !.version = @ + 1]
  <2>1. row \in RowType /\ row.version = images[i].version + 1
    BY <1>2, RowRenewals
  <2>2. Update(i, row) /\ Revoked(i)
    BY <1>7 DEF Trash
  <2> HIDE DEF row
  <2> QED
    BY <1>2, <1>5, <2>1, <2>2, Renewed
<1>8. CASE Patch(p, i)
  <2>1. PICK visibility \in {"public", "private"} :
            Update(i, [images[i] EXCEPT !.visibility = visibility]) /\ dead' = dead
    BY <1>8 DEF Patch, world
  <2> DEFINE row == [images[i] EXCEPT !.visibility = visibility]
  <2>2. row \in RowType /\ row.version = images[i].version
    BY <1>2, RowEdits
  <2>3. Update(i, row) /\ dead' = dead
    BY <2>1
  <2> HIDE DEF row
  <2> QED
    BY <1>2, <1>5, <2>2, <2>3, Edited
<1> QED
  BY <1>6, <1>7, <1>8

(* An edit that starts no request.                                         *)
LEMMA LinkRestoreRevokeAge ==
  ASSUME LinkInv, NEW i \in Ids,
         Restore(i) \/ Revoke(i) \/ GrowOld(i) \/ ClaimExpires(i)
  PROVE  LinkInv'
<1> USE DEF LinkInv, TypeOK
<1>1. UNCHANGED <<links, nextId, files, script, req>>
  BY DEF Restore, Revoke, GrowOld, ClaimExpires, world
<1>2. Has(i) /\ images[i] \in RowType
  BY RowFacts DEF Restore, Revoke, GrowOld, ClaimExpires
<1>3. RequestsOK'
  BY <1>1, RequestsStay
<1>4. CrowdedOK'
  <2>1. Admit("restore", i) \/ UNCHANGED crowded \/ \E busy \in BOOLEAN : Crowd(i, busy)
    BY DEF Restore, Revoke, GrowOld, ClaimExpires
  <2> QED
    BY <2>1, Admitting, Crowding DEF CrowdedOK
<1>5. FilesOK' /\ script' \in ScriptType'
  BY <1>1, FilesStay, ScriptStays
<1>6. ASSUME NEW row \in RowType, Update(i, row), Aged(i, row), i \in Used
      PROVE  LinkInv'
  BY <1>1, <1>3, <1>4, <1>5, <1>6, LinkRowSteps
<1> HIDE DEF LinkInv, TypeOK
<1>7. CASE Restore(i)
  <2> DEFINE row == [images[i] EXCEPT !.status = "active", !.visibility = "private",
                                      !.version = @ + 1]
  <2>1. row \in RowType /\ row.version = images[i].version + 1
    BY <1>2, RowRenewals
  <2>2. Update(i, row) /\ Revoked(i)
    BY <1>7 DEF Restore
  <2> HIDE DEF row
  <2> QED
    BY <1>2, <1>6, <2>1, <2>2, Renewed
<1>8. CASE Revoke(i)
  <2> DEFINE row == [images[i] EXCEPT !.version = @ + 1]
  <2>1. row \in RowType /\ row.version = images[i].version + 1
    BY <1>2, RowRenewals
  <2>2. Update(i, row) /\ Revoked(i)
    BY <1>8 DEF Revoke
  <2> HIDE DEF row
  <2> QED
    BY <1>2, <1>6, <2>1, <2>2, Renewed
<1>9. CASE GrowOld(i)
  <2> DEFINE row == [images[i] EXCEPT !.old = TRUE]
  <2>1. row \in RowType /\ row.version = images[i].version
    BY <1>2, RowEdits
  <2>2. Update(i, row) /\ dead' = dead
    BY <1>9 DEF GrowOld, world
  <2> HIDE DEF row
  <2> QED
    BY <1>2, <1>6, <2>1, <2>2, Edited
<1>10. CASE ClaimExpires(i)
  <2> DEFINE row == [images[i] EXCEPT !.claim = "stale"]
  <2>1. row \in RowType /\ row.version = images[i].version
    BY <1>2, RowEdits
  <2>2. Update(i, row) /\ dead' = dead
    BY <1>10 DEF ClaimExpires, world
  <2> HIDE DEF row
  <2> QED
    BY <1>2, <1>6, <2>1, <2>2, Edited
<1> QED
  BY <1>7, <1>8, <1>9, <1>10
LEMMA LinkShare ==
  ASSUME LinkInv, NEW i \in Ids, Share(i)
  PROVE  LinkInv'
<1> USE DEF LinkInv, TypeOK
<1>1. UNCHANGED <<images, nextId, files, dead, script, req, crowded>>
  BY DEF Share
<1>2. Has(i) /\ images[i] \in RowType /\ i \in Used
  BY RowFacts DEF Share
<1>3. RowsOK' /\ RequestsOK' /\ CrowdedOK' /\ FilesOK' /\ script' \in ScriptType'
  BY <1>1, RowsStay, RequestsStay, FilesStay, ScriptStays DEF CrowdedOK
<1> DEFINE link == [id |-> i, version |-> images[i].version]
<1>4. link \in [id : Used, version : Nat] /\ images[i].version \in Nat
  BY <1>2 DEF RowType
<1>5. links' = links \cup {link}
  BY DEF Share
<1>6. LinksOK'
  BY <1>1, <1>4, <1>5 DEF LinksOK, Used
<1>7. link \notin dead
  BY <1>2, <1>4 DEF LinksOK, Versions
<1>8. Versions'
  <2> SUFFICES ASSUME NEW l \in links', Has(l.id)'
               PROVE  (/\ l.version <= images[l.id].version
                       /\ l \in dead => l.version < images[l.id].version)'
    BY DEF Versions
  <2>1. CASE l = link
    BY <1>1, <1>4, <1>7, <2>1
  <2>2. CASE l \in links
    BY <1>1, <2>2 DEF Versions, Has
  <2> QED
    BY <1>5, <2>1, <2>2
<1> QED
  BY <1>1, <1>3, <1>6, <1>8

LEMMA LinkInsert ==
  ASSUME LinkInv, NEW p \in Requests, Insert(p)
  PROVE  LinkInv'
<1> USE DEF LinkInv, TypeOK
<1>1. UNCHANGED <<links, dead, files, script, crowded>> /\ nextId \in Ids
  BY BoundsAssumption DEF Insert, Ids
<1>2. CASE UNCHANGED <<images, nextId>>
  <2>1. RequestsOK'
    BY <1>2, Answered DEF Insert
  <2>2. CrowdedOK' /\ FilesOK' /\ script' \in ScriptType'
    BY <1>1, <1>2, FilesStay, ScriptStays DEF CrowdedOK
  <2> QED
    BY <1>1, <1>2, <2>1, <2>2, RowsAndLinksStay
<1>3. CASE Update(nextId, Row(req[p].row.content)) /\ nextId' = nextId + 1
  <2>1. Used \subseteq Used' /\ nextId \in Used' /\ nextId \notin Used
    BY <1>1, <1>3, BoundsAssumption DEF Used, Ids
  <2>2. req[p] \in RequestType /\ Stages(req[p]) /\ req[p].at = "insert"
    BY RequestFacts DEF Insert
  <2>3. Row(req[p].row.content) \in RowType
    BY <2>2 DEF Stages, Idle, Row, RowType
  <2>4. RowsOK'
    <3>1. images' \in [Ids -> RowType \cup {NoRow}]
      BY <1>1, <1>3, <2>3 DEF RowsOK, Update
    <3>2. ASSUME NEW j \in Ids, Has(j)'
          PROVE  j \in Used'
      BY <1>1, <1>3, <2>1, <3>2 DEF RowsOK, Update, Has
    <3> QED
      BY <3>1, <3>2 DEF RowsOK
  <2>5. FilesOK' /\ script' \in ScriptType' /\ CrowdedOK'
    BY <1>1, <2>1 DEF FilesOK, files, ScriptType, CrowdedOK
  <2>6. LinksOK'
    BY <1>1, <2>1 DEF LinksOK
  <2>7. RequestsOK'
    <3>1. RequestType \subseteq RequestType'
      BY <2>1 DEF RequestType
    <3>2. \A r : Stages(r) => Stages(r)'
      BY <2>1 DEF Stages
    <3>3. req' = [req EXCEPT ![p] = Idle]
      BY DEF Insert, Answer
    <3> QED
      BY <3>1, <3>2, <3>3, IdleStages DEF RequestsOK
  <2>8. Versions'
    BY <1>1, <1>3, <2>1 DEF Versions, LinksOK, RowsOK, Has, Update
  <2>9. nextId' \in Nat \ {0}
    BY <1>3
  <2> QED
    BY <2>4, <2>5, <2>6, <2>7, <2>8, <2>9
<1> QED
  BY <1>2, <1>3 DEF Insert

-----------------------------------------------------------------------------
(* The script.                                                             *)

ScriptOnly ==
    \/ \E i \in Ids : MigrateBegin(i) \/ Prune(i)
    \/ MigrateSend \/ MigrateInsert \/ MigrateVerify
    \/ ConfirmCopy \/ RemoveBackup \/ FlagBackup
    \/ Interrupt

LEMMA LinkScript ==
  ASSUME LinkInv, ScriptOnly
  PROVE  LinkInv'
<1> USE DEF LinkInv, TypeOK
<1>1. UNCHANGED <<images, links, dead, crowded, req, nextId>>
  BY DEF ScriptOnly, MigrateBegin, Prune, MigrateSend, MigrateInsert, MigrateVerify,
         ConfirmCopy, RemoveBackup, FlagBackup, Interrupt, byScript
<1>2. RowsOK' /\ LinksOK' /\ Versions' /\ nextId' \in Nat \ {0}
  BY <1>1, RowsAndLinksStay
<1>3. RequestsOK' /\ CrowdedOK'
  BY <1>1, RequestsStay DEF CrowdedOK
<1>4. script' \in ScriptType'
  <2>1. ASSUME NEW i \in Ids, MigrateBegin(i) \/ Prune(i)
        PROVE  script' \in ScriptType'
    <3>1. i \in Used
      BY <2>1, RowFacts DEF MigrateBegin, Prune
    <3> QED
      BY <1>1, <2>1, <3>1 DEF MigrateBegin, Prune, ScriptType, Used
  <2>2. CASE script' = Rest
    BY <2>2 DEF Rest, ScriptType
  <2>3. ASSUME NEW at \in {"insert", "verify", "switch", "remove", "flag"}, GoOn(at)
        PROVE  script' \in ScriptType'
    BY <1>1, <2>3 DEF GoOn, ScriptType, Used
  <2> QED
    BY <2>1, <2>2, <2>3 DEF ScriptOnly, MigrateSend, MigrateInsert, MigrateVerify,
         ConfirmCopy, RemoveBackup, FlagBackup, Interrupt
<1>5. FilesOK'
  <2>1. CASE UNCHANGED <<objects, bucket, channel>>
    BY <1>1, <2>1 DEF FilesOK, Used
  <2>2. CASE UNCHANGED objects /\ bucket' \subseteq bucket
             /\ channel' \subseteq channel \cup {Message(script.id, "script")}
             /\ (channel' \subseteq channel \/ (script.at = "send" /\ script.id \in bucket))
    BY <1>1, <2>2 DEF FilesOK, Used, Senders, Message
  <2>3. ASSUME NEW i, i = script.id, bucket' = bucket, channel' \subseteq channel,
               \/ /\ i \in bucket \/ Is(i, "active")
                  /\ i \in Ids
                  /\ objects' = [objects EXCEPT ![i] = Object(Message(i, "script"), TRUE)]
               \/ objects' = [objects EXCEPT ![i].verified = @ \/ ~objects[i].deleted]
               \/ objects' = [objects EXCEPT ![i].backup = FALSE]
               \/ objects' = objects
        PROVE  FilesOK'
    <3>1. objects' = [j \in Ids |-> objects'[j]] /\ DOMAIN objects' = Ids
      BY <2>3 DEF FilesOK
    <3>2. ASSUME NEW j \in Ids
          PROVE  objects'[j] = NoObject \/ (j \in Used /\ objects'[j] \in ObjectType(j))
      <4>1. CASE objects'[j] = objects[j]
        BY <4>1 DEF FilesOK
      <4>2. CASE j = i /\ objects'[j] = Object(Message(j, "script"), TRUE)
                 /\ (i \in bucket \/ Is(i, "active"))
        <5>1. j \in Used
          BY <4>2, RowFacts DEF FilesOK
        <5> QED
          BY <4>2, <5>1 DEF Object, Message, ObjectType, Senders
      <4>3. CASE \/ objects'[j] = [objects[j] EXCEPT !.verified = @ \/ ~objects[j].deleted]
                 \/ objects'[j] = [objects[j] EXCEPT !.backup = FALSE]
        <5>1. CASE objects[j] = NoObject
          BY <4>3, <5>1 DEF NoObject
        <5>2. CASE objects[j] # NoObject
          <6>1. objects[j] \in ObjectType(j) /\ j \in Used
            BY <5>2, ObjectFacts
          <6> QED
            BY <4>3, <6>1 DEF ObjectType
        <5> QED
          BY <5>1, <5>2
      <4> QED
        BY <2>3, <4>1, <4>2, <4>3 DEF FilesOK
    <3> QED
      BY <1>1, <2>3, <3>1, <3>2 DEF FilesOK, Used
  <2>4. CASE MigrateSend
    BY <2>1, <2>2, <2>4 DEF MigrateSend, files
  <2>5. CASE MigrateInsert
    <3>1. channel' \subseteq channel /\ bucket' = bucket
      BY <2>5 DEF MigrateInsert, TakeBack
    <3>2. script.id = 0 => script.id \notin Ids
      BY DEF Ids
    <3>3. script.id \in Ids \/ script.id = 0
      BY DEF ScriptType, Used
    <3>4. objects' = objects \/ script.id \in Ids
      <4>1. CASE script.id = 0
        <5>1. script.id \notin DOMAIN objects
          BY <3>2, <4>1 DEF FilesOK
        <5> QED
          BY <2>5, <5>1 DEF MigrateInsert, FilesOK
      <4> QED
        BY <3>3, <4>1
    <3> QED
      BY <2>3, <2>5, <3>1, <3>4 DEF MigrateInsert
  <2>6. CASE MigrateVerify \/ FlagBackup
    BY <2>3, <2>6 DEF MigrateVerify, FlagBackup
  <2>7. CASE RemoveBackup
    <3>1. bucket' \subseteq bucket /\ objects' = objects /\ channel' = channel
      BY <2>7 DEF RemoveBackup
    <3> QED
      BY <2>2, <3>1
  <2> QED
    BY <2>1, <2>4, <2>5, <2>6, <2>7
       DEF ScriptOnly, MigrateBegin, Prune, ConfirmCopy, Interrupt, files
<1> QED
  BY <1>1, <1>2, <1>3, <1>4, <1>5

LEMMA LinkSwitch ==
  ASSUME LinkInv, MigrateSwitch
  PROVE  LinkInv'
<1> USE DEF LinkInv, TypeOK
<1>1. UNCHANGED <<files, links, dead, crowded, req, nextId>>
  BY DEF MigrateSwitch, byScript
<1>2. FilesOK' /\ RequestsOK' /\ CrowdedOK'
  BY <1>1, FilesStay, RequestsStay DEF CrowdedOK
<1>3. script' \in ScriptType'
  BY <1>1 DEF MigrateSwitch, Rest, ScriptType, Used
<1>4. CASE UNCHANGED images
  BY <1>1, <1>2, <1>3, <1>4, RowsAndLinksStay
<1>5. PICK i : i = script.id
  OBVIOUS
<1>6. CASE Update(i, [images[i] EXCEPT !.backend = "telegram"]) /\ Is(i, "active")
  <2>1. i \in Ids \/ images' = images
    <3>1. CASE i \notin Ids
      BY <1>6, <3>1 DEF Update, RowsOK
    <3> QED
      BY <3>1
  <2>2. CASE i \in Ids
    <3> DEFINE row == [images[i] EXCEPT !.backend = "telegram"]
    <3>1. Has(i) /\ images[i] \in RowType
      BY <1>6, <2>2, RowFacts
    <3>2. row \in RowType /\ row.version = images[i].version
      BY <3>1, RowEdits
    <3>3. Update(i, row)
      BY <1>6
    <3> HIDE DEF row
    <3> QED
      BY <1>1, <1>2, <1>3, <2>2, <3>1, <3>2, <3>3, Edited, LinkRowSteps
  <2> QED
    BY <1>4, <2>1, <2>2
<1> QED
  BY <1>4, <1>5, <1>6 DEF MigrateSwitch
-----------------------------------------------------------------------------
(* Links stay dead.                                                        *)

LEMMA LinkInit ==
  ASSUME Init
  PROVE  LinkInv
<1>1. PICK n \in 0..MaxId : Migrated = 1..n
  BY BoundsAssumption
<1>2. Cardinality(Migrated) = n
  <2>1. (n \in Int /\ n >= 1) \/ n = 0
    BY <1>1, BoundsAssumption
  <2>2. CASE n = 0
    BY <1>1, <2>2, FS_EmptySet
  <2>3. CASE n >= 1
    BY <1>1, <2>3, FS_Interval
  <2> QED
    BY <2>1, <2>2, <2>3
<1>3. nextId = n + 1 /\ Migrated = Used /\ Migrated \subseteq Ids
  BY <1>1, <1>2, BoundsAssumption DEF Init, Used, Ids
<1>4. nextId \in Nat \ {0}
  BY <1>1, <1>3
<1>5. PICK hash \in [Migrated -> Contents] :
        images = [i \in Ids |->
          IF i \in Migrated THEN [Row(hash[i]) EXCEPT !.status = "active"] ELSE NoRow]
  BY DEF Init
<1>6. RowsOK
  <2>1. ASSUME NEW c \in Contents
        PROVE  [Row(c) EXCEPT !.status = "active"] \in RowType
    BY DEF Row, RowType
  <2> QED
    BY <1>3, <1>5, <2>1 DEF RowsOK, Has
<1>7. FilesOK /\ LinksOK /\ CrowdedOK /\ script \in ScriptType
  BY <1>3 DEF Init, FilesOK, LinksOK, CrowdedOK, ScriptType
<1>8. RequestsOK
  BY IdleStages DEF Init, RequestsOK
<1>9. Versions
  BY DEF Init, Versions
<1> QED
  BY <1>4, <1>6, <1>7, <1>8, <1>9 DEF LinkInv, TypeOK

LEMMA LinkStutter ==
  ASSUME LinkInv, UNCHANGED vars
  PROVE  LinkInv'
<1> USE DEF LinkInv, TypeOK
<1>1. UNCHANGED <<images, objects, bucket, channel, lost, links, dead, crowded, req, script,
                  nextId>>
  BY DEF vars
<1>2. RowsOK' /\ LinksOK' /\ Versions' /\ nextId' \in Nat \ {0}
  BY <1>1, RowsAndLinksStay
<1>3. RequestsOK' /\ FilesOK' /\ CrowdedOK' /\ script' \in ScriptType'
  BY <1>1, RequestsStay, FilesStay, ScriptStays DEF CrowdedOK, files
<1> QED
  BY <1>2, <1>3

LEMMA LinkNext ==
  ASSUME LinkInv, Next
  PROVE  LinkInv'
<1>1. ASSUME NEW p \in Requests, Ask(p) \/ Step(p) \/ CutOff(p)
             \/ \E i \in Ids : Cleanup(p, i)
      PROVE  LinkInv'
  BY <1>1, LinkCreate, LinkDeleteCleanup, LinkMoves, LinkReactivate, LinkActivate,
     LinkForget, LinkPurge, LinkPutTrashPatch, LinkInsert
     DEF Ask, Step
<1>2. ASSUME NEW i \in Ids,
             Restore(i) \/ Share(i) \/ Revoke(i) \/ GrowOld(i) \/ ClaimExpires(i)
      PROVE  LinkInv'
  BY <1>2, LinkRestoreRevokeAge, LinkShare
<1>3. CASE Script
  BY <1>3, LinkScript, LinkSwitch DEF Script, ScriptOnly
<1> QED
  BY <1>1, <1>2, <1>3 DEF Next

(* deliverImage compares the version a link was signed with and the        *)
(* version of the row; no request makes a version smaller, and the ones    *)
(* that revoke the links of an image make it greater, even when their      *)
(* change is taken back because the edge could not be purged.              *)
THEOREM RevokedLinksStayDead ==
  Spec => []LinksStayDead
<1>1. Init => LinkInv
  BY LinkInit
<1>2. LinkInv /\ [Next]_vars => LinkInv'
  BY LinkNext, LinkStutter
<1>3. LinkInv => LinksStayDead
  <2> SUFFICES ASSUME LinkInv, NEW l \in dead, Opens(l)
               PROVE  FALSE
    BY DEF LinksStayDead
  <2> USE DEF LinkInv, TypeOK
  <2>1. l \in links /\ l.id \in Ids /\ l.version \in Nat
    BY DEF LinksOK, Used
  <2>2. Has(l.id)
    BY <2>1, RowFacts DEF Opens
  <2>3. l.version < images[l.id].version /\ images[l.id].version = l.version
    BY <2>1, <2>2 DEF Versions, Opens
  <2> QED
    BY <2>1, <2>3
<1> QED
  BY <1>1, <1>2, <1>3, PTL DEF Spec
-----------------------------------------------------------------------------
(* Requests stay orderly.                                                  *)

LEMMA HasStatus ==
  ASSUME RowsOK, NEW i \in Ids
  PROVE  Has(i) <=> images[i].status # "none"
  BY RowFacts, NoRowIsNone DEF RowsOK, RowType, Has

(* A request of the next state was there before, for the same image.       *)
Retained(q) ==
    \/ req'[q].at = "idle"
    \/ req'[q].id \notin Ids
    \/ req[q].at # "idle" /\ req'[q].op = req[q].op /\ req'[q].id = req[q].id

\* What Orderly asks of a row.
SameShape(i) ==
    /\ Has(i) <=> Has(i)'
    /\ images'[i].status = images[i].status
    /\ images'[i].claim = images[i].claim

LEMMA OrderFrame ==
  ASSUME OrderInv, NEW q \in Requests, NEW i, i = req'[q].id,
         crowded \subseteq crowded',
         i \in Ids => SameShape(i),
         Retained(q), \A r \in Requests : On(r, i)' => Retained(r)
  PROVE  Orderly(q)'
<1> SUFFICES ASSUME req'[q].at # "idle", i \in Ids \ crowded'
             PROVE  Orderly(q)'
  BY DEF Orderly
<1>1. req[q].at # "idle" /\ req[q].op = req'[q].op /\ req[q].id = i
  BY DEF Retained
<1>2. Orderly(q) /\ SameShape(i) /\ i \notin crowded
  BY DEF OrderInv
<1>3. \A r \in Requests : On(r, i)' => On(r, i) /\ req[r].op = req'[r].op
  BY DEF Retained, On
<1> QED
  BY <1>1, <1>2, <1>3 DEF Orderly, SameShape, Is

(* A step that concerns one image disturbs no request on another.          *)
LEMMA OrderElsewhere ==
  ASSUME OrderInv, NEW i, crowded \subseteq crowded',
         \A j \in Ids \ {i} : images'[j] = images[j],
         \A q \in Requests : Retained(q) \/ req'[q].id = i,
         \A q \in Requests : On(q, i)' /\ i \in Ids \ crowded' => Orderly(q)'
  PROVE  \A q \in Requests : Orderly(q)'
<1> SUFFICES ASSUME NEW q \in Requests
             PROVE  Orderly(q)'
  OBVIOUS
<1>1. CASE req'[q].id # i
  <2>1. PICK j : j = req'[q].id
    OBVIOUS
  <2>2. j \in Ids => SameShape(j)
    BY <1>1, <2>1 DEF SameShape, Has
  <2>3. \A r \in Requests : On(r, j)' => Retained(r)
    BY <1>1, <2>1 DEF On
  <2> QED
    BY <1>1, <2>1, <2>2, <2>3, OrderFrame
<1>2. CASE req'[q].id = i
  BY <1>2 DEF Orderly, On
<1> QED
  BY <1>1, <1>2

(* A request that answers, moves on, or is cut off.                        *)
LEMMA MovesRetain ==
  ASSUME RequestsOK, NEW p \in Requests,
         Answer(p) \/ \E at : Go(p, at) /\ req[p].at # "idle"
  PROVE  \A q \in Requests : Retained(q)
  BY DEF RequestsOK, RequestType, Answer, Go, Idle, Retained

LEMMA OrderMoves ==
  ASSUME OrderInv, NEW p \in Requests,
         CheckQuota(p) \/ ReadBody(p) \/ Store(p) \/ Checkpoint(p) \/ Verify(p)
            \/ Drop(p) \/ Unsend(p) \/ CutOff(p)
  PROVE  /\ \A q \in Requests : Orderly(q)'
         /\ \A q \in Requests : Retained(q)
         /\ UNCHANGED <<images, crowded>>
<1>1. UNCHANGED <<images, crowded>>
  BY DEF CheckQuota, ReadBody, Store, Checkpoint, Verify, Drop, Unsend, CutOff
<1>2. \A q \in Requests : Retained(q)
  <2>1. Answer(p) \/ \E at : Go(p, at) /\ req[p].at # "idle"
    BY DEF CheckQuota, ReadBody, Store, Checkpoint, Verify, Drop, Unsend, CutOff
  <2> QED
    BY <2>1, MovesRetain DEF OrderInv, LinkInv, TypeOK
<1>3. \A i \in Ids : SameShape(i)
  BY <1>1 DEF SameShape, Has
<1> QED
  BY <1>1, <1>2, <1>3, OrderFrame

(* A request that starts where it is admitted.                             *)
LEMMA StartFacts ==
  ASSUME OrderInv, NEW p \in Requests, NEW op, NEW at, NEW i \in Ids,
         Start(p, op, at, i), at # "idle"
  PROVE  /\ \A q \in Requests : Retained(q) \/ req'[q].id = i
         /\ crowded \subseteq crowded'
         /\ i \notin crowded' => \A q \in Requests :
               On(q, i) => op \notin Removals /\ req[q].op \notin Removals
         /\ req'[p].op = op /\ req'[p].id = i /\ req'[p].at = at
         /\ \A q \in Requests \ {p} : req'[q] = req[q]
         /\ ~On(p, i)
<1>1. req[p] = Idle /\ req' = [req EXCEPT ![p] =
        [op |-> op, at |-> at, id |-> i, row |-> images[i]]]
  BY DEF Start
<1>2. DOMAIN req = Requests
  BY DEF OrderInv, LinkInv, TypeOK, RequestsOK
<1>3. /\ req'[p].op = op /\ req'[p].id = i /\ req'[p].at = at
      /\ \A q \in Requests \ {p} : req'[q] = req[q]
  BY <1>1, <1>2
<1>4. ~On(p, i)
  BY <1>1 DEF On, Idle
<1>5. \A q \in Requests : Retained(q) \/ req'[q].id = i
  BY <1>3 DEF Retained
<1>6. crowded \subseteq crowded'
  BY DEF Start, Admit, Crowd
<1>7. i \notin crowded' => \A q \in Requests :
               On(q, i) => op \notin Removals /\ req[q].op \notin Removals
  BY DEF Start, Admit, Crowd
<1> QED
  BY <1>3, <1>4, <1>5, <1>6, <1>7

LEMMA OrderRemoval ==
  ASSUME OrderInv, NEW p \in Requests, NEW i \in Ids, UNCHANGED images,
         \/ Start(p, "discard", "drop", i) /\ Is(i, "uploading")
         \/ Start(p, "cleanup", "drop", i) /\ (Is(i, "uploading") \/ Is(i, "trashed"))
         \/ Start(p, "delete", "purge", i) /\ Is(i, "trashed")
         \/ Start(p, "reactivate", "reactivate", i) /\ Is(i, "trashed")
  PROVE  \A q \in Requests : Orderly(q)'
<1>1. PICK op, at : /\ Start(p, op, at, i) /\ at # "idle"
                    /\ \/ op = "discard" /\ Is(i, "uploading")
                       \/ op = "cleanup" /\ (Is(i, "uploading") \/ Is(i, "trashed"))
                       \/ op \in {"delete", "reactivate"} /\ Is(i, "trashed")
  OBVIOUS
<1>2. /\ \A q \in Requests : Retained(q) \/ req'[q].id = i
      /\ crowded \subseteq crowded'
      /\ i \notin crowded' => \A q \in Requests :
            On(q, i) => op \notin Removals /\ req[q].op \notin Removals
      /\ req'[p].op = op /\ req'[p].id = i
      /\ \A q \in Requests \ {p} : req'[q] = req[q]
      /\ ~On(p, i)
  BY <1>1, StartFacts
<1>3. Has(i) <=> Has(i)'
  BY DEF Has
<1>4. Has(i)
  BY <1>1, RowFacts DEF OrderInv, LinkInv, TypeOK
<1>5. ASSUME NEW q \in Requests, On(q, i)', i \notin crowded'
      PROVE  Orderly(q)'
  <2>1. CASE q = p /\ op \in Removals
    <3>1. \A r \in Requests : On(r, i)' => r = p
      BY <1>2, <1>5, <2>1 DEF On
    <3> QED
      BY <1>1, <1>2, <1>3, <1>4, <2>1, <3>1 DEF Orderly, Is, Removals
  <2>2. CASE q = p /\ op \notin Removals
    BY <1>1, <1>2, <1>3, <1>4, <2>2 DEF Orderly, Is, Removals
  <2>3. CASE q # p
    <3>1. On(q, i) /\ Orderly(q) /\ op \notin Removals /\ req[q].op \notin Removals
      BY <1>2, <1>5, <2>3 DEF On, OrderInv
    <3>2. op = "reactivate" /\ Is(i, "trashed")
      BY <1>1, <3>1 DEF Removals
    <3> QED
      BY <1>2, <1>3, <1>4, <1>5, <2>3, <3>1, <3>2 DEF Orderly, Is, On, Removals
  <2> QED
    BY <2>1, <2>2, <2>3
<1> QED
  BY <1>2, <1>5, OrderElsewhere

LEMMA OrderCreate ==
  ASSUME OrderInv, NEW p \in Requests, NEW c \in Contents, Create(p, c)
  PROVE  (\A q \in Requests : Orderly(q)') /\ UNCHANGED images
<1>1. UNCHANGED images
  BY DEF Create
<1>2. CASE crowded' = crowded /\ req' = [req EXCEPT ![p] =
                 [op |-> "create", at |-> "quota", id |-> 0, row |-> Row(c)]]
  <2>1. DOMAIN req = Requests
    BY DEF OrderInv, LinkInv, TypeOK, RequestsOK
  <2>2. \A q \in Requests : Retained(q)
    BY <1>2, <2>1 DEF Retained, Ids
  <2>3. \A i \in Ids : SameShape(i)
    BY <1>1 DEF SameShape, Has
  <2> QED
    BY <1>1, <1>2, <2>2, <2>3, OrderFrame
<1>3. ASSUME NEW i \in Ids,
             \/ Start(p, "reactivate", "reactivate", i) /\ Is(i, "trashed")
             \/ Start(p, "discard", "drop", i) /\ Is(i, "uploading")
      PROVE  \A q \in Requests : Orderly(q)'
  BY <1>1, <1>3, OrderRemoval
<1> QED
  BY <1>1, <1>2, <1>3 DEF Create

LEMMA OrderDeleteCleanup ==
  ASSUME OrderInv, NEW p \in Requests, NEW i \in Ids, Delete(p, i) \/ Cleanup(p, i)
  PROVE  (\A q \in Requests : Orderly(q)') /\ UNCHANGED images
  BY OrderRemoval DEF Delete, Cleanup
(* The rows that are there stay.                                           *)
RowsRemain == \A j \in Ids : Has(j) => Has(j)'

LEMMA UpdateFacts ==
  ASSUME OrderInv, NEW i \in Ids, NEW row, Update(i, row), row.status # "none"
  PROVE  /\ images'[i] = row
         /\ \A j \in Ids \ {i} : images'[j] = images[j]
         /\ Has(i)'
         /\ RowsRemain
  BY NoRowIsNone DEF OrderInv, LinkInv, TypeOK, RowsOK, Update, Has, RowsRemain

LEMMA SameRowsRemain ==
  ASSUME UNCHANGED images
  PROVE  RowsRemain /\ \A i \in Ids : SameShape(i)
  BY DEF RowsRemain, SameShape, Has

\* A row without a request of its own may be written.
LEMMA OrderAlone ==
  ASSUME OrderInv, NEW i \in Ids, crowded \subseteq crowded',
         \A j \in Ids \ {i} : images'[j] = images[j],
         \A q \in Requests : Retained(q),
         \A q \in Requests : i \notin crowded' => ~On(q, i)'
  PROVE  \A q \in Requests : Orderly(q)'
  BY OrderElsewhere

LEMMA OrderPut ==
  ASSUME OrderInv, NEW p \in Requests, NEW i \in Ids, Put(p, i)
  PROVE  (\A q \in Requests : Orderly(q)') /\ RowsRemain
<1>1. Has(i) /\ images[i] \in RowType
  BY RowFacts DEF OrderInv, LinkInv, TypeOK, Put
<1>2. PICK row : Update(i, row) /\ row = [images[i] EXCEPT !.claim = "fresh"]
  BY DEF Put
<1>3. row.status = "uploading" /\ row.claim = "fresh"
  BY <1>1, <1>2 DEF Put, Is, RowType
<1>4. images'[i] = row /\ (\A j \in Ids \ {i} : images'[j] = images[j]) /\ Has(i)' /\ RowsRemain
  BY <1>2, <1>3, UpdateFacts
<1>5. /\ \A q \in Requests : Retained(q) \/ req'[q].id = i
      /\ crowded \subseteq crowded'
      /\ i \notin crowded' => \A q \in Requests :
            On(q, i) => "put" \notin Removals /\ req[q].op \notin Removals
      /\ req'[p].op = "put" /\ req'[p].id = i
      /\ \A q \in Requests \ {p} : req'[q] = req[q]
      /\ ~On(p, i)
  BY StartFacts DEF Put
<1>6. ASSUME NEW q \in Requests, On(q, i)', i \notin crowded'
      PROVE  q = p
  <2> SUFFICES ASSUME q # p
               PROVE  FALSE
    OBVIOUS
  <2>1. On(q, i) /\ Orderly(q) /\ req[q].op \notin Removals /\ i \notin crowded
    BY <1>5, <1>6 DEF On, OrderInv
  <2>2. Stages(req[q]) /\ req[q] # Idle
    BY <2>1 DEF On, Idle, OrderInv, LinkInv, TypeOK, RequestsOK
  <2>3. req[q].op \in {"put", "trash", "patch", "reactivate"}
    BY <2>1, <2>2 DEF Stages, Removals, On, Ids
  <2>4. Is(i, "uploading") /\ images[i].claim # "fresh"
    BY DEF Put
  <2> QED
    BY <2>1, <2>3, <2>4 DEF Orderly, On
<1>7. ASSUME NEW q \in Requests, On(q, i)', i \in Ids \ crowded'
      PROVE  Orderly(q)'
  BY <1>3, <1>4, <1>5, <1>6, <1>7 DEF Orderly, Is, Removals
<1> QED
  BY <1>4, <1>5, <1>7, OrderElsewhere

(* A step on an image that is no upload: no put is under way.              *)
LEMMA LiveRequests ==
  ASSUME OrderInv, NEW i \in Ids \ crowded, Live(i),
         NEW q \in Requests, On(q, i), req[q].op \notin Removals
  PROVE  req[q].op \in {"trash", "patch", "reactivate"}
<1>1. Stages(req[q]) /\ req[q] # Idle /\ Orderly(q)
  BY DEF On, Idle, OrderInv, LinkInv, TypeOK, RequestsOK
<1> QED
  BY <1>1 DEF Stages, Orderly, On, Live, Removals, Ids

LEMMA OrderLive ==
  ASSUME OrderInv, NEW i \in Ids, Live(i), crowded \subseteq crowded',
         NEW row, Update(i, row), row.status \in {"active", "trashed"},
         \A q \in Requests : Retained(q) \/
             (req'[q].id = i /\ req'[q].op \in {"trash", "patch"}),
         \A q \in Requests : On(q, i)' /\ i \notin crowded' => req'[q].op \notin Removals
  PROVE  (\A q \in Requests : Orderly(q)') /\ RowsRemain
<1>1. images'[i] = row /\ (\A j \in Ids \ {i} : images'[j] = images[j]) /\ Has(i)' /\ RowsRemain
  BY UpdateFacts
<1>2. ASSUME NEW q \in Requests, On(q, i)', i \in Ids \ crowded'
      PROVE  Orderly(q)'
  <2>1. req'[q].op \in {"trash", "patch", "reactivate"}
    <3>1. CASE Retained(q)
      <4>1. On(q, i) /\ req[q].op = req'[q].op
        BY <1>2, <3>1 DEF Retained, On
      <4> QED
        BY <4>1, <1>2, LiveRequests
    <3> QED
      BY <3>1
  <2> QED
    BY <1>1, <1>2, <2>1 DEF Orderly, Is, Removals, On
<1>3. \A q \in Requests : Retained(q) \/ req'[q].id = i
  OBVIOUS
<1> QED
  BY <1>1, <1>2, <1>3, OrderElsewhere

LEMMA OrderTrashPatch ==
  ASSUME OrderInv, NEW p \in Requests, NEW i \in Ids, Trash(p, i) \/ Patch(p, i)
  PROVE  (\A q \in Requests : Orderly(q)') /\ RowsRemain
<1>1. images[i] \in RowType /\ Live(i)
  BY RowFacts DEF OrderInv, LinkInv, TypeOK, Trash, Patch, Live, Is
<1>2. PICK row : Update(i, row) /\ row.status \in {"active", "trashed"}
  <2>1. CASE Trash(p, i)
    <3>1. [images[i] EXCEPT !.status = "trashed", !.old = FALSE,
                            !.version = @ + 1].status = "trashed"
      BY <1>1 DEF RowType
    <3> QED
      BY <2>1, <3>1 DEF Trash
  <2>2. CASE Patch(p, i)
    <3>1. \A v : [images[i] EXCEPT !.visibility = v].status = "active"
      BY <1>1, <2>2 DEF RowType, Patch, Is
    <3> QED
      BY <2>2, <3>1 DEF Patch
  <2> QED
    BY <2>1, <2>2
<1>3. ASSUME NEW op \in {"trash", "patch"}, Start(p, op, "purge", i)
      PROVE  (\A q \in Requests : Orderly(q)') /\ RowsRemain
  <2>1. /\ \A q \in Requests : Retained(q) \/ req'[q].id = i
        /\ crowded \subseteq crowded'
        /\ i \notin crowded' => \A q \in Requests :
              On(q, i) => op \notin Removals /\ req[q].op \notin Removals
        /\ req'[p].op = op /\ req'[p].id = i
        /\ \A q \in Requests \ {p} : req'[q] = req[q]
    BY <1>3, StartFacts
  <2>2. \A q \in Requests : Retained(q) \/
             (req'[q].id = i /\ req'[q].op \in {"trash", "patch"})
    BY <2>1 DEF Retained
  <2>3. \A q \in Requests : On(q, i)' /\ i \notin crowded' => req'[q].op \notin Removals
    BY <2>1 DEF On, Removals
  <2> QED
    BY <1>1, <1>2, <2>1, <2>2, <2>3, OrderLive
<1>4. CASE Admit("patch", i) /\ req' = req
  <2>1. crowded \subseteq crowded'
        /\ (i \notin crowded' => \A q \in Requests : On(q, i) => req[q].op \notin Removals)
    BY <1>4 DEF Admit, Crowd
  <2>2. \A q \in Requests : Retained(q)
    BY <1>4 DEF Retained
  <2>3. \A q \in Requests : On(q, i)' /\ i \notin crowded' => req'[q].op \notin Removals
    BY <1>4, <2>1 DEF On
  <2> QED
    BY <1>1, <1>2, <2>1, <2>2, <2>3, OrderLive
<1> QED
  BY <1>3, <1>4 DEF Trash, Patch

LEMMA OrderRestore ==
  ASSUME OrderInv, NEW i \in Ids, Restore(i)
  PROVE  (\A q \in Requests : Orderly(q)') /\ RowsRemain
<1>1. images[i] \in RowType /\ Live(i)
  BY RowFacts DEF OrderInv, LinkInv, TypeOK, Restore, Live, Is
<1>2. PICK row : Update(i, row) /\ row.status = "active"
  <2>1. [images[i] EXCEPT !.status = "active", !.visibility = "private",
                          !.version = @ + 1].status = "active"
    BY <1>1 DEF RowType
  <2> QED
    BY <2>1 DEF Restore
<1>3. crowded \subseteq crowded'
        /\ (i \notin crowded' => \A q \in Requests : On(q, i) => req[q].op \notin Removals)
  BY DEF Restore, Admit, Crowd
<1>4. \A q \in Requests : Retained(q) /\ (On(q, i)' => On(q, i)) /\ req'[q] = req[q]
  BY DEF Restore, Retained, On
<1> QED
  BY <1>1, <1>2, <1>3, <1>4, OrderLive

(* Edits that Orderly does not see.                                        *)
LEMMA OrderSameShape ==
  ASSUME OrderInv, NEW i \in Ids,
         Revoke(i) \/ GrowOld(i) \/ Share(i)
  PROVE  (\A q \in Requests : Orderly(q)') /\ RowsRemain
<1>1. images[i] \in RowType /\ Has(i) /\ UNCHANGED <<crowded, req>>
  BY RowFacts DEF OrderInv, LinkInv, TypeOK, Revoke, GrowOld, Share, world
<1>2. \A q \in Requests : Retained(q)
  BY <1>1 DEF Retained
<1>3. CASE UNCHANGED images
  BY <1>1, <1>2, <1>3, SameRowsRemain, OrderFrame
<1>4. ASSUME NEW row, Update(i, row), row.status = images[i].status,
             row.claim = images[i].claim
      PROVE  (\A q \in Requests : Orderly(q)') /\ RowsRemain
  <2>1. row.status # "none"
    BY <1>1, <1>4 DEF RowType
  <2>2. images'[i] = row /\ (\A j \in Ids \ {i} : images'[j] = images[j]) /\ Has(i)' /\ RowsRemain
    BY <1>4, <2>1, UpdateFacts
  <2>3. \A j \in Ids : SameShape(j)
    BY <1>1, <1>4, <2>2 DEF SameShape, Has
  <2> QED
    BY <1>1, <1>2, <2>2, <2>3, OrderFrame
<1>5. PICK row : /\ row.status = images[i].status /\ row.claim = images[i].claim
                 /\ UNCHANGED images \/ Update(i, row)
  <2>1. /\ [images[i] EXCEPT !.version = @ + 1].status = images[i].status
        /\ [images[i] EXCEPT !.version = @ + 1].claim = images[i].claim
        /\ [images[i] EXCEPT !.old = TRUE].status = images[i].status
        /\ [images[i] EXCEPT !.old = TRUE].claim = images[i].claim
    BY <1>1 DEF RowType
  <2> QED
    BY <2>1 DEF Revoke, GrowOld, Share
<1> QED
  BY <1>3, <1>4, <1>5

LEMMA OrderClaimExpires ==
  ASSUME OrderInv, NEW i \in Ids, ClaimExpires(i)
  PROVE  (\A q \in Requests : Orderly(q)') /\ RowsRemain
<1>1. images[i] \in RowType
  BY RowFacts DEF OrderInv, LinkInv, TypeOK, ClaimExpires
<1>2. PICK row : Update(i, row) /\ row.status = "uploading"
  BY <1>1 DEF ClaimExpires, RowType, Is
<1>3. images'[i] = row /\ (\A j \in Ids \ {i} : images'[j] = images[j]) /\ Has(i)' /\ RowsRemain
  BY <1>2, UpdateFacts
<1>4. crowded \subseteq crowded' /\ (i \notin crowded' => ~\E p \in Requests : On(p, i))
  BY DEF ClaimExpires, Crowd
<1>5. \A q \in Requests : Retained(q) /\ (On(q, i)' => On(q, i))
  BY DEF ClaimExpires, Retained, On
<1> QED
  BY <1>3, <1>4, <1>5, OrderAlone
LEMMA OrderReactivate ==
  ASSUME OrderInv, NEW p \in Requests, Reactivate(p)
  PROVE  (\A q \in Requests : Orderly(q)') /\ RowsRemain
<1>1. UNCHANGED crowded /\ Stages(req[p]) /\ req[p].at = "reactivate" /\ Orderly(p)
  BY DEF Reactivate, OrderInv, LinkInv, TypeOK, RequestsOK
<1>2. req[p].op = "reactivate" /\ req[p].id \in Ids
  BY <1>1 DEF Stages, Idle, Used
<1>3. PICK i \in Ids : i = req[p].id
  BY <1>2
<1>4. \A q \in Requests : Retained(q)
  BY MovesRetain DEF Reactivate, OrderInv, LinkInv, TypeOK
<1>5. CASE UNCHANGED images
  BY <1>1, <1>4, <1>5, SameRowsRemain, OrderFrame
<1>6. CASE Has(i) /\ Update(i, [images[i] EXCEPT !.status = "active",
                                   !.visibility = "public", !.version = @ + 1])
  <2>1. images[i] \in RowType
    BY <1>6, RowFacts DEF OrderInv, LinkInv, TypeOK
  <2>2. PICK row : Update(i, row) /\ row.status = "active"
    <3>1. [images[i] EXCEPT !.status = "active", !.visibility = "public",
                            !.version = @ + 1].status = "active"
      BY <2>1 DEF RowType
    <3> QED
      BY <1>6, <3>1
  <2>3. CASE i \notin crowded
    <3>1. ~Is(i, "uploading")
      BY <1>1, <1>2, <1>3, <2>3 DEF Orderly
    <3>2. ASSUME NEW q \in Requests, On(q, i)'
          PROVE  req'[q].op \notin Removals
      <4>1. On(q, i) /\ req[q].op = req'[q].op
        BY <1>4, <3>2 DEF Retained, On
      <4>2. Orderly(q) /\ On(p, i)
        BY <1>1, <1>3 DEF OrderInv, On
      <4>3. q # p
        BY <3>2, <4>1 DEF On, Reactivate, Answer, Idle, OrderInv, LinkInv, TypeOK, RequestsOK
      <4> QED
        BY <1>3, <2>3, <4>1, <4>2, <4>3 DEF Orderly, On
    <3> QED
      BY <1>1, <1>4, <1>6, <2>2, <3>1, <3>2, OrderLive DEF Live
  <2>4. CASE i \in crowded
    <3>1. /\ \A j \in Ids \ {i} : images'[j] = images[j]
          /\ RowsRemain
      BY <2>2, UpdateFacts
    <3> QED
      BY <1>1, <1>4, <2>4, <3>1, OrderAlone
  <2> QED
    BY <2>3, <2>4
<1> QED
  BY <1>3, <1>5, <1>6 DEF Reactivate

\* The upload that activates its image is the only request on it.
LEMMA PutAlone ==
  ASSUME OrderInv, NEW p \in Requests, NEW i \in Ids \ crowded,
         On(p, i), req[p].op = "put", NEW q \in Requests, On(q, i)
  PROVE  q = p
<1>1. Stages(req[q]) /\ req[q] # Idle /\ Orderly(q) /\ Orderly(p)
  BY DEF On, Idle, OrderInv, LinkInv, TypeOK, RequestsOK
<1>2. Is(i, "uploading")
  BY <1>1 DEF Orderly, On
<1>3. req[q].op \in Removals \/ req[q].op = "put"
  BY <1>1, <1>2 DEF Stages, Orderly, On, Removals, Ids
<1>4. CASE req[q].op = "put"
  BY <1>1, <1>4 DEF Orderly, On
<1>5. CASE req[q].op \in Removals
  <2>1. p = q
    BY <1>1, <1>5 DEF Orderly, On
  <2> QED
    BY <2>1
<1> QED
  BY <1>3, <1>4, <1>5

LEMMA OrderActivate ==
  ASSUME OrderInv, NEW p \in Requests, Activate(p)
  PROVE  (\A q \in Requests : Orderly(q)') /\ RowsRemain
<1>1. UNCHANGED crowded /\ Stages(req[p]) /\ req[p].at = "activate"
  BY DEF Activate, OrderInv, LinkInv, TypeOK, RequestsOK
<1>2. req[p].op = "put" /\ req[p].id \in Ids
  BY <1>1 DEF Stages, Idle, Used
<1>3. PICK i \in Ids : i = req[p].id
  BY <1>2
<1>4. \A q \in Requests : Retained(q)
  <2>1. Answer(p) \/ \E at : Go(p, at) /\ req[p].at # "idle"
    BY DEF Activate
  <2> QED
    BY <2>1, MovesRetain DEF OrderInv, LinkInv, TypeOK
<1>5. CASE UNCHANGED images
  BY <1>1, <1>4, <1>5, SameRowsRemain, OrderFrame
<1>6. CASE Is(i, "uploading") /\ Update(i, [images[i] EXCEPT !.status = "active",
                                                             !.backend = Storage])
           /\ Answer(p)
  <2>1. images[i] \in RowType
    BY <1>6, RowFacts DEF OrderInv, LinkInv, TypeOK
  <2>2. PICK row : Update(i, row) /\ row.status = "active"
    <3>1. [images[i] EXCEPT !.status = "active", !.backend = Storage].status = "active"
      BY <2>1 DEF RowType
    <3> QED
      BY <1>6, <3>1
  <2>3. /\ \A j \in Ids \ {i} : images'[j] = images[j]
        /\ RowsRemain
    BY <2>2, UpdateFacts
  <2>4. ASSUME NEW q \in Requests, i \notin crowded', On(q, i)'
        PROVE  FALSE
    <3>1. q # p
      BY <1>6, <2>4 DEF On, Answer, Idle, OrderInv, LinkInv, TypeOK, RequestsOK
    <3>2. On(q, i) /\ On(p, i)
      BY <1>1, <1>3, <1>4, <2>4 DEF Retained, On
    <3> QED
      BY <1>1, <1>2, <1>3, <2>4, <3>1, <3>2, PutAlone
  <2> QED
    BY <1>1, <1>4, <2>3, <2>4, OrderAlone
<1>7. Has(i) <=> images[i].status # "none"
  BY HasStatus DEF OrderInv, LinkInv, TypeOK
<1> QED
  BY <1>3, <1>5, <1>6, <1>7 DEF Activate, Is

LEMMA OrderForget ==
  ASSUME OrderInv, NEW p \in Requests, Forget(p)
  PROVE  /\ \A q \in Requests : Orderly(q)'
         /\ \A j \in Ids \ crowded : Is(j, "active") => images'[j] # NoRow
         /\ \A j \in Ids \ {req[p].id} : images'[j] = images[j]
         /\ images'[req[p].id] = NoRow
<1>1. UNCHANGED crowded /\ Stages(req[p]) /\ req[p].at = "forget" /\ Orderly(p)
  BY DEF Forget, OrderInv, LinkInv, TypeOK, RequestsOK
<1>2. req[p].op \in Removals \cup {"put"} /\ req[p].id \in Ids
  BY <1>1 DEF Stages, Idle, Used, Removals
<1>3. PICK i \in Ids : i = req[p].id
  BY <1>2
<1>4. images'[i] = NoRow /\ \A j \in Ids \ {i} : images'[j] = images[j]
  BY <1>3 DEF Forget, Update, OrderInv, LinkInv, TypeOK, RowsOK
<1>5. DOMAIN req = Requests
  BY DEF OrderInv, LinkInv, TypeOK, RequestsOK
<1>6. \A q \in Requests \ {p} : req'[q] = req[q]
  BY <1>5 DEF Forget, Answer
<1>7. req'[p].at = "idle" \/ req'[p].id = 0
  <2>1. CASE Answer(p)
    BY <1>5, <2>1 DEF Answer, Idle
  <2>2. CASE req' = [req EXCEPT ![p] = [@ EXCEPT !.op = "create", !.at = "quota", !.id = 0]]
    <3>1. req[p] \in RequestType
      BY RequestFacts DEF OrderInv, LinkInv, TypeOK
    <3> QED
      BY <1>5, <2>2, <3>1 DEF RequestType
  <2> QED
    BY <2>1, <2>2 DEF Forget
<1>8. \A q \in Requests : Retained(q)
  BY <1>6, <1>7 DEF Retained, Ids
<1>9. ASSUME NEW q \in Requests, i \notin crowded', On(q, i)'
      PROVE  FALSE
  <2>1. q # p
    BY <1>7, <1>9 DEF On, Ids
  <2>2. On(q, i) /\ On(p, i)
    BY <1>1, <1>3, <1>6, <1>9, <2>1 DEF On
  <2>3. CASE req[p].op = "put"
    BY <1>1, <1>9, <2>1, <2>2, <2>3, PutAlone
  <2>4. CASE req[p].op \in Removals
    BY <1>1, <1>9, <2>1, <2>2, <2>4 DEF Orderly, On
  <2> QED
    BY <1>2, <2>3, <2>4
<1>10. \A q \in Requests : Orderly(q)'
  BY <1>1, <1>4, <1>8, <1>9, OrderAlone
<1>11. ASSUME NEW j \in Ids \ crowded, Is(j, "active")
       PROVE  images'[j] # NoRow
  <2>1. CASE j = i
    BY <1>1, <1>2, <1>3, <1>11, <2>1 DEF Orderly, Is
  <2>2. CASE j # i
    BY <1>4, <1>11, <2>2, NoRowIsNone DEF Is
  <2> QED
    BY <2>1, <2>2
<1> QED
  BY <1>3, <1>4, <1>10, <1>11

LEMMA OrderPurge ==
  ASSUME OrderInv, NEW p \in Requests, Purge(p)
  PROVE  (\A q \in Requests : Orderly(q)') /\ RowsRemain
<1>1. UNCHANGED crowded /\ Stages(req[p]) /\ req[p].at = "purge" /\ Orderly(p)
  BY DEF Purge, OrderInv, LinkInv, TypeOK, RequestsOK
<1>2. req[p].op \in {"trash", "patch", "delete"} /\ req[p].id \in Ids
  BY <1>1 DEF Stages, Idle, Used
<1>3. PICK i \in Ids : i = req[p].id
  BY <1>2
<1>4. \A q \in Requests : Retained(q)
  <2>1. Answer(p) \/ \E at : Go(p, at) /\ req[p].at # "idle"
    BY <1>1 DEF Purge
  <2> QED
    BY <2>1, MovesRetain DEF OrderInv, LinkInv, TypeOK
<1>5. CASE UNCHANGED images
  BY <1>1, <1>4, <1>5, SameRowsRemain, OrderFrame
<1>6. CASE Has(i) /\ req[p].op \in {"trash", "patch"} /\ Answer(p)
           /\ \/ Update(i, [images[i] EXCEPT !.status = "active"])
              \/ Update(i, [images[i] EXCEPT !.visibility = "public"])
  <2>1. images[i] \in RowType
    BY <1>6, RowFacts DEF OrderInv, LinkInv, TypeOK
  <2>2. PICK row : /\ Update(i, row) /\ row.status # "none"
                   /\ i \notin crowded => row.status \in {"active", "trashed"}
    <3>1. /\ [images[i] EXCEPT !.status = "active"].status = "active"
          /\ [images[i] EXCEPT !.visibility = "public"].status = images[i].status
      BY <2>1 DEF RowType
    <3>2. images[i].status \in {"uploading", "active", "trashed"}
      BY <2>1 DEF RowType
    <3>3. i \notin crowded => images[i].status # "uploading"
      BY <1>1, <1>3, <1>6 DEF Orderly, Is
    <3> QED
      BY <1>6, <3>1, <3>2, <3>3
  <2>3. CASE i \notin crowded
    <3>1. ~Is(i, "uploading")
      BY <1>1, <1>3, <1>6, <2>3 DEF Orderly
    <3>2. ASSUME NEW q \in Requests, On(q, i)'
          PROVE  req'[q].op \notin Removals
      <4>1. On(q, i) /\ req[q].op = req'[q].op
        BY <1>4, <3>2 DEF Retained, On
      <4>2. Orderly(q) /\ On(p, i)
        BY <1>1, <1>3 DEF OrderInv, On
      <4>3. q # p
        BY <1>6, <3>2 DEF On, Answer, Idle, OrderInv, LinkInv, TypeOK, RequestsOK
      <4> QED
        BY <1>3, <2>3, <4>1, <4>2, <4>3 DEF Orderly, On
    <3> QED
      BY <1>1, <1>4, <1>6, <2>2, <2>3, <3>1, <3>2, OrderLive DEF Live
  <2>4. CASE i \in crowded
    <3>1. /\ \A j \in Ids \ {i} : images'[j] = images[j]
          /\ RowsRemain
      BY <2>2, UpdateFacts
    <3> QED
      BY <1>1, <1>4, <2>4, <3>1, OrderAlone
  <2> QED
    BY <2>3, <2>4
<1>7. \/ UNCHANGED images
      \/ /\ CASE req[p].op = "trash" /\ Has(i) ->
                    Update(i, [images[i] EXCEPT !.status = "active"])
              [] req[p].op = "patch" /\ Has(i) ->
                    Update(i, [images[i] EXCEPT !.visibility = "public"])
              [] OTHER -> UNCHANGED images
         /\ Answer(p)
  BY <1>3 DEF Purge
<1>8. \/ UNCHANGED images
      \/ /\ Has(i) /\ req[p].op \in {"trash", "patch"} /\ Answer(p)
         /\ \/ Update(i, [images[i] EXCEPT !.status = "active"])
            \/ Update(i, [images[i] EXCEPT !.visibility = "public"])
  BY <1>2, <1>7
<1> QED
  BY <1>5, <1>6, <1>8

LEMMA OrderInsert ==
  ASSUME OrderInv, NEW p \in Requests, Insert(p)
  PROVE  /\ \A q \in Requests : Orderly(q)'
         /\ RowsRemain
         /\ \A q \in Requests : Retained(q)
         /\ \A j \in Used : images'[j] = images[j]
<1>1. UNCHANGED crowded /\ Answer(p) /\ nextId \in Ids
  BY BoundsAssumption DEF Insert, Ids, OrderInv, LinkInv, TypeOK
<1>2. \A q \in Requests : Retained(q)
  BY <1>1, MovesRetain DEF OrderInv, LinkInv, TypeOK
<1>3. \A q \in Requests : req[q].id # nextId
  BY <1>1 DEF OrderInv, LinkInv, TypeOK, RequestsOK, RequestType, Used, Ids
<1>4. CASE UNCHANGED images
  BY <1>1, <1>2, <1>4, SameRowsRemain, OrderFrame
<1>5. CASE Update(nextId, Row(req[p].row.content))
  <2>1. Row(req[p].row.content).status # "none"
    BY DEF Row
  <2>2. PICK n \in Ids : n = nextId
    BY <1>1
  <2>3. (\A j \in Ids \ {n} : images'[j] = images[j]) /\ RowsRemain
    BY <1>5, <2>1, <2>2, UpdateFacts
  <2>4. \A q \in Requests : ~On(q, n)'
    BY <1>1, <1>2, <1>3, <2>2 DEF Retained, On
  <2>5. \A q \in Requests : Orderly(q)'
    BY <1>1, <1>2, <2>3, <2>4, OrderAlone
  <2>6. n \notin Used
    BY <2>2 DEF Used, OrderInv, LinkInv, TypeOK
  <2> QED
    BY <1>2, <2>3, <2>5, <2>6 DEF Used
<1> QED
  BY <1>2, <1>4, <1>5 DEF Insert
LEMMA OrderScript ==
  ASSUME OrderInv, ScriptOnly \/ UNCHANGED vars
  PROVE  (\A q \in Requests : Orderly(q)') /\ UNCHANGED <<images, req, crowded>>
<1>1. UNCHANGED <<images, req, crowded>>
  BY DEF ScriptOnly, MigrateBegin, Prune, MigrateSend, MigrateInsert, MigrateVerify,
         ConfirmCopy, RemoveBackup, FlagBackup, Interrupt, byScript, vars
<1>2. \A q \in Requests : Retained(q)
  BY <1>1 DEF Retained
<1> QED
  BY <1>1, <1>2, SameRowsRemain, OrderFrame

LEMMA OrderSwitch ==
  ASSUME OrderInv, MigrateSwitch
  PROVE  (\A q \in Requests : Orderly(q)') /\ RowsRemain
<1>1. UNCHANGED <<req, crowded>>
  BY DEF MigrateSwitch, byScript
<1>2. \A q \in Requests : Retained(q)
  BY <1>1 DEF Retained
<1>3. CASE UNCHANGED images
  BY <1>1, <1>2, <1>3, SameRowsRemain, OrderFrame
<1>4. PICK i : i = script.id
  OBVIOUS
<1>5. CASE Is(i, "active") /\ Update(i, [images[i] EXCEPT !.backend = "telegram"])
  <2>1. CASE i \notin Ids
    <3>1. UNCHANGED images
      BY <1>5, <2>1 DEF Update, OrderInv, LinkInv, TypeOK, RowsOK
    <3> QED
      BY <1>3, <3>1
  <2>2. CASE i \in Ids
    <3>1. images[i] \in RowType
      BY <1>5, <2>2, RowFacts DEF OrderInv, LinkInv, TypeOK
    <3>2. PICK row : Update(i, row) /\ row.status = images[i].status
                     /\ row.claim = images[i].claim
      <4>1. [images[i] EXCEPT !.backend = "telegram"].status = images[i].status
            /\ [images[i] EXCEPT !.backend = "telegram"].claim = images[i].claim
        BY <3>1 DEF RowType
      <4> QED
        BY <1>5, <4>1
    <3>3. row.status # "none"
      BY <3>1, <3>2 DEF RowType
    <3>4. images'[i] = row /\ (\A j \in Ids \ {i} : images'[j] = images[j]) /\ Has(i)'
          /\ RowsRemain
      BY <2>2, <3>2, <3>3, UpdateFacts
    <3>5. Has(i)
      BY <2>2, <3>1, RowFacts DEF OrderInv, LinkInv, TypeOK
    <3>6. \A j \in Ids : SameShape(j)
      BY <3>2, <3>4, <3>5 DEF SameShape, Has
    <3> QED
      BY <1>1, <1>2, <3>4, <3>6, OrderFrame
  <2> QED
    BY <2>1, <2>2
<1> QED
  BY <1>3, <1>4, <1>5 DEF MigrateSwitch

LEMMA OrderNext ==
  ASSUME OrderInv, [Next]_vars
  PROVE  /\ OrderInv'
         /\ \A j \in Ids \ crowded : Is(j, "active") => images'[j] # NoRow
<1>1. LinkInv'
  BY LinkNext, LinkStutter DEF OrderInv
<1>2. \A j \in Ids : Is(j, "active") => Has(j)
  BY RowFacts DEF OrderInv, LinkInv, TypeOK
<1>3. RowsRemain => \A j \in Ids \ crowded : Is(j, "active") => images'[j] # NoRow
  BY <1>2 DEF RowsRemain, Has
<1>4. ASSUME NEW p \in Requests, Ask(p) \/ Step(p) \/ CutOff(p)
             \/ \E i \in Ids : Cleanup(p, i)
      PROVE  /\ \A q \in Requests : Orderly(q)'
             /\ RowsRemain \/ Forget(p)
  BY <1>4, OrderCreate, OrderDeleteCleanup, OrderMoves, OrderReactivate, OrderActivate,
     OrderForget, OrderPurge, OrderPut, OrderTrashPatch, OrderInsert, SameRowsRemain
     DEF Ask, Step
<1>5. ASSUME NEW i \in Ids,
             Restore(i) \/ Share(i) \/ Revoke(i) \/ GrowOld(i) \/ ClaimExpires(i)
      PROVE  (\A q \in Requests : Orderly(q)') /\ RowsRemain
  BY <1>5, OrderRestore, OrderSameShape, OrderClaimExpires
<1>6. CASE Script
  BY <1>3, <1>6, <1>1, OrderScript, OrderSwitch, SameRowsRemain
     DEF Script, ScriptOnly, OrderInv
<1>7. CASE UNCHANGED vars
  BY <1>1, <1>3, <1>7, OrderScript, SameRowsRemain DEF OrderInv
<1>8. CASE Next
  <2>1. CASE \E p \in Requests : Ask(p) \/ Step(p) \/ CutOff(p)
             \/ \E i \in Ids : Cleanup(p, i)
    BY <1>1, <1>3, <1>4, <2>1, OrderForget DEF OrderInv
  <2>2. CASE \E i \in Ids :
             Restore(i) \/ Share(i) \/ Revoke(i) \/ GrowOld(i) \/ ClaimExpires(i)
    BY <1>1, <1>3, <1>5, <2>2 DEF OrderInv
  <2> QED
    BY <1>6, <1>8, <2>1, <2>2 DEF Next
<1> QED
  BY <1>7, <1>8

LEMMA OrderInit ==
  ASSUME Init
  PROVE  OrderInv
  BY LinkInit DEF Init, OrderInv, Orderly, Idle

(* DELETE FROM images names a row by its id alone, long after the request  *)
(* read it; as long as no removal meets another request on its image, the  *)
(* row it deletes is not one of an active image.                           *)
THEOREM ActiveImagesAreKept ==
  Spec => DeletedFromTrash
<1>1. Init => OrderInv
  BY OrderInit
<1>2. OrderInv /\ [Next]_vars => OrderInv'
  BY OrderNext
<1>3. OrderInv /\ [Next]_vars =>
        [\A i \in DOMAIN images \ crowded : Is(i, "active") => images'[i] # NoRow]_vars
  <2> SUFFICES ASSUME OrderInv, [Next]_vars
               PROVE  \A i \in DOMAIN images \ crowded :
                        Is(i, "active") => images'[i] # NoRow
    OBVIOUS
  <2>1. DOMAIN images = Ids
    BY DEF OrderInv, LinkInv, TypeOK, RowsOK
  <2> QED
    BY <2>1, OrderNext
<1> QED
  BY <1>1, <1>2, <1>3, PTL DEF Spec, DeletedFromTrash
-----------------------------------------------------------------------------
(* Rows, bucket and channel agree.                                         *)

LEMMA StorageTypes ==
  ASSUME OrderInv
  PROVE  /\ RowsOK /\ FilesOK /\ RequestsOK
         /\ crowded \subseteq Ids /\ (Overlap \/ crowded = {})
         /\ script \in ScriptType /\ nextId \in Nat \ {0}
         /\ Used \subseteq Ids /\ 0 \notin Ids
         /\ \A i \in Ids : Has(i) <=> images[i].status # "none"
         /\ DOMAIN req = Requests /\ DOMAIN objects = Ids /\ DOMAIN images = Ids
  BY HasStatus DEF OrderInv, LinkInv, TypeOK, CrowdedOK, Used, Ids, RowsOK, FilesOK, RequestsOK

\* A step that concerns image i: the request that takes it works on i, or on
\* no image.
Local(q, i) == req[q].at = "idle" \/ req[q].id \in {i, 0}

Concerns(i) ==
    /\ \A j \in Ids \ {i} :
          /\ images'[j] = images[j] /\ objects'[j] = objects[j]
          /\ j \in bucket' <=> j \in bucket
    /\ \A m \in Ids \X Senders : m[1] # i =>
          /\ m \in channel' <=> m \in channel
          /\ m \in lost => m \in lost'
    /\ \A q \in Requests : req'[q] = req[q] \/ (Local(q, i) /\ Local(q, i)')
    /\ script' = script \/ (script.id \in {i, 0} /\ script'.id \in {i, 0})
    /\ crowded \subseteq crowded'

LEMMA Locality ==
  ASSUME StorageInv, OrderInv', NEW i \in Ids, Concerns(i), NEW j \in Ids \ {i}
  PROVE  Agrees(j)'
<1>1. /\ images'[j] = images[j] /\ objects'[j] = objects[j]
      /\ j \in bucket' <=> j \in bucket
      /\ crowded \subseteq crowded'
      /\ Agrees(j)
  BY DEF Concerns, StorageInv
<1>2. \A q \in Requests : (On(q, j) <=> On(q, j)') /\ (On(q, j) => req'[q] = req[q])
  BY StorageTypes DEF Concerns, On, Local, StorageInv
<1>3. /\ Has(j) <=> Has(j)'
      /\ \A s : Is(j, s) <=> Is(j, s)'
      /\ Gutted(j) <=> Gutted(j)'
      /\ Live(j) <=> Live(j)'
  BY <1>1, <1>2 DEF Has, Is, Gutted, Live
<1>4. objects[j] # NoObject => objects[j].message \in Ids \X Senders /\ objects[j].message[1] = j
  BY StorageTypes, ObjectFacts DEF StorageInv, ObjectType
<1>5. objects[j] # NoObject => (Sent(j) <=> Sent(j)')
  BY <1>1, <1>4 DEF Sent, Concerns
<1>6. Referenced(j)'
  BY <1>1, <1>3 DEF Agrees, Referenced
<1>7. Whole(j)'
  BY <1>1, <1>3, <1>5 DEF Agrees, Whole
<1>8. ASSUME NEW q \in Requests, On(q, j)'
      PROVE  Relies(q, j)' /\ Written(q, j)'
  <2>1. Relies(q, j) /\ Written(q, j) /\ req'[q] = req[q]
    BY <1>1, <1>2, <1>8 DEF Agrees
  <2>2. Relies(q, j)'
    BY <1>1, <1>3, <2>1 DEF Relies
  <2>3. req[q].at = "activate" /\ Storage = "telegram" => objects[j] # NoObject
    BY <2>1 DEF Relies
  <2>4. Written(q, j)'
    BY <1>1, <1>3, <1>5, <2>1, <2>3 DEF Written
  <2> QED
    BY <2>2, <2>4
<1>9. ASSUME NEW q \in Requests
      PROVE  NoClash(q, j)'
  <2>1. NoClash(q, j) /\ (Recorded(q, j)' <=> Recorded(q, j))
    BY <1>1 DEF Agrees, Recorded
  <2>2. \/ req'[q] = req[q]
        \/ /\ req[q].at = "idle" \/ req[q].id # j
           /\ req'[q].at = "idle" \/ req'[q].id # j
    BY StorageTypes DEF Concerns, Local, StorageInv
  <2> QED
    BY <1>3, <2>1, <2>2 DEF NoClash
<1>10. j \notin crowded' => BucketOwned(j)'
  BY <1>1, <1>3 DEF Agrees, BucketOwned
<1>11. j \notin crowded' => ReferenceOwned(j)'
  BY <1>1, <1>2, <1>3 DEF Agrees, ReferenceOwned
<1>12. ASSUME NEW m \in channel' \ lost', m[1] = j, j \notin crowded'
       PROVE  MessageOwned(m, j)'
  <2>1. m \in Ids \X Senders
    <3>1. channel' \subseteq Used' \X Senders /\ Used' \subseteq Ids
      BY DEF OrderInv, LinkInv, TypeOK, FilesOK, Used
    <3> QED
      BY <3>1
  <2>2. m \in channel \ lost /\ j \notin crowded
    BY <1>1, <1>12, <2>1 DEF Concerns
  <2>3. MessageOwned(m, j)
    BY <1>1, <1>12, <2>2 DEF Agrees
  <2>4. script.id = j => script' = script
    BY StorageTypes DEF Concerns, StorageInv
  <2> QED
    BY <1>1, <1>2, <2>3, <2>4 DEF MessageOwned
<1> QED
  BY <1>6, <1>7, <1>8, <1>9, <1>10, <1>11, <1>12 DEF Agrees

LEMMA StorageFrom ==
  ASSUME StorageInv, OrderInv', nextId' >= nextId, ScriptKnows',
         NEW i \in Ids, Concerns(i), Agrees(i)'
  PROVE  StorageInv'
<1>1. \A j \in Ids : Agrees(j)'
  BY Locality
<1>2. Migrated \subseteq Used'
  <2>1. nextId \in Nat /\ nextId' \in Nat
    BY DEF StorageInv, OrderInv, LinkInv, TypeOK
  <2>2. \A n \in Ids : n \in Nat
    BY DEF Ids
  <2> QED
    BY <2>1, <2>2 DEF StorageInv, Used
<1> QED
  BY <1>1, <1>2 DEF StorageInv

(* The script stays where it is.                                           *)
LEMMA ScriptFrame ==
  ASSUME StorageInv, script' = script, NEW k, k = script.id,
         crowded \subseteq crowded',
         k \in Ids =>
           /\ Is(k, "uploading")' => Is(k, "uploading")
           /\ k \in Migrated /\ ~Is(k, "uploading") =>
                 (objects'[k] = NoObject <=> objects[k] = NoObject)
           /\ objects[k] # NoObject => objects'[k] # NoObject
           /\ Has(k)' /\ images[k].backend = "telegram" =>
                 Has(k) /\ images'[k].backend = "telegram"
           /\ Has(k)' => Has(k)
           /\ ~Is(k, "uploading") /\ k \in bucket' \ crowded' => k \in bucket
  PROVE  ScriptKnows'
<1>1. script.at # "idle" => k \in Ids
  BY StorageTypes DEF StorageInv, ScriptKnows, ScriptType
<1> QED
  BY <1>1 DEF StorageInv, ScriptKnows
(* Edits of a row, and the requests that make them, leave the files alone. *)
RowEdit(i) ==
    \/ images'[i] = images[i]
    \/ /\ Has(i) /\ Has(i)'
       /\ Is(i, "uploading") <=> Is(i, "uploading")'
       /\ images'[i].backend = images[i].backend

RequestEdit(q, i) ==
    \/ req'[q] = req[q]
    \/ /\ req[q].at \notin {"checkpoint", "verify", "activate", "drop", "unsend", "forget"}
       /\ req'[q].at \notin {"checkpoint", "verify", "activate", "unsend", "forget"}
       /\ On(q, i)' => Relies(q, i)'
       /\ On(q, i)' /\ req'[q].op = "put" =>
             \/ On(q, i) /\ req[q].op = "put" /\ req[q].at = "body"
             \/ Is(i, "uploading")

LEMMA EditAgrees ==
  ASSUME StorageInv, OrderInv', NEW i \in Ids, UNCHANGED <<files, script>>,
         crowded \subseteq crowded', RowEdit(i), \A q \in Requests : RequestEdit(q, i)
  PROVE  Agrees(i)'
<1>1. Agrees(i) /\ UNCHANGED <<objects, bucket, channel, lost, script>>
  BY DEF StorageInv, files
<1>2. /\ Has(i) <=> Has(i)'
      /\ Is(i, "uploading") <=> Is(i, "uploading")'
      /\ images'[i].backend = images[i].backend
  BY DEF RowEdit, Has, Is
<1>3. \A q \in Requests :
        req[q].at \in {"checkpoint", "verify", "activate", "unsend", "forget"} \/
        req'[q].at \in {"checkpoint", "verify", "activate", "unsend", "forget"}
          => req'[q] = req[q]
  BY DEF RequestEdit
<1>4. /\ Gutted(i) <=> Gutted(i)'
      /\ Live(i) <=> Live(i)'
      /\ Sent(i) <=> Sent(i)'
  BY <1>1, <1>2, <1>3 DEF Gutted, Live, Sent, On
<1>5. Referenced(i)'
  BY <1>1, <1>2 DEF Agrees, Referenced
<1>6. Whole(i)'
  BY <1>1, <1>2, <1>4 DEF Agrees, Whole
<1>7. ASSUME NEW q \in Requests, On(q, i)'
      PROVE  Relies(q, i)' /\ Written(q, i)'
  <2>1. CASE req'[q] = req[q]
    <3>1. Relies(q, i) /\ Written(q, i)
      BY <1>1, <1>7, <2>1 DEF Agrees, On
    <3> QED
      BY <1>1, <1>2, <1>4, <2>1, <3>1 DEF Relies, Written
  <2>2. CASE req'[q] # req[q]
    <3>1. Relies(q, i)'
      BY <1>7, <2>2 DEF RequestEdit
    <3>2. Written(q, i)'
      BY <1>3, <2>2 DEF Written
    <3> QED
      BY <3>1, <3>2
  <2> QED
    BY <2>1, <2>2
<1>8. ASSUME NEW q \in Requests
      PROVE  NoClash(q, i)'
  <2>1. NoClash(q, i) /\ (Recorded(q, i)' <=> Recorded(q, i))
    BY <1>1 DEF Agrees, Recorded
  <2>2. CASE req'[q] = req[q]
    BY <1>2, <1>4, <2>1, <2>2 DEF NoClash
  <2>3. CASE req'[q] # req[q]
    BY <1>2, <1>4, <2>1, <2>3 DEF NoClash, RequestEdit, On
  <2> QED
    BY <2>2, <2>3
<1>9. i \notin crowded' => BucketOwned(i)'
  BY <1>1, <1>2, <1>4 DEF Agrees, BucketOwned
<1>10. i \notin crowded' => ReferenceOwned(i)'
  BY <1>1, <1>2, <1>3 DEF Agrees, ReferenceOwned, On
<1>11. ASSUME NEW m \in channel' \ lost', m[1] = i, i \notin crowded'
       PROVE  MessageOwned(m, i)'
  BY <1>1, <1>3, <1>11 DEF Agrees, MessageOwned, On
<1> QED
  BY <1>5, <1>6, <1>7, <1>8, <1>9, <1>10, <1>11 DEF Agrees

LEMMA EditKeeps ==
  ASSUME StorageInv, OrderInv', UNCHANGED <<files, script, nextId>>,
         crowded \subseteq crowded', \A j \in Ids : RowEdit(j),
         \A q \in Requests : \A j \in Ids : RequestEdit(q, j)
  PROVE  StorageInv'
<1>1. \A j \in Ids : Agrees(j)'
  BY EditAgrees
<1>2. PICK k : k = script.id
  OBVIOUS
<1>3. k \in Ids => (Is(k, "uploading")' => Is(k, "uploading"))
                   /\ (Has(k)' <=> Has(k)) /\ images'[k].backend = images[k].backend
  BY DEF RowEdit, Has, Is
<1>4. ScriptKnows'
  BY <1>2, <1>3, ScriptFrame DEF files
<1>5. Migrated \subseteq Used'
  BY DEF StorageInv, Used
<1> QED
  BY <1>1, <1>4, <1>5 DEF StorageInv


LEMMA SameRowEdits ==
  ASSUME UNCHANGED images
  PROVE  \A j \in Ids : RowEdit(j)
  BY DEF RowEdit

LEMMA UpdateEdits ==
  ASSUME OrderInv, NEW i \in Ids, NEW row, Update(i, row), Has(i), row.status # "none",
         row.status = "uploading" <=> Is(i, "uploading"),
         row.backend = images[i].backend
  PROVE  \A j \in Ids : RowEdit(j)
<1>1. images'[i] = row /\ (\A j \in Ids \ {i} : images'[j] = images[j]) /\ Has(i)'
  BY UpdateFacts
<1> QED
  BY <1>1 DEF RowEdit, Is

\* A request that answers from a state without a claim on the files.
LEMMA AnswerEdits ==
  ASSUME OrderInv, NEW p \in Requests, Answer(p),
         req[p].at \notin {"checkpoint", "verify", "activate", "drop", "unsend", "forget"}
  PROVE  \A q \in Requests : \A j \in Ids : RequestEdit(q, j)
  BY StorageTypes DEF Answer, RequestEdit, Idle, On

LEMMA StartEdits ==
  ASSUME StorageInv, OrderInv', NEW p \in Requests, NEW op, NEW at, NEW i \in Ids,
         Start(p, op, at, i), Has(i), at \in {"reactivate", "drop", "body", "purge"},
         op \in {"put", "discard"} => Is(i, "uploading"),
         op \in {"trash", "patch", "reactivate", "delete"} => ~Is(i, "uploading")',
         images'[i].backend = images[i].backend
  PROVE  \A q \in Requests : \A j \in Ids : RequestEdit(q, j)
<1>1. /\ req[p] = Idle
      /\ req'[p] = [op |-> op, at |-> at, id |-> i, row |-> images[i]]
      /\ \A q \in Requests \ {p} : req'[q] = req[q]
  BY StorageTypes DEF Start, StorageInv
<1>2. Is(i, "uploading") => i \notin Migrated
  BY DEF StorageInv, Agrees, Referenced
<1>3. Relies(p, i)'
  BY <1>1, <1>2 DEF Relies
<1>4. \A j \in Ids : RequestEdit(p, j)
  BY <1>1, <1>3 DEF RequestEdit, Idle, On
<1> QED
  BY <1>1, <1>4 DEF RequestEdit

LEMMA StorageCreate ==
  ASSUME StorageInv, OrderInv', NEW p \in Requests, NEW c \in Contents, Create(p, c)
  PROVE  StorageInv'
<1>1. UNCHANGED <<images, files, script, nextId>> /\ crowded \subseteq crowded'
  BY DEF Create, world, Start, Admit, Crowd
<1>2. \A j \in Ids : RowEdit(j)
  BY <1>1, SameRowEdits
<1>3. CASE req[p] = Idle /\ req' = [req EXCEPT ![p] =
                 [op |-> "create", at |-> "quota", id |-> 0, row |-> Row(c)]]
  <2>1. \A q \in Requests : \A j \in Ids : RequestEdit(q, j)
    BY <1>3, StorageTypes DEF StorageInv, RequestEdit, On, Idle
  <2> QED
    BY <1>1, <1>2, <2>1, EditKeeps
<1>4. ASSUME NEW i \in Ids, Has(i),
             \/ Start(p, "reactivate", "reactivate", i) /\ Is(i, "trashed")
             \/ Start(p, "discard", "drop", i) /\ Is(i, "uploading")
      PROVE  StorageInv'
  <2>1. \A q \in Requests : \A j \in Ids : RequestEdit(q, j)
    BY <1>1, <1>4, StartEdits DEF Is
  <2> QED
    BY <1>1, <1>2, <2>1, EditKeeps
<1> QED
  BY <1>3, <1>4 DEF Create

LEMMA StorageDeleteCleanup ==
  ASSUME StorageInv, OrderInv', NEW p \in Requests, NEW i \in Ids,
         Delete(p, i) \/ Cleanup(p, i)
  PROVE  StorageInv'
<1>1. UNCHANGED <<images, files, script, nextId>> /\ crowded \subseteq crowded'
  BY DEF Delete, Cleanup, world, Start, Admit, Crowd
<1>2. \A j \in Ids : RowEdit(j)
  BY <1>1, SameRowEdits
<1>3. Has(i)
  BY StorageTypes DEF StorageInv, Delete, Cleanup, Is
<1>4. \A q \in Requests : \A j \in Ids : RequestEdit(q, j)
  BY <1>1, <1>3, StartEdits DEF Delete, Cleanup, Is
<1> QED
  BY <1>1, <1>2, <1>4, EditKeeps

LEMMA StorageAnswers ==
  ASSUME StorageInv, OrderInv', NEW p \in Requests, CheckQuota(p) \/ ReadBody(p)
  PROVE  StorageInv'
<1>1. UNCHANGED <<images, files, script, nextId, crowded>>
  BY DEF CheckQuota, ReadBody, world
<1>2. \A j \in Ids : RowEdit(j)
  BY <1>1, SameRowEdits
<1>3. Stages(req[p]) /\ req[p] \in RequestType
  BY RequestFacts, StorageTypes DEF StorageInv
<1>4. \A q \in Requests : \A j \in Ids : RequestEdit(q, j)
  <2>1. CASE Answer(p)
    BY <2>1, AnswerEdits DEF StorageInv, CheckQuota, ReadBody
  <2>2. CASE CheckQuota(p) /\ Go(p, "insert")
    <3>1. req[p].id = 0
      BY <1>3, <2>2 DEF CheckQuota, Stages, Idle
    <3> QED
      BY <1>3, <2>2, <3>1, StorageTypes
         DEF StorageInv, CheckQuota, Go, RequestEdit, On, RequestType
  <2>3. ASSUME NEW at \in {"store", "drop"}, req[p].at = "body", Go(p, at)
        PROVE  \A q \in Requests : \A j \in Ids : RequestEdit(q, j)
    <3>1. req[p].op = "put"
      BY <1>3, <2>3 DEF Stages, Idle
    <3>2. /\ req'[p].at = at /\ req'[p].op = req[p].op /\ req'[p].id = req[p].id
          /\ req'[p].row = req[p].row
          /\ \A q \in Requests \ {p} : req'[q] = req[q]
      BY <1>3, <2>3, StorageTypes DEF StorageInv, Go, RequestType
    <3>3. ASSUME NEW j \in Ids, On(p, j)'
          PROVE  On(p, j) /\ Relies(p, j)'
      <4>1. On(p, j)
        BY <2>3, <3>2, <3>3 DEF On
      <4>2. Relies(p, j)
        BY <4>1 DEF StorageInv, Agrees
      <4> QED
        BY <1>1, <2>3, <3>1, <3>2, <4>1, <4>2 DEF Relies, Has, Is
    <3> QED
      BY <2>3, <3>1, <3>2, <3>3 DEF RequestEdit
  <2> QED
    BY <2>1, <2>2, <2>3 DEF CheckQuota, ReadBody
<1> QED
  BY <1>1, <1>2, <1>4, EditKeeps

LEMMA StoragePutTrashPatch ==
  ASSUME StorageInv, OrderInv', NEW p \in Requests, NEW i \in Ids,
         Put(p, i) \/ Trash(p, i) \/ Patch(p, i)
  PROVE  StorageInv'
<1>1. UNCHANGED <<files, script, nextId>> /\ crowded \subseteq crowded'
  BY DEF Put, Trash, Patch, world, Start, Admit, Crowd
<1>2. Has(i) /\ images[i] \in RowType
  BY RowFacts, StorageTypes DEF StorageInv, Put, Trash, Patch
<1>3. PICK row : /\ Update(i, row) /\ row.status # "none"
                 /\ row.status = "uploading" <=> Is(i, "uploading")
                 /\ row.backend = images[i].backend
  <2>1. CASE Put(p, i)
    <3>1. /\ [images[i] EXCEPT !.claim = "fresh"].status = "uploading"
          /\ [images[i] EXCEPT !.claim = "fresh"].backend = images[i].backend
      BY <1>2, <2>1 DEF RowType, Put, Is
    <3> QED
      BY <2>1, <3>1 DEF Put, Is
  <2>2. CASE Trash(p, i)
    <3>1. /\ [images[i] EXCEPT !.status = "trashed", !.old = FALSE,
                               !.version = @ + 1].status = "trashed"
          /\ [images[i] EXCEPT !.status = "trashed", !.old = FALSE,
                               !.version = @ + 1].backend = images[i].backend
      BY <1>2 DEF RowType
    <3> QED
      BY <2>2, <3>1 DEF Trash, Is
  <2>3. CASE Patch(p, i)
    <3>1. \A v : /\ [images[i] EXCEPT !.visibility = v].status = "active"
                 /\ [images[i] EXCEPT !.visibility = v].backend = images[i].backend
      BY <1>2, <2>3 DEF RowType, Patch, Is
    <3> QED
      BY <2>3, <3>1 DEF Patch, Is
  <2> QED
    BY <2>1, <2>2, <2>3
<1>4. \A j \in Ids : RowEdit(j)
  BY <1>2, <1>3, UpdateEdits DEF StorageInv
<1>5. images'[i] = row
  BY <1>3, UpdateFacts DEF StorageInv
<1>6. \A q \in Requests : \A j \in Ids : RequestEdit(q, j)
  <2>1. CASE Put(p, i)
    BY <1>2, <1>3, <1>5, <2>1, StartEdits DEF Put
  <2>2. CASE Trash(p, i)
    BY <1>2, <1>3, <1>5, <2>2, StartEdits DEF Trash, Is
  <2>3. CASE Patch(p, i) /\ Start(p, "patch", "purge", i)
    BY <1>2, <1>3, <1>5, <2>3, StartEdits DEF Patch, Is
  <2>4. CASE req' = req
    BY <2>4 DEF RequestEdit
  <2> QED
    BY <2>1, <2>2, <2>3, <2>4 DEF Patch
<1> QED
  BY <1>1, <1>4, <1>6, EditKeeps

LEMMA StorageEdits ==
  ASSUME StorageInv, OrderInv', NEW i \in Ids,
         Restore(i) \/ Revoke(i) \/ GrowOld(i) \/ ClaimExpires(i) \/ Share(i)
  PROVE  StorageInv'
<1>1. UNCHANGED <<files, script, nextId, req>> /\ crowded \subseteq crowded'
  BY DEF Restore, Revoke, GrowOld, ClaimExpires, Share, world, Admit, Crowd
<1>2. Has(i) /\ images[i] \in RowType
  BY RowFacts, StorageTypes DEF StorageInv, Restore, Revoke, GrowOld, ClaimExpires, Share
<1>3. \A q \in Requests : \A j \in Ids : RequestEdit(q, j)
  BY <1>1 DEF RequestEdit
<1>4. CASE UNCHANGED images
  BY <1>1, <1>3, <1>4, SameRowEdits, EditKeeps
<1>5. ASSUME NEW row, Update(i, row), row.status # "none",
             row.status = "uploading" <=> Is(i, "uploading"),
             row.backend = images[i].backend
      PROVE  StorageInv'
  BY <1>1, <1>2, <1>3, <1>5, UpdateEdits, EditKeeps DEF StorageInv
<1>6. images[i].status # "none"
  BY <1>2 DEF RowType
<1>7. CASE Restore(i)
  <2>1. /\ [images[i] EXCEPT !.status = "active", !.visibility = "private",
                             !.version = @ + 1].status = "active"
        /\ [images[i] EXCEPT !.status = "active", !.visibility = "private",
                             !.version = @ + 1].backend = images[i].backend
    BY <1>2 DEF RowType
  <2> QED
    BY <1>5, <1>7, <2>1 DEF Restore, Is
<1>8. CASE Revoke(i)
  <2>1. /\ [images[i] EXCEPT !.version = @ + 1].status = images[i].status
        /\ [images[i] EXCEPT !.version = @ + 1].backend = images[i].backend
    BY <1>2 DEF RowType
  <2> QED
    BY <1>5, <1>6, <1>8, <2>1 DEF Revoke, Is
<1>9. CASE GrowOld(i)
  <2>1. /\ [images[i] EXCEPT !.old = TRUE].status = images[i].status
        /\ [images[i] EXCEPT !.old = TRUE].backend = images[i].backend
    BY <1>2 DEF RowType
  <2> QED
    BY <1>5, <1>6, <1>9, <2>1 DEF GrowOld, Is
<1>10. CASE ClaimExpires(i)
  <2>1. /\ [images[i] EXCEPT !.claim = "stale"].status = images[i].status
        /\ [images[i] EXCEPT !.claim = "stale"].backend = images[i].backend
    BY <1>2 DEF RowType
  <2> QED
    BY <1>5, <1>6, <1>10, <2>1 DEF ClaimExpires, Is
<1> QED
  BY <1>4, <1>7, <1>8, <1>9, <1>10 DEF Share

LEMMA StorageReactivatePurge ==
  ASSUME StorageInv, OrderInv', NEW p \in Requests, Reactivate(p) \/ Purge(p)
  PROVE  StorageInv'
<1>1. UNCHANGED <<files, script, nextId, crowded>>
  BY DEF Reactivate, Purge, world
<1>2. Stages(req[p]) /\ req[p] \in RequestType
  BY RequestFacts, StorageTypes DEF StorageInv
<1>3. /\ req[p].at \in {"reactivate", "purge"} /\ req[p].id \in Ids
      /\ req[p].op \in {"reactivate", "trash", "patch", "delete"}
  BY <1>2, StorageTypes DEF Stages, Idle, Reactivate, Purge, StorageInv
<1>4. PICK i \in Ids : i = req[p].id
  BY <1>3
<1>5. Relies(p, i)
  BY <1>3, <1>4 DEF StorageInv, Agrees, On
<1>6. CASE Purge(p) /\ req[p].op = "delete" /\ UNCHANGED images /\ Go(p, "drop")
  <2>1. /\ req'[p].at = "drop" /\ req'[p].op = "delete" /\ req'[p].id = i
        /\ req'[p].row = req[p].row
        /\ \A q \in Requests \ {p} : req'[q] = req[q]
    BY <1>2, <1>4, <1>6, StorageTypes DEF StorageInv, Go, RequestType
  <2>2. Relies(p, i)'
    BY <1>1, <1>5, <1>6, <2>1 DEF Relies, Has, Is
  <2>3. \A q \in Requests : \A j \in Ids : RequestEdit(q, j)
    BY <1>3, <2>1, <2>2 DEF RequestEdit, On
  <2> QED
    BY <1>1, <1>6, <2>3, SameRowEdits, EditKeeps
<1>7. CASE Answer(p) /\ UNCHANGED images
  BY <1>1, <1>3, <1>7, AnswerEdits, SameRowEdits, EditKeeps DEF StorageInv
<1>8. CASE /\ Answer(p) /\ Has(i)
           /\ \/ Update(i, [images[i] EXCEPT !.status = "active"])
              \/ Update(i, [images[i] EXCEPT !.visibility = "public"])
              \/ Update(i, [images[i] EXCEPT !.status = "active", !.visibility = "public",
                                             !.version = @ + 1])
  <2>1. images[i] \in RowType /\ ~Is(i, "uploading")
    BY <1>3, <1>5, <1>8, RowFacts, StorageTypes DEF StorageInv, Relies
  <2>2. PICK row : /\ Update(i, row) /\ row.status \in {"active", "trashed"}
                   /\ row.backend = images[i].backend
    <3>1. /\ [images[i] EXCEPT !.status = "active"].status = "active"
          /\ [images[i] EXCEPT !.status = "active"].backend = images[i].backend
          /\ [images[i] EXCEPT !.visibility = "public"].status = images[i].status
          /\ [images[i] EXCEPT !.visibility = "public"].backend = images[i].backend
      BY <2>1 DEF RowType
    <3>2. /\ [images[i] EXCEPT !.status = "active", !.visibility = "public",
                               !.version = @ + 1].status = "active"
          /\ [images[i] EXCEPT !.status = "active", !.visibility = "public",
                               !.version = @ + 1].backend = images[i].backend
      BY <2>1 DEF RowType
    <3>3. images[i].status \in {"active", "trashed"}
      BY <2>1 DEF RowType, Is
    <3> QED
      BY <1>8, <3>1, <3>2, <3>3
  <2>3. \A j \in Ids : RowEdit(j)
    BY <1>8, <2>1, <2>2, UpdateEdits DEF StorageInv
  <2>4. \A q \in Requests : \A j \in Ids : RequestEdit(q, j)
    BY <1>3, <1>8, AnswerEdits DEF StorageInv
  <2> QED
    BY <1>1, <2>3, <2>4, EditKeeps
<1>9. CASE Reactivate(p)
  BY <1>4, <1>7, <1>8, <1>9 DEF Reactivate
<1>10. CASE Purge(p)
  <2>1. \/ /\ UNCHANGED images
           /\ IF req[p].op = "delete" THEN Go(p, "drop") ELSE Answer(p)
        \/ /\ CASE req[p].op = "trash" /\ Has(i) ->
                    Update(i, [images[i] EXCEPT !.status = "active"])
              [] req[p].op = "patch" /\ Has(i) ->
                    Update(i, [images[i] EXCEPT !.visibility = "public"])
              [] OTHER -> UNCHANGED images
           /\ Answer(p)
    BY <1>4, <1>10 DEF Purge
  <2>2. \/ UNCHANGED images /\ Answer(p)
        \/ req[p].op = "delete" /\ UNCHANGED images /\ Go(p, "drop")
        \/ /\ Answer(p) /\ Has(i)
           /\ \/ Update(i, [images[i] EXCEPT !.status = "active"])
              \/ Update(i, [images[i] EXCEPT !.visibility = "public"])
    BY <1>3, <2>1
  <2> QED
    BY <1>6, <1>7, <1>8, <1>10, <2>2
<1> QED
  BY <1>9, <1>10

(* A request moves on, or answers.                                         *)
LEMMA MoveFacts ==
  ASSUME OrderInv, NEW p \in Requests, NEW i \in Ids, On(p, i),
         Answer(p) \/ \E at : Go(p, at)
  PROVE  /\ \A q \in Requests : req'[q] = req[q] \/ (Local(q, i) /\ Local(q, i)')
         /\ \A q \in Requests \ {p} : req'[q] = req[q]
         /\ Answer(p) => req'[p].at = "idle"
         /\ \A at : Go(p, at) => /\ req'[p].at = at /\ req'[p].op = req[p].op
                                 /\ req'[p].id = i /\ req'[p].row = req[p].row
<1>1. req[p] \in RequestType /\ DOMAIN req = Requests /\ req[p].id = i
  BY RequestFacts, StorageTypes DEF On
<1>2. \A q \in Requests \ {p} : req'[q] = req[q]
  BY <1>1 DEF Answer, Go
<1>3. Answer(p) => req'[p].at = "idle"
  BY <1>1 DEF Answer, Idle
<1>4. ASSUME NEW at, Go(p, at)
      PROVE  /\ req'[p].at = at /\ req'[p].op = req[p].op
             /\ req'[p].id = i /\ req'[p].row = req[p].row
  BY <1>1, <1>4 DEF Go, RequestType
<1>5. Local(p, i) /\ Local(p, i)'
  BY <1>1, <1>3, <1>4 DEF Local
<1> QED
  BY <1>2, <1>3, <1>4, <1>5

\* What a step of p on image i starts from.
LEMMA WorkFacts ==
  ASSUME StorageInv, NEW p \in Requests,
         req[p].at \in {"store", "checkpoint", "verify", "activate", "drop", "unsend",
                        "forget"}
  PROVE  /\ req[p].id \in Ids /\ On(p, req[p].id)
         /\ Agrees(req[p].id) /\ Relies(p, req[p].id) /\ Written(p, req[p].id)
         /\ req[p].row \in RowType /\ Stages(req[p])
         /\ req[p].at \in {"store", "checkpoint", "verify", "activate"} => req[p].op = "put"
         /\ req[p].op \in Removals \cup {"put"}
<1>1. Stages(req[p]) /\ req[p].at # "idle"
  BY StorageTypes, RequestFacts DEF StorageInv
<1>2. /\ req[p].id \in Ids /\ req[p].row \in RowType
      /\ req[p].at \in {"store", "checkpoint", "verify", "activate"} => req[p].op = "put"
      /\ req[p].op \in Removals \cup {"put"}
  BY <1>1, StorageTypes DEF StorageInv, Stages, Idle, Removals
<1>3. On(p, req[p].id)
  BY <1>1 DEF On
<1>4. Agrees(req[p].id)
  BY <1>2 DEF StorageInv
<1>5. Relies(p, req[p].id) /\ Written(p, req[p].id)
  BY <1>3, <1>4 DEF Agrees
<1> QED
  BY <1>1, <1>2, <1>3, <1>4, <1>5

\* A removal past the bucket, or an upload, is the only request on its image.
LEMMA WorkAlone ==
  ASSUME OrderInv, NEW p \in Requests, NEW i \in Ids \ crowded, On(p, i),
         req[p].op \in Removals \cup {"put"}, NEW q \in Requests, On(q, i)
  PROVE  q = p
<1>1. CASE req[p].op = "put"
  BY <1>1, PutAlone
<1>2. CASE req[p].op \in Removals
  BY <1>2 DEF OrderInv, Orderly, On
<1> QED
  BY <1>1, <1>2

LEMMA StorageForget ==
  ASSUME StorageInv, OrderInv', NEW p \in Requests, Forget(p)
  PROVE  StorageInv'
<1>1. PICK i \in Ids : i = req[p].id
  BY WorkFacts DEF Forget
<1>2. Agrees(i) /\ On(p, i) /\ req[p].op \in Removals \cup {"put"} /\ req[p].at = "forget"
  BY <1>1, WorkFacts DEF Forget
<1>3. UNCHANGED <<objects, bucket, channel, lost, script, nextId, crowded>>
  BY DEF Forget, world, files
<1>4. images'[i] = NoRow /\ (\A j \in Ids \ {i} : images'[j] = images[j])
  BY <1>1, OrderForget DEF StorageInv
<1>5. ~Has(i)' /\ \A s : Is(i, s)' => s = "none"
  BY <1>4, NoRowIsNone DEF Has, Is
<1>6. \A q \in Requests \ {p} : req'[q] = req[q]
  BY StorageTypes DEF StorageInv, Forget, Answer
<1>7. req'[p].at = "idle" \/ (req'[p].id = 0 /\ req'[p].at = "quota")
  <2>1. req[p] \in RequestType
    BY RequestFacts, StorageTypes DEF StorageInv
  <2> DEFINE r == [req[p] EXCEPT !.op = "create", !.at = "quota", !.id = 0]
  <2>2. r.id = 0 /\ r.at = "quota"
    BY <2>1 DEF RequestType
  <2>3. Answer(p) \/ req' = [req EXCEPT ![p] = r]
    BY DEF Forget
  <2> HIDE DEF r
  <2> QED
    BY <2>2, <2>3, StorageTypes DEF StorageInv, Answer, Idle
<1>8. Concerns(i)
  BY <1>1, <1>3, <1>4, <1>6, <1>7 DEF Concerns, Local
<1>9. Referenced(i)' /\ Whole(i)'
  BY <1>5 DEF Referenced, Whole, Live
<1>10. ASSUME NEW q \in Requests, On(q, i)'
       PROVE  Relies(q, i)' /\ Written(q, i)'
  <2>1. q # p
    BY <1>7, <1>10, StorageTypes DEF On, StorageInv
  <2>2. req'[q] = req[q] /\ On(q, i)
    BY <1>6, <1>10, <2>1 DEF On
  <2>3. Relies(q, i)
    BY <1>2, <2>2 DEF Agrees
  <2> QED
    BY <1>3, <1>5, <2>2, <2>3 DEF Relies, Written
<1>11. \A q \in Requests : NoClash(q, i)'
  BY <1>5 DEF NoClash
<1>12. ASSUME i \notin crowded'
       PROVE  BucketOwned(i)' /\ ReferenceOwned(i)'
  <2>1. BucketOwned(i) /\ ReferenceOwned(i)
    BY <1>2, <1>3, <1>12 DEF Agrees
  <2>2. i \notin bucket /\ (objects[i] = NoObject \/ objects[i].deleted)
    BY <1>2, <2>1 DEF BucketOwned, ReferenceOwned, Gutted
  <2> QED
    BY <1>3, <1>5, <2>2 DEF BucketOwned, ReferenceOwned, Live
<1>13. ASSUME NEW m \in channel' \ lost', m[1] = i, i \notin crowded'
       PROVE  MessageOwned(m, i)'
  <2>1. MessageOwned(m, i)
    BY <1>2, <1>3, <1>13 DEF Agrees
  <2>2. \A q \in Requests : req[q].at = "checkpoint" => req'[q] = req[q]
    BY <1>2, <1>6
  <2> QED
    BY <1>3, <2>1, <2>2 DEF MessageOwned, On
<1>14. Agrees(i)'
  BY <1>9, <1>10, <1>11, <1>12, <1>13 DEF Agrees
<1>15. ScriptKnows'
  <2>1. PICK k : k = script.id
    OBVIOUS
  <2>2. k \in Ids => (Is(k, "uploading")' => Is(k, "uploading"))
           /\ (Has(k)' => Has(k) /\ images'[k].backend = images[k].backend)
    BY <1>4, <1>5 DEF Is, Has
  <2> QED
    BY <1>3, <2>1, <2>2, ScriptFrame
<1> QED
  BY <1>3, <1>8, <1>14, <1>15, StorageTypes, StorageFrom DEF StorageInv

(* A request gives up what it does, or is cut off; the files stay.         *)
LEMMA StorageGivesUp ==
  ASSUME StorageInv, OrderInv', NEW p \in Requests, NEW i \in Ids, On(p, i),
         UNCHANGED <<images, objects, bucket, channel, script, nextId, crowded>>,
         lost \subseteq lost',
         Answer(p) \/ Go(p, "drop"),
         Answer(p) => ~Overlap \/ ~Is(i, "uploading"),
         \/ req[p].at \notin {"unsend", "forget"}
         \/ /\ ~Overlap /\ ~Live(i) /\ Answer(p)
            /\ \A q \in Requests : On(q, i) => q = p,
         req[p].at = "checkpoint" => Message(i, p) \in lost'
  PROVE  StorageInv'
<1>1. /\ \A q \in Requests : req'[q] = req[q] \/ (Local(q, i) /\ Local(q, i)')
      /\ \A q \in Requests \ {p} : req'[q] = req[q]
      /\ Answer(p) => req'[p].at = "idle"
      /\ Go(p, "drop") => /\ req'[p].at = "drop" /\ req'[p].op = req[p].op
                          /\ req'[p].id = i /\ req'[p].row = req[p].row
  BY MoveFacts DEF StorageInv
<1>2. Agrees(i) /\ (Has(i)' <=> Has(i)) /\ (Live(i)' <=> Live(i)) /\ (Sent(i)' <=> Sent(i))
      /\ \A s : Is(i, s)' <=> Is(i, s)
  BY DEF StorageInv, Has, Live, Is, Sent
<1>3. Concerns(i)
  BY <1>1 DEF Concerns
<1>4. \/ Gutted(i)' <=> Gutted(i)
      \/ /\ ~Overlap /\ ~Live(i) /\ req'[p].at = "idle"
         /\ \A q \in Requests : On(q, i) => q = p
  BY <1>1 DEF Gutted, On
<1>5. Gutted(i)' => Gutted(i)
  BY <1>1 DEF Gutted, On
<1>6. Referenced(i)'
  BY <1>2 DEF Agrees, Referenced
<1>7. Whole(i)'
  BY <1>2, <1>4 DEF Agrees, Whole
<1>8. ASSUME NEW q \in Requests, On(q, i)'
      PROVE  Relies(q, i)' /\ Written(q, i)'
  <2>1. On(q, i) /\ (req'[q] = req[q] \/ (/\ req'[q].at = "drop" /\ req'[q].op = req[q].op
                                         /\ req'[q].row = req[q].row))
    BY <1>1, <1>8 DEF On
  <2>2. Relies(q, i) /\ Written(q, i)
    BY <1>2, <2>1 DEF Agrees
  <2>3. Gutted(i)' <=> Gutted(i)
    BY <1>4, <1>8, <2>1 DEF On
  <2>4. Relies(q, i)'
    BY <1>2, <2>1, <2>2 DEF Relies
  <2>5. Written(q, i)'
    BY <1>2, <2>1, <2>2, <2>3 DEF Written
  <2> QED
    BY <2>4, <2>5
<1>9. ASSUME NEW q \in Requests
      PROVE  NoClash(q, i)'
  <2>1. NoClash(q, i) /\ (Recorded(q, i)' <=> Recorded(q, i))
    BY <1>2 DEF Agrees, Recorded
  <2>2. CASE ~Overlap
    BY <2>2 DEF NoClash
  <2>3. CASE Overlap /\ q # p
    BY <1>1, <1>2, <1>4, <2>1, <2>3 DEF NoClash
  <2>4. CASE Overlap /\ q = p
    BY <1>1, <1>2, <1>4, <2>1, <2>4 DEF NoClash
  <2> QED
    BY <2>2, <2>3, <2>4
<1>10. ASSUME i \notin crowded'
       PROVE  BucketOwned(i)' /\ ReferenceOwned(i)'
  <2>1. BucketOwned(i) /\ ReferenceOwned(i)
    BY <1>2, <1>10 DEF Agrees
  <2>2. \A q \in Requests : req'[q].at = "forget" => req'[q] = req[q]
    BY <1>1
  <2> QED
    BY <1>2, <1>5, <2>1, <2>2 DEF BucketOwned, ReferenceOwned, On
<1>11. ASSUME NEW m \in channel' \ lost', m[1] = i, i \notin crowded'
       PROVE  MessageOwned(m, i)'
  <2>1. MessageOwned(m, i) /\ m \in channel
    BY <1>2, <1>11 DEF Agrees
  <2>2. \A q \in Requests : m[2] = q /\ On(q, i) /\ req[q].at = "checkpoint" => q # p
    <3>1. m = <<m[1], m[2]>>
      BY <2>1, StorageTypes DEF StorageInv, FilesOK
    <3> QED
      BY <1>11, <3>1 DEF Message
  <2> QED
    BY <1>1, <2>1, <2>2 DEF MessageOwned, On
<1>12. Agrees(i)'
  BY <1>6, <1>7, <1>8, <1>9, <1>10, <1>11 DEF Agrees
<1>13. ScriptKnows'
  <2>1. PICK k : k = script.id
    OBVIOUS
  <2> QED
    BY <2>1, ScriptFrame DEF Is, Has
<1> QED
  BY <1>3, <1>12, <1>13, StorageTypes, StorageFrom DEF StorageInv

LEMMA StorageInsert ==
  ASSUME StorageInv, OrderInv', NEW p \in Requests, Insert(p)
  PROVE  StorageInv'
<1>1. UNCHANGED <<objects, bucket, channel, lost, script, crowded>> /\ nextId' >= nextId
  BY StorageTypes DEF Insert, files, StorageInv
<1>2. PICK n \in Ids : n = nextId
  BY BoundsAssumption, StorageTypes DEF Insert, Ids, StorageInv
<1>3. n \notin Used /\ \A j \in Used : j # n
  BY <1>2, StorageTypes DEF Used, StorageInv
<1>4. /\ images[n] = NoRow /\ objects[n] = NoObject /\ n \notin bucket /\ n \notin Migrated
      /\ script.id # n
      /\ \A q \in Requests : ~On(q, n)
      /\ \A m \in channel : m[1] # n
  <2>1. images[n] = NoRow
    BY <1>3, StorageTypes DEF StorageInv, RowsOK, Has
  <2>2. objects[n] = NoObject /\ n \notin bucket /\ \A m \in channel : m[1] # n
    BY <1>3, StorageTypes DEF StorageInv, FilesOK
  <2>3. n \notin Migrated
    BY <1>3 DEF StorageInv
  <2>4. script.id # n
    BY <1>3, StorageTypes DEF StorageInv, ScriptType
  <2>5. \A q \in Requests : ~On(q, n)
    BY <1>3, RequestFacts, StorageTypes DEF StorageInv, On
  <2> QED
    BY <2>1, <2>2, <2>3, <2>4, <2>5
<1>5. Stages(req[p]) /\ req[p].at = "insert"
  BY StorageTypes, RequestFacts DEF StorageInv, Insert
<1>6. req[p].id = 0
  BY <1>5 DEF Stages, Idle
<1>7. req'[p].at = "idle" /\ \A q \in Requests \ {p} : req'[q] = req[q]
  BY StorageTypes DEF StorageInv, Insert, Answer, Idle
<1>8. /\ \A j \in Ids \ {n} : images'[j] = images[j]
      /\ images'[n] = NoRow \/ images'[n] = Row(req[p].row.content)
  BY <1>2, <1>4, StorageTypes DEF StorageInv, Insert, Update
<1>9. Concerns(n)
  BY <1>1, <1>6, <1>7, <1>8 DEF Concerns, Local
<1>10. \A q \in Requests : ~On(q, n)'
  BY <1>4, <1>7 DEF On
<1>11. ~Live(n)' /\ ~Gutted(n)' /\ (Has(n)' => images'[n].backend = "r2")
  BY <1>8, <1>10 DEF Live, Gutted, Has, Is, Row
<1>12. Agrees(n)'
  <2>1. Referenced(n)' /\ Whole(n)'
    BY <1>1, <1>4, <1>8, <1>11, NoRowIsNone DEF Referenced, Whole, Is, Row
  <2>2. \A q \in Requests : NoClash(q, n)'
    BY <1>1, <1>4 DEF NoClash, Recorded
  <2>3. BucketOwned(n)' /\ ReferenceOwned(n)'
    BY <1>1, <1>4, <1>10, <1>11 DEF BucketOwned, ReferenceOwned
  <2> QED
    BY <1>1, <1>4, <1>10, <2>1, <2>2, <2>3 DEF Agrees
<1>13. ScriptKnows'
  <2>1. PICK k : k = script.id
    OBVIOUS
  <2>2. k \in Ids => images'[k] = images[k]
    BY <1>4, <1>8, <2>1
  <2> QED
    BY <1>1, <2>1, <2>2, ScriptFrame DEF Is, Has
<1> QED
  BY <1>1, <1>9, <1>12, <1>13, StorageFrom

LEMMA StorageActivate ==
  ASSUME StorageInv, OrderInv', NEW p \in Requests, Activate(p)
  PROVE  StorageInv'
<1>1. PICK i \in Ids : i = req[p].id
  BY WorkFacts DEF Activate
<1>2. /\ Agrees(i) /\ On(p, i) /\ req[p].op = "put" /\ req[p].at = "activate"
      /\ Relies(p, i) /\ Written(p, i)
  BY <1>1, WorkFacts DEF Activate
<1>3. UNCHANGED <<objects, bucket, channel, lost, script, nextId, crowded>>
  BY DEF Activate, world, files
<1>4. Answer(p) \/ Go(p, "drop")
  BY DEF Activate
<1>5. /\ \A q \in Requests : req'[q] = req[q] \/ (Local(q, i) /\ Local(q, i)')
      /\ \A q \in Requests \ {p} : req'[q] = req[q]
      /\ Answer(p) => req'[p].at = "idle"
      /\ Go(p, "drop") => /\ req'[p].at = "drop" /\ req'[p].op = req[p].op
                          /\ req'[p].id = i /\ req'[p].row = req[p].row
  BY <1>2, <1>4, MoveFacts DEF StorageInv
<1>6. /\ Is(i, "uploading") \/ UNCHANGED images
      /\ \/ /\ Is(i, "uploading") /\ Answer(p)
            /\ Update(i, [images[i] EXCEPT !.status = "active", !.backend = Storage])
         \/ ~Is(i, "uploading") /\ UNCHANGED images
         \/ Go(p, "drop") /\ UNCHANGED images
  BY <1>1, StorageTypes DEF Activate, StorageInv, Is
<1>7. CASE /\ Is(i, "uploading") /\ Answer(p)
           /\ Update(i, [images[i] EXCEPT !.status = "active", !.backend = Storage])
  <2>1. images[i] \in RowType /\ Has(i)
    BY <1>7, RowFacts, StorageTypes DEF StorageInv
  <2> DEFINE row == [images[i] EXCEPT !.status = "active", !.backend = Storage]
  <2>2. row.status = "active" /\ row.backend = Storage
    BY <2>1 DEF RowType
  <2>3. Update(i, row)
    BY <1>7
  <2> HIDE DEF row
  <2>4. images'[i] = row /\ (\A j \in Ids \ {i} : images'[j] = images[j]) /\ Has(i)'
    BY <2>2, <2>3, UpdateFacts DEF StorageInv
  <2>5. Live(i)' /\ ~Is(i, "uploading")' /\ images'[i].backend = Storage
    BY <2>2, <2>4 DEF Live, Is
  <2>6. Concerns(i)
    BY <1>3, <1>5, <2>4 DEF Concerns
  <2>7. Gutted(i)' <=> Gutted(i)
    BY <1>2, <1>5, <1>7 DEF Gutted, On
  <2>8. Referenced(i) /\ (Storage = "r2" => objects[i] = NoObject)
        /\ images[i].backend = "r2" /\ i \notin Migrated
    BY <1>2, <1>7 DEF Agrees, Referenced
  <2>9. Storage = "telegram" => objects[i] # NoObject
    BY <1>2 DEF Relies
  <2>10. Storage \in {"r2", "telegram"}
    BY BoundsAssumption
  <2>11. Referenced(i)'
    BY <1>3, <2>5, <2>9 DEF Referenced
  <2>12. Whole(i)'
    BY <1>2, <1>3, <2>1, <2>5, <2>7, <2>8, <2>10 DEF Whole, Written, Sent
  <2>13. ASSUME NEW q \in Requests, On(q, i)'
         PROVE  Relies(q, i)' /\ Written(q, i)'
    <3>1. q # p
      BY <1>5, <1>7, <2>13 DEF On
    <3>2. req'[q] = req[q] /\ On(q, i)
      BY <1>5, <2>13, <3>1 DEF On
    <3>3. Relies(q, i) /\ Written(q, i)
      BY <1>2, <3>2 DEF Agrees
    <3>4. req[q].row.backend # "telegram"
      BY <2>1, <2>8, <3>3 DEF Relies
    <3>5. Relies(q, i)'
      BY <1>3, <2>5, <3>2, <3>3, <3>4 DEF Relies
    <3>6. Written(q, i)'
      BY <1>3, <2>1, <2>7, <3>2, <3>3 DEF Written, Sent
    <3> QED
      BY <3>5, <3>6
  <2>14. ASSUME NEW q \in Requests
         PROVE  NoClash(q, i)'
    <3>1. NoClash(q, i) /\ (Recorded(q, i)' <=> Recorded(q, i))
      BY <1>2, <1>3 DEF Agrees, Recorded
    <3>2. req'[q].at = "idle" \/ req'[q] = req[q]
      BY <1>5, <1>7
    <3> QED
      BY <2>1, <2>5, <2>7, <3>1, <3>2 DEF NoClash
  <2>15. ASSUME i \notin crowded'
         PROVE  BucketOwned(i)' /\ ReferenceOwned(i)'
    <3>1. BucketOwned(i) /\ ReferenceOwned(i)
      BY <1>2, <1>3, <2>15 DEF Agrees
    <3>2. BucketOwned(i)'
      BY <1>3, <1>7, <2>4, <2>5, <2>7, <2>8, <2>10, <3>1 DEF BucketOwned
    <3>3. ReferenceOwned(i)'
      <4>1. \A q \in Requests : On(q, i)' => On(q, i) /\ req'[q] = req[q]
        BY <1>5, <1>7 DEF On
      <4> QED
        BY <1>3, <2>4, <3>1, <4>1 DEF ReferenceOwned
    <3> QED
      BY <3>2, <3>3
  <2>16. ASSUME NEW m \in channel' \ lost', m[1] = i, i \notin crowded'
         PROVE  MessageOwned(m, i)'
    <3>1. MessageOwned(m, i)
      BY <1>2, <1>3, <2>16 DEF Agrees
    <3>2. \A q \in Requests : req[q].at = "checkpoint" => req'[q] = req[q]
      BY <1>2, <1>5
    <3> QED
      BY <1>3, <3>1, <3>2 DEF MessageOwned, On
  <2>17. Agrees(i)'
    BY <2>11, <2>12, <2>13, <2>14, <2>15, <2>16 DEF Agrees
  <2>18. ScriptKnows'
    <3>1. PICK k : k = script.id
      OBVIOUS
    <3>2. k # i \/ script.at = "idle"
      BY <1>7, <3>1 DEF StorageInv, ScriptKnows
    <3>3. script.at = "idle" => k = 0
      BY <3>1 DEF StorageInv, ScriptKnows
    <3>4. k \in Ids => images'[k] = images[k]
      BY <2>4, <3>2, <3>3, StorageTypes DEF StorageInv
    <3> QED
      BY <1>3, <3>1, <3>4, ScriptFrame DEF Is, Has
  <2> QED
    BY <1>3, <2>6, <2>17, <2>18, StorageTypes, StorageFrom DEF StorageInv
<1>8. CASE UNCHANGED images /\ (~Is(i, "uploading") \/ Go(p, "drop"))
  <2>1. Answer(p) => ~Is(i, "uploading")
    BY <1>5, <1>8
  <2>2. /\ lost \subseteq lost'
        /\ req[p].at \notin {"unsend", "forget"} /\ req[p].at # "checkpoint"
    BY <1>2, <1>3
  <2> QED
    BY <1>2, <1>3, <1>4, <1>8, <2>1, <2>2, StorageGivesUp
<1> QED
  BY <1>4, <1>6, <1>7, <1>8

(* A step that writes the files of image i and leaves its row.             *)
LEMMA FileSteps ==
  ASSUME StorageInv, OrderInv', NEW p \in Requests, NEW i \in Ids, On(p, i),
         Answer(p) \/ \E at : Go(p, at),
         UNCHANGED <<images, script, nextId, crowded>>,
         \A j \in Ids \ {i} : objects'[j] = objects[j] /\ (j \in bucket' <=> j \in bucket),
         \A m \in Ids \X Senders : m[1] # i =>
            (m \in channel' <=> m \in channel) /\ (m \in lost => m \in lost'),
         i \in Migrated => (objects'[i] = NoObject <=> objects[i] = NoObject),
         objects[i] # NoObject => objects'[i] # NoObject,
         i \in bucket' \ crowded' => i \in bucket \/ Is(i, "uploading"),
         Agrees(i)'
  PROVE  StorageInv'
<1>1. \A q \in Requests : req'[q] = req[q] \/ (Local(q, i) /\ Local(q, i)')
  BY MoveFacts DEF StorageInv
<1>2. Concerns(i)
  BY <1>1 DEF Concerns
<1>3. ScriptKnows'
  <2>1. PICK k : k = script.id
    OBVIOUS
  <2>2. k \in Ids /\ k # i => objects'[k] = objects[k] /\ (k \in bucket' <=> k \in bucket)
    OBVIOUS
  <2> QED
    BY <2>1, <2>2, ScriptFrame DEF Is, Has
<1> QED
  BY <1>2, <1>3, StorageTypes, StorageFrom DEF StorageInv

LEMMA SameRow ==
  ASSUME UNCHANGED images, NEW i
  PROVE  /\ images'[i] = images[i] /\ (Has(i)' <=> Has(i)) /\ (Live(i)' <=> Live(i))
         /\ \A s : Is(i, s)' <=> Is(i, s)
  BY DEF Has, Live, Is

LEMMA StorageStore ==
  ASSUME StorageInv, OrderInv', NEW p \in Requests, Store(p)
  PROVE  StorageInv'
<1>1. PICK i \in Ids : i = req[p].id
  BY WorkFacts DEF Store
<1>2. /\ Agrees(i) /\ On(p, i) /\ req[p].op = "put" /\ req[p].at = "store"
      /\ Relies(p, i) /\ Written(p, i)
  BY <1>1, WorkFacts DEF Store
<1>3. UNCHANGED <<images, objects, script, nextId, crowded>>
  BY DEF Store
<1>4. PICK at : /\ Go(p, at) /\ at \in {"activate", "checkpoint", "drop"}
                /\ at = "activate" => Storage = "r2" /\ i \in bucket'
                /\ at = "checkpoint" => Storage = "telegram"
                /\ bucket' = bucket \/ (Storage = "r2" /\ bucket' = bucket \cup {i})
                /\ channel \subseteq channel' /\ lost \subseteq lost'
                /\ channel' \subseteq channel \cup {Message(i, p)}
                /\ Message(i, p) \in channel' \ lost' =>
                      at = "checkpoint" \/ Message(i, p) \in channel
  <2>1. CASE Storage = "r2"
    BY <1>1, <2>1 DEF Store
  <2>2. CASE Storage = "telegram"
    <3>1. \/ /\ channel' = channel \cup {Message(i, p)} /\ lost' = lost
             /\ Go(p, "checkpoint")
          \/ /\ \E M \in SUBSET {Message(i, p)} :
                   channel' = channel \cup M /\ lost' = lost \cup M
             /\ Go(p, "drop")
      BY <1>1, <2>2 DEF Store
    <3>2. bucket' = bucket
      BY <1>1, <2>2 DEF Store
    <3>3. CASE channel' = channel \cup {Message(i, p)} /\ lost' = lost /\ Go(p, "checkpoint")
      BY <2>2, <3>2, <3>3
    <3>4. CASE /\ \E M \in SUBSET {Message(i, p)} :
                   channel' = channel \cup M /\ lost' = lost \cup M
               /\ Go(p, "drop")
      BY <2>2, <3>2, <3>4
    <3> QED
      BY <3>1, <3>3, <3>4
  <2> QED
    BY <2>1, <2>2, BoundsAssumption
<1>5. /\ \A q \in Requests \ {p} : req'[q] = req[q]
      /\ req'[p].at = at /\ req'[p].op = "put" /\ req'[p].id = i
      /\ req'[p].row = req[p].row
  BY <1>2, <1>4, MoveFacts DEF StorageInv
<1>6. /\ images'[i] = images[i] /\ (Has(i)' <=> Has(i)) /\ (Live(i)' <=> Live(i))
      /\ \A s : Is(i, s)' <=> Is(i, s)
  BY <1>3, SameRow
<1>7. Gutted(i)' <=> Gutted(i)
  BY <1>2, <1>4, <1>5 DEF Gutted, On
<1>8. Sent(i) => Sent(i)'
  BY <1>3, <1>4 DEF Sent
<1>9. Message(i, p)[1] = i
  BY DEF Message
<1>10. Referenced(i)' /\ Whole(i)'
  BY <1>2, <1>3, <1>4, <1>6, <1>7, <1>8 DEF Agrees, Referenced, Whole
<1>11. ASSUME NEW q \in Requests, On(q, i)'
       PROVE  Relies(q, i)' /\ Written(q, i)'
  <2>1. CASE q = p
    BY <1>2, <1>3, <1>4, <1>5, <1>6, <2>1 DEF Relies, Written
  <2>2. CASE q # p
    <3>1. req'[q] = req[q] /\ Relies(q, i) /\ Written(q, i)
      BY <1>2, <1>5, <1>11, <2>2 DEF Agrees, On
    <3>2. Relies(q, i)'
      BY <1>3, <1>6, <3>1 DEF Relies
    <3>3. Written(q, i)'
      BY <1>3, <1>4, <1>6, <1>7, <1>8, <3>1 DEF Written
    <3> QED
      BY <3>2, <3>3
  <2> QED
    BY <2>1, <2>2
<1>12. ASSUME NEW q \in Requests
       PROVE  NoClash(q, i)'
  <2>1. NoClash(q, i) /\ (Recorded(q, i)' <=> Recorded(q, i))
    BY <1>2, <1>3 DEF Agrees, Recorded
  <2>2. CASE q = p
    BY <1>2, <1>6, <1>7, <2>1, <2>2 DEF NoClash, On
  <2>3. CASE q # p
    BY <1>5, <1>6, <1>7, <2>1, <2>3 DEF NoClash
  <2> QED
    BY <2>2, <2>3
<1>13. ASSUME i \notin crowded'
       PROVE  BucketOwned(i)' /\ ReferenceOwned(i)'
  <2>1. BucketOwned(i) /\ ReferenceOwned(i)
    BY <1>2, <1>3, <1>13 DEF Agrees
  <2>2. Is(i, "uploading") /\ Has(i)
    BY <1>2, <1>3, <1>13 DEF StorageInv, OrderInv, Orderly, On
  <2>3. images[i].backend = "r2"
    BY <1>2, <2>2 DEF Agrees, Referenced
  <2>4. ~Gutted(i)
    BY <1>2, <1>3, <1>13, PutAlone DEF StorageInv, Gutted
  <2>5. BucketOwned(i)'
    BY <1>3, <1>4, <1>6, <1>7, <2>1, <2>2, <2>3, <2>4 DEF BucketOwned
  <2>6. ReferenceOwned(i)'
    BY <1>3, <1>4, <1>5, <1>6, <2>1 DEF ReferenceOwned, On
  <2> QED
    BY <2>5, <2>6
<1>14. ASSUME NEW m \in channel' \ lost', m[1] = i, i \notin crowded'
       PROVE  MessageOwned(m, i)'
  <2>1. CASE m = Message(i, p) /\ at = "checkpoint"
    BY <1>5, <2>1 DEF MessageOwned, Message, On
  <2>2. CASE m \in channel
    <3>1. MessageOwned(m, i)
      BY <1>2, <1>3, <1>4, <1>14, <2>2 DEF Agrees
    <3>2. \A q \in Requests : req[q].at = "checkpoint" => req'[q] = req[q]
      BY <1>2, <1>5
    <3> QED
      BY <1>3, <3>1, <3>2 DEF MessageOwned, On
  <2> QED
    BY <1>4, <1>14, <2>1, <2>2
<1>15. Agrees(i)'
  BY <1>10, <1>11, <1>12, <1>13, <1>14 DEF Agrees
<1>16. /\ \A j \in Ids \ {i} : objects'[j] = objects[j] /\ (j \in bucket' <=> j \in bucket)
       /\ \A m \in Ids \X Senders : m[1] # i =>
             (m \in channel' <=> m \in channel) /\ (m \in lost => m \in lost')
  BY <1>3, <1>4, <1>9
<1>17. i \in bucket' \ crowded' => i \in bucket \/ Is(i, "uploading")
  BY <1>2, <1>3 DEF StorageInv, OrderInv, Orderly, On
<1> QED
  BY <1>2, <1>3, <1>4, <1>15, <1>16, <1>17, FileSteps

LEMMA WrittenObject ==
  ASSUME NEW m, NEW backup
  PROVE  Object(m, backup) # NoObject
<1>1. SUFFICES ASSUME Object(m, backup) = NoObject
               PROVE  FALSE
  OBVIOUS
<1>2. DOMAIN NoObject = {"message"}
  BY DEF NoObject
<1>3. "verified" \in DOMAIN Object(m, backup)
  BY DEF Object
<1> QED
  BY <1>1, <1>2, <1>3

LEMMA StorageCheckpoint ==
  ASSUME StorageInv, OrderInv', NEW p \in Requests, Checkpoint(p)
  PROVE  StorageInv'
<1>1. PICK i \in Ids : i = req[p].id
  BY WorkFacts DEF Checkpoint
<1>2. /\ Agrees(i) /\ On(p, i) /\ req[p].op = "put" /\ req[p].at = "checkpoint"
      /\ Relies(p, i) /\ Written(p, i)
  BY <1>1, WorkFacts DEF Checkpoint
<1>3. UNCHANGED <<images, bucket, script, nextId, crowded>>
  BY DEF Checkpoint
<1>4. Storage = "telegram" /\ i \notin Migrated
  BY <1>2 DEF Relies
<1> DEFINE sent == Message(i, p)
<1>5. sent[1] = i /\ sent[2] = p /\ \A q : Message(i, q) = sent => q = p
  BY DEF Message
<1>6. \A m \in channel : m[1] = i /\ m[2] = p => m = sent
  <2>1. \A m \in channel : m = <<m[1], m[2]>>
    BY StorageTypes DEF StorageInv, FilesOK
  <2> QED
    BY <2>1 DEF Message
<1>7. \/ /\ objects[i] = NoObject /\ objects' = [objects EXCEPT ![i] = Object(sent, FALSE)]
         /\ Go(p, "verify") /\ channel' = channel /\ lost' = lost
      \/ /\ objects[i] # NoObject /\ objects' = objects /\ Go(p, "drop")
         /\ channel' \subseteq channel /\ channel \ {sent} \subseteq channel'
         /\ lost \subseteq lost' /\ (sent \in channel' => sent \in lost')
  BY <1>1 DEF Checkpoint, TakeBack
<1> HIDE DEF sent
<1>8. PICK at : Go(p, at) /\ at \in {"verify", "drop"}
                /\ (at = "verify" => objects'[i] # NoObject)
  <2>1. Object(sent, FALSE) # NoObject
    BY WrittenObject
  <2> QED
    BY <1>7, <2>1, StorageTypes DEF StorageInv
<1>9. /\ \A q \in Requests \ {p} : req'[q] = req[q]
      /\ req'[p].at = at /\ req'[p].op = "put" /\ req'[p].id = i
      /\ req'[p].row = req[p].row
  BY <1>2, <1>8, MoveFacts DEF StorageInv
<1>10. /\ images'[i] = images[i] /\ (Has(i)' <=> Has(i)) /\ (Live(i)' <=> Live(i))
       /\ \A s : Is(i, s)' <=> Is(i, s)
  BY <1>3, SameRow
<1>11. Gutted(i)' <=> Gutted(i)
  BY <1>2, <1>8, <1>9 DEF Gutted, On
<1>12. i \notin crowded => /\ Is(i, "uploading") /\ Has(i) /\ ~Live(i)
                           /\ \A q \in Requests : On(q, i) => q = p
  <2>1. i \notin crowded => Is(i, "uploading") /\ Has(i) /\ ~Live(i)
    BY <1>2 DEF StorageInv, OrderInv, Orderly, On, Live
  <2> QED
    BY <1>2, <2>1, PutAlone DEF StorageInv
<1>13. CASE /\ objects[i] = NoObject
            /\ objects' = [objects EXCEPT ![i] = Object(sent, FALSE)]
            /\ Go(p, "verify") /\ channel' = channel /\ lost' = lost
  <2>1. /\ objects'[i].message = sent /\ objects'[i] # NoObject /\ ~objects'[i].verified
        /\ ~objects'[i].deleted /\ req'[p].at = "verify"
        /\ \A j \in Ids \ {i} : objects'[j] = objects[j]
    <3>1. objects'[i] = Object(sent, FALSE)
      BY <1>13, StorageTypes DEF StorageInv
    <3>2. objects'[i].verified = FALSE /\ "verified" \in DOMAIN objects'[i]
      BY <3>1 DEF Object
    <3>3. DOMAIN NoObject = {"message"}
      BY DEF NoObject
    <3>4. req'[p].at = "verify"
      BY <1>2, <1>13, MoveFacts DEF StorageInv
    <3> QED
      BY <1>13, <3>1, <3>2, <3>3, <3>4, StorageTypes DEF StorageInv, Object
  <2>2. Has(i) => images[i].backend # "telegram"
    BY <1>2, <1>13 DEF Agrees, Referenced
  <2>3. Referenced(i)' /\ Whole(i)'
    BY <1>2, <1>3, <1>4, <1>10, <1>11, <2>1, <2>2 DEF Agrees, Referenced, Whole, Live
  <2>4. ASSUME NEW q \in Requests, On(q, i)'
        PROVE  Relies(q, i)' /\ Written(q, i)'
    <3>1. CASE q = p
      BY <1>2, <1>3, <1>4, <1>9, <1>10, <2>1, <3>1 DEF Relies, Written, sent
    <3>2. CASE q # p
      <4>1. req'[q] = req[q] /\ Relies(q, i) /\ Written(q, i)
        BY <1>2, <1>9, <2>4, <3>2 DEF Agrees, On
      <4>2. req[q].at \notin {"verify", "activate"}
        BY <1>4, <1>13, <4>1 DEF Relies
      <4>3. Relies(q, i)'
        BY <1>3, <1>10, <2>1, <4>1 DEF Relies
      <4>4. Written(q, i)'
        BY <4>1, <4>2 DEF Written
      <4> QED
        BY <4>3, <4>4
    <3> QED
      BY <3>1, <3>2
  <2>5. ASSUME NEW q \in Requests
        PROVE  NoClash(q, i)'
    BY <1>5, <1>9, <2>1, <2>5 DEF NoClash, Recorded
  <2>6. ASSUME i \notin crowded'
        PROVE  BucketOwned(i)' /\ ReferenceOwned(i)'
    <3>1. BucketOwned(i)
      BY <1>2, <1>3, <2>6 DEF Agrees
    <3>2. BucketOwned(i)'
      BY <1>3, <1>10, <1>11, <1>12, <2>2, <2>6, <3>1 DEF BucketOwned
    <3>3. \A q \in Requests : On(q, i)' => req'[q].at # "forget"
      <4>1. \A q \in Requests : On(q, i)' => q = p
        BY <1>3, <1>9, <1>12, <2>6 DEF On
      <4> QED
        BY <2>1, <4>1
    <3>4. ReferenceOwned(i)'
      BY <1>3, <1>10, <1>12, <2>6, <3>3 DEF ReferenceOwned
    <3> QED
      BY <3>2, <3>4
  <2>7. ASSUME NEW m \in channel' \ lost', m[1] = i, i \notin crowded'
        PROVE  MessageOwned(m, i)'
    <3>1. CASE m = sent
      BY <2>1, <3>1 DEF MessageOwned
    <3>2. CASE m # sent
      <4>1. MessageOwned(m, i) /\ m[2] # p
        BY <1>2, <1>3, <1>6, <1>13, <2>7, <3>2 DEF Agrees
      <4> QED
        BY <1>3, <1>9, <1>13, <4>1 DEF MessageOwned, On
    <3> QED
      BY <3>1, <3>2
  <2>8. Agrees(i)'
    BY <2>3, <2>4, <2>5, <2>6, <2>7 DEF Agrees
  <2> QED
    BY <1>2, <1>3, <1>4, <1>13, <2>1, <2>8, FileSteps
<1>14. CASE /\ objects[i] # NoObject /\ objects' = objects /\ Go(p, "drop")
            /\ channel' \subseteq channel /\ channel \ {sent} \subseteq channel'
            /\ lost \subseteq lost' /\ (sent \in channel' => sent \in lost')
  <2>1. req'[p].at = "drop"
    BY <1>2, <1>14, MoveFacts DEF StorageInv
  <2>2. Overlap /\ Has(i) /\ ~Gutted(i) => objects[i].message # sent
    BY <1>2, <1>14 DEF Agrees, NoClash, Recorded, On, sent
  <2>3. ~Overlap => i \notin crowded
    BY StorageTypes DEF StorageInv
  <2>4. Sent(i)' => Sent(i)
    BY <1>14 DEF Sent
  <2>5. Overlap /\ Has(i) /\ ~Gutted(i) => (Sent(i)' <=> Sent(i))
    BY <1>14, <2>2 DEF Sent
  <2>6. Referenced(i)'
    BY <1>2, <1>10, <1>14 DEF Agrees, Referenced
  <2>7. Whole(i)'
    BY <1>2, <1>3, <1>10, <1>11, <1>12, <1>14, <2>3, <2>5 DEF Agrees, Whole, Live
  <2>8. ASSUME NEW q \in Requests, On(q, i)'
        PROVE  Relies(q, i)' /\ Written(q, i)'
    <3>1. CASE q = p
      BY <1>2, <1>4, <1>3, <1>9, <1>10, <1>14, <2>1, <3>1 DEF Relies, Written
    <3>2. CASE q # p
      <4>1. req'[q] = req[q] /\ Relies(q, i) /\ Written(q, i) /\ On(q, i)
        BY <1>2, <1>9, <2>8, <3>2 DEF Agrees, On
      <4>2. Overlap
        BY <1>12, <2>3, <3>2, <4>1
      <4>3. Relies(q, i)'
        BY <1>3, <1>10, <1>14, <4>1 DEF Relies
      <4>4. Written(q, i)'
        BY <1>3, <1>10, <1>11, <1>14, <2>5, <4>1, <4>2 DEF Written
      <4> QED
        BY <4>3, <4>4
    <3> QED
      BY <3>1, <3>2
  <2>9. ASSUME NEW q \in Requests
        PROVE  NoClash(q, i)'
    <3>1. NoClash(q, i) /\ (Recorded(q, i)' <=> Recorded(q, i))
      BY <1>2, <1>14 DEF Agrees, Recorded
    <3>2. CASE q = p
      BY <1>2, <1>10, <1>11, <3>1, <3>2 DEF NoClash, On
    <3>3. CASE q # p
      BY <1>9, <1>10, <1>11, <3>1, <3>3 DEF NoClash
    <3> QED
      BY <3>2, <3>3
  <2>10. ASSUME i \notin crowded'
         PROVE  BucketOwned(i)' /\ ReferenceOwned(i)'
    <3>1. BucketOwned(i) /\ ReferenceOwned(i)
      BY <1>2, <1>3, <2>10 DEF Agrees
    <3>2. \A q \in Requests : On(q, i)' /\ req'[q].at = "forget" =>
             On(q, i) /\ req[q].at = "forget"
      BY <1>9, <2>1 DEF On
    <3> QED
      BY <1>3, <1>10, <1>11, <1>14, <3>1, <3>2 DEF BucketOwned, ReferenceOwned
  <2>11. ASSUME NEW m \in channel' \ lost', m[1] = i, i \notin crowded'
         PROVE  MessageOwned(m, i)'
    <3>1. m # sent /\ m \in channel \ lost
      BY <1>14, <2>11
    <3>2. MessageOwned(m, i) /\ m[2] # p
      BY <1>2, <1>3, <1>6, <2>11, <3>1 DEF Agrees
    <3> QED
      BY <1>3, <1>9, <1>14, <3>2 DEF MessageOwned, On
  <2>12. Agrees(i)'
    BY <2>6, <2>7, <2>8, <2>9, <2>10, <2>11 DEF Agrees
  <2>13. \A m \in Ids \X Senders : m[1] # i =>
            (m \in channel' <=> m \in channel) /\ (m \in lost => m \in lost')
    BY <1>5, <1>14
  <2> QED
    BY <1>2, <1>3, <1>4, <1>14, <2>12, <2>13, FileSteps
<1> QED
  BY <1>7, <1>13, <1>14

LEMMA StorageVerify ==
  ASSUME StorageInv, OrderInv', NEW p \in Requests, Verify(p)
  PROVE  StorageInv'
<1>1. PICK i \in Ids : i = req[p].id
  BY WorkFacts DEF Verify
<1>2. /\ Agrees(i) /\ On(p, i) /\ req[p].op = "put" /\ req[p].at = "verify"
      /\ Relies(p, i) /\ Written(p, i)
  BY <1>1, WorkFacts DEF Verify
<1>3. UNCHANGED <<images, bucket, channel, lost, script, nextId, crowded>>
  BY DEF Verify
<1>4. Storage = "telegram" /\ objects[i] # NoObject /\ objects[i] \in ObjectType(i)
  BY <1>2, ObjectFacts, StorageTypes DEF StorageInv, Relies
<1>5. \/ /\ Message(i, p) \in channel
         /\ objects' = [objects EXCEPT ![i].verified = TRUE] /\ Go(p, "activate")
      \/ objects' = objects /\ Go(p, "drop")
  BY <1>1 DEF Verify
<1>6. CASE objects' = objects /\ Go(p, "drop")
  <2>1. ~Answer(p)
    BY <1>2, <1>6, MoveFacts DEF StorageInv
  <2>2. /\ lost \subseteq lost'
        /\ req[p].at \notin {"unsend", "forget"} /\ req[p].at # "checkpoint"
    BY <1>2, <1>3
  <2> QED
    BY <1>2, <1>3, <1>6, <2>1, <2>2, StorageGivesUp
<1>7. CASE /\ Message(i, p) \in channel
           /\ objects' = [objects EXCEPT ![i].verified = TRUE] /\ Go(p, "activate")
  <2>1. /\ objects'[i] \in ObjectType(i) /\ objects'[i] # NoObject
        /\ objects'[i].verified /\ objects'[i].message = objects[i].message
        /\ objects'[i].deleted = objects[i].deleted /\ objects'[i].backup = objects[i].backup
        /\ objects'[i].error = objects[i].error
        /\ \A j \in Ids \ {i} : objects'[j] = objects[j]
    <3>1. objects'[i] = [objects[i] EXCEPT !.verified = TRUE]
      BY <1>7, StorageTypes DEF StorageInv
    <3>2. objects'[i] \in ObjectType(i)
      BY <1>4, <3>1 DEF ObjectType
    <3>3. objects'[i] # NoObject
      BY <3>2, NoObjectIsNone
    <3> QED
      BY <1>4, <1>7, <3>1, <3>2, <3>3, StorageTypes DEF StorageInv, ObjectType
  <2>2. /\ \A q \in Requests \ {p} : req'[q] = req[q]
        /\ req'[p].at = "activate" /\ req'[p].op = "put" /\ req'[p].id = i
        /\ req'[p].row = req[p].row
    BY <1>2, <1>7, MoveFacts DEF StorageInv
  <2>3. /\ images'[i] = images[i] /\ (Has(i)' <=> Has(i)) /\ (Live(i)' <=> Live(i))
        /\ \A s : Is(i, s)' <=> Is(i, s)
    BY <1>3, SameRow
  <2>4. Gutted(i)' <=> Gutted(i)
    BY <1>2, <2>2 DEF Gutted, On
  <2>5. Sent(i)' <=> Sent(i)
    BY <1>3, <2>1 DEF Sent
  <2>6. Has(i) /\ ~Gutted(i) => Sent(i) /\ objects[i].message = Message(i, p) /\ ~objects[i].deleted
    BY <1>2, <1>4, <1>7 DEF Written, Sent
  <2>7. Referenced(i)' /\ Whole(i)'
    BY <1>2, <1>3, <1>4, <2>1, <2>3, <2>4, <2>5, <2>6 DEF Agrees, Referenced, Whole, Live
  <2>8. ASSUME NEW q \in Requests, On(q, i)'
        PROVE  Relies(q, i)' /\ Written(q, i)'
    <3>1. CASE q = p
      BY <1>2, <1>4, <2>1, <2>2, <2>3, <2>4, <2>5, <2>6, <3>1 DEF Relies, Written
    <3>2. CASE q # p
      <4>1. req'[q] = req[q] /\ Relies(q, i) /\ Written(q, i)
        BY <1>2, <2>2, <2>8, <3>2 DEF Agrees, On
      <4>2. Relies(q, i)'
        BY <2>1, <2>3, <4>1 DEF Relies
      <4>3. Written(q, i)'
        BY <1>3, <2>1, <2>3, <2>4, <2>5, <4>1 DEF Written
      <4> QED
        BY <4>2, <4>3
    <3> QED
      BY <3>1, <3>2
  <2>9. ASSUME NEW q \in Requests
        PROVE  NoClash(q, i)'
    <3>1. NoClash(q, i) /\ (Recorded(q, i)' <=> Recorded(q, i))
      BY <1>2, <1>4, <2>1 DEF Agrees, Recorded
    <3>2. CASE q = p
      BY <2>2, <3>2 DEF NoClash
    <3>3. CASE q # p
      BY <2>2, <2>3, <2>4, <3>1, <3>3 DEF NoClash
    <3> QED
      BY <3>2, <3>3
  <2>10. ASSUME i \notin crowded'
         PROVE  BucketOwned(i)' /\ ReferenceOwned(i)'
    <3>1. BucketOwned(i) /\ ReferenceOwned(i)
      BY <1>2, <1>3, <2>10 DEF Agrees
    <3>2. \A q \in Requests : On(q, i)' /\ req'[q].at = "forget" =>
             On(q, i) /\ req[q].at = "forget"
      BY <2>2 DEF On
    <3>3. BucketOwned(i)'
      BY <1>3, <1>4, <2>1, <2>3, <2>4, <3>1 DEF BucketOwned
    <3>4. ReferenceOwned(i)'
      BY <1>4, <2>1, <2>3, <3>1, <3>2 DEF ReferenceOwned
    <3> QED
      BY <3>3, <3>4
  <2>11. ASSUME NEW m \in channel' \ lost', m[1] = i, i \notin crowded'
         PROVE  MessageOwned(m, i)'
    <3>1. MessageOwned(m, i)
      BY <1>2, <1>3, <2>11 DEF Agrees
    <3>2. \A q \in Requests : req[q].at = "checkpoint" => req'[q] = req[q]
      BY <1>2, <2>2
    <3> QED
      BY <1>3, <1>4, <2>1, <3>1, <3>2 DEF MessageOwned, On
  <2>12. Agrees(i)'
    BY <2>7, <2>8, <2>9, <2>10, <2>11 DEF Agrees
  <2> QED
    BY <1>2, <1>3, <1>4, <1>7, <2>1, <2>12, FileSteps
<1> QED
  BY <1>5, <1>6, <1>7

(* A removal takes the bytes: nothing is promised of the image any more.   *)
LEMMA StorageDrop ==
  ASSUME StorageInv, OrderInv', NEW p \in Requests, Drop(p)
  PROVE  StorageInv'
<1>1. PICK i \in Ids : i = req[p].id
  BY WorkFacts DEF Drop
<1>2. /\ Agrees(i) /\ On(p, i) /\ req[p].op \in Removals \cup {"put"} /\ req[p].at = "drop"
      /\ Relies(p, i) /\ req[p].row \in RowType
  BY <1>1, WorkFacts DEF Drop
<1>3. UNCHANGED <<images, objects, channel, lost, script, nextId, crowded>>
  BY DEF Drop
<1>4. PICK at : Go(p, at) /\ at = IF objects[i] = NoObject THEN "forget" ELSE "unsend"
  BY <1>1 DEF Drop
<1>5. /\ bucket' \subseteq bucket /\ bucket \ {i} \subseteq bucket'
      /\ \/ req[p].row.backend = "r2"
         \/ objects[i] # NoObject /\ objects[i].backup
         => i \notin bucket'
  BY <1>1 DEF Drop
<1>6. /\ \A q \in Requests \ {p} : req'[q] = req[q]
      /\ req'[p].at = at /\ req'[p].op = req[p].op /\ req'[p].id = i
      /\ req'[p].row = req[p].row
  BY <1>2, <1>4, MoveFacts DEF StorageInv
<1>7. /\ images'[i] = images[i] /\ (Has(i)' <=> Has(i)) /\ (Live(i)' <=> Live(i))
      /\ \A s : Is(i, s)' <=> Is(i, s)
  BY <1>3, SameRow
<1>8. Gutted(i)'
  BY <1>4, <1>6 DEF Gutted, On
<1>9. Referenced(i)' /\ Whole(i)'
  BY <1>2, <1>3, <1>7, <1>8 DEF Agrees, Referenced, Whole
<1>10. ASSUME NEW q \in Requests, On(q, i)'
       PROVE  Relies(q, i)' /\ Written(q, i)'
  <2>1. CASE q = p
    BY <1>2, <1>3, <1>4, <1>6, <1>7, <1>8, <2>1 DEF Relies, Written
  <2>2. CASE q # p
    <3>1. req'[q] = req[q] /\ Relies(q, i)
      BY <1>2, <1>6, <1>10, <2>2 DEF Agrees, On
    <3> QED
      BY <1>3, <1>7, <1>8, <3>1 DEF Relies, Written
  <2> QED
    BY <2>1, <2>2
<1>11. \A q \in Requests : NoClash(q, i)'
  BY <1>8 DEF NoClash
<1>12. ASSUME i \notin crowded'
       PROVE  BucketOwned(i)' /\ ReferenceOwned(i)'
  <2>1. BucketOwned(i) /\ ReferenceOwned(i) /\ Has(i)
    BY <1>2, <1>3, <1>12 DEF Agrees, StorageInv, OrderInv, Orderly, On
  <2>2. i \notin bucket'
    <3>1. req[p].row.backend \in {"r2", "telegram"}
      BY <1>2 DEF RowType
    <3>2. CASE req[p].row.backend = "telegram"
      <4>1. images[i].backend = "telegram" /\ objects[i] # NoObject
        BY <1>2, <2>1, <3>2 DEF Relies, Agrees, Referenced
      <4> QED
        BY <1>5, <2>1, <4>1 DEF BucketOwned
    <3> QED
      BY <1>5, <3>1, <3>2
  <2>3. \A q \in Requests : On(q, i)' => q = p
    BY <1>2, <1>3, <1>6, <1>12, WorkAlone DEF On, StorageInv
  <2>4. BucketOwned(i)'
    BY <1>3, <1>5, <1>7, <2>1, <2>2 DEF BucketOwned
  <2>5. ReferenceOwned(i)'
    BY <1>3, <1>4, <1>6, <1>7, <2>1, <2>3 DEF ReferenceOwned
  <2> QED
    BY <2>4, <2>5
<1>13. ASSUME NEW m \in channel' \ lost', m[1] = i, i \notin crowded'
       PROVE  MessageOwned(m, i)'
  <2>1. MessageOwned(m, i)
    BY <1>2, <1>3, <1>13 DEF Agrees
  <2>2. \A q \in Requests : req[q].at = "checkpoint" => req'[q] = req[q]
    BY <1>2, <1>6
  <2> QED
    BY <1>3, <2>1, <2>2 DEF MessageOwned, On
<1>14. Agrees(i)'
  BY <1>9, <1>10, <1>11, <1>12, <1>13 DEF Agrees
<1> QED
  BY <1>2, <1>3, <1>4, <1>5, <1>14, FileSteps

LEMMA StorageUnsend ==
  ASSUME StorageInv, OrderInv', NEW p \in Requests, Unsend(p)
  PROVE  StorageInv'
<1>1. PICK i \in Ids : i = req[p].id
  BY WorkFacts DEF Unsend
<1>2. /\ Agrees(i) /\ On(p, i) /\ req[p].op \in Removals \cup {"put"} /\ req[p].at = "unsend"
      /\ Relies(p, i)
  BY <1>1, WorkFacts DEF Unsend
<1>3. UNCHANGED <<images, bucket, lost, script, nextId, crowded>> /\ Go(p, "forget")
  BY DEF Unsend
<1>4. objects[i] # NoObject /\ objects[i] \in ObjectType(i)
  BY <1>2, ObjectFacts, StorageTypes DEF StorageInv, Relies
<1>5. PICK m0 : m0 = objects[i].message
  OBVIOUS
<1>6. m0[1] = i
  BY <1>4, <1>5 DEF ObjectType
<1>7. PICK gone \in BOOLEAN :
        /\ channel' = IF gone THEN channel \ {m0} ELSE channel
        /\ objects' = [objects EXCEPT ![i].deleted = TRUE, ![i].backup = FALSE,
                                      ![i].error = ~gone]
  BY <1>1, <1>5 DEF Unsend
<1>8. /\ objects'[i] # NoObject /\ objects'[i].message = m0
      /\ objects'[i].deleted /\ objects'[i].error = ~gone
      /\ \A j \in Ids \ {i} : objects'[j] = objects[j]
  <2>1. objects'[i] = [objects[i] EXCEPT !.deleted = TRUE, !.backup = FALSE, !.error = ~gone]
    BY <1>4, <1>7, StorageTypes DEF StorageInv, ObjectType
  <2>2. objects'[i] \in ObjectType(i)
    BY <1>4, <2>1 DEF ObjectType
  <2>3. objects'[i] # NoObject
    BY <2>2, NoObjectIsNone
  <2> QED
    BY <1>4, <1>5, <1>7, <2>1, <2>3, StorageTypes DEF StorageInv, ObjectType
<1>9. /\ \A q \in Requests \ {p} : req'[q] = req[q]
      /\ req'[p].at = "forget" /\ req'[p].op = req[p].op /\ req'[p].id = i
      /\ req'[p].row = req[p].row
  BY <1>2, <1>3, MoveFacts DEF StorageInv
<1>10. /\ images'[i] = images[i] /\ (Has(i)' <=> Has(i)) /\ (Live(i)' <=> Live(i))
       /\ \A s : Is(i, s)' <=> Is(i, s)
  BY <1>3, SameRow
<1>11. Gutted(i)' /\ Gutted(i)
  BY <1>2, <1>9 DEF Gutted, On
<1>12. Referenced(i)' /\ Whole(i)'
  BY <1>2, <1>4, <1>8, <1>10, <1>11 DEF Agrees, Referenced, Whole
<1>13. ASSUME NEW q \in Requests, On(q, i)'
       PROVE  Relies(q, i)' /\ Written(q, i)'
  <2>1. CASE q = p
    BY <1>2, <1>8, <1>9, <1>10, <1>11, <2>1 DEF Relies, Written
  <2>2. CASE q # p
    <3>1. req'[q] = req[q] /\ Relies(q, i)
      BY <1>2, <1>9, <1>13, <2>2 DEF Agrees, On
    <3> QED
      BY <1>8, <1>10, <1>11, <3>1 DEF Relies, Written
  <2> QED
    BY <2>1, <2>2
<1>14. \A q \in Requests : NoClash(q, i)'
  BY <1>11 DEF NoClash
<1>15. ASSUME i \notin crowded'
       PROVE  BucketOwned(i)' /\ ReferenceOwned(i)'
  <2>1. BucketOwned(i) /\ i \notin bucket
    BY <1>2, <1>3, <1>11, <1>15 DEF Agrees, BucketOwned
  <2> QED
    BY <1>3, <1>8, <1>10, <2>1 DEF BucketOwned, ReferenceOwned
<1>16. ASSUME NEW m \in channel' \ lost', m[1] = i, i \notin crowded'
       PROVE  MessageOwned(m, i)'
  <2>1. MessageOwned(m, i)
    BY <1>2, <1>3, <1>7, <1>16 DEF Agrees
  <2>2. \A q \in Requests : req[q].at = "checkpoint" => req'[q] = req[q]
    BY <1>2, <1>9
  <2>3. CASE m = m0
    BY <1>7, <1>8, <1>16, <2>3 DEF MessageOwned
  <2>4. CASE m # m0
    BY <1>3, <1>5, <2>1, <2>2, <2>4 DEF MessageOwned, On
  <2> QED
    BY <2>3, <2>4
<1>17. Agrees(i)'
  BY <1>12, <1>13, <1>14, <1>15, <1>16 DEF Agrees
<1>18. \A m \in Ids \X Senders : m[1] # i => (m \in channel' <=> m \in channel)
  BY <1>6, <1>7
<1> QED
  BY <1>2, <1>3, <1>4, <1>8, <1>17, <1>18, FileSteps

\* The platform may cut off what it likes but a deletion or a cleanup whose
\* bytes are gone: its row would stay, and an image in the trash can be restored.
FaultsSettle ==
    /\ Faulty \cap {"delete", "cleanup"} = {}
    /\ Overlap => Faulty = {}

LEMMA StorageCutOff ==
  ASSUME FaultsSettle, StorageInv, OrderInv', NEW p \in Requests, CutOff(p)
  PROVE  StorageInv'
<1>1. /\ UNCHANGED <<crowded, images, objects, bucket, channel, script, nextId>>
      /\ Answer(p) /\ lost \subseteq lost'
      /\ req[p].at = "checkpoint" => Message(req[p].id, p) \in lost'
      /\ req[p].at # "checkpoint" => lost' = lost
      /\ req[p].op \notin {"delete", "cleanup"} /\ ~Overlap /\ crowded = {}
  BY StorageTypes DEF CutOff, FaultsSettle, StorageInv
<1>2. Stages(req[p]) /\ req[p].at # "idle"
  BY RequestFacts, StorageTypes, IdleRequest DEF StorageInv, CutOff
<1>3. CASE req[p].id = 0
  <2>1. req[p].at \in {"quota", "insert"}
    BY <1>2, <1>3, StorageTypes DEF Stages, Idle, StorageInv
  <2> QED
    BY <1>1, <2>1, AnswerEdits, SameRowEdits, EditKeeps DEF StorageInv, files
<1>4. CASE req[p].id # 0
  <2>1. PICK i \in Ids : i = req[p].id
    BY <1>2, <1>4, StorageTypes DEF Stages, Idle, StorageInv
  <2>2. On(p, i) /\ i \notin crowded
    BY <1>1, <1>2, <2>1 DEF On
  <2>3. ASSUME req[p].at \in {"unsend", "forget"}
        PROVE  ~Live(i) /\ \A q \in Requests : On(q, i) => q = p
    <3>1. req[p].op \in {"put", "discard"}
      BY <1>1, <1>2, <2>3 DEF Stages, Idle
    <3>2. Is(i, "uploading")
      BY <2>1, <2>2, <3>1 DEF StorageInv, OrderInv, Orderly, On
    <3> QED
      BY <2>2, <3>1, <3>2, WorkAlone DEF StorageInv, Live, Removals
  <2> QED
    BY <1>1, <2>1, <2>2, <2>3, StorageGivesUp
<1> QED
  BY <1>3, <1>4

(* The script.                                                             *)

\* It writes a reference, a row or a file of the image it works on.
LEMMA ScriptSteps ==
  ASSUME StorageInv, OrderInv', NEW i \in Ids, i = script.id, script.at # "idle",
         UNCHANGED <<req, nextId, crowded>>, script'.id \in {i, 0}, ScriptKnows',
         \A j \in Ids \ {i} : /\ images'[j] = images[j] /\ objects'[j] = objects[j]
                              /\ j \in bucket' <=> j \in bucket,
         \A m \in Ids \X Senders : m[1] # i =>
            (m \in channel' <=> m \in channel) /\ (m \in lost => m \in lost'),
         Has(i)' <=> Has(i), \A s : Is(i, s)' <=> Is(i, s),
         Has(i) /\ images[i].backend = "telegram" => images'[i].backend = "telegram",
         objects[i] # NoObject => objects'[i] # NoObject,
         \/ i \in Migrated
         \/ /\ objects[i] # NoObject /\ objects'[i] # NoObject
            /\ objects'[i].message = objects[i].message
            /\ objects'[i].verified = objects[i].verified
            /\ objects'[i].deleted = objects[i].deleted
            /\ Sent(i)' <=> Sent(i)
            /\ Has(i) /\ Storage = "r2" => bucket' = bucket,
         Referenced(i)', Whole(i)',
         i \notin crowded => BucketOwned(i)' /\ ReferenceOwned(i)',
         i \notin crowded => \A m \in channel' \ lost' : m[1] = i => MessageOwned(m, i)'
  PROVE  StorageInv'
<1>1. Agrees(i) /\ ~Is(i, "uploading")
  BY DEF StorageInv, ScriptKnows
<1>2. Concerns(i)
  BY DEF Concerns
<1>3. Gutted(i)' <=> Gutted(i)
  BY DEF Gutted, On
<1>4. ASSUME NEW q \in Requests, On(q, i)'
      PROVE  Relies(q, i)' /\ Written(q, i)'
  <2>1. On(q, i) /\ Relies(q, i) /\ Written(q, i) /\ req'[q] = req[q]
    BY <1>1, <1>4 DEF Agrees, On
  <2>2. Relies(q, i)'
    BY <1>1, <2>1 DEF Relies
  <2>3. CASE i \in Migrated
    BY <2>1, <2>2, <2>3 DEF Relies, Written
  <2>4. CASE i \notin Migrated
    <3>1. /\ objects'[i].message = objects[i].message
          /\ objects'[i].verified = objects[i].verified
          /\ objects'[i].deleted = objects[i].deleted
          /\ Sent(i)' <=> Sent(i)
          /\ Has(i) /\ Storage = "r2" => bucket' = bucket
      BY <2>4
    <3> QED
      BY <1>3, <2>1, <2>2, <3>1 DEF Written
  <2> QED
    BY <2>2, <2>3, <2>4
<1>5. ASSUME NEW q \in Requests
      PROVE  NoClash(q, i)'
  <2>1. CASE i \in Migrated
    <3>1. ~(req[q].op = "put" /\ req[q].id = i /\ req[q].at \in {"body", "store", "checkpoint"})
      BY <1>1, <2>1 DEF Agrees, Relies, On
    <3> QED
      BY <1>1, <3>1 DEF NoClash
  <2>2. CASE i \notin Migrated
    <3>1. NoClash(q, i) /\ (Recorded(q, i)' <=> Recorded(q, i))
      BY <1>1, <2>2 DEF Agrees, Recorded
    <3> QED
      BY <1>3, <3>1 DEF NoClash
  <2> QED
    BY <2>1, <2>2
<1>6. Agrees(i)'
  BY <1>4, <1>5 DEF Agrees
<1> QED
  BY <1>2, <1>6, StorageTypes, StorageFrom DEF StorageInv

\* It turns to an image, or away from one.
LEMMA ScriptMoves ==
  ASSUME StorageInv, OrderInv', UNCHANGED <<images, objects, bucket, channel, byScript>>,
         lost \subseteq lost', ScriptKnows',
         script.at = "insert" => Message(script.id, "script") \in lost'
  PROVE  StorageInv'
<1>1. UNCHANGED <<req, nextId, crowded>>
  BY DEF byScript
<1>2. ASSUME NEW j \in Ids
      PROVE  Agrees(j)'
  <2>1. Agrees(j) /\ (Gutted(j)' <=> Gutted(j)) /\ (Sent(j)' <=> Sent(j))
    BY <1>1 DEF StorageInv, Gutted, Sent, On
  <2>2. /\ images'[j] = images[j] /\ (Has(j)' <=> Has(j)) /\ (Live(j)' <=> Live(j))
        /\ \A s : Is(j, s)' <=> Is(j, s)
    BY SameRow
  <2>3. Referenced(j)' /\ Whole(j)'
    BY <2>1, <2>2 DEF Agrees, Referenced, Whole
  <2>4. ASSUME NEW q \in Requests, On(q, j)'
        PROVE  Relies(q, j)' /\ Written(q, j)'
    BY <1>1, <2>1, <2>2, <2>4 DEF Agrees, Relies, Written, On
  <2>5. ASSUME NEW q \in Requests
        PROVE  NoClash(q, j)'
    BY <1>1, <2>1, <2>2 DEF Agrees, NoClash, Recorded
  <2>6. j \notin crowded' => BucketOwned(j)' /\ ReferenceOwned(j)'
    BY <1>1, <2>1, <2>2 DEF Agrees, BucketOwned, ReferenceOwned, On
  <2>7. ASSUME NEW m \in channel' \ lost', m[1] = j, j \notin crowded'
        PROVE  MessageOwned(m, j)'
    <3>1. MessageOwned(m, j)
      BY <1>1, <2>1, <2>7 DEF Agrees
    <3>2. ~(script.at = "insert" /\ script.id = j /\ m[2] = "script")
      <4>1. m = <<m[1], m[2]>>
        BY <2>7, StorageTypes DEF StorageInv, FilesOK
      <4> QED
        BY <2>7, <4>1 DEF Message
    <3> QED
      BY <1>1, <3>1, <3>2 DEF MessageOwned, On
  <2> QED
    BY <2>3, <2>4, <2>5, <2>6, <2>7 DEF Agrees
<1> QED
  BY <1>1, <1>2 DEF StorageInv, Used

LEMMA ScriptRests ==
  ASSUME script' = Rest
  PROVE  ScriptKnows'
  BY DEF Rest, ScriptKnows

LEMMA ScriptGoesOn ==
  ASSUME StorageInv, NEW at, GoOn(at)
  PROVE  script'.at = at /\ script'.id = script.id
  BY StorageTypes DEF StorageInv, GoOn, ScriptType

\* What a step of the script starts from.
LEMMA ScriptFacts ==
  ASSUME StorageInv, script.at # "idle"
  PROVE  /\ script.id \in Ids /\ Agrees(script.id) /\ ~Is(script.id, "uploading")
         /\ objects[script.id] # NoObject => objects[script.id] \in ObjectType(script.id)
<1>1. script.id \in Ids
  BY StorageTypes DEF StorageInv, ScriptKnows, ScriptType
<1> QED
  BY <1>1, StorageTypes, ObjectFacts DEF StorageInv, ScriptKnows

LEMMA StorageScriptMoves ==
  ASSUME StorageInv, OrderInv',
         \/ \E i \in Ids : MigrateBegin(i) \/ Prune(i)
         \/ ConfirmCopy \/ Interrupt
  PROVE  StorageInv'
<1>1. ASSUME NEW i \in Ids, MigrateBegin(i)
      PROVE  StorageInv'
  <2>1. /\ script'.id = i /\ i # 0 /\ script.at = "idle"
        /\ script'.at = IF objects[i] = NoObject THEN "send" ELSE "verify"
    BY <1>1, StorageTypes DEF MigrateBegin, Rest, StorageInv
  <2>2. ScriptKnows'
    BY <1>1, <2>1 DEF MigrateBegin, ScriptKnows, Is, files
  <2> QED
    BY <1>1, <2>1, <2>2, ScriptMoves DEF MigrateBegin, files
<1>2. ASSUME NEW i \in Ids, Prune(i)
      PROVE  StorageInv'
  <2>1. script'.id = i /\ i # 0 /\ script.at = "idle" /\ script'.at = "confirm"
    BY <1>2, StorageTypes DEF Prune, Rest, StorageInv
  <2>2. Has(i)
    BY <1>2, NoRowIsNone DEF Prune, Has, Is
  <2>3. objects[i] # NoObject
    BY <1>2, <2>2 DEF Prune, StorageInv, Agrees, Referenced
  <2>4. ScriptKnows'
    BY <1>2, <2>1, <2>3 DEF Prune, ScriptKnows, Is, files
  <2> QED
    BY <1>2, <2>1, <2>4, ScriptMoves DEF Prune, files
<1>3. CASE ConfirmCopy
  <2>1. script.at = "confirm" /\ UNCHANGED <<images, files, byScript>>
    BY <1>3 DEF ConfirmCopy
  <2>2. CASE script' = Rest
    BY <2>1, <2>2, ScriptRests, ScriptMoves DEF files
  <2>3. CASE GoOn("remove") /\ images[script.id].backend = "telegram"
    <3>1. script'.at = "remove" /\ script'.id = script.id
      BY <2>3, ScriptGoesOn
    <3>2. ScriptKnows'
      BY <2>1, <2>3, <3>1 DEF StorageInv, ScriptKnows, Is, Has, files
    <3> QED
      BY <2>1, <3>2, ScriptMoves DEF files
  <2> QED
    BY <1>3, <2>2, <2>3 DEF ConfirmCopy
<1>4. CASE Interrupt
  BY <1>4, ScriptRests, ScriptMoves DEF Interrupt
<1> QED
  BY <1>1, <1>2, <1>3, <1>4

LEMMA StorageMigrateSend ==
  ASSUME StorageInv, OrderInv', MigrateSend
  PROVE  StorageInv'
<1>1. script.at = "send" /\ UNCHANGED <<images, objects, bucket, byScript>>
  BY DEF MigrateSend
<1>2. PICK i \in Ids : i = script.id
  BY <1>1, ScriptFacts
<1>3. UNCHANGED <<req, nextId, crowded>>
  BY <1>1 DEF byScript
<1>4. Agrees(i) /\ ~Is(i, "uploading") /\ objects[i] = NoObject /\ i \in Migrated
  BY <1>1, <1>2, ScriptFacts DEF StorageInv, ScriptKnows
<1> DEFINE sent == Message(i, "script")
<1>5. sent[1] = i /\ sent[2] = "script"
  BY DEF Message
<1>6. CASE UNCHANGED <<channel, lost>> /\ script' = Rest
  BY <1>1, <1>6, ScriptRests, ScriptMoves
<1>7. CASE channel' = channel \cup {sent} /\ lost' = lost \ {sent} /\ GoOn("insert")
  <2> HIDE DEF sent
  <2>1. script'.at = "insert" /\ script'.id = i
    BY <1>2, <1>7, ScriptGoesOn
  <2>2. /\ images'[i] = images[i] /\ (Has(i)' <=> Has(i)) /\ (Live(i)' <=> Live(i))
        /\ \A s : Is(i, s)' <=> Is(i, s)
    BY <1>1, SameRow
  <2>3. Gutted(i)' <=> Gutted(i)
    BY <1>3 DEF Gutted, On
  <2>4. Referenced(i)' /\ Whole(i)'
    BY <1>1, <1>4, <2>2, <2>3 DEF Agrees, Referenced, Whole
  <2>5. i \notin crowded => BucketOwned(i)' /\ ReferenceOwned(i)'
    BY <1>1, <1>3, <1>4, <2>2, <2>3 DEF Agrees, BucketOwned, ReferenceOwned, On
  <2>6. ASSUME i \notin crowded, NEW m \in channel' \ lost', m[1] = i
        PROVE  MessageOwned(m, i)'
    <3>1. CASE m = sent
      BY <1>5, <2>1, <3>1 DEF MessageOwned
    <3>2. CASE m # sent
      <4>1. MessageOwned(m, i)
        BY <1>4, <1>7, <2>6, <3>2 DEF Agrees
      <4> QED
        BY <1>1, <1>3, <4>1 DEF MessageOwned, On
    <3> QED
      BY <3>1, <3>2
  <2>7. ScriptKnows'
    BY <1>1, <1>4, <2>1, <2>2, StorageTypes DEF ScriptKnows, StorageInv
  <2>8. \A m \in Ids \X Senders : m[1] # i =>
           (m \in channel' <=> m \in channel) /\ (m \in lost => m \in lost')
    BY <1>5, <1>7
  <2> QED
    BY <1>1, <1>2, <1>3, <1>4, <2>1, <2>2, <2>4, <2>5, <2>6, <2>7, <2>8, ScriptSteps
<1> QED
  BY <1>2, <1>6, <1>7 DEF MigrateSend

LEMMA StorageMigrateInsert ==
  ASSUME StorageInv, OrderInv', MigrateInsert
  PROVE  StorageInv'
<1>1. script.at = "insert" /\ UNCHANGED <<images, bucket, byScript>>
  BY DEF MigrateInsert
<1>2. PICK i \in Ids : i = script.id
  BY <1>1, ScriptFacts
<1>3. UNCHANGED <<req, nextId, crowded>>
  BY <1>1 DEF byScript
<1>4. Agrees(i) /\ ~Is(i, "uploading") /\ objects[i] = NoObject /\ i \in Migrated
  BY <1>1, <1>2, ScriptFacts DEF StorageInv, ScriptKnows
<1> DEFINE sent == Message(i, "script")
<1>5. sent[1] = i /\ sent[2] = "script"
  BY DEF Message
<1>6. \A m \in channel : m[1] = i /\ m[2] = "script" => m = sent
  <2>1. \A m \in channel : m = <<m[1], m[2]>>
    BY StorageTypes DEF StorageInv, FilesOK
  <2> QED
    BY <2>1 DEF Message
<1>7. \/ /\ Is(i, "active") /\ images[i].backend = "r2"
         /\ objects' = [objects EXCEPT ![i] = Object(sent, TRUE)]
         /\ GoOn("verify") /\ channel' = channel /\ lost' = lost
      \/ /\ objects' = objects /\ script' = Rest
         /\ channel' \subseteq channel /\ channel \ {sent} \subseteq channel'
         /\ lost \subseteq lost' /\ (sent \in channel' => sent \in lost')
  BY <1>2 DEF MigrateInsert, TakeBack
<1> HIDE DEF sent
<1>8. /\ images'[i] = images[i] /\ (Has(i)' <=> Has(i)) /\ (Live(i)' <=> Live(i))
      /\ \A s : Is(i, s)' <=> Is(i, s)
  BY <1>1, SameRow
<1>9. Gutted(i)' <=> Gutted(i)
  BY <1>3 DEF Gutted, On
<1>10. CASE /\ Is(i, "active") /\ images[i].backend = "r2"
            /\ objects' = [objects EXCEPT ![i] = Object(sent, TRUE)]
            /\ GoOn("verify") /\ channel' = channel /\ lost' = lost
  <2>1. script'.at = "verify" /\ script'.id = i
    BY <1>2, <1>10, ScriptGoesOn
  <2>2. /\ objects'[i] # NoObject
        /\ objects'[i].message = sent /\ objects'[i].verified = FALSE
        /\ objects'[i].backup = TRUE /\ objects'[i].deleted = FALSE
        /\ \A j \in Ids \ {i} : objects'[j] = objects[j]
    <3>1. objects'[i] = Object(sent, TRUE)
      BY <1>10, StorageTypes DEF StorageInv
    <3> QED
      BY <1>10, <3>1, WrittenObject, StorageTypes DEF StorageInv, Object
  <2>3. Has(i)
    BY <1>10, NoRowIsNone DEF Has, Is
  <2>4. Referenced(i)' /\ Whole(i)'
    BY <1>1, <1>4, <1>8, <1>9, <1>10, <2>2 DEF Agrees, Referenced, Whole
  <2>5. ASSUME i \notin crowded
        PROVE  BucketOwned(i)' /\ ReferenceOwned(i)'
    <3>1. BucketOwned(i)'
      BY <1>1, <1>4, <1>8, <1>9, <1>10, <2>2, <2>5 DEF Agrees, BucketOwned
    <3>2. ASSUME NEW q \in Requests, On(q, i)
          PROVE  req[q].at # "forget"
      <4>1. req[q].at = "forget" => req[q].op \in Removals \cup {"put"}
        BY WorkFacts
      <4> QED
        BY <1>4, <1>10, <2>5, <3>2, <4>1 DEF StorageInv, OrderInv, Orderly, On
    <3> QED
      BY <1>3, <1>8, <2>3, <3>1, <3>2 DEF ReferenceOwned, On
  <2>6. ASSUME i \notin crowded, NEW m \in channel' \ lost', m[1] = i
        PROVE  MessageOwned(m, i)'
    <3>1. CASE m = sent
      BY <2>2, <3>1 DEF MessageOwned
    <3>2. CASE m # sent
      <4>1. MessageOwned(m, i) /\ m[2] # "script"
        BY <1>4, <1>6, <1>10, <2>6, <3>2 DEF Agrees
      <4> QED
        BY <1>3, <1>4, <4>1 DEF MessageOwned, On
    <3> QED
      BY <3>1, <3>2
  <2>7. ScriptKnows'
    BY <1>4, <1>8, <2>1, <2>2, StorageTypes DEF ScriptKnows, StorageInv
  <2> QED
    BY <1>1, <1>2, <1>3, <1>4, <1>8, <1>10, <2>1, <2>2, <2>4, <2>5, <2>6, <2>7, ScriptSteps
<1>11. CASE /\ objects' = objects /\ script' = Rest
            /\ channel' \subseteq channel /\ channel \ {sent} \subseteq channel'
            /\ lost \subseteq lost' /\ (sent \in channel' => sent \in lost')
  <2>1. script'.id \in {i, 0}
    BY <1>11 DEF Rest
  <2>2. Referenced(i)' /\ Whole(i)'
    BY <1>1, <1>4, <1>8, <1>9, <1>11 DEF Agrees, Referenced, Whole
  <2>3. i \notin crowded => BucketOwned(i)' /\ ReferenceOwned(i)'
    BY <1>1, <1>3, <1>4, <1>8, <1>9, <1>11 DEF Agrees, BucketOwned, ReferenceOwned, On
  <2>4. ASSUME i \notin crowded, NEW m \in channel' \ lost', m[1] = i
        PROVE  MessageOwned(m, i)'
    <3>1. m # sent /\ m \in channel \ lost
      BY <1>11, <2>4
    <3>2. MessageOwned(m, i) /\ m[2] # "script"
      BY <1>4, <1>6, <2>4, <3>1 DEF Agrees
    <3> QED
      BY <1>3, <1>11, <3>2 DEF MessageOwned, On
  <2>5. \A m \in Ids \X Senders : m[1] # i =>
           (m \in channel' <=> m \in channel) /\ (m \in lost => m \in lost')
    BY <1>5, <1>11
  <2> QED
    BY <1>1, <1>2, <1>3, <1>4, <1>8, <1>11, <2>1, <2>2, <2>3, <2>4, <2>5, ScriptRests, ScriptSteps
<1> QED
  BY <1>7, <1>10, <1>11

LEMMA StorageMigrateVerify ==
  ASSUME StorageInv, OrderInv', MigrateVerify
  PROVE  StorageInv'
<1>1. script.at = "verify" /\ UNCHANGED <<images, bucket, channel, lost, byScript>>
  BY DEF MigrateVerify
<1>2. PICK i \in Ids : i = script.id
  BY <1>1, ScriptFacts
<1>3. UNCHANGED <<req, nextId, crowded>>
  BY <1>1 DEF byScript
<1>4. /\ Agrees(i) /\ ~Is(i, "uploading") /\ i \in Migrated
      /\ objects[i] # NoObject /\ objects[i] \in ObjectType(i)
  BY <1>1, <1>2, ScriptFacts DEF StorageInv, ScriptKnows
<1>5. CASE objects' = objects /\ script' = Rest
  BY <1>1, <1>5, ScriptRests, ScriptMoves
<1>6. CASE /\ Sent(i) /\ GoOn("switch")
           /\ objects' = [objects EXCEPT ![i].verified = @ \/ ~objects[i].deleted]
  <2>1. script'.at = "switch" /\ script'.id = i
    BY <1>2, <1>6, ScriptGoesOn
  <2>2. /\ objects'[i] # NoObject /\ objects'[i].message = objects[i].message
        /\ objects'[i].verified <=> objects[i].verified \/ ~objects[i].deleted
        /\ objects'[i].backup = objects[i].backup
        /\ objects'[i].deleted = objects[i].deleted
        /\ objects'[i].error = objects[i].error
        /\ \A j \in Ids \ {i} : objects'[j] = objects[j]
    <3>1. PICK known \in BOOLEAN : known = (objects[i].verified \/ ~objects[i].deleted)
      OBVIOUS
    <3>2. objects'[i] = [objects[i] EXCEPT !.verified = known]
      BY <1>4, <1>6, <3>1, StorageTypes DEF StorageInv, ObjectType
    <3>3. objects'[i] \in ObjectType(i)
      BY <1>4, <3>2 DEF ObjectType
    <3>4. objects'[i] # NoObject
      BY <3>3, NoObjectIsNone
    <3> QED
      BY <1>4, <1>6, <3>1, <3>2, <3>4, StorageTypes DEF StorageInv, ObjectType
  <2>3. /\ images'[i] = images[i] /\ (Has(i)' <=> Has(i)) /\ (Live(i)' <=> Live(i))
        /\ \A s : Is(i, s)' <=> Is(i, s)
    BY <1>1, SameRow
  <2>4. (Gutted(i)' <=> Gutted(i)) /\ Sent(i)'
    BY <1>1, <1>3, <1>6, <2>2 DEF Gutted, On, Sent
  <2>5. Referenced(i)' /\ Whole(i)'
    BY <1>1, <1>4, <2>2, <2>3, <2>4 DEF Agrees, Referenced, Whole
  <2>6. i \notin crowded => BucketOwned(i)' /\ ReferenceOwned(i)'
    BY <1>1, <1>3, <1>4, <2>2, <2>3, <2>4 DEF Agrees, BucketOwned, ReferenceOwned, On
  <2>7. ASSUME i \notin crowded, NEW m \in channel' \ lost', m[1] = i
        PROVE  MessageOwned(m, i)'
    <3>1. MessageOwned(m, i)
      BY <1>1, <1>4, <2>7 DEF Agrees
    <3> QED
      BY <1>1, <1>3, <1>4, <2>2, <3>1 DEF MessageOwned, On
  <2>8. ScriptKnows'
    BY <1>4, <2>1, <2>2, <2>3, StorageTypes DEF ScriptKnows, StorageInv
  <2> QED
    BY <1>1, <1>2, <1>3, <1>4, <2>1, <2>2, <2>3, <2>5, <2>6, <2>7, <2>8, ScriptSteps
<1> QED
  BY <1>2, <1>5, <1>6 DEF MigrateVerify, Sent

LEMMA StorageMigrateSwitch ==
  ASSUME StorageInv, OrderInv', MigrateSwitch
  PROVE  StorageInv'
<1>1. script.at = "switch" /\ UNCHANGED <<objects, bucket, channel, lost, byScript>>
  BY DEF MigrateSwitch, files
<1>2. PICK i \in Ids : i = script.id
  BY <1>1, ScriptFacts
<1>3. UNCHANGED <<req, nextId, crowded>>
  BY <1>1 DEF byScript
<1>4. /\ Agrees(i) /\ ~Is(i, "uploading") /\ i \in Migrated /\ objects[i] # NoObject
  BY <1>1, <1>2, ScriptFacts DEF StorageInv, ScriptKnows
<1>5. CASE UNCHANGED images /\ script' = Rest
  BY <1>1, <1>5, ScriptRests, ScriptMoves
<1>6. CASE /\ Is(i, "active") /\ images[i].backend = "r2"
           /\ objects[i].verified /\ ~objects[i].deleted
           /\ Update(i, [images[i] EXCEPT !.backend = "telegram"])
           /\ script' = Rest \/ (script'.at = "confirm" /\ script'.id = i)
  <2>1. images[i] \in RowType /\ Has(i)
    BY <1>6, RowFacts, StorageTypes DEF StorageInv
  <2> DEFINE row == [images[i] EXCEPT !.backend = "telegram"]
  <2>2. row.status = "active" /\ row.backend = "telegram" /\ images[i].status = "active"
    BY <1>6, <2>1 DEF RowType, Is
  <2>3. Update(i, row)
    BY <1>6
  <2> HIDE DEF row
  <2>4. images'[i] = row /\ (\A j \in Ids \ {i} : images'[j] = images[j]) /\ Has(i)'
    BY <2>2, <2>3, UpdateFacts DEF StorageInv
  <2>5. /\ images'[i].backend = "telegram" /\ (Has(i)' <=> Has(i)) /\ (Live(i)' <=> Live(i))
        /\ \A s : Is(i, s)' <=> Is(i, s)
    BY <2>1, <2>2, <2>4 DEF Live, Is
  <2>6. (Gutted(i)' <=> Gutted(i)) /\ (Sent(i)' <=> Sent(i))
    BY <1>1, <1>3 DEF Gutted, On, Sent
  <2>7. Live(i)
    BY <1>4, <2>1 DEF Live
  <2>8. Referenced(i)' /\ Whole(i)'
    BY <1>1, <1>4, <1>6, <2>5, <2>6, <2>7 DEF Agrees, Referenced, Whole
  <2>9. i \notin crowded => BucketOwned(i)' /\ ReferenceOwned(i)'
    BY <1>1, <1>3, <1>4, <1>6, <2>1, <2>5, <2>6, <2>7
       DEF Agrees, BucketOwned, ReferenceOwned, On
  <2>10. ASSUME i \notin crowded, NEW m \in channel' \ lost', m[1] = i
         PROVE  MessageOwned(m, i)'
    <3>1. MessageOwned(m, i)
      BY <1>1, <1>4, <2>10 DEF Agrees
    <3> QED
      BY <1>1, <1>3, <3>1 DEF MessageOwned, On
  <2>11. ScriptKnows'
    <3>1. CASE script' = Rest
      BY <3>1, ScriptRests
    <3>2. CASE script'.at = "confirm" /\ script'.id = i
      BY <1>1, <1>4, <2>5, <3>2, StorageTypes DEF ScriptKnows, StorageInv
    <3> QED
      BY <1>6, <3>1, <3>2
  <2>12. script'.id \in {i, 0}
    BY <1>6 DEF Rest
  <2> QED
    BY <1>1, <1>2, <1>3, <1>4, <2>4, <2>5, <2>8, <2>9, <2>10, <2>11, <2>12, ScriptSteps
<1>7. [script EXCEPT !.at = "confirm"].at = "confirm" /\ [script EXCEPT !.at = "confirm"].id = i
  BY <1>2, StorageTypes DEF StorageInv, ScriptType
<1>8. \/ /\ Is(i, "active") /\ images[i].backend = "r2"
         /\ objects[i].verified /\ ~objects[i].deleted
         /\ Update(i, [images[i] EXCEPT !.backend = "telegram"])
         /\ script' = Rest \/ script' = [script EXCEPT !.at = "confirm"]
      \/ UNCHANGED images /\ script' = Rest
  BY <1>2 DEF MigrateSwitch
<1> QED
  BY <1>5, <1>6, <1>7, <1>8

LEMMA StorageRemoveBackup ==
  ASSUME StorageInv, OrderInv', RemoveBackup
  PROVE  StorageInv'
<1>1. script.at = "remove" /\ UNCHANGED <<images, objects, channel, lost, byScript>>
  BY DEF RemoveBackup
<1>2. PICK i \in Ids : i = script.id
  BY <1>1, ScriptFacts
<1>3. UNCHANGED <<req, nextId, crowded>>
  BY <1>1 DEF byScript
<1>4. /\ Agrees(i) /\ ~Is(i, "uploading") /\ objects[i] # NoObject
      /\ Has(i) => images[i].backend = "telegram"
  BY <1>1, <1>2, ScriptFacts DEF StorageInv, ScriptKnows
<1>5. bucket' = bucket \ {i} /\ script'.at = "flag" /\ script'.id = i
  BY <1>2, ScriptGoesOn DEF RemoveBackup
<1>6. /\ images'[i] = images[i] /\ (Has(i)' <=> Has(i)) /\ (Live(i)' <=> Live(i))
      /\ \A s : Is(i, s)' <=> Is(i, s)
  BY <1>1, SameRow
<1>7. (Gutted(i)' <=> Gutted(i)) /\ (Sent(i)' <=> Sent(i))
  BY <1>1, <1>3 DEF Gutted, On, Sent
<1>8. Referenced(i)' /\ Whole(i)'
  BY <1>1, <1>4, <1>6, <1>7 DEF Agrees, Referenced, Whole, Live
<1>9. i \notin crowded => BucketOwned(i)' /\ ReferenceOwned(i)'
  BY <1>1, <1>3, <1>4, <1>5, <1>6, <1>7 DEF Agrees, BucketOwned, ReferenceOwned, On
<1>10. ASSUME i \notin crowded, NEW m \in channel' \ lost', m[1] = i
       PROVE  MessageOwned(m, i)'
  <2>1. MessageOwned(m, i)
    BY <1>1, <1>4, <1>10 DEF Agrees
  <2> QED
    BY <1>1, <1>3, <2>1 DEF MessageOwned, On
<1>11. ScriptKnows'
  BY <1>1, <1>4, <1>5, <1>6, StorageTypes DEF ScriptKnows, StorageInv
<1>12. Has(i) /\ Storage = "r2" => i \in Migrated
  BY <1>4 DEF Agrees, Referenced
<1>13. \A j \in Ids \ {i} : j \in bucket' <=> j \in bucket
  BY <1>5
<1> QED
  BY <1>1, <1>2, <1>3, <1>4, <1>5, <1>6, <1>7, <1>8, <1>9, <1>10, <1>11, <1>12, <1>13,
     ScriptSteps

LEMMA StorageFlagBackup ==
  ASSUME StorageInv, OrderInv', FlagBackup
  PROVE  StorageInv'
<1>1. script.at = "flag" /\ UNCHANGED <<images, bucket, channel, lost, byScript>>
  BY DEF FlagBackup
<1>2. PICK i \in Ids : i = script.id
  BY <1>1, ScriptFacts
<1>3. UNCHANGED <<req, nextId, crowded>>
  BY <1>1 DEF byScript
<1>4. /\ Agrees(i) /\ ~Is(i, "uploading")
      /\ objects[i] # NoObject /\ objects[i] \in ObjectType(i)
      /\ Has(i) => images[i].backend = "telegram"
      /\ i \notin crowded => i \notin bucket
  BY <1>1, <1>2, ScriptFacts DEF StorageInv, ScriptKnows
<1>5. script' = Rest /\ objects' = [objects EXCEPT ![i].backup = FALSE]
  BY <1>2 DEF FlagBackup
<1>6. /\ objects'[i] # NoObject /\ objects'[i].message = objects[i].message
      /\ objects'[i].verified = objects[i].verified
      /\ objects'[i].deleted = objects[i].deleted
      /\ objects'[i].error = objects[i].error
      /\ \A j \in Ids \ {i} : objects'[j] = objects[j]
  <2>1. objects'[i] = [objects[i] EXCEPT !.backup = FALSE]
    BY <1>4, <1>5, StorageTypes DEF StorageInv, ObjectType
  <2>2. objects'[i] \in ObjectType(i)
    BY <1>4, <2>1 DEF ObjectType
  <2>3. objects'[i] # NoObject
    BY <2>2, NoObjectIsNone
  <2> QED
    BY <1>4, <1>5, <2>1, <2>3, StorageTypes DEF StorageInv, ObjectType
<1>7. /\ images'[i] = images[i] /\ (Has(i)' <=> Has(i)) /\ (Live(i)' <=> Live(i))
      /\ \A s : Is(i, s)' <=> Is(i, s)
  BY <1>1, SameRow
<1>8. (Gutted(i)' <=> Gutted(i)) /\ (Sent(i)' <=> Sent(i))
  BY <1>1, <1>3, <1>6 DEF Gutted, On, Sent
<1>9. Referenced(i)' /\ Whole(i)'
  BY <1>1, <1>4, <1>6, <1>7, <1>8 DEF Agrees, Referenced, Whole, Live
<1>10. i \notin crowded => BucketOwned(i)' /\ ReferenceOwned(i)'
  BY <1>1, <1>3, <1>4, <1>6, <1>7, <1>8 DEF Agrees, BucketOwned, ReferenceOwned, On, Live
<1>11. ASSUME i \notin crowded, NEW m \in channel' \ lost', m[1] = i
       PROVE  MessageOwned(m, i)'
  <2>1. MessageOwned(m, i)
    BY <1>1, <1>4, <1>11 DEF Agrees
  <2> QED
    BY <1>1, <1>3, <1>4, <1>6, <2>1 DEF MessageOwned, On
<1>12. script'.id \in {i, 0}
  BY <1>5 DEF Rest
<1> QED
  BY <1>1, <1>2, <1>3, <1>4, <1>5, <1>6, <1>7, <1>8, <1>9, <1>10, <1>11, <1>12,
     ScriptRests, ScriptSteps

LEMMA StorageInit ==
  ASSUME Init
  PROVE  StorageInv
<1>1. OrderInv
  BY OrderInit
<1>2. /\ \A q \in Requests : req[q].at = "idle" /\ req[q].op = "none"
      /\ \A i \in Ids : objects[i] = NoObject
      /\ bucket = Migrated /\ channel = {} /\ script = Rest /\ crowded = {}
  BY DEF Init, Idle, Rest
<1>3. PICK n \in 0..MaxId : Migrated = 1..n
  BY BoundsAssumption
<1>4. /\ Migrated \subseteq Ids
      /\ \A i \in Ids : \/ images[i] = NoRow /\ i \notin Migrated
                        \/ /\ Is(i, "active") /\ images[i].backend = "r2"
                           /\ i \in Migrated /\ Has(i)
  <2>1. PICK hash \in [Migrated -> Contents] :
          images = [i \in Ids |->
             IF i \in Migrated THEN [Row(hash[i]) EXCEPT !.status = "active"] ELSE NoRow]
    BY DEF Init
  <2>2. \A c : /\ [Row(c) EXCEPT !.status = "active"].status = "active"
               /\ [Row(c) EXCEPT !.status = "active"].backend = "r2"
    BY DEF Row
  <2>3. \A i \in Ids : i \in Migrated => Is(i, "active") /\ images[i].backend = "r2"
    BY <2>1, <2>2 DEF Is
  <2>4. \A i \in Ids : i \notin Migrated => images[i] = NoRow
    BY <2>1
  <2>5. \A i \in Ids : Is(i, "active") => Has(i)
    BY NoRowIsNone DEF Is, Has
  <2>6. Migrated \subseteq Ids
    BY <1>3, BoundsAssumption DEF Ids
  <2> QED
    BY <2>3, <2>4, <2>5, <2>6
<1>5. Migrated \subseteq Used
  <2>1. Migrated \subseteq Ids /\ \A i \in Migrated : i \in Used
    <3>1. \A i \in Migrated : Has(i)
      BY <1>4
    <3> QED
      BY <1>1, <1>4, <3>1, StorageTypes, RowFacts
  <2> QED
    BY <2>1
<1>6. ASSUME NEW i \in Ids
      PROVE  Agrees(i)
  <2>1. /\ ~Is(i, "uploading") /\ ~Gutted(i) /\ \A q \in Requests : ~On(q, i)
        /\ Has(i) => images[i].backend = "r2" /\ i \in bucket
        /\ i \in bucket => Has(i) /\ images[i].backend = "r2"
    BY <1>2, <1>4, NoRowIsNone DEF Is, Gutted, On, Has
  <2> QED
    BY <1>2, <2>1 DEF Agrees, Referenced, Whole, NoClash, Recorded, BucketOwned,
                      ReferenceOwned, Live
<1>7. ScriptKnows
  BY <1>2 DEF ScriptKnows, Rest
<1> QED
  BY <1>1, <1>5, <1>6, <1>7 DEF StorageInv

LEMMA StorageStutter ==
  ASSUME StorageInv, OrderInv', UNCHANGED vars
  PROVE  StorageInv'
  BY SameRowEdits, EditKeeps DEF vars, files, RequestEdit

LEMMA StorageNext ==
  ASSUME FaultsSettle, StorageInv, [Next]_vars
  PROVE  StorageInv'
<1>1. OrderInv'
  BY OrderNext DEF StorageInv
<1>2. CASE UNCHANGED vars
  BY <1>1, <1>2, StorageStutter
<1>3. ASSUME NEW p \in Requests, Ask(p)
      PROVE  StorageInv'
  <2>1. \/ \E c \in Contents : Create(p, c)
        \/ \E i \in Ids : Put(p, i) \/ Trash(p, i) \/ Patch(p, i) \/ Delete(p, i)
    BY <1>3 DEF Ask
  <2> QED
    BY <1>1, <2>1, StorageCreate, StoragePutTrashPatch, StorageDeleteCleanup
<1>4. ASSUME NEW p \in Requests, Step(p)
      PROVE  StorageInv'
  BY <1>1, <1>4, StorageReactivatePurge, StorageAnswers, StorageInsert, StorageStore,
     StorageCheckpoint, StorageVerify, StorageActivate, StorageDrop, StorageUnsend,
     StorageForget DEF Step
<1>5. ASSUME NEW p \in Requests, CutOff(p) \/ \E i \in Ids : Cleanup(p, i)
      PROVE  StorageInv'
  BY <1>1, <1>5, StorageCutOff, StorageDeleteCleanup
<1>6. ASSUME NEW i \in Ids,
             Restore(i) \/ Share(i) \/ Revoke(i) \/ GrowOld(i) \/ ClaimExpires(i)
      PROVE  StorageInv'
  BY <1>1, <1>6, StorageEdits
<1>7. CASE Script
  BY <1>1, <1>7, StorageScriptMoves, StorageMigrateSend, StorageMigrateInsert,
     StorageMigrateVerify, StorageMigrateSwitch, StorageRemoveBackup, StorageFlagBackup
     DEF Script
<1> QED
  BY <1>2, <1>3, <1>4, <1>5, <1>6, <1>7 DEF Next

LEMMA StorageMeans ==
  ASSUME StorageInv
  PROVE  StorageIsSound
<1>1. DOMAIN images = Ids /\ DOMAIN objects = Ids /\ Used \subseteq Ids
  BY StorageTypes DEF StorageInv
<1>2. ASSUME NEW i \in Ids, Is(i, "active")
      PROVE  \/ Readable(i)
             \/ i \in crowded /\ \E p \in Requests : On(p, i) /\ req[p].at \in {"unsend", "forget"}
  <2>1. images[i] \in RowType /\ Live(i)
    BY <1>2, RowFacts, StorageTypes DEF StorageInv, Live, Is
  <2>2. Agrees(i)
    BY DEF StorageInv
  <2>3. CASE Gutted(i)
    <3>1. PICK p \in Requests : On(p, i) /\ req[p].at \in {"unsend", "forget"}
      BY <2>3 DEF Gutted
    <3>2. req[p].op \in Removals \cup {"put"} /\ req[p].id = i
      BY <3>1, WorkFacts DEF On
    <3>3. i \in crowded
      BY <1>2, <3>1, <3>2 DEF StorageInv, OrderInv, Orderly, On, Is
    <3> QED
      BY <3>1, <3>3
  <2>4. CASE ~Gutted(i)
    <3>1. images[i].backend \in {"r2", "telegram"}
      BY <2>1 DEF RowType
    <3>2. CASE images[i].backend = "r2"
      BY <2>1, <2>2, <2>4, <3>2 DEF Agrees, Whole, Readable
    <3>3. CASE images[i].backend = "telegram"
      BY <2>1, <2>2, <2>4, <3>3 DEF Agrees, Whole, Referenced, Readable, Sent, Live
    <3> QED
      BY <3>1, <3>2, <3>3
  <2> QED
    BY <2>3, <2>4
<1>3. ASSUME NEW i \in bucket \ crowded
      PROVE  Has(i) /\ (images[i].backend = "telegram" => objects[i].backup)
  <2>1. i \in Ids
    BY <1>1, StorageTypes DEF StorageInv, FilesOK
  <2> QED
    BY <1>3, <2>1 DEF StorageInv, Agrees, BucketOwned
<1>4. ASSUME NEW m \in channel \ lost, NEW i, i = m[1], i \notin crowded
      PROVE  \/ objects[i].message = m /\ (objects[i].deleted => objects[i].error)
             \/ \E p \in Requests : m[2] = p /\ On(p, i)
             \/ script.at = "insert" /\ script.id = i
  <2>1. i \in Ids
    BY <1>1, <1>4, StorageTypes DEF StorageInv, FilesOK
  <2>2. MessageOwned(m, i)
    BY <1>4, <2>1 DEF StorageInv, Agrees
  <2> QED
    BY <2>2 DEF MessageOwned
<1>5. ASSUME NEW i \in Ids \ crowded, objects[i] # NoObject, ~objects[i].deleted
      PROVE  Has(i)
  BY <1>5 DEF StorageInv, Agrees, ReferenceOwned
<1>6. ImagesHaveBytes
  BY <1>1, <1>2 DEF ImagesHaveBytes
<1>7. StorageIsOwned
  BY <1>1, <1>3, <1>4, <1>5 DEF StorageIsOwned
<1> QED
  BY <1>6, <1>7 DEF StorageIsSound

(* The images, the bucket and the channel agree, whatever requests, the    *)
(* daily cleanup and the migration script do to one another, and whatever  *)
(* the platform cuts off but a deletion or a cleanup: an image the user is *)
(* shown can be read, and what is stored is known to a row, to a request   *)
(* or to the script.                                                       *)
THEOREM StorageAgrees ==
  ASSUME FaultsSettle
  PROVE  Spec => []StorageIsSound
<1>1. Init => StorageInv
  BY StorageInit
<1>2. StorageInv /\ [Next]_vars => StorageInv'
  BY StorageNext
<1>3. StorageInv => StorageIsSound
  BY StorageMeans
<1> QED
  BY <1>1, <1>2, <1>3, PTL DEF Spec
=============================================================================
