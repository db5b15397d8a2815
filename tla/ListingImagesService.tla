------------------------- MODULE ListingImagesService -------------------------
(***************************************************************************)
(* ListingImagesService and ObjectStorageService: the galleries, whose     *)
(* rows are in the Catalog database and whose bytes are objects in a       *)
(* bucket.  A gallery is replaced in four moves (read, upload one object   *)
(* after the other, commit the rows, delete the old objects), each of      *)
(* which can fail or be the last one of the process.                       *)
(***************************************************************************)
EXTENDS ListingsService

CONSTANTS
  KeyOf,       \* the random key of the n-th object of an upload
  BatchSizes,  \* how many files a client may send
  Nothing      \* the image of a reader that has found none

\* randomUUID: no key is drawn twice.
ASSUME KeysAssumption ==
  /\ BatchSizes \subseteq Nat
  /\ KeyOf \in [Uploads \X (1 .. MaxImages) -> Images]
  /\ \A a, b \in Uploads \X (1 .. MaxImages) : KeyOf[a] = KeyOf[b] => a = b
  /\ Nothing \notin Images

VARIABLES
  batch,     \* how many files an upload request came with
  uploaded,  \* how many keys it has drawn
  objects,   \* the keys stored in the bucket
  warned,    \* requests that logged a failed cleanup
  viewing    \* the image a public reader has found

imagesVars == <<batch, uploaded, objects, warned, viewing>>

ImagesInit ==
  /\ batch = [u \in Uploads |-> 0]
  /\ uploaded = [u \in Uploads |-> 0]
  /\ objects = {}
  /\ warned = {}
  /\ viewing = [v \in Views |-> Nothing]

Drawn(u) == {KeyOf[<<u, n>>] : n \in 1 .. uploaded[u]}

\* requireEditableListing does not throw.
Editable(r) ==
  /\ Read(r).status \notin {"ABSENT", "APPROVED"}
  /\ User[r] = Owner[ListingOf[r]]
  /\ Read(r).availability = "AVAILABLE"

StorageFails == "storage" \in Faults

\* bestEffortDelete: a failure, total or partial, is logged and swallowed.
BestEffortDelete(r, keys, next) ==
  /\ Goto(r, next)
  /\ \/ objects' = objects \ keys /\ UNCHANGED warned
     \/ /\ StorageFails /\ keys # {}
        /\ \E some \in SUBSET keys : objects' = objects \ some
        /\ warned' = warned \cup {r}

-----------------------------------------------------------------------------
(* replaceOwnedImages *)

\* The size of the batch, the listing, then every file; HeadBucket may fail.
UploadRead(u) ==
  /\ pc[u] = "idle"
  /\ Keep(u)
  /\ \E size \in BatchSizes :
       /\ batch' = [batch EXCEPT ![u] = size]
       /\ \/ /\ size \in MinImages .. MaxImages /\ Editable(u)
             /\ Goto(u, "put")
          \/ /\ ~(size \in MinImages .. MaxImages /\ Editable(u)) \/ StorageFails
             /\ Goto(u, "refused")
  /\ UNCHANGED <<row, seen, uploaded, objects, warned, viewing>>

\* Variant with a bug: a key is remembered once its PUT has succeeded.
PutThenRemember(u) ==
  /\ pc[u] = "put" /\ uploaded[u] < batch[u]
  /\ LET key == KeyOf[<<u, uploaded[u] + 1>>] IN
     \/ /\ objects' = objects \cup {key}
        /\ uploaded' = [uploaded EXCEPT ![u] = @ + 1]
        /\ Goto(u, IF uploaded[u] + 1 = batch[u] THEN "commit" ELSE "put")
     \/ /\ StorageFails
        /\ objects' \in {objects, objects \cup {key}}
        /\ Goto(u, "undo") /\ UNCHANGED uploaded
  /\ UNCHANGED <<row, snap, seen, batch, warned, viewing>>

\* The key is remembered before the PUT: one that fails may have stored it.
UploadPut(u) ==
  /\ pc[u] = "put" /\ uploaded[u] < batch[u]
  /\ uploaded' = [uploaded EXCEPT ![u] = @ + 1]
  /\ LET key == KeyOf[<<u, uploaded[u] + 1>>] IN
     \/ /\ objects' = objects \cup {key}
        /\ Goto(u, IF uploaded[u] + 1 = batch[u] THEN "commit" ELSE "put")
     \/ /\ StorageFails
        /\ objects' \in {objects, objects \cup {key}}
        /\ Goto(u, "undo")
  /\ UNCHANGED <<row, snap, seen, batch, warned, viewing>>

\* Variant with a bug: the listing is claimed by its id.
ClaimsAnyRevision(u) == User[u] = Owner[ListingOf[u]]

\* The claim of the transaction: same revision, same owner.
ClaimsGallery(u) == Unchanged(u) /\ User[u] = Owner[ListingOf[u]]

\* The claim sets updatedAt to the revision read plus one millisecond, and the
\* update of the rows in the same transaction sets it to the present.
UploadCommit(u) ==
  /\ pc[u] = "commit"
  /\ \/ /\ ClaimsGallery(u)
        /\ \E stamp \in Now(snap[u].updatedAt) :
             Put(ListingOf[u], [Read(u) EXCEPT !.status = "PENDING", !.reason = FALSE,
                                               !.images = Drawn(u), !.updatedAt = stamp])
        /\ Goto(u, "cleanup") \/ ("ackloss" \in Faults /\ Goto(u, "undo"))
     \/ ~ClaimsGallery(u) /\ Goto(u, "undo") /\ UNCHANGED row
     \/ RolledBack(u, "undo")
  /\ UNCHANGED <<snap, seen, imagesVars>>

\* After a failed upload or transaction: every key drawn is deleted.
UploadUndo(u) ==
  /\ pc[u] = "undo"
  /\ BestEffortDelete(u, Drawn(u), "failed")
  /\ UNCHANGED <<row, snap, seen, batch, uploaded, viewing>>

\* Variant with a bug: the gallery of now is deleted, not the one replaced.
CleansCurrent(r) ==
  /\ pc[r] = "cleanup"
  /\ BestEffortDelete(r, Read(r).images, "done")
  /\ UNCHANGED <<row, snap, seen, batch, uploaded, viewing>>

\* The objects of the gallery that was read are deleted last.
Cleanup(r) ==
  /\ pc[r] = "cleanup"
  /\ BestEffortDelete(r, snap[r].images, "done")
  /\ UNCHANGED <<row, snap, seen, batch, uploaded, viewing>>

replaceOwnedImages(u) ==
  UploadRead(u) \/ UploadPut(u) \/ UploadCommit(u) \/ UploadUndo(u) \/ Cleanup(u)

-----------------------------------------------------------------------------
(* deleteOwnedImages *)

DeletionRead(d) ==
  /\ pc[d] = "idle"
  /\ Keep(d)
  /\ Goto(d, IF ~Editable(d) THEN "refused"
             ELSE IF Read(d).images = {} THEN "done" ELSE "commit")
  /\ UNCHANGED <<row, seen, imagesVars>>

ClaimsDeletion(d) ==
  /\ ClaimsGallery(d)
  /\ Read(d).status # "APPROVED" /\ Read(d).availability = "AVAILABLE"

\* One transaction; updatedAt is the revision read plus one millisecond.
DeletionCommit(d) ==
  /\ pc[d] = "commit"
  /\ \/ /\ ClaimsDeletion(d)
        /\ Put(ListingOf[d], [Read(d) EXCEPT !.status = "PENDING", !.reason = FALSE,
                                             !.images = {}, !.updatedAt = snap[d].updatedAt + 1])
        /\ Answered(d, "cleanup")
     \/ ~ClaimsDeletion(d) /\ Goto(d, "conflict") /\ UNCHANGED row
     \/ RolledBack(d, "failed")
  /\ UNCHANGED <<snap, seen, imagesVars>>

deleteOwnedImages(d) == DeletionRead(d) \/ DeletionCommit(d) \/ Cleanup(d)

-----------------------------------------------------------------------------
(* readPublicImage: the row first, the object after it. *)

\* Variant with a bug: any image of the listing is found, approved or not.
FindsAnyImage(v) ==
  /\ pc[v] = "idle"
  /\ \E k \in Read(v).images :
       viewing' = [viewing EXCEPT ![v] = k] /\ Goto(v, "fetch")
  /\ UNCHANGED <<row, snap, seen, batch, uploaded, objects, warned>>

FindImage(v) ==
  /\ pc[v] = "idle"
  /\ Read(v).status = "APPROVED"
  /\ \E k \in Read(v).images :
       viewing' = [viewing EXCEPT ![v] = k] /\ Goto(v, "fetch")
  /\ UNCHANGED <<row, snap, seen, batch, uploaded, objects, warned>>

\* readObject: the bytes, or 503.
FetchObject(v) ==
  /\ pc[v] = "fetch"
  /\ \/ viewing[v] \in objects /\ Goto(v, "done")
     \/ (viewing[v] \notin objects \/ StorageFails) /\ Goto(v, "failed")
  /\ UNCHANGED <<row, snap, seen, imagesVars>>

readPublicImage(v) == FindImage(v) \/ FetchObject(v)

ImagesStep ==
  \/ \E u \in Uploads : replaceOwnedImages(u)
  \/ \E d \in Deletions : deleteOwnedImages(d)
  \/ \E v \in Views : readPublicImage(v)
=============================================================================
