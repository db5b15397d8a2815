------------------------------ MODULE Moderation ------------------------------
(***************************************************************************)
(* The life of a listing in the Catalog service before it is exchanged:    *)
(* owners, moderators and readers work on it side by side.                 *)
(***************************************************************************)
EXTENDS ListingImagesService

CONSTANT MaxRequests   \* how many requests are served in a behaviour

vars == <<listingVars, imagesVars>>

Init == ListingsInit /\ ImagesInit

Begun == {r \in Requests : pc[r] # "idle"}

\* Everybody has been answered.
Idle == /\ \A r \in Requests : pc[r] \in {"idle", "decide"} \cup Ended
        /\ UNCHANGED vars

Next == /\ \/ ListingsStep /\ UNCHANGED imagesVars
           \/ ImagesStep /\ UNCHANGED booked
           \/ Idle
        /\ Cardinality(Begun') <= MaxRequests

Spec == Init /\ [][Next]_vars

-----------------------------------------------------------------------------
\* Every variable has the values the code can give it.
TypeOK ==
  /\ row \in [Listings -> Row]
  /\ pc \in [Requests -> Pcs]
  /\ snap \in [Requests -> Row]
  /\ seen \in [Reviews -> Row] /\ booked \subseteq Listings
  /\ batch \in [Uploads -> BatchSizes \cup {0}]
  /\ uploaded \in [Uploads -> 0 .. MaxImages]
  /\ objects \subseteq Images
  /\ warned \subseteq Requests
  /\ viewing \in [Views -> Images \cup {Nothing}]

Distinct(s) == \A i, j \in DOMAIN s : s[i] = s[j] => i = j

\* A published listing obeys the rules of publication whatever the owner did
\* while the moderator decided: the gate of approve is not passed on stale
\* counts (docs/17, "Gate de moderation").
ApprovedIsPublishable ==
  \A l \in Listings : row[l].status = "APPROVED" =>
    /\ Cardinality(row[l].images) \in MinImages .. MaxImages
    /\ IF row[l].operation = "DONATION" THEN row[l].wishes = <<>>
       ELSE Len(row[l].wishes) \in MinWishes .. MaxWishes /\ Distinct(row[l].wishes)

\* No row names an object that is not in the bucket, however uploads,
\* deletions and their cleanups interleave and fail: cleanups only ever delete
\* what no row names (docs/16, line 149).
ReferencedImagesStored == \A l \in Listings : row[l].images \subseteq objects

\* The objects a request is answerable for: those it uploaded and those of the
\* gallery it removes.
Charge(r) == (IF r \in Uploads THEN Drawn(r) ELSE {}) \cup snap[r].images

\* An object that no row names belongs to a request that is still at work, was
\* cut short, or has logged that its cleanup failed: cleanups forget nothing.
NoSilentOrphan ==
  \A k \in objects :
    \/ \E l \in Listings : k \in row[l].images
    \/ \E r \in Uploads \cup Deletions :
         /\ k \in Charge(r)
         /\ pc[r] \notin {"idle", "done", "failed", "refused", "conflict"} \/ r \in warned

\* What the public reads has been on the screen of a moderator who approved it.
PublicImagesWereReviewed ==
  \A v \in Views : pc[v] = "done" =>
    \E m \in Reviews : /\ ListingOf[m] = ListingOf[v]
                       /\ pc[m] \in {"APPROVED", "unsure"}
                       /\ viewing[v] \in seen[m].images

\* A gallery stays as it is while the listing is on show or booked, though the
\* claim of an upload looks at neither.
GalleryFrozen ==
  [][\A l \in Listings : row[l].status = "APPROVED" \/ row[l].availability # "AVAILABLE"
       => row'[l].images = row[l].images]_vars

-----------------------------------------------------------------------------
\* What the public sees, and the contents moderators have been shown.
Shown == [l \in Listings |-> IF row[l].status = "APPROVED" THEN Content(row[l]) ELSE <<>>]
ReviewedContents ==
  [l \in Listings |-> {Content(seen[m]) : m \in {n \in Reviews : ListingOf[n] = l /\ pc[n] # "idle"}}]

Publishable ==
  {c \in Texts \X ListingOperationType \X Seq(Wishes) \X SUBSET Images :
     /\ Cardinality(c[4]) \in MinImages .. MaxImages
     /\ WishesAllowed(c[2], c[3])}

P == INSTANCE Publication WITH shown <- Shown, reviewed <- ReviewedContents, Private <- <<>>

\* Moderation by revision implements publication after review.
ImplementsPublication == P!Spec
=============================================================================
