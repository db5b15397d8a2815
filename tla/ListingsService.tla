--------------------------- MODULE ListingsService ---------------------------
(***************************************************************************)
(* ListingsService of the Catalog service: an owner creates and edits      *)
(* listings, a moderator approves or rejects the revision he was shown.    *)
(* An edit and a decision read the row and write it in two statements.     *)
(* updatedAt counts milliseconds; an ordinary write moves it by 2 or more, *)
(* or not at all when two writes share a millisecond ("samems").           *)
(***************************************************************************)
EXTENDS ListingRules

CONSTANTS
  Listings,
  Edits, Reviews,                \* requests, each served once
  Uploads, Deletions, Views,
  ListingOf,                     \* the listing a request is about
  User, Owner,                   \* who sends a request, who owns a listing
  Drafts,                        \* what may be posted to create a listing
  InputOf,                       \* the body of an edit
  Faults,
  MaxStamp                       \* bound: from this revision on nobody books or gives back

FaultKinds == {"samems", "rollback", "ackloss", "storage", "crash"}
Requests == Edits \cup Reviews \cup Uploads \cup Deletions \cup Views
Optional(S) == S \cup {Undefined}

ASSUME RequestsAssumption ==
  /\ Faults \subseteq FaultKinds
  /\ ListingOf \in [Requests -> Listings]
  /\ Edits \cap (Reviews \cup Uploads \cup Deletions \cup Views) = {}
  /\ Reviews \cap (Uploads \cup Deletions \cup Views) = {}
  /\ Uploads \cap (Deletions \cup Views) = {} /\ Deletions \cap Views = {}
  /\ InputOf \in [Edits -> [text : Optional(Texts), operation : Optional(ListingOperationType),
                            wishes : Optional(Seq(Wishes \cup {Blank}))]]
  /\ Drafts \subseteq [text : Texts, operation : ListingOperationType,
                       wishes : Seq(Wishes \cup {Blank})]

VARIABLES
  row,      \* the rows of Listing with their images and trade wishes
  pc,       \* how far a request has come
  snap,     \* the row a request has read
  seen,     \* the row a moderator was shown
  booked    \* the listings that have been RESERVED at some time

listingVars == <<row, pc, snap, seen, booked>>

\* "unsure": the database reported an error that may hide a COMMIT.
Ended == {"done", "APPROVED", "REJECTED", "refused", "conflict", "failed", "unsure", "crashed"}
Pcs == {"idle", "write", "decide", "approve", "reject", "put", "undo", "commit",
        "cleanup", "fetch"} \cup Ended

\* A row that was never inserted.
NoRow == [status |-> "ABSENT", availability |-> "AVAILABLE", operation |-> "TRADE",
          wishes |-> <<>>, images |-> {}, text |-> CHOOSE t \in Texts : TRUE,
          reason |-> FALSE, updatedAt |-> 0]

ListingsInit ==
  /\ row = [l \in Listings |-> NoRow]
  /\ pc = [r \in Requests |-> "idle"]
  /\ snap = [r \in Requests |-> NoRow]
  /\ seen = [m \in Reviews |-> NoRow]
  /\ booked = {}

Goto(r, where) == pc' = [pc EXCEPT ![r] = where]
Read(r) == row[ListingOf[r]]
Keep(r) == snap' = [snap EXCEPT ![r] = Read(r)]
Put(l, new) == row' = [row EXCEPT ![l] = new]

\* The values @updatedAt may give the column after t.
Now(t) == {t + 2} \cup (IF "samems" \in Faults THEN {t} ELSE {})

\* A statement or transaction that commits may still report an error: the
\* acknowledgement of the COMMIT is lost.
Answered(r, next) ==
  Goto(r, next) \/ ("ackloss" \in Faults /\ Goto(r, "unsure"))
RolledBack(r, next) == "rollback" \in Faults /\ Goto(r, next) /\ UNCHANGED row

\* The row a request read is the row it would overwrite.
Unchanged(r) == Read(r).updatedAt = snap[r].updatedAt

-----------------------------------------------------------------------------
(* The owner. *)

\* create: the wishes are validated, then one INSERT.
Create(l) ==
  /\ row[l].status = "ABSENT"
  /\ \E d \in Drafts :
       /\ WishesAllowed(d.operation, d.wishes)
       /\ Put(l, [NoRow EXCEPT !.status = "PENDING", !.text = d.text,
                               !.operation = d.operation, !.updatedAt = 2,
                               !.wishes = normalizeTradeWishes(d.wishes)])
  /\ UNCHANGED <<pc, snap, seen>>

Given(new, old) == IF new = Undefined THEN old ELSE new

\* shouldReplaceWishes and wishesForValidation of updateOwned, on the row read.
ReplacesWishes(e) == InputOf[e].wishes # Undefined \/ InputOf[e].operation # Undefined
NextOperation(e, r) == Given(InputOf[e].operation, r.operation)
NextWishes(e, r) ==
  Given(InputOf[e].wishes, IF NextOperation(e, r) = "DONATION" THEN <<>> ELSE r.wishes)

MayEdit(e, r) ==
  /\ InputOf[e] # [text |-> Undefined, operation |-> Undefined, wishes |-> Undefined]
  /\ r.status \notin {"ABSENT", "APPROVED"}
  /\ User[e] = Owner[ListingOf[e]]
  /\ ReplacesWishes(e) => WishesAllowed(NextOperation(e, r), NextWishes(e, r))

EditRead(e) ==
  /\ pc[e] = "idle"
  /\ Keep(e)
  /\ Goto(e, IF MayEdit(e, Read(e)) THEN "write" ELSE "refused")
  /\ UNCHANGED <<row, seen>>

\* The UPDATE names the row by its id only; fields left out keep the value they
\* have now, the wishes are those computed from what was read.
Edited(e, r, stamp) ==
  [r EXCEPT !.text = Given(InputOf[e].text, @),
            !.operation = Given(InputOf[e].operation, @),
            !.wishes = IF ReplacesWishes(e)
                       THEN normalizeTradeWishes(NextWishes(e, snap[e])) ELSE @,
            !.status = "PENDING", !.reason = FALSE, !.updatedAt = stamp]

EditWrite(e) ==
  /\ pc[e] = "write"
  /\ \/ /\ \E stamp \in Now(Read(e).updatedAt) : Put(ListingOf[e], Edited(e, Read(e), stamp))
        /\ Answered(e, "done")
     \/ RolledBack(e, "failed")
  /\ UNCHANGED <<snap, seen>>

-----------------------------------------------------------------------------
(* The moderator. *)

\* findForModeration: the moderator is shown the listings under review.
findForModeration(m) ==
  /\ pc[m] = "idle"
  /\ Read(m).status = "PENDING"
  /\ seen' = [seen EXCEPT ![m] = Read(m)]
  /\ Goto(m, "decide")
  /\ UNCHANGED <<row, snap>>

\* requirePendingListing, and the revision is the one that was reviewed.
ReviewedRevision(m) ==
  Read(m).status = "PENDING" /\ Read(m).updatedAt = seen[m].updatedAt

\* Variant with a bug: whatever is pending now is approved.
AnyRevision(m, decision) ==
  /\ pc[m] = "decide"
  /\ Keep(m)
  /\ Goto(m, IF Read(m).status = "PENDING" /\ (decision = "approve" => AssetsAllowed(Read(m)))
             THEN decision ELSE "refused")
  /\ UNCHANGED <<row, seen>>

\* The first half of approve and reject; only an approval looks at the assets.
DecisionRead(m, decision) ==
  /\ pc[m] = "decide"
  /\ Keep(m)
  /\ Goto(m, IF ReviewedRevision(m) /\ (decision = "approve" => AssetsAllowed(Read(m)))
             THEN decision ELSE "refused")
  /\ UNCHANGED <<row, seen>>

\* Variant with a bug: the claim looks at the status and not at the revision.
StillPending(m) == Read(m).status = "PENDING"

\* The WHERE clause of the claim.
MayClaim(m) == Read(m).status = "PENDING" /\ Unchanged(m)

\* updateMany: its count decides between the answer and a 409.
DecisionWrite(m, decision, status) ==
  /\ pc[m] = decision
  /\ \/ /\ MayClaim(m)
        /\ \E stamp \in Now(Read(m).updatedAt) :
             Put(ListingOf[m], [Read(m) EXCEPT !.status = status, !.updatedAt = stamp,
                                               !.reason = (status = "REJECTED")])
        /\ Answered(m, status)
     \/ ~MayClaim(m) /\ Goto(m, "conflict") /\ UNCHANGED row
     \/ RolledBack(m, "failed")
  /\ UNCHANGED <<snap, seen>>

approve(m) == DecisionRead(m, "approve") \/ DecisionWrite(m, "approve", "APPROVED")
reject(m) == DecisionRead(m, "reject") \/ DecisionWrite(m, "reject", "REJECTED")

-----------------------------------------------------------------------------
(* The Marketplace service, through the internal API. *)

\* All three move updatedAt as well.
Sets(l, availability) ==
  /\ row[l].updatedAt < MaxStamp
  /\ \E stamp \in Now(row[l].updatedAt) :
       Put(l, [row[l] EXCEPT !.availability = availability, !.updatedAt = stamp])
  /\ UNCHANGED <<pc, snap, seen>>

\* reserve: one conditional update.
Book(l) ==
  /\ row[l].status = "APPROVED" /\ row[l].availability = "AVAILABLE"
  /\ Sets(l, "RESERVED")
  /\ booked' = booked \cup {l}

\* complete and release read the listing and, if it was RESERVED, write it by
\* its id: any number of them may have read it then, and write at any time since.
Complete(l) == l \in booked /\ Sets(l, "COMPLETED") /\ UNCHANGED booked
Release(l) == l \in booked /\ Sets(l, "AVAILABLE") /\ UNCHANGED booked

InternalApi(l) == Book(l) \/ Complete(l) \/ Release(l)

\* The process may die between two steps of a request.
Crash(r) ==
  /\ "crash" \in Faults
  /\ pc[r] \notin {"idle", "decide"} \cup Ended
  /\ Goto(r, "crashed")
  /\ UNCHANGED <<row, snap, seen>>

ListingsStep ==
  \/ \E l \in Listings : InternalApi(l)
  \/ /\ \/ \E l \in Listings : Create(l)
        \/ \E e \in Edits : EditRead(e) \/ EditWrite(e)
        \/ \E m \in Reviews : findForModeration(m) \/ approve(m) \/ reject(m)
        \/ \E r \in Requests : Crash(r)
     /\ UNCHANGED booked
=============================================================================
