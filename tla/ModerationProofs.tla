--------------------------- MODULE ModerationProofs ---------------------------
(***************************************************************************)
(* The safety of the life of a listing, for every number of listings,      *)
(* requests, photos and wishes.                                            *)
(***************************************************************************)
EXTENDS Moderation, FiniteSetTheorems, TLAPS

USE RulesAssumption, RequestsAssumption, KeysAssumption

-----------------------------------------------------------------------------
(* Normalized wishes *)

\* A set of numbers has an n-th element for every n up to its size: ranks are
\* strictly monotone, and there are as many of them as elements.
LEMMA NthIsOne ==
  ASSUME NEW m \in Nat, NEW S \in SUBSET (1 .. m)
  PROVE  /\ IsFiniteSet(S) /\ Cardinality(S) \in Nat
         /\ \A n \in 1 .. Cardinality(S) :
              Nth(S, n) \in S /\ Cardinality({j \in S : j <= Nth(S, n)}) = n
<1> DEFINE UpTo(i) == {j \in S : j <= i}
           Rank == [i \in S |-> Cardinality(UpTo(i))]
<1>1. IsFiniteSet(S) /\ Cardinality(S) \in Nat
  <2>1. IsFiniteSet(1 .. m)
    BY FS_Interval
  <2> QED BY <2>1, FS_Subset, FS_CardinalityType
<1>2. ASSUME NEW i \in S
      PROVE  IsFiniteSet(UpTo(i)) /\ Cardinality(UpTo(i)) \in 1 .. Cardinality(S)
  <2>1. UpTo(i) \in SUBSET S /\ i \in UpTo(i)
    OBVIOUS
  <2>2. IsFiniteSet(UpTo(i)) /\ Cardinality(UpTo(i)) <= Cardinality(S)
    BY <1>1, <2>1, FS_Subset
  <2>3. Cardinality(UpTo(i)) \in Nat /\ Cardinality(UpTo(i)) # 0
    BY <2>1, <2>2, FS_CardinalityType, FS_EmptySet
  <2> QED BY <1>1, <2>2, <2>3
<1>3. ASSUME NEW i \in S, NEW k \in S, i < k PROVE Rank[i] < Rank[k]
  <2>1. UpTo(i) \in SUBSET UpTo(k) /\ k \in UpTo(k) /\ k \notin UpTo(i)
    <3>1. i \in Nat /\ k \in Nat /\ i < k
      BY <1>3
    <3>2. \A j \in S : j \in Nat
      OBVIOUS
    <3>3. \A j \in S : j <= i => j <= k
      BY <3>1, <3>2
    <3>4. ~(k <= i) /\ k <= k
      BY <3>1
    <3> QED BY <3>3, <3>4
  <2>2. Cardinality(UpTo(i)) <= Cardinality(UpTo(k)) /\ Cardinality(UpTo(i)) # Cardinality(UpTo(k))
    BY <1>2, <2>1, FS_Subset
  <2>3. Cardinality(UpTo(i)) \in Nat /\ Cardinality(UpTo(k)) \in Nat
    BY <1>2, FS_CardinalityType
  <2> QED BY <2>2, <2>3
<1>4. \A i \in S : Rank[i] \in 1 .. Cardinality(S)
  BY <1>2
<1> HIDE DEF Rank
<1>5. \A i, k \in S : Rank[i] = Rank[k] => i = k
  <2>1. \A i \in S : Rank[i] \in Int /\ i \in Int
    BY <1>1, <1>4
  <2> QED BY <1>3, <2>1
<1>a. Rank \in [S -> 1 .. Cardinality(S)]
  BY <1>4 DEF Rank
<1>b. Rank \in Injection(S, 1 .. Cardinality(S))
  BY <1>5, <1>a DEF Injection, IsInjective
<1>6. IsFiniteSet(1 .. Cardinality(S)) /\ Cardinality(1 .. Cardinality(S)) = Cardinality(S)
  BY <1>1, FS_Interval
<1>7. Rank \in Surjection(S, 1 .. Cardinality(S))
  <2> HIDE DEF Rank
  <2> QED BY <1>b, <1>6, FS_Injection
<1>8. \A n \in 1 .. Cardinality(S) : \E i \in S : Rank[i] = n
  <2> HIDE DEF Rank
  <2> QED BY <1>7 DEF Surjection
<1>9. ASSUME NEW n \in 1 .. Cardinality(S)
      PROVE  Nth(S, n) \in S /\ Cardinality({j \in S : j <= Nth(S, n)}) = n
  <2>1. \E i \in S : Cardinality({j \in S : j <= i}) = n
    BY <1>8, <1>9, Zenon DEF Rank
  <2> QED BY <2>1, Zenon DEF Nth
<1> QED BY <1>1, <1>9

\* What normalizeTradeWishes returns has no blank and no label twice.
LEMMA NormalizedIsClean ==
  ASSUME NEW raw \in Seq(Wishes \cup {Blank})
  PROVE  normalizeTradeWishes(raw) \in Seq(Wishes) /\ Distinct(normalizeTradeWishes(raw))
<1> DEFINE S == FirstMet(raw)  size == Cardinality(S)
<1>1. Len(raw) \in Nat /\ S \in SUBSET (1 .. Len(raw))
  BY DEF FirstMet
<1>2. size \in Nat
  BY <1>1, NthIsOne
<1>3. \A n \in 1 .. size : Nth(S, n) \in S /\ Cardinality({j \in S : j <= Nth(S, n)}) = n
  BY <1>1, NthIsOne
<1>4. \A i \in S : raw[i] \in Wishes
  BY DEF FirstMet
<1>5. \A i, k \in S : raw[i] = raw[k] => i = k
  <2> SUFFICES ASSUME NEW i \in S, NEW k \in S, i < k PROVE raw[i] # raw[k]
    BY <1>1
  <2>1. i \in 1 .. k - 1
    BY <1>1
  <2> QED BY <2>1 DEF FirstMet
<1>6. normalizeTradeWishes(raw) = [n \in 1 .. size |-> raw[Nth(S, n)]]
  BY DEF normalizeTradeWishes
<1> HIDE DEF S, size
<1>7. normalizeTradeWishes(raw) \in Seq(Wishes)
  <2>1. \A n \in 1 .. size : raw[Nth(S, n)] \in Wishes
    BY <1>3, <1>4
  <2> QED BY <1>2, <1>6, <2>1
<1>8. ASSUME NEW n \in 1 .. size, NEW k \in 1 .. size, raw[Nth(S, n)] = raw[Nth(S, k)]
      PROVE  n = k
  <2>1. Nth(S, n) = Nth(S, k)
    BY <1>3, <1>5, <1>8
  <2> QED BY <1>3, <2>1
<1>9. Distinct(normalizeTradeWishes(raw))
  BY <1>6, <1>8 DEF Distinct
<1> QED BY <1>7, <1>9

\* Of wishes that are clean nothing is dropped.
LEMMA CleanStaysLong ==
  ASSUME NEW w \in Seq(Wishes), Distinct(w)
  PROVE  Len(normalizeTradeWishes(w)) = Len(w)
<1>1. FirstMet(w) = 1 .. Len(w)
  BY DEF FirstMet, Distinct
<1>2. Cardinality(1 .. Len(w)) = Len(w)
  <2>1. Len(w) \in Nat
    OBVIOUS
  <2>2. Cardinality(1 .. Len(w)) = IF 1 > Len(w) THEN 0 ELSE Len(w) - 1 + 1
    BY <2>1, FS_Interval
  <2> QED BY <2>1, <2>2
<1>3. normalizeTradeWishes(w) = [n \in 1 .. Len(w) |-> w[Nth(1 .. Len(w), n)]]
  BY <1>1, <1>2 DEF normalizeTradeWishes
<1> QED BY <1>3

-----------------------------------------------------------------------------
(* The inductive invariant *)

\* No upload has more keys to draw than a gallery may have.
TypeInv == TypeOK /\ \A u \in Uploads : pc[u] = "put" => batch[u] <= MaxImages

\* s is r or an earlier revision of it.
Earlier(s, r) == s.updatedAt <= r.updatedAt /\ (s.updatedAt = r.updatedAt => s = r)

\* What has been read and shown is the row of now or an earlier revision.
ReadsAreEarlier == /\ \A r \in Requests : Earlier(snap[r], Read(r))
                   /\ \A m \in Reviews : Earlier(seen[m], Read(m))

\* What every row satisfies.
Sound(r) == /\ r.status = "ABSENT" => r = NoRow
            /\ Distinct(r.wishes)
            /\ r.status = "APPROVED" => AssetsAllowed(r)
RowsSound == \A l \in Listings : Sound(row[l])

Galleries == Uploads \cup Deletions

\* What a request knows of the row that it read.
EditableRow(r) == r.status \notin {"ABSENT", "APPROVED"} /\ r.availability = "AVAILABLE"
ClaimsSound ==
  /\ \A g \in Galleries : pc[g] \in {"put", "commit"} => EditableRow(snap[g])
  /\ \A m \in Reviews : pc[m] = "approve" => AssetsAllowed(snap[m]) /\ snap[m] = seen[m]

\* Who has been booked has a row.
BookedExist == \A l \in booked : row[l].status # "ABSENT"

RowInv == TypeInv /\ ReadsAreEarlier /\ RowsSound /\ ClaimsSound /\ BookedExist

\* Every image of a row was uploaded for its listing.
DrawnFor(l) == UNION {Drawn(u) : u \in {w \in Uploads : ListingOf[w] = l}}
ImagesAreDrawn == /\ \A l \in Listings : row[l].images \subseteq DrawnFor(l)
                  /\ \A g \in Galleries : snap[g].images \subseteq DrawnFor(ListingOf[g])

\* The objects of an upload that has not been committed are nobody else's.
Uncommitted(u) == pc[u] \in {"put", "commit", "undo"}
UploadsApart ==
  /\ \A u \in Uploads : pc[u] = "idle" => uploaded[u] = 0
  /\ \A u \in Uploads : pc[u] \in {"put", "commit"} => Drawn(u) \subseteq objects
  /\ \A u \in Uploads : Uncommitted(u) =>
       /\ \A l \in Listings : Drawn(u) \cap row[l].images = {}
       /\ \A g \in Galleries : Drawn(u) \cap snap[g].images = {}

\* A cleanup deletes what no row names.
CleanupsSafe == \A g \in Galleries : pc[g] = "cleanup" =>
                  \A l \in Listings : snap[g].images \cap row[l].images = {}

\* Who answers for an object that no row names.
Answers(g, k) ==
  \/ g \in Uploads /\ k \in Drawn(g) /\ pc[g] \in {"put", "commit", "undo", "crashed"}
  \/ k \in snap[g].images /\ pc[g] \in {"cleanup", "crashed"}
  \/ k \in Charge(g) /\ g \in warned
ObjectsAnswered ==
  /\ \A k \in objects : \/ \E l \in Listings : k \in row[l].images
                        \/ \E g \in Galleries : Answers(g, k)
  /\ \A g \in warned : g \in Galleries /\ pc[g] \in {"done", "failed"}

GalleryInv == ImagesAreDrawn /\ UploadsApart /\ CleanupsSafe /\ ReferencedImagesStored
              /\ ObjectsAnswered

\* What is on show, and what was found there, has been approved as it is.
ReviewInv ==
  /\ \A l \in Listings : row[l].status = "APPROVED" =>
       \E m \in Reviews : /\ ListingOf[m] = l /\ pc[m] = "APPROVED"
                          /\ Content(row[l]) = Content(seen[m])
  /\ \A v \in Views : pc[v] \in {"fetch", "done"} =>
       \E m \in Reviews : /\ ListingOf[m] = ListingOf[v] /\ pc[m] = "APPROVED"
                          /\ viewing[v] \in seen[m].images

\* Faults under which the revisions cannot tell what happened: two writes in
\* one millisecond, a COMMIT that was not acknowledged.
Ordinary == "samems" \notin Faults /\ "ackloss" \notin Faults

-----------------------------------------------------------------------------
(* Types *)

LEMMA NoRowIsRow ==
  /\ NoRow \in Row /\ Distinct(NoRow.wishes) /\ NoRow.status = "ABSENT"
  /\ NoRow.availability = "AVAILABLE" /\ NoRow.images = {} /\ NoRow.updatedAt = 0
<1>1. (CHOOSE t \in Texts : TRUE) \in Texts
  BY Zenon
<1> QED BY <1>1 DEF NoRow, Row, Distinct, ListingOperationType

LEMMA RowFields ==
  ASSUME NEW r \in Row
  PROVE  /\ r.status \in {"ABSENT", "PENDING", "APPROVED", "REJECTED"}
         /\ r.availability \in {"AVAILABLE", "RESERVED", "COMPLETED"}
         /\ r.operation \in ListingOperationType /\ r.wishes \in Seq(Wishes)
         /\ r.images \in SUBSET Images /\ r.text \in Texts /\ r.updatedAt \in Nat
BY DEF Row

LEMMA KindsOfRequests ==
  /\ Edits \subseteq Requests /\ Reviews \subseteq Requests /\ Uploads \subseteq Requests
  /\ Deletions \subseteq Requests /\ Views \subseteq Requests /\ Galleries \subseteq Requests
BY DEF Requests, Galleries

LEMMA NowIsNat == ASSUME NEW t \in Nat, NEW n \in Now(t) PROVE n \in Nat
BY DEF Now

\* The row that an edit writes.
LEMMA EditedIsRow ==
  ASSUME TypeOK, NEW e \in Edits, NEW r \in Row, NEW stamp \in Nat
  PROVE  /\ Edited(e, r, stamp) \in Row
         /\ Distinct(r.wishes) => Distinct(Edited(e, r, stamp).wishes)
         /\ Edited(e, r, stamp).images = r.images /\ Edited(e, r, stamp).status = "PENDING"
         /\ Edited(e, r, stamp).updatedAt = stamp
<1>1. /\ InputOf[e].text \in Texts \cup {Undefined}
      /\ InputOf[e].operation \in ListingOperationType \cup {Undefined}
      /\ InputOf[e].wishes \in Seq(Wishes \cup {Blank}) \cup {Undefined}
  BY DEF Optional
<1>2. snap[e] \in Row
  BY KindsOfRequests DEF TypeOK
<1>3. /\ Given(InputOf[e].text, r.text) \in Texts
      /\ Given(InputOf[e].operation, r.operation) \in ListingOperationType
  BY <1>1, RowFields DEF Given
<1>4. NextWishes(e, snap[e]) \in Seq(Wishes \cup {Blank})
  <2>1. <<>> \in Seq(Wishes \cup {Blank})
    OBVIOUS
  <2>2. snap[e].wishes \in Seq(Wishes \cup {Blank})
    BY <1>2, RowFields
  <2> QED BY <1>1, <2>1, <2>2 DEF NextWishes, Given
<1> DEFINE written == IF ReplacesWishes(e) THEN normalizeTradeWishes(NextWishes(e, snap[e])) ELSE r.wishes
<1>5. written \in Seq(Wishes) /\ (Distinct(r.wishes) => Distinct(written))
  BY <1>4, NormalizedIsClean, RowFields
<1>6. Edited(e, r, stamp) =
        [r EXCEPT !.text = Given(InputOf[e].text, r.text),
                  !.operation = Given(InputOf[e].operation, r.operation),
                  !.wishes = written,
                  !.status = "PENDING", !.reason = FALSE, !.updatedAt = stamp]
  BY DEF Edited
<1> HIDE DEF written
<1> QED BY <1>3, <1>5, <1>6 DEF Row

\* The row that a new listing starts with.
DraftRow(d) == [NoRow EXCEPT !.status = "PENDING", !.text = d.text, !.operation = d.operation,
                             !.updatedAt = 2, !.wishes = normalizeTradeWishes(d.wishes)]
LEMMA DraftIsRow ==
  ASSUME NEW d \in Drafts
  PROVE  /\ DraftRow(d) \in Row /\ Distinct(DraftRow(d).wishes)
         /\ DraftRow(d).status = "PENDING" /\ DraftRow(d).updatedAt = 2
         /\ DraftRow(d).images = {}
<1>1. d.text \in Texts /\ d.operation \in ListingOperationType /\ d.wishes \in Seq(Wishes \cup {Blank})
  OBVIOUS
<1>2. /\ normalizeTradeWishes(d.wishes) \in Seq(Wishes)
      /\ Distinct(normalizeTradeWishes(d.wishes))
  BY <1>1, NormalizedIsClean
<1>3. NoRow \in Row /\ NoRow.images = {}
  BY NoRowIsRow DEF NoRow
<1> QED BY <1>1, <1>2, <1>3 DEF DraftRow, Row

\* Putting a row and moving a request keeps the types of the service.
LEMMA PutTypes ==
  ASSUME row \in [Listings -> Row], NEW l \in Listings, NEW new \in Row, Put(l, new)
  PROVE  row' \in [Listings -> Row]
BY DEF Put

LEMMA GotoTypes ==
  ASSUME pc \in [Requests -> Pcs], NEW r \in Requests, NEW where \in Pcs, Goto(r, where)
  PROVE  /\ pc' \in [Requests -> Pcs] /\ pc'[r] = where
         /\ \A q \in Requests : q # r => pc'[q] = pc[q]
BY DEF Goto

LEMMA KeepTypes ==
  ASSUME snap \in [Requests -> Row], row \in [Listings -> Row], NEW r \in Requests, Keep(r)
  PROVE  /\ snap' \in [Requests -> Row] /\ snap'[r] = Read(r)
         /\ \A q \in Requests : q # r => snap'[q] = snap[q]
BY DEF Keep, Read

\* The steps that change nothing but pc, snap and the row of one listing.
ServiceTypes == row \in [Listings -> Row] /\ pc \in [Requests -> Pcs]
                /\ snap \in [Requests -> Row] /\ seen \in [Reviews -> Row]

LEMMA OwnerTypes ==
  ASSUME TypeInv, booked' \subseteq Listings, UNCHANGED imagesVars,
         \/ \E l \in Listings : Create(l) \/ InternalApi(l)
         \/ \E e \in Edits : EditRead(e) \/ EditWrite(e)
  PROVE  TypeInv'
<1> USE DEF TypeInv, TypeOK
<1>1. ServiceTypes' /\ \A u \in Uploads : pc'[u] = "put" => pc[u] = "put"
  <2>1. ASSUME NEW l \in Listings, Create(l) PROVE ServiceTypes'
    <3>1. PICK d \in Drafts : Put(l, DraftRow(d))
      BY <2>1 DEF Create, DraftRow
    <3> QED BY <2>1, <3>1, DraftIsRow, PutTypes DEF Create, ServiceTypes
  <2>2. ASSUME NEW l \in Listings, InternalApi(l) PROVE ServiceTypes'
    <3>1. PICK stamp \in Now(row[l].updatedAt), a \in {"RESERVED", "COMPLETED", "AVAILABLE"} :
            Put(l, [row[l] EXCEPT !.availability = a, !.updatedAt = stamp])
      BY <2>2 DEF InternalApi, Book, Complete, Release, Sets
    <3>2. row[l] \in Row /\ stamp \in Nat
      BY RowFields, NowIsNat
    <3>3. [row[l] EXCEPT !.availability = a, !.updatedAt = stamp] \in Row
      BY <3>2 DEF Row
    <3> QED BY <2>2, <3>1, <3>3, PutTypes DEF InternalApi, Book, Complete, Release, Sets, ServiceTypes
  <2>3. ASSUME NEW e \in Edits, EditRead(e)
        PROVE  ServiceTypes' /\ \A u \in Uploads : pc'[u] = pc[u]
    <3>1. PICK next \in {"write", "refused"} : Goto(e, next)
      BY <2>3 DEF EditRead
    <3>2. next \in Pcs /\ e \in Requests
      BY KindsOfRequests DEF Pcs, Ended
    <3> QED BY <2>3, <3>1, <3>2, GotoTypes, KeepTypes, KindsOfRequests DEF EditRead, ServiceTypes
  <2>4. ASSUME NEW e \in Edits, EditWrite(e)
        PROVE  ServiceTypes' /\ \A u \in Uploads : pc'[u] = pc[u]
    <3>1. PICK next \in {"done", "unsure", "failed"} : Goto(e, next)
      BY <2>4 DEF EditWrite, Answered, RolledBack
    <3>2. next \in Pcs /\ e \in Requests /\ ListingOf[e] \in Listings
      BY KindsOfRequests DEF Pcs, Ended
    <3>3. row' \in [Listings -> Row]
      <4>1. CASE UNCHANGED row
        BY <4>1
      <4>2. CASE \E stamp \in Now(Read(e).updatedAt) : Put(ListingOf[e], Edited(e, Read(e), stamp))
        <5>1. PICK stamp \in Now(Read(e).updatedAt) : Put(ListingOf[e], Edited(e, Read(e), stamp))
          BY <4>2
        <5>2. Read(e) \in Row /\ stamp \in Nat
          BY <3>2, RowFields, NowIsNat DEF Read
        <5> QED BY <3>2, <5>1, <5>2, EditedIsRow, PutTypes
      <4> QED BY <2>4, <4>1, <4>2 DEF EditWrite, RolledBack
    <3> QED BY <2>4, <3>1, <3>2, <3>3, GotoTypes, KindsOfRequests DEF EditWrite, ServiceTypes
  <2> QED BY <2>1, <2>2, <2>3, <2>4 DEF Create, InternalApi, Book, Complete, Release, Sets
<1> QED BY <1>1 DEF ServiceTypes, imagesVars

LEMMA ModeratorTypes ==
  ASSUME TypeInv, booked' \subseteq Listings, UNCHANGED imagesVars,
         \/ \E m \in Reviews : findForModeration(m) \/ approve(m) \/ reject(m)
         \/ \E r \in Requests : Crash(r)
  PROVE  TypeInv'
<1> USE DEF TypeInv, TypeOK
<1>1. ServiceTypes' /\ \A u \in Uploads : pc'[u] = "put" => pc[u] = "put"
  <2>1. ASSUME NEW m \in Reviews, findForModeration(m)
        PROVE  ServiceTypes' /\ \A u \in Uploads : pc'[u] = pc[u]
    <3>1. "decide" \in Pcs /\ m \in Requests /\ Read(m) \in Row
      BY KindsOfRequests DEF Pcs, Read
    <3> QED BY <2>1, <3>1, GotoTypes, KindsOfRequests DEF findForModeration, ServiceTypes
  <2>2. ASSUME NEW m \in Reviews, NEW decision \in {"approve", "reject"}, DecisionRead(m, decision)
        PROVE  ServiceTypes' /\ \A u \in Uploads : pc'[u] = pc[u]
    <3>1. PICK next \in {decision, "refused"} : Goto(m, next)
      BY <2>2 DEF DecisionRead
    <3>2. next \in Pcs /\ m \in Requests
      BY KindsOfRequests DEF Pcs, Ended
    <3> QED BY <2>2, <3>1, <3>2, GotoTypes, KeepTypes, KindsOfRequests DEF DecisionRead, ServiceTypes
  <2>3. ASSUME NEW m \in Reviews, NEW decision \in {"approve", "reject"},
               NEW status \in {"APPROVED", "REJECTED"}, DecisionWrite(m, decision, status)
        PROVE  ServiceTypes' /\ \A u \in Uploads : pc'[u] = pc[u]
    <3>1. PICK next \in {status, "unsure", "conflict", "failed"} : Goto(m, next)
      BY <2>3 DEF DecisionWrite, Answered, RolledBack
    <3>2. next \in Pcs /\ m \in Requests /\ ListingOf[m] \in Listings
      BY KindsOfRequests DEF Pcs, Ended
    <3>3. row' \in [Listings -> Row]
      <4>1. CASE UNCHANGED row
        BY <4>1
      <4>2. CASE \E stamp \in Now(Read(m).updatedAt) :
                   Put(ListingOf[m], [Read(m) EXCEPT !.status = status, !.updatedAt = stamp,
                                                     !.reason = (status = "REJECTED")])
        <5>1. PICK stamp \in Now(Read(m).updatedAt) :
                   Put(ListingOf[m], [Read(m) EXCEPT !.status = status, !.updatedAt = stamp,
                                                     !.reason = (status = "REJECTED")])
          BY <4>2
        <5>2. Read(m) \in Row /\ stamp \in Nat
          BY <3>2, RowFields, NowIsNat DEF Read
        <5>3. [Read(m) EXCEPT !.status = status, !.updatedAt = stamp,
                              !.reason = (status = "REJECTED")] \in Row
          BY <5>2 DEF Row
        <5> QED BY <3>2, <5>1, <5>3, PutTypes
      <4> QED BY <2>3, <4>1, <4>2 DEF DecisionWrite, RolledBack
    <3>4. UNCHANGED <<snap, seen>>
      BY <2>3 DEF DecisionWrite
    <3> QED BY <3>1, <3>2, <3>3, <3>4, GotoTypes, KindsOfRequests DEF ServiceTypes
  <2>4. ASSUME NEW r \in Requests, Crash(r)
        PROVE  ServiceTypes' /\ \A u \in Uploads : pc'[u] = "put" => pc[u] = "put"
    <3>1. "crashed" \in Pcs
      BY DEF Pcs, Ended
    <3> QED BY <2>4, <3>1, GotoTypes, KindsOfRequests DEF Crash, ServiceTypes
  <2> QED BY <2>1, <2>2, <2>3, <2>4 DEF approve, reject
<1> QED BY <1>1 DEF ServiceTypes, imagesVars

\* Every key drawn is one.
LEMMA DrawnAreImages ==
  ASSUME TypeOK, NEW u \in Uploads
  PROVE  /\ Drawn(u) \in SUBSET Images
         /\ \A n \in 1 .. uploaded[u] : <<u, n>> \in Uploads \X (1 .. MaxImages)
<1>1. uploaded[u] \in 0 .. MaxImages
  BY DEF TypeOK
<1>2. \A n \in 1 .. uploaded[u] : n \in 1 .. MaxImages
  BY <1>1
<1>3. \A n \in 1 .. uploaded[u] : <<u, n>> \in Uploads \X (1 .. MaxImages)
  BY <1>2
<1>4. \A n \in 1 .. uploaded[u] : KeyOf[<<u, n>>] \in Images
  BY <1>3
<1>5. \A k \in Drawn(u) : k \in Images
  <2> SUFFICES ASSUME NEW k \in Drawn(u) PROVE k \in Images
    OBVIOUS
  <2>1. PICK n \in 1 .. uploaded[u] : k = KeyOf[<<u, n>>]
    BY Zenon DEF Drawn
  <2> QED BY <1>4, <2>1
<1> QED BY <1>3, <1>5

\* The steps of uploads, deletions and readers.
LEMMA UploadTypes ==
  ASSUME TypeInv, booked' \subseteq Listings, NEW u \in Uploads, replaceOwnedImages(u)
  PROVE  TypeInv'
<1> USE DEF TypeInv, TypeOK
<1>0. u \in Requests /\ ListingOf[u] \in Listings /\ Read(u) \in Row
  BY KindsOfRequests DEF Read
<1>1. CASE UploadRead(u)
  <2>1. PICK size \in BatchSizes, next \in {"put", "refused"} :
          /\ batch' = [batch EXCEPT ![u] = size] /\ Goto(u, next)
          /\ next = "put" => size \in MinImages .. MaxImages
    BY <1>1 DEF UploadRead
  <2>2. next \in Pcs
    BY DEF Pcs, Ended
  <2>3. \A w \in Uploads : pc'[w] = "put" => batch'[w] <= MaxImages
    BY <1>0, <2>1, <2>2, GotoTypes, KindsOfRequests
  <2>4. UNCHANGED <<row, seen, uploaded, objects, warned, viewing>> /\ Keep(u)
    BY <1>1 DEF UploadRead
  <2> QED BY <1>0, <2>1, <2>2, <2>3, <2>4, GotoTypes, KeepTypes
<1>2. CASE UploadPut(u)
  <2>1. PICK next \in {"put", "commit", "undo"} : Goto(u, next)
    BY <1>2 DEF UploadPut
  <2>2. next \in Pcs
    BY DEF Pcs
  <2>3. /\ uploaded[u] + 1 \in 1 .. MaxImages /\ uploaded' = [uploaded EXCEPT ![u] = @ + 1]
        /\ UNCHANGED <<row, snap, seen, batch, warned, viewing>> /\ pc[u] = "put"
    <3>1. pc[u] = "put" /\ uploaded[u] < batch[u]
      BY <1>2 DEF UploadPut
    <3>2. batch[u] \in Nat /\ uploaded[u] \in Nat /\ batch[u] <= MaxImages
      <4>1. batch[u] \in BatchSizes \cup {0} /\ uploaded[u] \in 0 .. MaxImages
        OBVIOUS
      <4>2. batch[u] <= MaxImages
        BY <3>1
      <4>3. batch[u] \in Nat
        <5>1. \A b \in BatchSizes \cup {0} : b \in Nat
          OBVIOUS
        <5> QED BY <4>1, <5>1
      <4>4. uploaded[u] \in Nat
        BY <4>1
      <4> QED BY <4>2, <4>3, <4>4
    <3>3. uploaded[u] + 1 \in 1 .. MaxImages
      BY <3>1, <3>2
    <3> QED BY <1>2, <3>1, <3>3 DEF UploadPut
  <2>4. KeyOf[<<u, uploaded[u] + 1>>] \in Images
    BY <2>3
  <2>5. objects' \subseteq Images
    BY <1>2, <2>4 DEF UploadPut
  <2>6. \A w \in Uploads : pc'[w] = "put" => pc[w] = "put"
    BY <1>0, <2>1, <2>2, <2>3, GotoTypes, KindsOfRequests
  <2> QED BY <1>0, <2>1, <2>2, <2>3, <2>5, <2>6, GotoTypes
<1>3. CASE UploadCommit(u)
  <2>1. PICK next \in {"cleanup", "undo"} : Goto(u, next)
    BY <1>3 DEF UploadCommit, RolledBack
  <2>2. next \in Pcs
    BY DEF Pcs
  <2>3. \A w \in Uploads : pc'[w] = "put" => pc[w] = "put"
    BY <1>0, <2>1, <2>2, GotoTypes, KindsOfRequests
  <2>4. row' \in [Listings -> Row]
    <3>1. CASE UNCHANGED row
      BY <3>1
    <3>2. ASSUME NEW stamp \in Now(snap[u].updatedAt),
                 Put(ListingOf[u], [Read(u) EXCEPT !.status = "PENDING", !.reason = FALSE,
                                                   !.images = Drawn(u), !.updatedAt = stamp])
          PROVE  row' \in [Listings -> Row]
      <4>1. stamp \in Nat
        BY <1>0, RowFields, NowIsNat
      <4>2. Drawn(u) \in SUBSET Images
        BY DrawnAreImages
      <4>3. [Read(u) EXCEPT !.status = "PENDING", !.reason = FALSE,
                            !.images = Drawn(u), !.updatedAt = stamp] \in Row
        BY <1>0, <4>1, <4>2 DEF Row
      <4> QED BY <1>0, <3>2, <4>3, PutTypes
    <3> QED BY <1>3, <3>1, <3>2 DEF UploadCommit, RolledBack
  <2>5. UNCHANGED <<snap, seen, imagesVars>>
    BY <1>3 DEF UploadCommit
  <2> QED BY <1>0, <2>1, <2>2, <2>3, <2>4, <2>5, GotoTypes DEF imagesVars
<1>4. CASE UploadUndo(u) \/ Cleanup(u)
  <2>1. PICK next \in {"failed", "done"} : Goto(u, next)
    BY <1>4 DEF UploadUndo, Cleanup, BestEffortDelete
  <2>2. next \in Pcs
    BY DEF Pcs, Ended
  <2>3. \A w \in Uploads : pc'[w] = "put" => pc[w] = "put"
    BY <1>0, <2>1, <2>2, GotoTypes, KindsOfRequests
  <2>4. UNCHANGED <<row, snap, seen, batch, uploaded, viewing>>
    BY <1>4 DEF UploadUndo, Cleanup
  <2>5. objects' \subseteq objects /\ warned' \subseteq warned \cup {u}
    BY <1>4 DEF UploadUndo, Cleanup, BestEffortDelete
  <2> QED BY <1>0, <2>1, <2>2, <2>3, <2>4, <2>5, GotoTypes
<1> QED BY <1>1, <1>2, <1>3, <1>4 DEF replaceOwnedImages

LEMMA DeletionTypes ==
  ASSUME TypeInv, booked' \subseteq Listings, NEW d \in Deletions, deleteOwnedImages(d)
  PROVE  TypeInv'
<1> USE DEF TypeInv, TypeOK
<1>0. d \in Requests /\ ListingOf[d] \in Listings /\ Read(d) \in Row
  BY KindsOfRequests DEF Read
<1>1. PICK next \in {"refused", "done", "commit", "cleanup", "unsure", "conflict", "failed"} : Goto(d, next)
  BY DEF deleteOwnedImages, DeletionRead, DeletionCommit, Cleanup, BestEffortDelete, Answered, RolledBack
<1>2. next \in Pcs
  BY DEF Pcs, Ended
<1>3. \A w \in Uploads : pc'[w] = pc[w]
  BY <1>0, <1>1, <1>2, GotoTypes, KindsOfRequests
<1>4. pc' \in [Requests -> Pcs]
  BY <1>0, <1>1, <1>2, GotoTypes
<1>5. CASE DeletionRead(d)
  BY <1>0, <1>3, <1>4, <1>5, KeepTypes DEF DeletionRead, imagesVars
<1>6. CASE DeletionCommit(d)
  <2>1. row' \in [Listings -> Row]
    <3>1. CASE UNCHANGED row
      BY <3>1
    <3>2. CASE Put(ListingOf[d], [Read(d) EXCEPT !.status = "PENDING", !.reason = FALSE,
                                    !.images = {}, !.updatedAt = snap[d].updatedAt + 1])
      <4>1. snap[d].updatedAt + 1 \in Nat
        BY <1>0, RowFields
      <4>2. [Read(d) EXCEPT !.status = "PENDING", !.reason = FALSE,
               !.images = {}, !.updatedAt = snap[d].updatedAt + 1] \in Row
        BY <1>0, <4>1 DEF Row
      <4> QED BY <1>0, <3>2, <4>2, PutTypes
    <3> QED BY <1>6, <3>1, <3>2 DEF DeletionCommit, RolledBack
  <2>2. UNCHANGED <<snap, seen, imagesVars>>
    BY <1>6 DEF DeletionCommit
  <2> QED BY <1>3, <1>4, <2>1, <2>2 DEF imagesVars
<1>7. CASE Cleanup(d)
  <2>1. UNCHANGED <<row, snap, seen, batch, uploaded, viewing>>
    BY <1>7 DEF Cleanup
  <2>2. objects' \subseteq objects /\ warned' \subseteq warned \cup {d}
    BY <1>7 DEF Cleanup, BestEffortDelete
  <2> QED BY <1>0, <1>3, <1>4, <2>1, <2>2
<1> QED BY <1>5, <1>6, <1>7 DEF deleteOwnedImages

LEMMA ViewTypes ==
  ASSUME TypeInv, booked' \subseteq Listings, NEW v \in Views, readPublicImage(v)
  PROVE  TypeInv'
<1> USE DEF TypeInv, TypeOK
<1>0. v \in Requests /\ Read(v) \in Row
  BY KindsOfRequests DEF Read
<1>1. PICK next \in {"fetch", "done", "failed"} : Goto(v, next)
  BY DEF readPublicImage, FindImage, FetchObject
<1>2. next \in Pcs
  BY DEF Pcs, Ended
<1>3. \A w \in Uploads : pc'[w] = pc[w]
  BY <1>0, <1>1, <1>2, GotoTypes, KindsOfRequests
<1>4. pc' \in [Requests -> Pcs]
  BY <1>0, <1>1, <1>2, GotoTypes
<1>5. viewing' \in [Views -> Images \cup {Nothing}]
  BY <1>0, RowFields DEF readPublicImage, FindImage, FetchObject, imagesVars
<1>6. UNCHANGED <<row, snap, seen, batch, uploaded, objects, warned>>
  BY DEF readPublicImage, FindImage, FetchObject, imagesVars
<1> QED BY <1>3, <1>4, <1>5, <1>6

LEMMA TypeStep == ASSUME TypeInv, [Next]_vars PROVE TypeInv'
<1>0. booked' \subseteq Listings
  BY DEF Next, ListingsStep, InternalApi, Book, Complete, Release, Idle, vars, listingVars, TypeInv, TypeOK
<1>1. CASE ListingsStep /\ UNCHANGED imagesVars
  BY <1>0, <1>1, OwnerTypes, ModeratorTypes DEF ListingsStep
<1>2. CASE ImagesStep
  BY <1>0, <1>2, UploadTypes, DeletionTypes, ViewTypes DEF ImagesStep
<1>3. CASE UNCHANGED vars
  BY <1>3 DEF vars, listingVars, imagesVars, TypeInv, TypeOK
<1> QED BY <1>1, <1>2, <1>3 DEF Next, Idle

LEMMA TypeInit == Init => TypeInv
BY NoRowIsRow, KindsOfRequests DEF Init, ListingsInit, ImagesInit, TypeInv, TypeOK, Pcs

\* Rows, requests and objects keep their types under every fault.
THEOREM TypeCorrect == Spec => []TypeOK
<1>1. TypeInv => TypeOK
  BY DEF TypeInv
<1> QED BY <1>1, TypeInit, TypeStep, PTL DEF Spec

-----------------------------------------------------------------------------
(* Revisions *)

LEMMA NowIsLater ==
  ASSUME Ordinary, NEW t \in Nat, NEW stamp \in Now(t)
  PROVE  stamp \in Nat /\ stamp > t
BY DEF Now, Ordinary

\* A row that is still at the revision that was read is the row that was read.
LEMMA SameRevision ==
  ASSUME RowInv, NEW r \in Requests, Unchanged(r)
  PROVE  Read(r) = snap[r]
BY DEF RowInv, ReadsAreEarlier, Earlier, Unchanged

LEMMA SameContent ==
  ASSUME NEW r, NEW s, Content(r) = Content(s)
  PROVE  /\ r.wishes = s.wishes /\ r.operation = s.operation /\ r.images = s.images
         /\ AssetsAllowed(r) <=> AssetsAllowed(s)
BY DEF Content, AssetsAllowed

\* What a write may do to a row: it is a later revision, and sound.
Later(l) == row'[l] = row[l] \/ (row'[l].updatedAt > row[l].updatedAt /\ Sound(row'[l]))

\* The gallery stays, and nothing new is put on show.
Quiet(l) == row'[l].images = row[l].images
            /\ (row'[l].status = "APPROVED" =>
                  row[l].status = "APPROVED" /\ Content(row'[l]) = Content(row[l]))

LEMMA PutLater ==
  ASSUME row \in [Listings -> Row], NEW l \in Listings, NEW new, Put(l, new),
         new.updatedAt > row[l].updatedAt, Sound(new)
  PROVE  row'[l] = new /\ \A k \in Listings : Later(k) /\ (k # l => row'[k] = row[k])
BY DEF Put, Later

LEMMA CreateRows ==
  ASSUME RowInv, NEW l \in Listings, Create(l)
  PROVE  \A k \in Listings : Later(k) /\ Quiet(k)
<1>1. PICK d \in Drafts : Put(l, DraftRow(d))
  BY DEF Create, DraftRow
<1>2. row[l].updatedAt = 0 /\ row[l].images = {}
  BY NoRowIsRow DEF Create, RowInv, RowsSound, Sound
<1>3. DraftRow(d).updatedAt > row[l].updatedAt /\ Sound(DraftRow(d))
  BY <1>2, DraftIsRow DEF Sound
<1>4. row \in [Listings -> Row]
  BY DEF RowInv, TypeInv, TypeOK
<1>5. row'[l] = DraftRow(d) /\ \A k \in Listings : Later(k) /\ (k # l => row'[k] = row[k])
  BY <1>1, <1>3, <1>4, PutLater
<1>6. row'[l].images = {} /\ row'[l].status = "PENDING"
  BY <1>5, DraftIsRow
<1>7. Quiet(l)
  BY <1>2, <1>6 DEF Quiet
<1> QED BY <1>5, <1>7 DEF Quiet

LEMMA BookRows ==
  ASSUME RowInv, Ordinary, NEW l \in Listings, InternalApi(l)
  PROVE  \A k \in Listings : Later(k) /\ Quiet(k)
<1>1. row \in [Listings -> Row] /\ row[l] \in Row
  BY DEF RowInv, TypeInv, TypeOK
<1>2. PICK stamp \in Now(row[l].updatedAt), a \in {"RESERVED", "COMPLETED", "AVAILABLE"} :
        Put(l, [row[l] EXCEPT !.availability = a, !.updatedAt = stamp])
  BY DEF InternalApi, Book, Complete, Release, Sets
<1> DEFINE new == [row[l] EXCEPT !.availability = a, !.updatedAt = stamp]
<1>3. /\ new.updatedAt = stamp /\ new.status = row[l].status /\ new.images = row[l].images
      /\ Content(new) = Content(row[l]) /\ new.wishes = row[l].wishes
  BY <1>1 DEF Row, Content
<1>4. stamp > row[l].updatedAt
  BY <1>1, NowIsLater, RowFields
<1>5. row[l].status # "ABSENT"
  BY DEF InternalApi, Book, Complete, Release, RowInv, BookedExist
<1> HIDE DEF new
<1>6. Sound(new)
  BY <1>3, <1>5, SameContent DEF Sound, RowInv, RowsSound
<1>7. Put(l, new)
  BY <1>2 DEF new
<1>8. row'[l] = new /\ \A k \in Listings : Later(k) /\ (k # l => row'[k] = row[k])
  BY <1>1, <1>3, <1>4, <1>6, <1>7, PutLater
<1> QED BY <1>3, <1>8 DEF Quiet

LEMMA EditRows ==
  ASSUME RowInv, Ordinary, NEW e \in Edits, EditWrite(e)
  PROVE  \A k \in Listings : Later(k) /\ Quiet(k)
<1>1. row \in [Listings -> Row] /\ ListingOf[e] \in Listings /\ Read(e) \in Row /\ TypeOK
  BY KindsOfRequests DEF RowInv, TypeInv, TypeOK, Read
<1>2. CASE UNCHANGED row
  BY <1>2 DEF Later, Quiet
<1>3. CASE \E stamp \in Now(Read(e).updatedAt) : Put(ListingOf[e], Edited(e, Read(e), stamp))
  <2>1. PICK stamp \in Now(Read(e).updatedAt) : Put(ListingOf[e], Edited(e, Read(e), stamp))
    BY <1>3
  <2>2. stamp \in Nat /\ stamp > Read(e).updatedAt
    BY <1>1, NowIsLater, RowFields
  <2>3. Distinct(Read(e).wishes)
    BY <1>1 DEF RowInv, RowsSound, Sound, Read
  <2> DEFINE new == Edited(e, Read(e), stamp)
  <2>4. /\ new.images = Read(e).images /\ new.status = "PENDING" /\ new.updatedAt = stamp
        /\ Sound(new)
    BY <1>1, <2>2, <2>3, EditedIsRow DEF Sound
  <2> HIDE DEF new
  <2>5. Put(ListingOf[e], new)
    BY <2>1 DEF new
  <2> QED BY <1>1, <2>2, <2>4, <2>5, PutLater DEF Quiet, Read
<1> QED BY <1>2, <1>3 DEF EditWrite, RolledBack

\* A decision: the row that it changes is the one that was read.
LEMMA DecisionRows ==
  ASSUME RowInv, Ordinary, NEW m \in Reviews, NEW decision \in {"approve", "reject"},
         NEW status \in {"APPROVED", "REJECTED"}, status = "APPROVED" => decision = "approve",
         DecisionWrite(m, decision, status)
  PROVE  /\ \A l \in Listings : Later(l) /\ row'[l].images = row[l].images
         /\ \A l \in Listings : Quiet(l) \/
              /\ l = ListingOf[m] /\ pc[m] = "approve" /\ pc'[m] = "APPROVED"
              /\ row[l].status = "PENDING" /\ row'[l].status = "APPROVED"
              /\ row[l] = snap[m] /\ Content(row'[l]) = Content(row[l])
<1>1. /\ row \in [Listings -> Row] /\ ListingOf[m] \in Listings /\ Read(m) \in Row
      /\ m \in Requests /\ Read(m) = row[ListingOf[m]] /\ pc \in [Requests -> Pcs]
  BY KindsOfRequests DEF RowInv, TypeInv, TypeOK, Read
<1>2. CASE UNCHANGED row
  BY <1>2 DEF Later, Quiet
<1>3. CASE ~UNCHANGED row
  <2>1. MayClaim(m) /\ pc[m] = decision /\ Answered(m, status)
    BY <1>3 DEF DecisionWrite, RolledBack
  <2>2. PICK stamp \in Now(Read(m).updatedAt) :
          Put(ListingOf[m], [Read(m) EXCEPT !.status = status, !.updatedAt = stamp,
                                            !.reason = (status = "REJECTED")])
    BY <1>3 DEF DecisionWrite, RolledBack
  <2> DEFINE new == [Read(m) EXCEPT !.status = status, !.updatedAt = stamp,
                                    !.reason = (status = "REJECTED")]
  <2>3. /\ new.updatedAt = stamp /\ new.status = status /\ new.images = Read(m).images
        /\ new.wishes = Read(m).wishes /\ Content(new) = Content(Read(m))
    BY <1>1 DEF Row, Content
  <2>4. Put(ListingOf[m], new)
    BY <2>2
  <2> HIDE DEF new
  <2>5. stamp > Read(m).updatedAt
    BY <1>1, NowIsLater, RowFields
  <2>6. Read(m) = snap[m] /\ Read(m).status = "PENDING"
    BY <1>1, <2>1, SameRevision DEF MayClaim
  <2>7. status = "APPROVED" => AssetsAllowed(snap[m])
    BY <2>1 DEF RowInv, ClaimsSound
  <2>8. Sound(new)
    BY <1>1, <2>3, <2>6, <2>7, SameContent DEF Sound, RowInv, RowsSound
  <2>9. pc'[m] = status
    BY <1>1, <2>1 DEF Answered, Ordinary, Goto
  <2>10. row'[ListingOf[m]] = new /\ \A k \in Listings : Later(k) /\ (k # ListingOf[m] => row'[k] = row[k])
    BY <1>1, <2>3, <2>4, <2>5, <2>8, PutLater
  <2> QED BY <1>1, <2>1, <2>3, <2>6, <2>9, <2>10 DEF Quiet
<1> QED BY <1>2, <1>3

\* A new gallery, or none, replaces the one that was read, of a listing that is
\* neither on show nor booked.
Replaces(r, images) ==
  /\ Read(r) = snap[r] /\ EditableRow(Read(r))
  /\ row'[ListingOf[r]].images = images /\ row'[ListingOf[r]].status = "PENDING"
  /\ \A l \in Listings : Later(l) /\ (l # ListingOf[r] => row'[l] = row[l])

LEMMA UploadRows ==
  ASSUME RowInv, Ordinary, NEW u \in Uploads, UploadCommit(u)
  PROVE  \/ UNCHANGED row /\ Goto(u, "undo")
         \/ Replaces(u, Drawn(u)) /\ Goto(u, "cleanup")
<1>1. /\ row \in [Listings -> Row] /\ ListingOf[u] \in Listings /\ Read(u) \in Row
      /\ u \in Requests /\ Read(u) = row[ListingOf[u]]
  BY KindsOfRequests DEF RowInv, TypeInv, TypeOK, Read
<1>2. CASE ~(UNCHANGED row /\ Goto(u, "undo"))
  <2>1. ClaimsGallery(u) /\ pc[u] = "commit" /\ Goto(u, "cleanup")
    BY <1>2 DEF UploadCommit, RolledBack, Ordinary
  <2>2. PICK stamp \in Now(snap[u].updatedAt) :
          Put(ListingOf[u], [Read(u) EXCEPT !.status = "PENDING", !.reason = FALSE,
                                            !.images = Drawn(u), !.updatedAt = stamp])
    BY <1>2 DEF UploadCommit, RolledBack
  <2>3. Read(u) = snap[u] /\ EditableRow(Read(u))
    BY <1>1, <2>1, SameRevision DEF ClaimsGallery, RowInv, ClaimsSound, Galleries
  <2> DEFINE new == [Read(u) EXCEPT !.status = "PENDING", !.reason = FALSE,
                                    !.images = Drawn(u), !.updatedAt = stamp]
  <2>4. /\ new.updatedAt = stamp /\ new.status = "PENDING" /\ new.images = Drawn(u)
        /\ new.wishes = Read(u).wishes
    BY <1>1 DEF Row
  <2>5. Put(ListingOf[u], new)
    BY <2>2
  <2> HIDE DEF new
  <2>6. stamp > Read(u).updatedAt
    BY <1>1, <2>3, NowIsLater, RowFields
  <2>7. Sound(new)
    BY <1>1, <2>4 DEF Sound, RowInv, RowsSound
  <2> QED BY <1>1, <2>1, <2>3, <2>4, <2>5, <2>6, <2>7, PutLater DEF Replaces
<1> QED BY <1>2

LEMMA DeletionRows ==
  ASSUME RowInv, Ordinary, NEW d \in Deletions, DeletionCommit(d)
  PROVE  \/ UNCHANGED row /\ (Goto(d, "conflict") \/ Goto(d, "failed"))
         \/ Replaces(d, {}) /\ Goto(d, "cleanup")
<1>1. /\ row \in [Listings -> Row] /\ ListingOf[d] \in Listings /\ Read(d) \in Row
      /\ d \in Requests /\ Read(d) = row[ListingOf[d]]
  BY KindsOfRequests DEF RowInv, TypeInv, TypeOK, Read
<1>2. CASE ~(UNCHANGED row /\ (Goto(d, "conflict") \/ Goto(d, "failed")))
  <2> DEFINE new == [Read(d) EXCEPT !.status = "PENDING", !.reason = FALSE,
                       !.images = {}, !.updatedAt = snap[d].updatedAt + 1]
  <2>1. ClaimsGallery(d) /\ pc[d] = "commit" /\ Goto(d, "cleanup") /\ Put(ListingOf[d], new)
    BY <1>2 DEF DeletionCommit, RolledBack, Ordinary, Answered, ClaimsDeletion
  <2>2. Read(d) = snap[d] /\ EditableRow(Read(d))
    BY <1>1, <2>1, SameRevision DEF ClaimsGallery, RowInv, ClaimsSound, Galleries
  <2>3. /\ new.updatedAt = snap[d].updatedAt + 1 /\ new.status = "PENDING" /\ new.images = {}
        /\ new.wishes = Read(d).wishes
    BY <1>1 DEF Row
  <2> HIDE DEF new
  <2>4. new.updatedAt > Read(d).updatedAt
    BY <1>1, <2>2, <2>3, RowFields
  <2>5. Sound(new)
    BY <1>1, <2>3 DEF Sound, RowInv, RowsSound
  <2>6. /\ row'[ListingOf[d]] = new
        /\ \A l \in Listings : Later(l) /\ (l # ListingOf[d] => row'[l] = row[l])
    BY <1>1, <2>1, <2>4, <2>5, PutLater
  <2> QED BY <2>1, <2>2, <2>3, <2>6 DEF Replaces
<1> QED BY <1>2

\* How far a step moves every row and every read.
Moves == /\ \A l \in Listings : Later(l)
         /\ \A r \in Requests : snap'[r] = snap[r] \/ (UNCHANGED row /\ snap'[r] = Read(r))
         /\ \A m \in Reviews : seen'[m] = seen[m] \/ (UNCHANGED row /\ seen'[m] = Read(m))

LEMMA StaysMoves == ASSUME UNCHANGED <<row, snap, seen>> PROVE Moves
BY DEF Moves, Later

LEMMA ReadMoves ==
  ASSUME RowInv, NEW r \in Requests, Keep(r), UNCHANGED <<row, seen>>
  PROVE  Moves
BY KeepTypes DEF RowInv, TypeInv, TypeOK, Moves, Later

LEMMA PutMoves ==
  ASSUME \A l \in Listings : Later(l), UNCHANGED <<snap, seen>>
  PROVE  Moves
BY DEF Moves

LEMMA StepMoves == ASSUME RowInv, Ordinary, [Next]_vars PROVE Moves
<1>1. ASSUME NEW l \in Listings, Create(l) \/ InternalApi(l) PROVE Moves
  BY <1>1, CreateRows, BookRows, PutMoves DEF Create, InternalApi, Book, Complete, Release, Sets
<1>2. ASSUME NEW e \in Edits, EditRead(e) \/ EditWrite(e) PROVE Moves
  BY <1>2, EditRows, PutMoves, ReadMoves, KindsOfRequests DEF EditRead, EditWrite
<1>3. ASSUME NEW m \in Reviews, findForModeration(m) PROVE Moves
  BY <1>3 DEF findForModeration, Moves, Later, RowInv, TypeInv, TypeOK
<1>4. ASSUME NEW m \in Reviews, approve(m) \/ reject(m) PROVE Moves
  <2>1. ASSUME NEW decision \in {"approve", "reject"}, DecisionRead(m, decision) PROVE Moves
    BY <2>1, ReadMoves, KindsOfRequests DEF DecisionRead
  <2>2. ASSUME DecisionWrite(m, "approve", "APPROVED") \/ DecisionWrite(m, "reject", "REJECTED")
        PROVE  Moves
    <3>1. \A l \in Listings : Later(l)
      BY <2>2, DecisionRows
    <3>2. UNCHANGED <<snap, seen>>
      BY <2>2 DEF DecisionWrite
    <3> QED BY <3>1, <3>2, PutMoves
  <2> QED BY <1>4, <2>1, <2>2 DEF approve, reject
<1>5. ASSUME NEW r \in Requests, Crash(r) PROVE Moves
  BY <1>5, StaysMoves DEF Crash
<1>6. ASSUME NEW u \in Uploads, replaceOwnedImages(u) PROVE Moves
  <2>1. CASE UploadRead(u)
    BY <2>1, ReadMoves, KindsOfRequests DEF UploadRead
  <2>2. CASE UploadCommit(u)
    <3>1. \A l \in Listings : Later(l)
      BY <2>2, UploadRows DEF Replaces, Later
    <3> QED BY <2>2, <3>1, PutMoves DEF UploadCommit
  <2>3. CASE UploadPut(u) \/ UploadUndo(u) \/ Cleanup(u)
    BY <2>3, StaysMoves DEF UploadPut, UploadUndo, Cleanup
  <2> QED BY <1>6, <2>1, <2>2, <2>3 DEF replaceOwnedImages
<1>7. ASSUME NEW d \in Deletions, deleteOwnedImages(d) PROVE Moves
  <2>1. CASE DeletionRead(d)
    BY <2>1, ReadMoves, KindsOfRequests DEF DeletionRead
  <2>2. CASE DeletionCommit(d)
    <3>1. \A l \in Listings : Later(l)
      BY <2>2, DeletionRows DEF Replaces, Later
    <3> QED BY <2>2, <3>1, PutMoves DEF DeletionCommit
  <2>3. CASE Cleanup(d)
    BY <2>3, StaysMoves DEF Cleanup
  <2> QED BY <1>7, <2>1, <2>2, <2>3 DEF deleteOwnedImages
<1>8. ASSUME NEW v \in Views, readPublicImage(v) PROVE Moves
  BY <1>8, StaysMoves DEF readPublicImage, FindImage, FetchObject
<1>9. CASE UNCHANGED vars
  BY <1>9, StaysMoves DEF vars, listingVars
<1> QED BY <1>1, <1>2, <1>3, <1>4, <1>5, <1>6, <1>7, <1>8, <1>9
        DEF Next, ListingsStep, ImagesStep, Idle

LEMMA ReadsStep ==
  ASSUME RowInv, Moves, TypeInv' PROVE ReadsAreEarlier' /\ RowsSound'
<1> USE DEF RowInv, TypeInv, TypeOK, Read
<1>1. \A r \in Requests : ListingOf[r] \in Listings /\ snap[r] \in Row /\ row[ListingOf[r]] \in Row
                        /\ row'[ListingOf[r]] \in Row
  OBVIOUS
<1>2. ASSUME NEW s \in Row, NEW l \in Listings, Earlier(s, row[l]) PROVE Earlier(s, row'[l])
  <2>1. row[l] \in Row /\ row'[l] \in Row
    OBVIOUS
  <2>2. s.updatedAt \in Nat /\ row[l].updatedAt \in Nat /\ row'[l].updatedAt \in Nat
    BY <2>1, RowFields
  <2>3. row'[l] = row[l] \/ row'[l].updatedAt > row[l].updatedAt
    BY DEF Moves, Later
  <2>4. CASE row'[l] = row[l]
    BY <1>2, <2>4
  <2>5. CASE row'[l].updatedAt > row[l].updatedAt
    <3>1. s.updatedAt <= row[l].updatedAt
      BY <1>2 DEF Earlier
    <3> QED BY <2>2, <2>5, <3>1 DEF Earlier
  <2> QED BY <2>3, <2>4, <2>5
<1>3. ASSUME NEW s \in Row PROVE Earlier(s, s)
  BY RowFields DEF Earlier
<1>4. \A r \in Requests : Earlier(snap'[r], row'[ListingOf[r]])
  BY <1>1, <1>2, <1>3 DEF Moves, ReadsAreEarlier
<1>5. \A m \in Reviews : Earlier(seen'[m], row'[ListingOf[m]])
  BY <1>1, <1>2, <1>3, KindsOfRequests DEF Moves, ReadsAreEarlier
<1>6. RowsSound'
  BY DEF RowsSound, Moves, Later
<1> QED BY <1>4, <1>5, <1>6 DEF ReadsAreEarlier

\* A step of one request leaves the others where they are.
OthersStay(r) ==
  /\ pc' = [pc EXCEPT ![r] = pc'[r]] /\ pc'[r] \in Pcs
  /\ snap' = [snap EXCEPT ![r] = snap'[r]]
  /\ \A m \in Reviews : m # r => seen'[m] = seen[m]

LEMMA ActingAlone ==
  ASSUME TypeOK, NEW r \in Requests, NEW next \in Pcs, Goto(r, next), UNCHANGED seen,
         Keep(r) \/ UNCHANGED snap
  PROVE  OthersStay(r) /\ pc'[r] = next
BY DEF OthersStay, Goto, Keep, TypeOK

\* The claims of the request that acts are all there is to check.
ClaimsOf(r) ==
  /\ r \in Galleries /\ pc[r] \in {"put", "commit"} => EditableRow(snap[r])
  /\ r \in Reviews /\ pc[r] = "approve" => AssetsAllowed(snap[r]) /\ snap[r] = seen[r]

LEMMA ClaimsTogether == ClaimsSound <=> \A r \in Requests : ClaimsOf(r)
BY KindsOfRequests DEF ClaimsSound, ClaimsOf

LEMMA ClaimsFrame ==
  ASSUME TypeOK, ClaimsSound, NEW r \in Requests, OthersStay(r), ClaimsOf(r)'
  PROVE  ClaimsSound'
<1>1. ASSUME NEW q \in Requests, q # r PROVE ClaimsOf(q)'
  <2>1. pc'[q] = pc[q] /\ snap'[q] = snap[q] /\ (q \in Reviews => seen'[q] = seen[q])
    BY <1>1 DEF OthersStay, TypeOK
  <2>2. ClaimsOf(q)
    BY ClaimsTogether
  <2> QED BY <2>1, <2>2 DEF ClaimsOf
<1> QED BY <1>1, KindsOfRequests DEF ClaimsSound, ClaimsOf

\* To where a request has no claim to make.
Unclaiming == Pcs \ {"put", "commit", "approve"}
LEMMA Unclaimed ==
  ASSUME TypeOK, ClaimsSound, NEW r \in Requests, OthersStay(r), pc'[r] \in Unclaiming
  PROVE  ClaimsSound'
BY ClaimsFrame DEF ClaimsOf, Unclaiming

LEMMA DecisionClaims ==
  ASSUME RowInv, NEW m \in Reviews, NEW decision \in {"approve", "reject"}, DecisionRead(m, decision)
  PROVE  ClaimsSound'
<1>1. m \in Requests /\ TypeOK /\ ClaimsSound /\ m \notin Galleries
  BY KindsOfRequests DEF RowInv, TypeInv, Galleries
<1>2. PICK next \in {decision, "refused"} : Goto(m, next)
  BY DEF DecisionRead
<1>3. next \in Pcs /\ OthersStay(m) /\ pc'[m] = next
  BY <1>1, <1>2, ActingAlone DEF DecisionRead, Pcs, Ended
<1>4. UNCHANGED <<row, seen>> /\ snap'[m] = Read(m)
  BY <1>1, KeepTypes DEF DecisionRead, TypeOK
<1>5. ASSUME pc'[m] = "approve" PROVE ReviewedRevision(m) /\ AssetsAllowed(Read(m))
  BY <1>1, <1>5 DEF DecisionRead, Goto, TypeOK
<1>6. ReviewedRevision(m) => Read(m) = seen[m]
  BY DEF ReviewedRevision, RowInv, ReadsAreEarlier, Earlier
<1>7. ClaimsOf(m)'
  BY <1>1, <1>4, <1>5, <1>6 DEF ClaimsOf
<1> QED BY <1>1, <1>3, <1>7, ClaimsFrame

LEMMA ModerationClaims ==
  ASSUME RowInv, Ordinary, NEW m \in Reviews, findForModeration(m) \/ approve(m) \/ reject(m)
  PROVE  ClaimsSound'
<1>1. m \in Requests /\ TypeOK /\ ClaimsSound
  BY KindsOfRequests DEF RowInv, TypeInv
<1>2. CASE findForModeration(m)
  <2>1. "decide" \in Unclaiming /\ pc'[m] = "decide"
    BY <1>1, <1>2 DEF Unclaiming, Pcs, findForModeration, Goto, TypeOK
  <2>2. OthersStay(m)
    BY <1>1, <1>2, <2>1 DEF findForModeration, OthersStay, Goto, TypeOK, Unclaiming
  <2> QED BY <1>1, <2>1, <2>2, Unclaimed
<1>3. ASSUME NEW decision \in {"approve", "reject"}, NEW status \in {"APPROVED", "REJECTED"},
             DecisionWrite(m, decision, status)
      PROVE  ClaimsSound'
  <2>1. PICK next \in {status, "conflict", "failed"} : Goto(m, next)
    BY <1>3 DEF DecisionWrite, Answered, RolledBack, Ordinary
  <2>2. UNCHANGED <<snap, seen>>
    BY <1>3 DEF DecisionWrite
  <2>3. next \in Unclaiming
    BY DEF Unclaiming, Pcs, Ended
  <2> QED BY <1>1, <2>1, <2>2, <2>3, ActingAlone, Unclaimed DEF Unclaiming
<1> QED BY <1>2, <1>3, DecisionClaims DEF approve, reject

LEMMA EditClaims ==
  ASSUME RowInv, NEW e \in Edits, EditRead(e) \/ EditWrite(e)
  PROVE  ClaimsSound'
<1>1. e \in Requests /\ TypeOK /\ ClaimsSound
  BY KindsOfRequests DEF RowInv, TypeInv
<1>2. PICK next \in {"write", "refused", "done", "unsure", "failed"} : Goto(e, next)
  BY DEF EditRead, EditWrite, Answered, RolledBack
<1>3. next \in Unclaiming
  BY DEF Unclaiming, Pcs, Ended
<1>4. UNCHANGED seen /\ (Keep(e) \/ UNCHANGED snap)
  BY DEF EditRead, EditWrite
<1> QED BY <1>1, <1>2, <1>3, <1>4, ActingAlone, Unclaimed DEF Unclaiming

\* The claim that a request of a gallery may still have to make.
LEMMA GalleryClaims ==
  ASSUME RowInv, NEW g \in Galleries, NEW next \in Pcs, Goto(g, next), UNCHANGED seen,
         \/ next \in Unclaiming /\ (Keep(g) \/ UNCHANGED snap)
         \/ UNCHANGED snap /\ pc[g] = "put"
         \/ Keep(g) /\ Editable(g)
  PROVE  ClaimsSound'
<1>1. g \in Requests /\ TypeOK /\ ClaimsSound /\ g \notin Reviews
  BY KindsOfRequests DEF RowInv, TypeInv, Galleries
<1>2. OthersStay(g) /\ pc'[g] = next
  BY <1>1, ActingAlone
<1>3. CASE next \in Unclaiming
  BY <1>1, <1>2, <1>3, Unclaimed
<1>4. CASE UNCHANGED snap /\ pc[g] = "put"
  <2>1. ClaimsOf(g)'
    BY <1>1, <1>4 DEF ClaimsOf, ClaimsSound
  <2> QED BY <1>1, <1>2, <2>1, ClaimsFrame
<1>5. CASE Keep(g) /\ Editable(g)
  <2>1. ClaimsOf(g)'
    BY <1>1, <1>5, KeepTypes DEF ClaimsOf, Editable, EditableRow, TypeOK
  <2> QED BY <1>1, <1>2, <2>1, ClaimsFrame
<1> QED BY <1>3, <1>4, <1>5

LEMMA ImageClaims ==
  ASSUME RowInv, Ordinary, ImagesStep
  PROVE  ClaimsSound'
<1>1. {"refused", "undo", "cleanup", "done", "failed", "conflict", "fetch", "crashed"} \subseteq Unclaiming
      /\ {"put", "commit"} \subseteq Pcs /\ Unclaiming \subseteq Pcs
  BY DEF Unclaiming, Pcs, Ended
<1>2. ASSUME NEW u \in Uploads, replaceOwnedImages(u) PROVE ClaimsSound'
  <2>0. u \in Galleries
    BY DEF Galleries
  <2>1. CASE UploadRead(u)
    BY <1>1, <2>0, <2>1, GalleryClaims DEF UploadRead
  <2>2. CASE UploadPut(u)
    BY <1>1, <2>0, <2>2, GalleryClaims DEF UploadPut
  <2>3. CASE UploadCommit(u)
    BY <1>1, <2>0, <2>3, GalleryClaims DEF UploadCommit, RolledBack
  <2>4. CASE UploadUndo(u) \/ Cleanup(u)
    BY <1>1, <2>0, <2>4, GalleryClaims DEF UploadUndo, Cleanup, BestEffortDelete
  <2> QED BY <1>2, <2>1, <2>2, <2>3, <2>4 DEF replaceOwnedImages
<1>3. ASSUME NEW d \in Deletions, deleteOwnedImages(d) PROVE ClaimsSound'
  <2>0. d \in Galleries
    BY DEF Galleries
  <2>1. CASE DeletionRead(d)
    BY <1>1, <2>0, <2>1, GalleryClaims DEF DeletionRead
  <2>2. CASE DeletionCommit(d)
    BY <1>1, <2>0, <2>2, GalleryClaims DEF DeletionCommit, RolledBack, Answered, Ordinary
  <2>3. CASE Cleanup(d)
    BY <1>1, <2>0, <2>3, GalleryClaims DEF Cleanup, BestEffortDelete
  <2> QED BY <1>3, <2>1, <2>2, <2>3 DEF deleteOwnedImages
<1>4. ASSUME NEW v \in Views, readPublicImage(v) PROVE ClaimsSound'
  <2>1. v \in Requests /\ TypeOK /\ ClaimsSound
    BY KindsOfRequests DEF RowInv, TypeInv
  <2>2. PICK next \in {"fetch", "done", "failed"} : Goto(v, next)
    BY <1>4 DEF readPublicImage, FindImage, FetchObject
  <2>3. UNCHANGED <<snap, seen>>
    BY <1>4 DEF readPublicImage, FindImage, FetchObject
  <2> QED BY <1>1, <2>1, <2>2, <2>3, ActingAlone, Unclaimed
<1> QED BY <1>2, <1>3, <1>4 DEF ImagesStep

LEMMA RowStep == ASSUME RowInv, Ordinary, [Next]_vars PROVE RowInv'
<1>1. TypeInv'
  BY TypeStep DEF RowInv
<1>2. ReadsAreEarlier' /\ RowsSound'
  BY <1>1, StepMoves, ReadsStep
<1>3. ClaimsSound'
  <2>1. ASSUME UNCHANGED <<pc, snap, seen>> PROVE ClaimsSound'
    BY <2>1 DEF RowInv, ClaimsSound
  <2>2. ASSUME NEW l \in Listings, Create(l) \/ InternalApi(l) PROVE ClaimsSound'
    BY <2>1, <2>2 DEF Create, InternalApi, Book, Complete, Release, Sets
  <2>3. ASSUME NEW r \in Requests, Crash(r) PROVE ClaimsSound'
    <3>1. "crashed" \in Unclaiming /\ TypeOK /\ ClaimsSound
      BY DEF Unclaiming, Pcs, Ended, RowInv, TypeInv
    <3> QED BY <2>3, <3>1, ActingAlone, Unclaimed DEF Crash, Unclaiming
  <2>4. CASE UNCHANGED vars
    BY <2>1, <2>4 DEF vars, listingVars
  <2> QED BY <2>2, <2>3, <2>4, EditClaims, ModerationClaims, ImageClaims DEF Next, ListingsStep, Idle
<1>4. BookedExist'
  <2>1. ASSUME NEW l \in Listings, row[l].status # "ABSENT" PROVE row'[l].status # "ABSENT"
    <3>1. Later(l) /\ row[l] \in Row /\ row'[l] \in Row
      BY <1>1, StepMoves DEF Moves, RowInv, TypeInv, TypeOK
    <3>2. row[l].updatedAt \in Nat /\ NoRow.updatedAt = 0
      BY <3>1, RowFields DEF NoRow
    <3> QED BY <2>1, <3>1, <3>2 DEF Later, Sound
  <2>2. \A l \in booked' : l \in Listings /\ row[l].status # "ABSENT"
    BY DEF Next, ListingsStep, InternalApi, Book, Complete, Release, Idle, vars, listingVars,
      RowInv, BookedExist, TypeInv, TypeOK
  <2> QED BY <2>1, <2>2 DEF BookedExist
<1> QED BY <1>1, <1>2, <1>3, <1>4 DEF RowInv

LEMMA RowInit == Init => RowInv
<1> SUFFICES ASSUME Init PROVE RowInv
  OBVIOUS
<1>1. RowsSound
  BY NoRowIsRow DEF Init, ListingsInit, RowsSound, Sound
<1>2. ReadsAreEarlier /\ ClaimsSound
  BY NoRowIsRow, RowFields, KindsOfRequests
  DEF Init, ListingsInit, ReadsAreEarlier, Earlier, ClaimsSound, Read
<1>3. BookedExist
  BY DEF Init, ListingsInit, BookedExist
<1> QED BY <1>1, <1>2, <1>3, TypeInit DEF RowInv

-----------------------------------------------------------------------------
(* What is on show, and galleries under review *)

\* Every step leaves galleries and the show alone, approves, or replaces.
Approves(m) ==
  /\ pc[m] = "approve" /\ pc'[m] = "APPROVED" /\ row[ListingOf[m]] = snap[m]
  /\ row[ListingOf[m]].status = "PENDING" /\ row'[ListingOf[m]].status = "APPROVED"
  /\ Content(row'[ListingOf[m]]) = Content(row[ListingOf[m]])
  /\ \A l \in Listings : /\ row'[l].images = row[l].images
                         /\ l # ListingOf[m] => Quiet(l)

LEMMA ImagesRows ==
  ASSUME RowInv, Ordinary, ImagesStep
  PROVE  UNCHANGED row \/ \E g \in Galleries : \E images : Replaces(g, images)
<1>1. ASSUME NEW u \in Uploads, replaceOwnedImages(u)
      PROVE  UNCHANGED row \/ Replaces(u, Drawn(u))
  <2>1. CASE UploadCommit(u)
    BY <2>1, UploadRows
  <2> QED BY <1>1, <2>1 DEF replaceOwnedImages, UploadRead, UploadPut, UploadUndo, Cleanup
<1>2. ASSUME NEW d \in Deletions, deleteOwnedImages(d)
      PROVE  UNCHANGED row \/ Replaces(d, {})
  <2>1. CASE DeletionCommit(d)
    BY <2>1, DeletionRows
  <2> QED BY <1>2, <2>1 DEF deleteOwnedImages, DeletionRead, Cleanup
<1>3. ASSUME NEW v \in Views, readPublicImage(v) PROVE UNCHANGED row
  BY <1>3 DEF readPublicImage, FindImage, FetchObject
<1> QED BY <1>1, <1>2, <1>3 DEF ImagesStep, Galleries

LEMMA RowKinds ==
  ASSUME RowInv, Ordinary, [Next]_vars
  PROVE  \/ \A l \in Listings : Quiet(l)
         \/ \E m \in Reviews : Approves(m)
         \/ \E g \in Galleries : \E images : Replaces(g, images)
<1>1. ASSUME UNCHANGED row PROVE \A l \in Listings : Quiet(l)
  BY <1>1 DEF Quiet
<1>2. ASSUME NEW l \in Listings, Create(l) \/ InternalApi(l)
      PROVE  \A k \in Listings : Quiet(k)
  BY <1>2, CreateRows, BookRows
<1>3. ASSUME NEW e \in Edits, EditRead(e) \/ EditWrite(e) PROVE \A k \in Listings : Quiet(k)
  BY <1>1, <1>3, EditRows DEF EditRead
<1>4. ASSUME NEW m \in Reviews, findForModeration(m) \/ approve(m) \/ reject(m)
      PROVE  (\A k \in Listings : Quiet(k)) \/ Approves(m)
  <2>1. ASSUME NEW decision \in {"approve", "reject"}, NEW status \in {"APPROVED", "REJECTED"},
               status = "APPROVED" => decision = "approve", DecisionWrite(m, decision, status)
        PROVE  (\A k \in Listings : Quiet(k)) \/ Approves(m)
    BY <2>1, DecisionRows DEF Approves
  <2>2. CASE DecisionWrite(m, "approve", "APPROVED") \/ DecisionWrite(m, "reject", "REJECTED")
    BY <2>1, <2>2
  <2>3. CASE findForModeration(m) \/ DecisionRead(m, "approve") \/ DecisionRead(m, "reject")
    BY <1>1, <2>3 DEF findForModeration, DecisionRead
  <2> QED BY <1>4, <2>2, <2>3 DEF approve, reject
<1>5. ASSUME NEW r \in Requests, Crash(r) PROVE UNCHANGED row
  BY <1>5 DEF Crash
<1>6. CASE UNCHANGED vars
  BY <1>1, <1>6 DEF vars, listingVars
<1> QED BY <1>1, <1>2, <1>3, <1>4, <1>5, <1>6, ImagesRows DEF Next, ListingsStep, Idle

LEMMA RowInvariant == ASSUME Ordinary PROVE Spec => []RowInv
BY RowInit, RowStep, PTL DEF Spec

\* Whatever owners do while a moderator decides, what is published obeys the
\* rules of publication (listings.service.ts, approve).
THEOREM PublishedIsComplete == ASSUME Ordinary PROVE Spec => []ApprovedIsPublishable
<1>1. RowInv => ApprovedIsPublishable
  <2> SUFFICES ASSUME RowInv, NEW l \in Listings, row[l].status = "APPROVED"
               PROVE  /\ Cardinality(row[l].images) \in MinImages .. MaxImages
                      /\ IF row[l].operation = "DONATION" THEN row[l].wishes = <<>>
                         ELSE Len(row[l].wishes) \in MinWishes .. MaxWishes /\ Distinct(row[l].wishes)
    BY DEF ApprovedIsPublishable
  <2>1. AssetsAllowed(row[l]) /\ Distinct(row[l].wishes)
    BY DEF RowInv, RowsSound, Sound
  <2>2. row[l].wishes \in Seq(Wishes)
    BY RowFields DEF RowInv, TypeInv, TypeOK
  <2>3. Len(normalizeTradeWishes(row[l].wishes)) = Len(row[l].wishes)
    BY <2>1, <2>2, CleanStaysLong
  <2>4. IF row[l].operation = "DONATION" THEN Len(row[l].wishes) = 0
        ELSE Len(row[l].wishes) \in MinWishes .. MaxWishes
    BY <2>1, <2>3 DEF AssetsAllowed, WishesAllowed
  <2>5. Len(row[l].wishes) = 0 => row[l].wishes = <<>>
    BY <2>2
  <2> QED BY <2>1, <2>4, <2>5 DEF AssetsAllowed
<1> QED BY <1>1, RowInvariant, PTL

\* A gallery on show, or of a listing that is booked, is never replaced or
\* removed (listing-images.service.ts, requireEditableListing and the claims).
THEOREM GalleriesAreFrozen == ASSUME Ordinary PROVE Spec => GalleryFrozen
<1>1. RowInv /\ [Next]_vars =>
        [\A l \in Listings : row[l].status = "APPROVED" \/ row[l].availability # "AVAILABLE"
           => row'[l].images = row[l].images]_vars
  <2> SUFFICES ASSUME RowInv, [Next]_vars, NEW l \in Listings,
                      row[l].status = "APPROVED" \/ row[l].availability # "AVAILABLE"
               PROVE  row'[l].images = row[l].images
    BY Zenon
  <2>1. CASE \A k \in Listings : Quiet(k)
    BY <2>1 DEF Quiet
  <2>2. ASSUME NEW m \in Reviews, Approves(m) PROVE row'[l].images = row[l].images
    BY <2>2 DEF Approves
  <2>3. ASSUME NEW g \in Galleries, NEW images, Replaces(g, images)
        PROVE  row'[l].images = row[l].images
    BY <2>3 DEF Replaces, EditableRow, Read
  <2> QED BY <2>1, <2>2, <2>3, RowKinds
<1> QED BY <1>1, RowInvariant, PTL DEF Spec, GalleryFrozen

-----------------------------------------------------------------------------
(* What the public reads has been reviewed *)

\* Once a moderator is to approve, what he was shown is fixed; an approval is
\* final.
ApprovalsStay == \A m \in Reviews :
  /\ pc[m] \in {"approve", "APPROVED"} => seen'[m] = seen[m]
  /\ pc[m] = "APPROVED" => pc'[m] = "APPROVED"

\* A reader has found an image before, or finds it on show now.
ViewsFind == \A v \in Views : pc'[v] \in {"fetch", "done"} =>
  \/ pc[v] \in {"fetch", "done"} /\ viewing'[v] = viewing[v]
  \/ Read(v).status = "APPROVED" /\ viewing'[v] \in Read(v).images

\* No moderator has begun or is shown anything else.
NothingShown == \A m \in Reviews : /\ pc'[m] = "idle" <=> pc[m] = "idle"
                                   /\ pc[m] # "idle" => seen'[m] = seen[m]

\* A step of r that shows nothing and finds nothing.
Plain(r) == /\ pc' = [pc EXCEPT ![r] = pc'[r]]
            /\ pc[r] \notin {"idle", "APPROVED"} \/ r \notin Reviews
            /\ pc'[r] # "idle" \/ r \notin Reviews
            /\ r \notin Views \/ pc'[r] \notin {"fetch", "done"}
            /\ UNCHANGED <<seen, viewing>>

LEMMA PlainSteps ==
  ASSUME TypeOK, NEW r \in Requests, Plain(r)
  PROVE  ApprovalsStay /\ ViewsFind /\ NothingShown
<1>1. \A q \in Requests : q # r => pc'[q] = pc[q]
  BY DEF Plain, TypeOK
<1> QED BY <1>1, KindsOfRequests DEF Plain, ApprovalsStay, ViewsFind, NothingShown

LEMMA ShowSteps ==
  ASSUME RowInv, Ordinary, [Next]_vars
  PROVE  /\ ApprovalsStay /\ ViewsFind
         /\ NothingShown \/ \E m \in Reviews : findForModeration(m)
<1>0. TypeOK
  BY DEF RowInv, TypeInv
<1>1. ASSUME UNCHANGED <<pc, seen, viewing>>
      PROVE  ApprovalsStay /\ ViewsFind /\ NothingShown
  BY <1>1 DEF ApprovalsStay, ViewsFind, NothingShown
<1>2. CASE \E l \in Listings : (Create(l) \/ InternalApi(l)) /\ UNCHANGED imagesVars
  BY <1>1, <1>2 DEF Create, InternalApi, Book, Complete, Release, Sets, imagesVars
<1>3. ASSUME NEW e \in Edits, EditRead(e) \/ EditWrite(e), UNCHANGED imagesVars PROVE Plain(e)
  BY <1>0, <1>3, KindsOfRequests
  DEF EditRead, EditWrite, Answered, RolledBack, Goto, Plain, TypeOK, imagesVars
<1>4. ASSUME NEW m \in Reviews, findForModeration(m), UNCHANGED imagesVars
      PROVE  ApprovalsStay /\ ViewsFind
  <2>1. \A q \in Requests : q # m => pc'[q] = pc[q]
    BY <1>0, <1>4 DEF findForModeration, Goto, TypeOK
  <2>2. pc[m] = "idle" /\ \A n \in Reviews : n # m => seen'[n] = seen[n]
    BY <1>0, <1>4 DEF findForModeration, TypeOK
  <2>3. m \notin Views /\ UNCHANGED viewing
    BY <1>4 DEF imagesVars
  <2> QED BY <2>1, <2>2, <2>3, KindsOfRequests DEF ApprovalsStay, ViewsFind
<1>5. ASSUME NEW m \in Reviews, approve(m) \/ reject(m), UNCHANGED imagesVars PROVE Plain(m)
  <2>1. m \in Requests /\ m \notin Views /\ pc[m] \notin {"idle", "APPROVED"} /\ UNCHANGED <<seen, viewing>>
    BY <1>5, KindsOfRequests DEF approve, reject, DecisionRead, DecisionWrite, imagesVars
  <2>2. PICK next \in Pcs : Goto(m, next) /\ next # "idle"
    BY <1>5 DEF approve, reject, DecisionRead, DecisionWrite, Answered, RolledBack, Pcs, Ended
  <2> QED BY <1>0, <2>1, <2>2 DEF Plain, Goto, TypeOK
<1>6. ASSUME NEW r \in Requests, Crash(r), UNCHANGED imagesVars PROVE Plain(r)
  BY <1>0, <1>6 DEF Crash, Goto, Plain, TypeOK, imagesVars, Ended
<1>7. ASSUME NEW u \in Uploads, replaceOwnedImages(u) PROVE Plain(u)
  <2>1. u \in Requests /\ u \notin Reviews /\ u \notin Views
    BY KindsOfRequests
  <2>2. \E next \in Pcs : Goto(u, next)
    BY <1>7 DEF replaceOwnedImages, UploadRead, UploadPut, UploadCommit, UploadUndo, Cleanup,
                BestEffortDelete, RolledBack, Pcs, Ended
  <2>3. UNCHANGED <<seen, viewing>>
    BY <1>7 DEF replaceOwnedImages, UploadRead, UploadPut, UploadCommit, UploadUndo, Cleanup, imagesVars
  <2> QED BY <1>0, <2>1, <2>2, <2>3 DEF Plain, Goto, TypeOK
<1>8. ASSUME NEW d \in Deletions, deleteOwnedImages(d) PROVE Plain(d)
  <2>1. d \in Requests /\ d \notin Reviews /\ d \notin Views
    BY KindsOfRequests
  <2>2. \E next \in Pcs : Goto(d, next)
    BY <1>8 DEF deleteOwnedImages, DeletionRead, DeletionCommit, Cleanup,
                BestEffortDelete, RolledBack, Answered, Pcs, Ended
  <2>3. UNCHANGED <<seen, viewing>>
    BY <1>8 DEF deleteOwnedImages, DeletionRead, DeletionCommit, Cleanup, imagesVars
  <2> QED BY <1>0, <2>1, <2>2, <2>3 DEF Plain, Goto, TypeOK
<1>9. ASSUME NEW v \in Views, readPublicImage(v)
      PROVE  ApprovalsStay /\ ViewsFind /\ NothingShown
  <2>1. \A q \in Requests : q # v => pc'[q] = pc[q]
    BY <1>0, <1>9 DEF readPublicImage, FindImage, FetchObject, Goto, TypeOK
  <2>2. UNCHANGED seen /\ v \notin Reviews
    BY <1>9 DEF readPublicImage, FindImage, FetchObject
  <2>3. \A w \in Views : w # v => viewing'[w] = viewing[w]
    BY <1>0, <1>9 DEF readPublicImage, FindImage, FetchObject, TypeOK, imagesVars
  <2>4. \/ pc[v] = "fetch" /\ viewing'[v] = viewing[v]
        \/ Read(v).status = "APPROVED" /\ viewing'[v] \in Read(v).images
    BY <1>0, <1>9 DEF readPublicImage, FindImage, FetchObject, TypeOK, imagesVars
  <2>5. ApprovalsStay /\ NothingShown
    BY <2>1, <2>2, KindsOfRequests DEF ApprovalsStay, NothingShown
  <2>6. ASSUME NEW w \in Views, w # v PROVE pc'[w] = pc[w] /\ viewing'[w] = viewing[w]
    BY <2>1, <2>3, <2>6, KindsOfRequests
  <2>7. ViewsFind
    BY <2>4, <2>6 DEF ViewsFind
  <2> QED BY <2>5, <2>7
<1>10. CASE UNCHANGED vars
  BY <1>1, <1>10 DEF vars, listingVars, imagesVars
<1> QED BY <1>0, <1>2, <1>3, <1>4, <1>5, <1>6, <1>7, <1>8, <1>9, <1>10, PlainSteps, KindsOfRequests
        DEF Next, ListingsStep, ImagesStep, Idle

LEMMA ReviewInit == Init => ReviewInv
BY NoRowIsRow, KindsOfRequests DEF Init, ListingsInit, ImagesInit, ReviewInv

LEMMA ReviewStep == ASSUME RowInv, Ordinary, ReviewInv, [Next]_vars PROVE ReviewInv'
<1>1. ApprovalsStay /\ ViewsFind
  BY ShowSteps
<1>2. ASSUME NEW l \in Listings, NEW m \in Reviews, ListingOf[m] = l, pc[m] = "APPROVED",
             Content(row[l]) = Content(seen[m]), Content(row'[l]) = Content(row[l])
      PROVE  pc'[m] = "APPROVED" /\ Content(row'[l]) = Content(seen'[m])
  BY <1>1, <1>2 DEF ApprovalsStay
<1>3. ASSUME NEW l \in Listings, row'[l].status = "APPROVED", Quiet(l)
      PROVE  \E m \in Reviews : /\ ListingOf[m] = l /\ pc'[m] = "APPROVED"
                                /\ Content(row'[l]) = Content(seen'[m])
  BY <1>2, <1>3 DEF Quiet, ReviewInv
<1>4. ASSUME NEW l \in Listings, row'[l].status = "APPROVED"
      PROVE  \E m \in Reviews : /\ ListingOf[m] = l /\ pc'[m] = "APPROVED"
                                /\ Content(row'[l]) = Content(seen'[m])
  <2>1. CASE \A k \in Listings : Quiet(k)
    BY <1>3, <1>4, <2>1
  <2>2. ASSUME NEW m \in Reviews, Approves(m), l = ListingOf[m]
        PROVE  pc'[m] = "APPROVED" /\ Content(row'[l]) = Content(seen'[m])
    <3>1. seen'[m] = seen[m] /\ seen[m] = snap[m]
      BY <1>1, <2>2 DEF Approves, ApprovalsStay, RowInv, ClaimsSound
    <3> QED BY <2>2, <3>1 DEF Approves
  <2>3. ASSUME NEW m \in Reviews, Approves(m), l # ListingOf[m] PROVE Quiet(l)
    BY <2>3 DEF Approves
  <2>4. ASSUME NEW g \in Galleries, NEW images, Replaces(g, images) PROVE Quiet(l)
    <3>1. l # ListingOf[g]
      BY <1>4, <2>4 DEF Replaces
    <3> QED BY <2>4, <3>1 DEF Replaces, Quiet
  <2> QED BY <1>3, <1>4, <2>1, <2>2, <2>3, <2>4, RowKinds
<1>5. ASSUME NEW v \in Views, pc'[v] \in {"fetch", "done"}
      PROVE  \E m \in Reviews : /\ ListingOf[m] = ListingOf[v] /\ pc'[m] = "APPROVED"
                                /\ viewing'[v] \in seen'[m].images
  <2>1. PICK m \in Reviews : /\ ListingOf[m] = ListingOf[v] /\ pc[m] = "APPROVED"
                             /\ viewing'[v] \in seen[m].images
    <3>1. CASE pc[v] \in {"fetch", "done"} /\ viewing'[v] = viewing[v]
      BY <3>1 DEF ReviewInv
    <3>2. CASE Read(v).status = "APPROVED" /\ viewing'[v] \in Read(v).images
      <4>1. PICK m \in Reviews : /\ ListingOf[m] = ListingOf[v] /\ pc[m] = "APPROVED"
                                 /\ Content(Read(v)) = Content(seen[m])
        BY <3>2, KindsOfRequests DEF ReviewInv, Read
      <4> QED BY <3>2, <4>1, SameContent
    <3> QED BY <1>1, <1>5, <3>1, <3>2 DEF ViewsFind
  <2> QED BY <1>1, <2>1 DEF ApprovalsStay
<1> QED BY <1>4, <1>5 DEF ReviewInv

\* What a reader gets, a moderator has seen and approved, though the listing
\* may have been edited since the reader found it (readPublicImage).
THEOREM ReadersSeeReviewed == ASSUME Ordinary PROVE Spec => []PublicImagesWereReviewed
<1>1. ReviewInv => PublicImagesWereReviewed
  BY DEF ReviewInv, PublicImagesWereReviewed
<1>2. RowInv /\ ReviewInv /\ [Next]_vars => ReviewInv'
  BY ReviewStep
<1> QED BY <1>1, <1>2, ReviewInit, RowInvariant, PTL DEF Spec

-----------------------------------------------------------------------------
(* The promise of Publication *)

\* A step writes one row at most.
LEMMA OneRow ==
  ASSUME RowInv, Ordinary, [Next]_vars
  PROVE  UNCHANGED row \/ \E l \in Listings : \A k \in Listings : k # l => row'[k] = row[k]
<1>1. ASSUME NEW l \in Listings, NEW new, Put(l, new)
      PROVE  \A k \in Listings : k # l => row'[k] = row[k]
  BY <1>1 DEF Put, RowInv, TypeInv, TypeOK
<1>2. \A r \in Requests : ListingOf[r] \in Listings
  OBVIOUS
<1>3. ASSUME NEW l \in Listings, Create(l) \/ InternalApi(l) PROVE \E new : Put(l, new)
  BY <1>3, Zenon DEF Create, InternalApi, Book, Complete, Release, Sets
<1>4. ASSUME NEW e \in Edits, EditRead(e) \/ EditWrite(e)
      PROVE  UNCHANGED row \/ \E new : Put(ListingOf[e], new)
  BY <1>4, Zenon DEF EditRead, EditWrite, RolledBack
<1>5. ASSUME NEW m \in Reviews, findForModeration(m) \/ approve(m) \/ reject(m)
      PROVE  UNCHANGED row \/ \E new : Put(ListingOf[m], new)
  BY <1>5, Zenon DEF findForModeration, approve, reject, DecisionRead, DecisionWrite, RolledBack
<1>6. ASSUME NEW g \in Galleries, NEW images, Replaces(g, images)
      PROVE  \A k \in Listings : k # ListingOf[g] => row'[k] = row[k]
  BY <1>6 DEF Replaces
<1>7. ASSUME NEW r \in Requests, Crash(r) PROVE UNCHANGED row
  BY <1>7 DEF Crash
<1>8. CASE UNCHANGED vars
  BY <1>8 DEF vars, listingVars
<1> QED BY <1>1, <1>2, <1>3, <1>4, <1>5, <1>6, <1>7, <1>8, ImagesRows, KindsOfRequests
        DEF Next, ListingsStep, Idle

\* What the public sees of a listing.
ShownOf(r) == IF r.status = "APPROVED" THEN Content(r) ELSE <<>>
LEMMA ShownIs == Shown = [l \in Listings |-> ShownOf(row[l])]
BY DEF Shown, ShownOf

\* What has been reviewed of a listing.
ReviewedOf(l) == {Content(seen[m]) : m \in {n \in Reviews : ListingOf[n] = l /\ pc[n] # "idle"}}
LEMMA ReviewedIs == ReviewedContents = [l \in Listings |-> ReviewedOf(l)]
BY DEF ReviewedContents, ReviewedOf

LEMMA ReviewedMembers ==
  ASSUME NEW l, NEW c
  PROVE  /\ c \in ReviewedOf(l) <=>
              \E m \in Reviews : ListingOf[m] = l /\ pc[m] # "idle" /\ c = Content(seen[m])
         /\ c \in ReviewedOf(l)' <=>
              \E m \in Reviews : ListingOf[m] = l /\ pc'[m] # "idle" /\ c = Content(seen'[m])
BY Zenon DEF ReviewedOf, Content

LEMMA NothingReviewed ==
  ASSUME NothingShown PROVE UNCHANGED ReviewedContents
<1>1. ASSUME NEW l \in Listings PROVE ReviewedOf(l)' = ReviewedOf(l)
  <2>1. \A c : c \in ReviewedOf(l)' <=> c \in ReviewedOf(l)
    <3>1. \A m \in Reviews : /\ pc'[m] # "idle" <=> pc[m] # "idle"
                             /\ pc[m] # "idle" => Content(seen'[m]) = Content(seen[m])
      BY DEF NothingShown, Content
    <3> QED BY <3>1, ReviewedMembers
  <2> QED BY <2>1
<1> QED BY <1>1, ReviewedIs DEF ReviewedContents, ReviewedOf

\* Of what is on show nothing changes, or one listing is withdrawn.
LEMMA QuietPublication ==
  ASSUME \A l \in Listings : Quiet(l), NothingShown,
         UNCHANGED row \/ \E l \in Listings : \A k \in Listings : k # l => row'[k] = row[k]
  PROVE  [P!Next]_<<Shown, ReviewedContents>>
<1>1. UNCHANGED ReviewedContents
  BY NothingReviewed
<1>2. CASE UNCHANGED row
  BY <1>1, <1>2 DEF Shown
<1>3. ASSUME NEW l \in Listings, \A k \in Listings : k # l => row'[k] = row[k]
      PROVE  [P!Next]_<<Shown, ReviewedContents>>
  <2>1. ShownOf(row'[l]) \in {ShownOf(row[l]), <<>>}
    BY DEF Quiet, ShownOf
  <2>2. Shown' = [Shown EXCEPT ![l] = ShownOf(row'[l])]
    BY <1>3 DEF Shown, ShownOf
  <2>3. CASE ShownOf(row'[l]) = <<>>
    BY <1>1, <2>2, <2>3 DEF P!Next, P!Withdraw
  <2>4. CASE ShownOf(row'[l]) = ShownOf(row[l])
    <3>1. Shown' = Shown
      BY <2>2, <2>4, ShownIs
    <3> QED BY <1>1, <3>1
  <2> QED BY <2>1, <2>3, <2>4
<1> QED BY <1>2, <1>3

\* An approval publishes what its moderator was shown.
LEMMA ApprovalPublishes ==
  ASSUME RowInv, TypeInv', RowsSound', NothingShown, NEW m \in Reviews, Approves(m),
         \A k \in Listings : k # ListingOf[m] => row'[k] = row[k]
  PROVE  [P!Next]_<<Shown, ReviewedContents>>
<1> DEFINE l == ListingOf[m]  content == Content(row'[l])
<1>1. UNCHANGED ReviewedContents
  BY NothingReviewed
<1>2. l \in Listings /\ row'[l] \in Row /\ row'[l].status = "APPROVED"
  BY KindsOfRequests DEF Approves, TypeInv, TypeOK
<1>3. content = Content(seen[m])
  BY DEF Approves, RowInv, ClaimsSound
<1>4. content \in ReviewedContents[l]
  <2>1. content \in ReviewedOf(l)
    BY <1>3 DEF ReviewedOf, Approves
  <2> QED BY <1>2, <2>1, ReviewedIs
<1>5. content \in Publishable
  <2>1. AssetsAllowed(row'[l])
    BY <1>2 DEF RowsSound, Sound
  <2>2. /\ row'[l].text \in Texts /\ row'[l].operation \in ListingOperationType
        /\ row'[l].wishes \in Seq(Wishes) /\ row'[l].images \in SUBSET Images
    BY <1>2, RowFields
  <2>3. content = <<row'[l].text, row'[l].operation, row'[l].wishes, row'[l].images>>
    BY DEF Content
  <2> HIDE DEF content
  <2> QED BY <2>1, <2>2, <2>3 DEF Publishable, AssetsAllowed
<1>6. Shown[l] = <<>> /\ Shown'[l] = content
  BY <1>2 DEF Approves, Shown
<1>7. Shown' = [Shown EXCEPT ![l] = Shown'[l]]
  BY <1>2 DEF Shown
<1>8. P!Publish(l)
  <2> HIDE DEF content, l
  <2> QED BY <1>1, <1>4, <1>5, <1>6, <1>7 DEF P!Publish
<1> QED BY <1>2, <1>8 DEF P!Next

\* Showing a listing to a moderator adds to what has been reviewed.
LEMMA ShowingReviews ==
  ASSUME RowInv, NEW m \in Reviews, findForModeration(m)
  PROVE  [P!Next]_<<Shown, ReviewedContents>>
<1> DEFINE l == ListingOf[m]
<1>1. l \in Listings /\ UNCHANGED Shown
  BY KindsOfRequests DEF findForModeration, Shown
<1>2. /\ pc[m] = "idle" /\ pc'[m] = "decide"
      /\ \A n \in Reviews : n # m => pc'[n] = pc[n] /\ seen'[n] = seen[n]
  BY KindsOfRequests DEF findForModeration, Goto, RowInv, TypeInv, TypeOK
<1>3. ASSUME NEW k \in Listings, k # l PROVE ReviewedOf(k)' = ReviewedOf(k)
  <2>1. \A c : c \in ReviewedOf(k)' <=> c \in ReviewedOf(k)
    BY <1>2, <1>3, ReviewedMembers
  <2> QED BY <2>1
<1>4. ReviewedOf(l) \subseteq ReviewedOf(l)'
  BY <1>2 DEF ReviewedOf
<1>5. ReviewedContents' = [k \in Listings |-> ReviewedOf(k)']
  BY DEF ReviewedContents, ReviewedOf
<1>6. ReviewedContents' = [ReviewedContents EXCEPT ![l] = ReviewedContents'[l]]
      /\ ReviewedContents[l] \subseteq ReviewedContents'[l]
  BY <1>1, <1>3, <1>4, <1>5, ReviewedIs
<1> QED BY <1>1, <1>6 DEF P!Next, P!Review

LEMMA PublicationStep ==
  ASSUME RowInv, RowInv', Ordinary, [Next]_vars
  PROVE  [P!Next]_<<Shown, ReviewedContents>>
<1>1. CASE \E m \in Reviews : findForModeration(m)
  BY <1>1, ShowingReviews
<1>2. CASE NothingShown
  <2>1. CASE \A l \in Listings : Quiet(l)
    BY <1>2, <2>1, OneRow, QuietPublication
  <2>2. ASSUME NEW m \in Reviews, Approves(m) PROVE [P!Next]_<<Shown, ReviewedContents>>
    <3>1. ListingOf[m] \in Listings /\ row'[ListingOf[m]] # row[ListingOf[m]]
      BY <2>2, KindsOfRequests DEF Approves
    <3>2. \A k \in Listings : k # ListingOf[m] => row'[k] = row[k]
      BY <3>1, OneRow
    <3> QED BY <1>2, <2>2, <3>2, ApprovalPublishes DEF RowInv
  <2>3. ASSUME NEW g \in Galleries, NEW images, Replaces(g, images)
        PROVE  [P!Next]_<<Shown, ReviewedContents>>
    <3>1. \A l \in Listings : ShownOf(row'[l]) = ShownOf(row[l])
      BY <2>3 DEF Replaces, ShownOf, EditableRow, Read
    <3>2. UNCHANGED Shown
      BY <3>1, ShownIs DEF Shown, ShownOf
    <3> QED BY <1>2, <3>2, NothingReviewed
  <2> QED BY <2>1, <2>2, <2>3, RowKinds
<1> QED BY <1>1, <1>2, ShowSteps

LEMMA PublicationInit == Init => P!Init
<1> SUFFICES ASSUME Init PROVE P!Init
  OBVIOUS
<1>1. \A l \in Listings : ShownOf(row[l]) = <<>>
  BY NoRowIsRow DEF Init, ListingsInit, ShownOf
<1>2. \A l \in Listings : ReviewedOf(l) = {}
  BY KindsOfRequests DEF Init, ListingsInit, ReviewedOf
<1> QED BY <1>1, <1>2, ShownIs, ReviewedIs DEF P!Init

\* Moderation by revision implements publication after review.
THEOREM ModerationImplementsPublication == ASSUME Ordinary PROVE Spec => ImplementsPublication
<1>1. RowInv /\ RowInv' /\ [Next]_vars => [P!Next]_<<Shown, ReviewedContents>>
  BY PublicationStep
<1> QED BY <1>1, PublicationInit, RowInvariant, PTL DEF Spec, ImplementsPublication, P!Spec

-----------------------------------------------------------------------------
(* Rows and objects *)

\* No key is drawn by two uploads.
LEMMA DrawnApart ==
  ASSUME TypeOK, NEW u \in Uploads, NEW w \in Uploads, NEW k, k \in Drawn(u), k \in Drawn(w)
  PROVE  u = w
<1>1. PICK n \in 1 .. uploaded[u] : k = KeyOf[<<u, n>>]
  BY Zenon DEF Drawn
<1>2. PICK j \in 1 .. uploaded[w] : k = KeyOf[<<w, j>>]
  BY Zenon DEF Drawn
<1>3. <<u, n>> \in Uploads \X (1 .. MaxImages) /\ <<w, j>> \in Uploads \X (1 .. MaxImages)
  BY DrawnAreImages
<1>4. <<u, n>> = <<w, j>>
  BY <1>1, <1>2, <1>3
<1> QED BY <1>4

LEMMA DrawnForMembers ==
  ASSUME NEW l, NEW k
  PROVE  k \in DrawnFor(l) <=> \E u \in Uploads : ListingOf[u] = l /\ k \in Drawn(u)
BY DEF DrawnFor

\* An image of a listing is the object of an upload for this listing only.
LEMMA DrawnForApart ==
  ASSUME TypeOK, NEW l, NEW m, NEW k, k \in DrawnFor(l), k \in DrawnFor(m)
  PROVE  l = m
BY DrawnApart, DrawnForMembers

\* The part of the state that galleries are about.
SameRows == \A l \in Listings : row'[l].images = row[l].images
SameDrawn == \A u \in Uploads : Drawn(u)' = Drawn(u)
OtherGalleriesStay(g) == \A h \in Galleries : h # g => pc'[h] = pc[h] /\ snap'[h] = snap[h]

LEMMA DrawnStays == ASSUME UNCHANGED uploaded PROVE SameDrawn
BY DEF SameDrawn, Drawn

LEMMA DrawnForStays == ASSUME SameDrawn, NEW l PROVE DrawnFor(l)' = DrawnFor(l)
BY DEF SameDrawn, DrawnFor

\* Steps that do not concern galleries.
LEMMA GalleryFrame ==
  ASSUME GalleryInv, SameRows, UNCHANGED <<uploaded, objects, warned>>,
         \A g \in Galleries : pc'[g] = pc[g] /\ snap'[g] = snap[g]
  PROVE  GalleryInv'
<1>1. SameDrawn
  BY DrawnStays
<1>2. ImagesAreDrawn'
  BY <1>1, DrawnForStays DEF GalleryInv, ImagesAreDrawn, SameRows
<1>3. UploadsApart'
  <2>1. \A u \in Uploads : pc'[u] = pc[u]
    BY DEF Galleries
  <2> QED BY <1>1, <2>1 DEF GalleryInv, UploadsApart, Uncommitted, SameRows, SameDrawn
<1>4. CleanupsSafe' /\ ReferencedImagesStored'
  BY DEF GalleryInv, CleanupsSafe, ReferencedImagesStored, SameRows
<1>5. \A g \in Galleries, k \in objects : Answers(g, k) => Answers(g, k)'
  BY <1>1 DEF Answers, Charge, SameDrawn, Galleries
<1>6. ObjectsAnswered'
  BY <1>5 DEF GalleryInv, ObjectsAnswered, SameRows
<1> QED BY <1>2, <1>3, <1>4, <1>6 DEF GalleryInv

\* A request that goes on, gives up or dies with rows and objects as they are.
LEMMA GoingOn ==
  ASSUME GalleryInv, NEW g \in Galleries, OtherGalleriesStay(g), snap'[g] = snap[g],
         SameRows, UNCHANGED <<uploaded, objects, warned>>,
         \/ pc[g] = "commit" /\ pc'[g] = "undo"
         \/ pc[g] \notin {"idle", "done", "failed"} /\ pc'[g] = "crashed"
         \/ g \in Deletions /\ pc[g] = "commit" /\ pc'[g] \in {"conflict", "failed"}
  PROVE  GalleryInv'
<1>1. SameDrawn
  BY DrawnStays
<1>2. ImagesAreDrawn'
  BY <1>1, DrawnForStays DEF GalleryInv, ImagesAreDrawn, SameRows, OtherGalleriesStay
<1>3. UploadsApart'
  <2>1. ASSUME NEW u \in Uploads
        PROVE  /\ pc'[u] = "idle" => pc[u] = "idle"
               /\ pc'[u] \in {"put", "commit"} => pc[u] \in {"put", "commit"}
               /\ Uncommitted(u)' => Uncommitted(u)
    BY DEF Uncommitted, OtherGalleriesStay, Galleries
  <2>2. \A h \in Galleries : snap'[h] = snap[h]
    BY DEF OtherGalleriesStay
  <2> QED BY <1>1, <2>1, <2>2 DEF GalleryInv, UploadsApart, SameRows, SameDrawn
<1>4. CleanupsSafe' /\ ReferencedImagesStored'
  BY DEF GalleryInv, CleanupsSafe, ReferencedImagesStored, SameRows, OtherGalleriesStay
<1>5. \A h \in Galleries, k \in objects : Answers(h, k) => Answers(h, k)'
  BY <1>1 DEF Answers, Charge, SameDrawn, Galleries, OtherGalleriesStay
<1>6. ObjectsAnswered'
  <2>1. g \notin warned
    BY DEF GalleryInv, ObjectsAnswered
  <2> QED BY <1>5, <2>1 DEF GalleryInv, ObjectsAnswered, SameRows, OtherGalleriesStay
<1> QED BY <1>2, <1>3, <1>4, <1>6 DEF GalleryInv

\* A request reads the gallery that it may replace or remove.
LEMMA Reading ==
  ASSUME TypeOK, GalleryInv, NEW g \in Galleries, OtherGalleriesStay(g), pc[g] = "idle",
         snap'[g] = Read(g), UNCHANGED <<row, uploaded, objects, warned>>,
         pc'[g] \in {"put", "refused"} \/ (g \in Deletions /\ pc'[g] \in {"commit", "done", "refused"})
  PROVE  GalleryInv'
<1>0. g \in Requests /\ ListingOf[g] \in Listings /\ g \notin warned
  BY KindsOfRequests DEF GalleryInv, ObjectsAnswered
<1>1. SameDrawn
  BY DrawnStays
<1>2. ImagesAreDrawn'
  BY <1>0, <1>1, DrawnForStays DEF GalleryInv, ImagesAreDrawn, OtherGalleriesStay, Read
<1>3. g \in Uploads => Drawn(g) = {}
  <2>1. g \in Uploads => uploaded[g] = 0
    BY DEF GalleryInv, UploadsApart
  <2>2. ASSUME g \in Uploads, NEW k, k \in Drawn(g) PROVE FALSE
    <3>1. PICK n \in 1 .. uploaded[g] : k = KeyOf[<<g, n>>]
      BY <2>2, Zenon DEF Drawn
    <3> QED BY <2>1, <2>2, <3>1
  <2> QED BY <2>2
<1>4. UploadsApart'
  BY <1>0, <1>1, <1>3 DEF GalleryInv, UploadsApart, Uncommitted, SameDrawn, Galleries, OtherGalleriesStay, Read
<1>5. CleanupsSafe' /\ ReferencedImagesStored'
  BY DEF GalleryInv, CleanupsSafe, ReferencedImagesStored, OtherGalleriesStay
<1>6. \A h \in Galleries, k \in objects : Answers(h, k) => Answers(h, k)'
  BY <1>0, <1>1 DEF Answers, Charge, SameDrawn, Galleries, OtherGalleriesStay
<1>7. ObjectsAnswered'
  BY <1>0, <1>6 DEF GalleryInv, ObjectsAnswered, OtherGalleriesStay
<1> QED BY <1>2, <1>4, <1>5, <1>7 DEF GalleryInv

\* What a PUT draws has never been drawn.
LEMMA PutDraws ==
  ASSUME TypeInv, NEW u \in Uploads, UploadPut(u)
  PROVE  \E key : /\ Drawn(u)' = Drawn(u) \cup {key}
                  /\ \A w \in Uploads : key \notin Drawn(w) /\ (w # u => Drawn(w)' = Drawn(w))
                  /\ objects' \in {objects, objects \cup {key}}
                  /\ pc'[u] \in {"put", "commit"} => objects' = objects \cup {key}
<1> DEFINE n == uploaded[u] + 1  key == KeyOf[<<u, n>>]
<1>1. /\ uploaded[u] \in Nat /\ n \in 1 .. MaxImages
      /\ uploaded' = [uploaded EXCEPT ![u] = n]
  <2>1. pc[u] = "put" /\ uploaded[u] < batch[u]
    BY DEF UploadPut
  <2>2. batch[u] <= MaxImages /\ batch[u] \in BatchSizes \cup {0} /\ uploaded[u] \in 0 .. MaxImages
    BY <2>1 DEF TypeInv, TypeOK
  <2>3. batch[u] \in Nat /\ uploaded[u] \in Nat
    <3>1. \A b \in BatchSizes \cup {0} : b \in Nat
      OBVIOUS
    <3>2. uploaded[u] \in Nat
      BY <2>2
    <3> QED BY <2>2, <3>1, <3>2
  <2>4. n \in 1 .. MaxImages
    BY <2>1, <2>2, <2>3
  <2> QED BY <2>3, <2>4 DEF UploadPut
<1>2. uploaded'[u] = n /\ \A w \in Uploads : w # u => uploaded'[w] = uploaded[w]
  BY <1>1 DEF TypeInv, TypeOK
<1>3. ASSUME NEW w \in Uploads, w # u PROVE Drawn(w)' = Drawn(w)
  BY <1>2, <1>3 DEF Drawn
<1>4. Drawn(u)' = Drawn(u) \cup {key}
  <2>1. 1 .. uploaded'[u] = (1 .. uploaded[u]) \cup {n}
    BY <1>1, <1>2
  <2> HIDE DEF n
  <2>2. ASSUME NEW k PROVE k \in Drawn(u)' <=> \E i \in (1 .. uploaded[u]) \cup {n} : k = KeyOf[<<u, i>>]
    BY <2>1, Zenon DEF Drawn
  <2>3. ASSUME NEW k PROVE k \in Drawn(u) <=> \E i \in 1 .. uploaded[u] : k = KeyOf[<<u, i>>]
    BY Zenon DEF Drawn
  <2>4. \A k : k \in Drawn(u)' <=> k \in Drawn(u) \/ k = KeyOf[<<u, n>>]
    BY <2>2, <2>3, Zenon
  <2> QED BY <2>4
<1>5. ASSUME NEW w \in Uploads, key \in Drawn(w) PROVE FALSE
  <2>1. PICK j \in 1 .. uploaded[w] : key = KeyOf[<<w, j>>]
    BY <1>5, Zenon DEF Drawn
  <2>2. <<w, j>> \in Uploads \X (1 .. MaxImages) /\ <<u, n>> \in Uploads \X (1 .. MaxImages)
    BY <1>1, DrawnAreImages DEF TypeInv
  <2>3. <<w, j>> = <<u, n>>
    <3> HIDE DEF n
    <3> QED BY <2>1, <2>2
  <2>4. w = u /\ j = n
    <3> HIDE DEF n
    <3> QED BY <2>3
  <2> QED BY <1>1, <2>4
<1>6. /\ objects' \in {objects, objects \cup {key}}
      /\ Goto(u, "undo") \/ objects' = objects \cup {key}
  BY DEF UploadPut
<1>7. Goto(u, "undo") => pc'[u] = "undo"
  BY KindsOfRequests DEF Goto, TypeInv, TypeOK
<1> HIDE DEF key
<1> QED BY <1>3, <1>4, <1>5, <1>6, <1>7

LEMMA PutKeeps ==
  ASSUME TypeInv, GalleryInv, NEW u \in Uploads, UploadPut(u)
  PROVE  GalleryInv'
<1>1. PICK key : /\ Drawn(u)' = Drawn(u) \cup {key}
                 /\ \A w \in Uploads : key \notin Drawn(w) /\ (w # u => Drawn(w)' = Drawn(w))
                 /\ objects' \in {objects, objects \cup {key}}
                 /\ pc'[u] \in {"put", "commit"} => objects' = objects \cup {key}
  BY PutDraws
<1>2. /\ UNCHANGED <<row, snap, warned>> /\ pc[u] = "put" /\ pc'[u] \in {"put", "commit", "undo"}
      /\ \A h \in Galleries : h # u => pc'[h] = pc[h]
  BY KindsOfRequests DEF UploadPut, Goto, TypeInv, TypeOK, Galleries
<1>3. \A w \in Uploads : Drawn(w) \subseteq Drawn(w)'
  BY <1>1
<1>4. \A l : DrawnFor(l) \subseteq DrawnFor(l)'
  BY <1>3 DEF DrawnFor
<1>5. \A l : key \notin DrawnFor(l)
  BY <1>1, DrawnForMembers
<1>6. ImagesAreDrawn'
  <2>1. \A l \in Listings : row'[l].images \subseteq DrawnFor(l)'
    BY <1>2, <1>4 DEF GalleryInv, ImagesAreDrawn
  <2>2. \A g \in Galleries : snap'[g].images \subseteq DrawnFor(ListingOf[g])'
    BY <1>2, <1>4 DEF GalleryInv, ImagesAreDrawn
  <2> QED BY <2>1, <2>2 DEF ImagesAreDrawn
<1>7. /\ \A l \in Listings : key \notin row[l].images
      /\ \A g \in Galleries : key \notin snap[g].images
  BY <1>5 DEF GalleryInv, ImagesAreDrawn
<1>8. UploadsApart'
  <2>1. ASSUME NEW w \in Uploads, pc'[w] = "idle" PROVE uploaded'[w] = 0
    <3>1. w # u /\ pc[w] = "idle"
      BY <1>2, <2>1 DEF Galleries
    <3> QED BY <3>1 DEF UploadPut, GalleryInv, UploadsApart, TypeInv, TypeOK
  <2>2. ASSUME NEW w \in Uploads, pc'[w] \in {"put", "commit"} PROVE Drawn(w)' \subseteq objects'
    <3>1. pc[w] \in {"put", "commit"}
      BY <1>2, <2>2 DEF Galleries
    <3>2. Drawn(w) \subseteq objects
      BY <3>1 DEF GalleryInv, UploadsApart
    <3> QED BY <1>1, <2>2, <3>2
  <2>3. ASSUME NEW w \in Uploads, Uncommitted(w)'
        PROVE  /\ \A l \in Listings : Drawn(w)' \cap row'[l].images = {}
               /\ \A g \in Galleries : Drawn(w)' \cap snap'[g].images = {}
    <3>1. Uncommitted(w)
      BY <1>2, <2>3 DEF Uncommitted, Galleries
    <3>2. /\ \A l \in Listings : Drawn(w) \cap row[l].images = {}
          /\ \A g \in Galleries : Drawn(w) \cap snap[g].images = {}
      BY <3>1 DEF GalleryInv, UploadsApart
    <3>3. Drawn(w)' \subseteq Drawn(w) \cup {key}
      BY <1>1
    <3> QED BY <1>2, <1>7, <3>2, <3>3
  <2> QED BY <2>1, <2>2, <2>3 DEF UploadsApart
<1>9. CleanupsSafe' /\ ReferencedImagesStored'
  <2>1. \A g \in Galleries : pc'[g] = "cleanup" => pc[g] = "cleanup"
    BY <1>2
  <2>2. objects \subseteq objects'
    BY <1>1
  <2> QED BY <1>2, <2>1, <2>2 DEF GalleryInv, CleanupsSafe, ReferencedImagesStored
<1>10. ObjectsAnswered'
  <2>1. ASSUME NEW g \in Galleries, NEW k, Answers(g, k) PROVE Answers(g, k)'
    <3>1. CASE g = u
      BY <1>2, <1>3, <2>1, <3>1 DEF Answers, Charge
    <3>2. CASE g # u
      BY <1>2, <1>3, <2>1, <3>2 DEF Answers, Charge
    <3> QED BY <3>1, <3>2
  <2>2. Answers(u, key)' /\ u \in Galleries
    BY <1>1, <1>2 DEF Answers, Galleries
  <2>3. \A k \in objects' : k \in objects \/ k = key
    BY <1>1
  <2>4. u \notin warned
    BY <1>2 DEF GalleryInv, ObjectsAnswered
  <2>5. \A k \in objects' : \/ \E l \in Listings : k \in row'[l].images
                            \/ \E g \in Galleries : Answers(g, k)'
    BY <1>2, <2>1, <2>2, <2>3 DEF GalleryInv, ObjectsAnswered
  <2>6. \A g \in warned' : g \in Galleries /\ pc'[g] \in {"done", "failed"}
    BY <1>2, <2>4 DEF GalleryInv, ObjectsAnswered
  <2> QED BY <2>5, <2>6 DEF ObjectsAnswered
<1> QED BY <1>6, <1>8, <1>9, <1>10 DEF GalleryInv

\* A new gallery is committed, or the old one removed: what was there is now
\* for the cleanup of the request, and no other.
LEMMA ReplacingKeeps ==
  ASSUME TypeOK, GalleryInv, NEW g \in Galleries, NEW images, Replaces(g, images),
         images = IF g \in Uploads THEN Drawn(g) ELSE {},
         pc[g] = "commit", pc'[g] = "cleanup", OtherGalleriesStay(g),
         UNCHANGED <<snap, uploaded, objects, warned>>
  PROVE  GalleryInv'
<1> DEFINE x == ListingOf[g]
<1>0. x \in Listings /\ g \notin warned /\ row[x] = snap[g]
  BY KindsOfRequests DEF GalleryInv, ObjectsAnswered, Replaces, Read
<1>1. SameDrawn
  BY DrawnStays
<1>2. row'[x].images = images /\ \A l \in Listings : l # x => row'[l] = row[l]
  BY DEF Replaces
<1>3. images \subseteq DrawnFor(x)
  BY DrawnForMembers
<1>4. /\ images \subseteq objects
      /\ \A l \in Listings : images \cap row[l].images = {}
      /\ \A h \in Galleries : images \cap snap[h].images = {}
  BY DEF GalleryInv, UploadsApart, Uncommitted
<1>5. ImagesAreDrawn'
  BY <1>1, <1>2, <1>3, DrawnForStays DEF GalleryInv, ImagesAreDrawn
<1>6. UploadsApart'
  <2>1. ASSUME NEW w \in Uploads, Uncommitted(w)'
        PROVE  w # g /\ Uncommitted(w) /\ Drawn(w) \cap images = {}
    <3>1. w # g /\ Uncommitted(w)
      BY <2>1 DEF Uncommitted, OtherGalleriesStay, Galleries
    <3> QED BY <3>1, DrawnApart
  <2>2. ASSUME NEW w \in Uploads, Uncommitted(w)'
        PROVE  /\ \A l \in Listings : Drawn(w)' \cap row'[l].images = {}
               /\ \A h \in Galleries : Drawn(w)' \cap snap'[h].images = {}
    BY <1>1, <1>2, <2>1, <2>2 DEF GalleryInv, UploadsApart, SameDrawn
  <2>3. ASSUME NEW w \in Uploads
        PROVE  /\ pc'[w] = "idle" => pc[w] = "idle"
               /\ pc'[w] \in {"put", "commit"} => pc[w] \in {"put", "commit"}
    BY DEF OtherGalleriesStay, Galleries
  <2> QED BY <1>1, <2>2, <2>3 DEF GalleryInv, UploadsApart, SameDrawn
<1>7. CleanupsSafe'
  <2>1. ASSUME NEW h \in Galleries, h # g, pc'[h] = "cleanup", NEW l \in Listings
        PROVE  snap'[h].images \cap row'[l].images = {}
    <3>1. snap[h].images \cap row[l].images = {}
      BY <2>1 DEF GalleryInv, CleanupsSafe, OtherGalleriesStay
    <3> QED BY <1>2, <1>4, <3>1
  <2>2. ASSUME NEW l \in Listings PROVE snap'[g].images \cap row'[l].images = {}
    <3>1. CASE l = x
      BY <1>2, <1>4, <3>1
    <3>2. CASE l # x
      <4>1. row[l].images \subseteq DrawnFor(l) /\ snap[g].images \subseteq DrawnFor(x)
        BY DEF GalleryInv, ImagesAreDrawn
      <4> QED BY <1>2, <3>2, <4>1, DrawnForApart
    <3> QED BY <3>1, <3>2
  <2> QED BY <2>1, <2>2 DEF CleanupsSafe
<1>8. ReferencedImagesStored'
  BY <1>2, <1>4 DEF GalleryInv, ReferencedImagesStored
<1>9. ObjectsAnswered'
  <2>1. ASSUME NEW h \in Galleries, h # g, NEW k, Answers(h, k) PROVE Answers(h, k)'
    BY <1>1, <2>1 DEF Answers, Charge, SameDrawn, OtherGalleriesStay
  <2>2. ASSUME NEW k, Answers(g, k) PROVE k \in row'[x].images
    BY <1>0, <1>2, <2>2 DEF Answers
  <2>3. ASSUME NEW k \in snap[g].images PROVE Answers(g, k)'
    BY <2>3 DEF Answers
  <2>4. ASSUME NEW k \in objects
        PROVE  (\E l \in Listings : k \in row'[l].images) \/ (\E h \in Galleries : Answers(h, k)')
    <3>1. ASSUME NEW l \in Listings, k \in row[l].images
          PROVE  k \in row'[l].images \/ Answers(g, k)'
      BY <1>0, <1>2, <2>3, <3>1
    <3>2. ASSUME NEW h \in Galleries, Answers(h, k)
          PROVE  k \in row'[x].images \/ Answers(h, k)'
      BY <2>1, <2>2, <3>2
    <3> QED BY <1>0, <3>1, <3>2 DEF GalleryInv, ObjectsAnswered
  <2>5. \A h \in warned' : h \in Galleries /\ pc'[h] \in {"done", "failed"}
    BY <1>0 DEF GalleryInv, ObjectsAnswered, OtherGalleriesStay
  <2> QED BY <2>4, <2>5 DEF ObjectsAnswered
<1> QED BY <1>5, <1>6, <1>7, <1>8, <1>9 DEF GalleryInv

\* Objects are deleted, all of them or with a warning.
LEMMA DeletingKeeps ==
  ASSUME TypeOK, GalleryInv, NEW g \in Galleries, NEW keys, OtherGalleriesStay(g),
         UNCHANGED <<row, snap, uploaded>>,
         \/ g \in Uploads /\ pc[g] = "undo" /\ keys = Drawn(g) /\ pc'[g] = "failed"
         \/ pc[g] = "cleanup" /\ keys = snap[g].images /\ pc'[g] = "done",
         objects' \subseteq objects, objects \ keys \subseteq objects',
         (objects' = objects \ keys /\ warned' = warned) \/ warned' = warned \cup {g}
  PROVE  GalleryInv'
<1>0. g \notin warned
  BY DEF GalleryInv, ObjectsAnswered
<1>1. SameDrawn
  BY DrawnStays
<1>2. ASSUME NEW l \in Listings PROVE keys \cap row[l].images = {}
  BY DEF GalleryInv, UploadsApart, Uncommitted, CleanupsSafe
<1>3. ASSUME NEW w \in Uploads, w # g, pc[w] \in {"put", "commit"} PROVE Drawn(w) \cap keys = {}
  <2>1. CASE g \in Uploads /\ keys = Drawn(g)
    BY <1>3, <2>1, DrawnApart
  <2>2. CASE keys = snap[g].images
    BY <1>3, <2>2 DEF GalleryInv, UploadsApart, Uncommitted
  <2> QED BY <2>1, <2>2
<1>4. ImagesAreDrawn'
  BY <1>1, DrawnForStays DEF GalleryInv, ImagesAreDrawn
<1>5. UploadsApart'
  <2>1. ASSUME NEW w \in Uploads
        PROVE  /\ pc'[w] = "idle" => pc[w] = "idle"
               /\ pc'[w] \in {"put", "commit"} => w # g /\ pc[w] \in {"put", "commit"}
               /\ Uncommitted(w)' => Uncommitted(w)
    BY DEF OtherGalleriesStay, Galleries, Uncommitted
  <2>2. ASSUME NEW w \in Uploads, pc'[w] \in {"put", "commit"} PROVE Drawn(w)' \subseteq objects'
    <3>1. Drawn(w) \subseteq objects /\ Drawn(w) \cap keys = {}
      BY <1>3, <2>1, <2>2 DEF GalleryInv, UploadsApart
    <3> QED BY <1>1, <3>1 DEF SameDrawn
  <2> QED BY <1>1, <2>1, <2>2 DEF GalleryInv, UploadsApart, SameDrawn
<1>6. CleanupsSafe'
  BY DEF GalleryInv, CleanupsSafe, OtherGalleriesStay
<1>7. ReferencedImagesStored'
  BY <1>2 DEF GalleryInv, ReferencedImagesStored
<1>8. ObjectsAnswered'
  <2>1. ASSUME NEW h \in Galleries, h # g, NEW k, Answers(h, k) PROVE Answers(h, k)'
    BY <1>1, <2>1 DEF Answers, Charge, SameDrawn, OtherGalleriesStay
  <2>2. ASSUME NEW k \in objects', Answers(g, k) PROVE Answers(g, k)'
    <3>1. k \in keys
      BY <1>0, <2>2 DEF Answers
    <3>2. g \in warned'
      BY <2>2, <3>1
    <3> QED BY <1>1, <3>1, <3>2 DEF Answers, Charge, SameDrawn
  <2>3. \A h \in warned' : h \in Galleries /\ pc'[h] \in {"done", "failed"}
    BY DEF GalleryInv, ObjectsAnswered, OtherGalleriesStay
  <2>4. ASSUME NEW k \in objects'
        PROVE  (\E l \in Listings : k \in row'[l].images) \/ (\E h \in Galleries : Answers(h, k)')
    BY <2>1, <2>2 DEF GalleryInv, ObjectsAnswered
  <2> QED BY <2>3, <2>4 DEF ObjectsAnswered
<1> QED BY <1>4, <1>5, <1>6, <1>7, <1>8 DEF GalleryInv

\* The steps of owners, moderators and readers.
LEMMA OthersKeep ==
  ASSUME RowInv, Ordinary, GalleryInv,
         \/ UNCHANGED imagesVars /\ \E l \in Listings : Create(l) \/ InternalApi(l)
         \/ UNCHANGED imagesVars /\ \E e \in Edits : EditRead(e) \/ EditWrite(e)
         \/ UNCHANGED imagesVars /\ \E m \in Reviews : findForModeration(m) \/ approve(m) \/ reject(m)
         \/ \E v \in Views : readPublicImage(v)
  PROVE  GalleryInv'
<1>0. TypeOK
  BY DEF RowInv, TypeInv
<1>1. UNCHANGED <<uploaded, objects, warned>>
  BY DEF imagesVars, readPublicImage, FindImage, FetchObject
<1>2. SameRows
  <2>1. ASSUME NEW m \in Reviews, NEW decision \in {"approve", "reject"},
               NEW status \in {"APPROVED", "REJECTED"}, status = "APPROVED" => decision = "approve",
               DecisionWrite(m, decision, status)
        PROVE  SameRows
    BY <2>1, DecisionRows DEF SameRows
  <2>2. ASSUME NEW m \in Reviews, approve(m) \/ reject(m) PROVE SameRows
    <3>1. CASE DecisionWrite(m, "approve", "APPROVED") \/ DecisionWrite(m, "reject", "REJECTED")
      BY <2>1, <3>1
    <3>2. CASE DecisionRead(m, "approve") \/ DecisionRead(m, "reject")
      BY <3>2 DEF DecisionRead, SameRows
    <3> QED BY <2>2, <3>1, <3>2 DEF approve, reject
  <2>3. ASSUME UNCHANGED row PROVE SameRows
    BY <2>3 DEF SameRows
  <2>4. ASSUME \A l \in Listings : Quiet(l) PROVE SameRows
    BY <2>4 DEF Quiet, SameRows
  <2> QED BY <2>2, <2>3, <2>4, CreateRows, BookRows, EditRows
          DEF EditRead, findForModeration, readPublicImage, FindImage, FetchObject
<1>3. ASSUME NEW q \in Edits \cup Reviews \cup Views, NEW next, Goto(q, next), Keep(q) \/ UNCHANGED snap
      PROVE  \A g \in Galleries : pc'[g] = pc[g] /\ snap'[g] = snap[g]
  BY <1>0, <1>3, KindsOfRequests DEF Goto, Keep, TypeOK, Galleries
<1>4. \A g \in Galleries : pc'[g] = pc[g] /\ snap'[g] = snap[g]
  <2>1. CASE \E l \in Listings : Create(l) \/ InternalApi(l)
    BY <2>1 DEF Create, InternalApi, Book, Complete, Release, Sets
  <2>2. ASSUME NEW e \in Edits, EditRead(e) \/ EditWrite(e)
        PROVE  (\E next : Goto(e, next)) /\ (Keep(e) \/ UNCHANGED snap)
    BY <2>2 DEF EditRead, EditWrite, Answered, RolledBack
  <2>3. ASSUME NEW m \in Reviews, findForModeration(m) \/ approve(m) \/ reject(m)
        PROVE  (\E next : Goto(m, next)) /\ (Keep(m) \/ UNCHANGED snap)
    BY <2>3 DEF findForModeration, approve, reject, DecisionRead, DecisionWrite, Answered, RolledBack
  <2>4. ASSUME NEW v \in Views, readPublicImage(v)
        PROVE  (\E next : Goto(v, next)) /\ UNCHANGED snap
    BY <2>4 DEF readPublicImage, FindImage, FetchObject
  <2> QED BY <1>3, <2>1, <2>2, <2>3, <2>4
<1> QED BY <1>1, <1>2, <1>4, GalleryFrame

\* What a step of a request says of the others.
LEMMA OneGallery ==
  ASSUME TypeOK, NEW g \in Galleries, NEW next, Goto(g, next), Keep(g) \/ UNCHANGED snap
  PROVE  OtherGalleriesStay(g) /\ pc'[g] = next
BY KindsOfRequests DEF OtherGalleriesStay, Goto, Keep, TypeOK

LEMMA CrashKeeps ==
  ASSUME RowInv, GalleryInv, NEW r \in Requests, Crash(r), UNCHANGED imagesVars
  PROVE  GalleryInv'
<1>0. TypeOK /\ SameRows /\ UNCHANGED <<uploaded, objects, warned>>
  BY DEF RowInv, TypeInv, Crash, SameRows, imagesVars
<1>1. CASE r \in Galleries
  <2>1. pc[r] \notin {"idle", "done", "failed"}
    BY DEF Crash, Ended
  <2>2. OtherGalleriesStay(r) /\ pc'[r] = "crashed" /\ snap'[r] = snap[r]
    BY <1>0, <1>1, OneGallery DEF Crash
  <2> QED BY <1>0, <1>1, <2>1, <2>2, GoingOn
<1>2. CASE r \notin Galleries
  BY <1>0, <1>2, KindsOfRequests, GalleryFrame DEF Crash, Goto, TypeOK
<1> QED BY <1>1, <1>2

LEMMA CommitKeeps ==
  ASSUME RowInv, Ordinary, GalleryInv, NEW g \in Galleries,
         (g \in Uploads /\ UploadCommit(g)) \/ (g \in Deletions /\ DeletionCommit(g))
  PROVE  GalleryInv'
<1>0. /\ TypeOK /\ UNCHANGED <<snap, uploaded, objects, warned>> /\ pc[g] = "commit"
      /\ g \in Uploads => g \notin Deletions
  BY DEF RowInv, TypeInv, UploadCommit, DeletionCommit, imagesVars
<1>1. \/ UNCHANGED row /\ (Goto(g, "undo") \/ (g \in Deletions /\ (Goto(g, "conflict") \/ Goto(g, "failed"))))
      \/ Replaces(g, IF g \in Uploads THEN Drawn(g) ELSE {}) /\ Goto(g, "cleanup")
  BY <1>0, UploadRows, DeletionRows
<1>2. CASE UNCHANGED row /\ (Goto(g, "undo") \/ (g \in Deletions /\ (Goto(g, "conflict") \/ Goto(g, "failed"))))
  <2>1. SameRows
    BY <1>2 DEF SameRows
  <2> QED BY <1>0, <1>2, <2>1, OneGallery, GoingOn
<1>3. CASE Replaces(g, IF g \in Uploads THEN Drawn(g) ELSE {}) /\ Goto(g, "cleanup")
  BY <1>0, <1>3, OneGallery, ReplacingKeeps
<1> QED BY <1>1, <1>2, <1>3

LEMMA CleanupKeeps ==
  ASSUME RowInv, GalleryInv, NEW g \in Galleries, (g \in Uploads /\ UploadUndo(g)) \/ Cleanup(g)
  PROVE  GalleryInv'
<1>0. TypeOK /\ UNCHANGED <<row, snap, uploaded>>
  BY DEF RowInv, TypeInv, UploadUndo, Cleanup
<1>1. ASSUME NEW keys, NEW next, BestEffortDelete(g, keys, next)
      PROVE  /\ Goto(g, next) /\ objects' \subseteq objects /\ objects \ keys \subseteq objects'
             /\ (objects' = objects \ keys /\ warned' = warned) \/ warned' = warned \cup {g}
  BY <1>1 DEF BestEffortDelete
<1>2. CASE g \in Uploads /\ UploadUndo(g)
  <2>1. BestEffortDelete(g, Drawn(g), "failed") /\ pc[g] = "undo"
    BY <1>2 DEF UploadUndo
  <2>2. /\ Goto(g, "failed") /\ objects' \subseteq objects /\ objects \ Drawn(g) \subseteq objects'
        /\ (objects' = objects \ Drawn(g) /\ warned' = warned) \/ warned' = warned \cup {g}
    BY <1>1, <2>1
  <2>3. OtherGalleriesStay(g) /\ pc'[g] = "failed"
    BY <1>0, <2>2, OneGallery
  <2> QED BY <1>0, <1>2, <2>1, <2>2, <2>3, DeletingKeeps
<1>3. CASE Cleanup(g)
  <2>1. BestEffortDelete(g, snap[g].images, "done") /\ pc[g] = "cleanup"
    BY <1>3 DEF Cleanup
  <2>2. /\ Goto(g, "done") /\ objects' \subseteq objects /\ objects \ snap[g].images \subseteq objects'
        /\ (objects' = objects \ snap[g].images /\ warned' = warned) \/ warned' = warned \cup {g}
    BY <1>1, <2>1
  <2>3. OtherGalleriesStay(g) /\ pc'[g] = "done"
    BY <1>0, <2>2, OneGallery
  <2> QED BY <1>0, <2>1, <2>2, <2>3, DeletingKeeps
<1> QED BY <1>2, <1>3

LEMMA ReadingKeeps ==
  ASSUME RowInv, GalleryInv, NEW g \in Galleries,
         (g \in Uploads /\ UploadRead(g)) \/ (g \in Deletions /\ DeletionRead(g))
  PROVE  GalleryInv'
<1>0. TypeOK /\ g \in Requests
  BY KindsOfRequests DEF RowInv, TypeInv
<1>1. /\ pc[g] = "idle" /\ Keep(g) /\ UNCHANGED <<row, uploaded, objects, warned>>
      /\ \/ Goto(g, "put") \/ Goto(g, "refused")
         \/ g \in Deletions /\ (Goto(g, "commit") \/ Goto(g, "done"))
  BY DEF UploadRead, DeletionRead, imagesVars
<1>2. snap'[g] = Read(g)
  BY <1>0, <1>1, KeepTypes DEF TypeOK
<1> QED BY <1>0, <1>1, <1>2, OneGallery, Reading

LEMMA GalleryStep == ASSUME RowInv, Ordinary, GalleryInv, [Next]_vars PROVE GalleryInv'
<1>1. ASSUME NEW u \in Uploads, replaceOwnedImages(u) PROVE GalleryInv'
  BY <1>1, ReadingKeeps, PutKeeps, CommitKeeps, CleanupKeeps DEF replaceOwnedImages, Galleries, RowInv
<1>2. ASSUME NEW d \in Deletions, deleteOwnedImages(d) PROVE GalleryInv'
  BY <1>2, ReadingKeeps, CommitKeeps, CleanupKeeps DEF deleteOwnedImages, Galleries
<1>3. CASE UNCHANGED vars
  BY <1>3, GalleryFrame DEF vars, listingVars, imagesVars, SameRows
<1> QED BY <1>1, <1>2, <1>3, OthersKeep, CrashKeeps DEF Next, ListingsStep, ImagesStep, Idle

LEMMA GalleryInit == Init => GalleryInv
<1> SUFFICES ASSUME Init PROVE GalleryInv
  OBVIOUS
<1>1. ImagesAreDrawn /\ CleanupsSafe /\ ReferencedImagesStored
  BY NoRowIsRow, KindsOfRequests
  DEF Init, ListingsInit, ImagesInit, ImagesAreDrawn, CleanupsSafe, ReferencedImagesStored
<1>2. UploadsApart /\ ObjectsAnswered
  BY KindsOfRequests DEF Init, ListingsInit, ImagesInit, UploadsApart, ObjectsAnswered, Uncommitted
<1> QED BY <1>1, <1>2 DEF GalleryInv

LEMMA GalleryInvariant == ASSUME Ordinary PROVE Spec => []GalleryInv
<1>1. RowInv /\ GalleryInv /\ [Next]_vars => GalleryInv'
  BY GalleryStep
<1> QED BY <1>1, GalleryInit, RowInvariant, PTL DEF Spec

\* Cleanups only delete what no row names, however uploads, deletions and
\* their failures interleave (listing-images.service.ts).
THEOREM RowsNameStoredObjects == ASSUME Ordinary PROVE Spec => []ReferencedImagesStored
<1>1. GalleryInv => ReferencedImagesStored
  BY DEF GalleryInv
<1> QED BY <1>1, GalleryInvariant, PTL

\* An object without a row is known to a request that is at work, died, or has
\* logged its failure (bestEffortDelete).
THEOREM OrphansAreNotSilent == ASSUME Ordinary PROVE Spec => []NoSilentOrphan
<1>1. GalleryInv => NoSilentOrphan
  <2> SUFFICES ASSUME GalleryInv, NEW g \in Galleries, NEW k, Answers(g, k)
               PROVE  /\ k \in Charge(g)
                      /\ pc[g] \notin {"idle", "done", "failed", "refused", "conflict"} \/ g \in warned
    BY DEF NoSilentOrphan, GalleryInv, ObjectsAnswered, Galleries
  <2> QED BY DEF Answers, Charge
<1> QED BY <1>1, GalleryInvariant, PTL

=============================================================================
