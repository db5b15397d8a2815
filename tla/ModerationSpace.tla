--------------------------- MODULE ModerationSpace ---------------------------
(***************************************************************************)
(* The page of a moderator: a queue that is read when the page opens and   *)
(* whenever its user may moderate again, decisions on the revision it      *)
(* shows, several of which may be under way, and private galleries that    *)
(* are downloaded on demand into blob URLs, which somebody must revoke.    *)
(***************************************************************************)
EXTENDS ApiClient, FiniteSets

CONSTANTS
  Files,        \* the listings the page may show
  Illustrated,  \* those among them with photos
  Contended,    \* bound: those their owner corrects or another moderator decides
  Rulings,      \* bound: the decisions that are taken
  MaxRev,       \* bound: how often they are corrected
  MaxReads,     \* bound: how often the queue is read
  MaxOrphans    \* bound: downloads that outlive their gallery

\* What a click sends: a listing, the revision it was shown in, the decision.
Decisions == [id : Files, rev : 1 .. MaxRev, to : Rulings]

ASSUME ModerationSpaceAssumption ==
  /\ Illustrated \cup Contended \subseteq Files
  /\ Rulings \subseteq {"APPROVED", "REJECTED"}
  /\ MaxRev \in Nat \ {0} /\ MaxReads \in Nat /\ MaxOrphans \in Nat
  /\ None \notin Decisions

Clicks == {"act", "again"}  \* the decisions that may be under way together

VARIABLES
  file,      \* the listings at the service: status, and updatedAt as a revision
  reads,     \* how often the queue has been asked for
  allowed,   \* ready, authenticated and canModerate: otherwise only a gate is shown
  queue,     \* the revision the page has of a listing, 0 when it has none
  loadError, \* the last read of the queue has failed: the queue is not shown
  sent,      \* the queue as the service has sent it
  loaded,    \* history: the listings of the queue last read
  viewed,    \* history: the revisions the page has ever had
  hidden,    \* the listings the filter or the search leaves out
  decision,  \* the decision of a thread that approves or rejects
  busyId,    \* the one listing whose buttons are disabled
  ruled,     \* history: what the service has done for this page
  gallery,   \* the state of the gallery component of a listing
  orphans,   \* downloads of galleries that are no longer mounted
  blobs      \* the blob URLs that have not been revoked, in galleries

readVars == <<reads, allowed, loadError, sent, loaded, viewed>>
queueVars == <<file, queue, readVars, decision, busyId, ruled>>
galleryVars == <<hidden, gallery, orphans, blobs>>
moderationVars == <<queueVars, galleryVars>>

Queues == [Files -> 0 .. MaxRev]
NoQueue == [f \in Files |-> 0]
InQueue(rows) == {f \in Files : rows[f] # 0}

ModerationTypeOK ==
  /\ file \in [Files -> [status : {"PENDING", "APPROVED", "REJECTED"}, rev : 1 .. MaxRev]]
  /\ reads \in Nat /\ allowed \in BOOLEAN /\ loadError \in BOOLEAN
  /\ queue \in Queues /\ sent \in Queues
  /\ loaded \subseteq Files /\ viewed \subseteq Files \X (1 .. MaxRev)
  /\ decision \in [Clicks -> Decisions \cup {None}]
  /\ busyId \in Files \cup {None} /\ hidden \subseteq Illustrated
  /\ ruled \subseteq Files \X (1 .. MaxRev)
  /\ gallery \in [Illustrated -> {"closed", "loading", "shown"}]
  /\ orphans \in [Illustrated -> 0 .. MaxOrphans] /\ blobs \in [Illustrated -> Nat]

ModerationInit ==
  /\ file = [f \in Files |-> [status |-> "PENDING", rev |-> 1]]
  /\ reads = 1 /\ allowed = TRUE /\ loadError = FALSE
  /\ queue = NoQueue /\ sent = NoQueue
  /\ loaded = {} /\ viewed = {}
  /\ decision = [c \in Clicks |-> None]
  /\ busyId = None
  /\ hidden = {}
  /\ ruled = {}
  /\ gallery = [f \in Illustrated |-> "closed"]
  /\ orphans = [f \in Illustrated |-> 0]
  /\ blobs = [f \in Illustrated |-> 0]

-----------------------------------------------------------------------------
(* The service, its other users *)

ServeQueue ==
  /\ Calling("load")
  /\ sent' = [f \in Files |-> IF file[f].status = "PENDING" THEN file[f].rev ELSE 0]
  /\ Serves("load", TRUE)
  /\ UNCHANGED <<file, queue, reads, allowed, loadError, loaded, viewed, decision, busyId, ruled>>
  /\ UNCHANGED galleryVars

\* Only the revision the moderator has seen, and only once.
ServeDecision(c) ==
  /\ Calling(c) /\ decision[c] # None
  /\ LET d == decision[c]
         valid == file[d.id] = [status |-> "PENDING", rev |-> d.rev] IN
     /\ Serves(c, valid)
     /\ file' = IF valid THEN [file EXCEPT ![d.id].status = d.to] ELSE file
     /\ ruled' = IF valid THEN ruled \cup {<<d.id, file[d.id].rev>>} ELSE ruled
  /\ UNCHANGED <<queue, readVars, decision, busyId, galleryVars>>

QueueFails(t) ==
  /\ FailCall(t) \/ LoseAnswer(t)
  /\ sent' = IF t = "load" THEN NoQueue ELSE sent
  /\ UNCHANGED <<file, queue, reads, allowed, loadError, loaded, viewed, decision, busyId, ruled>>
  /\ UNCHANGED galleryVars

\* The owner corrects the listing, or another moderator decides.
OthersAct(f) ==
  /\ f \in Contended
  /\ \/ /\ file[f].status # "APPROVED" /\ file[f].rev < MaxRev
        /\ file' = [file EXCEPT ![f] = [status |-> "PENDING", rev |-> file[f].rev + 1]]
     \/ /\ file[f].status = "PENDING"
        /\ \E to \in Rulings : file' = [file EXCEPT ![f].status = to]
  /\ UNCHANGED <<call, queue, readVars, decision, busyId, ruled, galleryVars>>

-----------------------------------------------------------------------------
(* Galleries *)

Mounted(f) == allowed /\ ~loadError /\ queue[f] # 0 /\ f \notin hidden

Vanishing == {f \in Illustrated : Mounted(f) /\ ~Mounted(f)'}

\* Variant with a bug: the cleanup trusts that the gallery was shown.
RevokesTwice ==
  /\ gallery' = [f \in Illustrated |-> IF f \in Vanishing THEN "closed" ELSE gallery[f]]
  /\ orphans' = [f \in Illustrated |->
                   IF f \in Vanishing /\ gallery[f] = "loading" THEN orphans[f] + 1 ELSE orphans[f]]
  /\ blobs' = [f \in Illustrated |-> IF f \in Vanishing THEN blobs[f] - 1 ELSE blobs[f]]

\* The cleanup of every gallery that a step unmounts: what it shows is revoked,
\* and what it still downloads is nobody's.
Unmounts ==
  /\ gallery' = [f \in Illustrated |-> IF f \in Vanishing THEN "closed" ELSE gallery[f]]
  /\ orphans' = [f \in Illustrated |->
                   IF f \in Vanishing /\ gallery[f] = "loading" THEN orphans[f] + 1 ELSE orphans[f]]
  /\ blobs' = [f \in Illustrated |->
                 IF f \in Vanishing /\ gallery[f] = "shown" THEN blobs[f] - 1 ELSE blobs[f]]

\* Of a listing without photos the filter would only hide the buttons.
Filter(out) ==
  /\ hidden' = out /\ out # hidden
  /\ UNCHANGED <<call, queueVars>>
  /\ Unmounts

\* loadGallery, and again after a failure.
OpenGallery(f) ==
  /\ Mounted(f) /\ gallery[f] = "closed" /\ orphans[f] < MaxOrphans
  /\ gallery' = [gallery EXCEPT ![f] = "loading"]
  /\ UNCHANGED <<call, queueVars, hidden, orphans, blobs>>

\* All images have come, or one has failed.
GalleryArrives(f) ==
  /\ gallery[f] = "loading"
  /\ \/ gallery' = [gallery EXCEPT ![f] = "shown"] /\ blobs' = [blobs EXCEPT ![f] = @ + 1]
     \/ gallery' = [gallery EXCEPT ![f] = "closed"] /\ UNCHANGED blobs
  /\ UNCHANGED <<call, queueVars, hidden, orphans>>

\* Variant with a bug: urlsRef is all that is ever revoked.
OrphanKeepsUrls(f) ==
  /\ orphans[f] > 0
  /\ orphans' = [orphans EXCEPT ![f] = @ - 1]
  /\ blobs' \in {blobs, [blobs EXCEPT ![f] = @ + 1]}
  /\ UNCHANGED <<call, queueVars, hidden, gallery>>

\* Not mounted any more: the URLs are revoked as soon as they are made.
OrphanArrives(f) ==
  /\ orphans[f] > 0
  /\ orphans' = [orphans EXCEPT ![f] = @ - 1]
  /\ UNCHANGED <<call, queueVars, hidden, gallery, blobs>>

-----------------------------------------------------------------------------
(* The queue *)

\* A read that fails hides the queue the page has until another succeeds.
QueueShown ==
  /\ Answered("load")
  /\ IF Done("load")
     THEN /\ queue' = sent /\ loaded' = InQueue(sent)
          /\ viewed' = viewed \cup {<<f, sent[f]>> : f \in InQueue(sent)}
     ELSE UNCHANGED <<queue, loaded, viewed>>
  /\ loadError' = Failed("load")
  /\ sent' = NoQueue
  /\ Returns("load")
  /\ UNCHANGED <<file, reads, allowed, decision, busyId, ruled, hidden>>
  /\ Unmounts

\* The session ends, or the roles of a new token are not enough: the effect is
\* cleaned up, the queue is kept, and a decision under way goes on.
LoseAccess ==
  /\ allowed /\ allowed' = FALSE /\ reads < MaxReads
  /\ sent' = NoQueue
  /\ Returns("load")
  /\ UNCHANGED <<file, queue, reads, loadError, loaded, viewed, decision, busyId, ruled, hidden>>
  /\ Unmounts

\* The effect runs again; what the page has is shown until the answer comes.
RegainAccess ==
  /\ ~allowed /\ allowed' = TRUE
  /\ reads' = reads + 1
  /\ Calls("load")
  /\ UNCHANGED <<file, queue, loadError, sent, loaded, viewed, decision, busyId, ruled>>
  /\ UNCHANGED galleryVars

\* A second listing may be decided before the first answer, and the first
\* answer enables the buttons of the second again.  The threads are alike: the
\* second is for a decision beside another.
Decide(c, f, to) ==
  /\ call[c] = "none" /\ (c = "again" => call["act"] # "none")
  /\ Mounted(f) /\ busyId # f
  /\ decision' = [decision EXCEPT ![c] = [id |-> f, rev |-> queue[f], to |-> to]]
  /\ busyId' = f
  /\ Calls(c)
  /\ UNCHANGED <<file, queue, readVars, ruled, galleryVars>>

\* Variant with a bug: the listing leaves the queue whatever the answer.
DropsListing(c) ==
  /\ Answered(c) /\ decision[c] # None
  /\ queue' = [queue EXCEPT ![decision[c].id] = 0]
  /\ decision' = [decision EXCEPT ![c] = None]
  /\ busyId' = None
  /\ Returns(c)
  /\ UNCHANGED <<file, readVars, ruled, hidden>>
  /\ Unmounts

\* A listing leaves the queue, and its gallery with it, when it is decided,
\* in whatever revision it is there by then.
Decided(c) ==
  /\ Answered(c) /\ decision[c] # None
  /\ queue' = IF Done(c) THEN [queue EXCEPT ![decision[c].id] = 0] ELSE queue
  /\ decision' = [decision EXCEPT ![c] = None]
  /\ busyId' = None
  /\ Returns(c)
  /\ UNCHANGED <<file, readVars, ruled, hidden>>
  /\ Unmounts

-----------------------------------------------------------------------------
ModerationAnswers(t) ==
  \/ t = "load" /\ (ServeQueue \/ QueueShown)
  \/ t \in Clicks /\ (ServeDecision(t) \/ Decided(t))
  \/ QueueFails(t)

ModerationNext ==
  \/ \E t \in Threads : ModerationAnswers(t)
  \/ \E f \in Files :
       \/ OthersAct(f)
       \/ \E c \in Clicks, to \in Rulings : Decide(c, f, to)
  \/ \E f \in Illustrated : OpenGallery(f) \/ GalleryArrives(f) \/ OrphanArrives(f)
  \/ \E out \in SUBSET Illustrated : Filter(out)
  \/ LoseAccess \/ RegainAccess
=============================================================================
