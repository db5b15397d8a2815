---------------------------- MODULE PersonalSpace ----------------------------
(***************************************************************************)
(* The page of a member: two forms (a new listing, and the correction of   *)
(* one that is not published) over one save at a time, each save a chain   *)
(* of calls any of which can fail, while a moderator works.                *)
(*                                                                         *)
(* Every save has a content of its own, the number of the save.  A row has *)
(* the save its text comes from and the one its photos do, 0 for none; a   *)
(* save without photos keeps the gallery, which then belongs to it.        *)
(***************************************************************************)
EXTENDS ApiClient, FiniteSets

CONSTANTS
  Listings,
  MaxSaves   \* bound: how often a form is sent

ASSUME PersonalAssumption == MaxSaves \in Nat /\ None \notin Listings

VARIABLES
  row,              \* the listings of the member, at the service
  shelf,            \* listings: what the page shows of them
  fetched,          \* what a thread has been sent of them
  formKey,          \* createImageInputKey: which creation form is shown
  pendingCreateId,  \* the draft the creation form has left at the service
  editing,          \* the listing in the dialog, as it was when it opened
  saver,            \* the save under way, and the call it awaits
  saves,            \* how many there have been
  known,            \* history: the listings a form was told to have created
  doubtful          \* history: drafts with a gallery the page was not told of, or
                    \* open in the dialog before it was told that it made them

rowVars == <<row, known, doubtful>>
screenVars == <<shelf, formKey, pendingCreateId, editing>>
personalVars == <<rowVars, screenVars, fetched, saver, saves>>

Absent == [status |-> "ABSENT", text |-> 0, photos |-> 0]
Idle == [fn |-> "none", at |-> "idle", id |-> None, version |-> 0,
         withPhotos |-> FALSE, key |-> 0, failed |-> FALSE]
Nothing == [l \in Listings |-> "absent"]
Saving == saver.at # "idle"
Mutations == {"create", "update", "delete", "replace"}

\* What the page knows of a row: whether it is there, and may be corrected,
\* and whether it has its gallery.
Seen(l) ==
  CASE row[l].status = "ABSENT" -> "absent"
    [] row[l].status = "APPROVED" -> "published"
    [] OTHER -> IF row[l].photos = 0 THEN "bare" ELSE "complete"

PersonalTypeOK ==
  /\ row \in [Listings -> [status : {"ABSENT", "OPEN", "APPROVED"},
                           text : 0 .. MaxSaves, photos : 0 .. MaxSaves]]
  /\ shelf \in [Listings -> {"absent", "published", "bare", "complete"}]
  /\ fetched \in [{"load", "act"} -> [Listings -> {"absent", "published", "bare", "complete"}]]
  /\ formKey \in Nat \ {0}
  /\ pendingCreateId \in Listings \cup {None}
  /\ editing \in [id : Listings, seen : {"bare", "complete"}] \cup {None}
  /\ saves \in 0 .. MaxSaves /\ saver.at \in Mutations \cup {"reload", "idle"} /\ saver.id \in Listings \cup {None}
  /\ known \subseteq Nat \X Listings /\ doubtful \subseteq Listings

PersonalInit ==
  /\ row = [l \in Listings |-> Absent]
  /\ shelf = [l \in Listings |-> "absent"]
  /\ fetched = [t \in {"load", "act"} |-> Nothing]
  /\ formKey = 1
  /\ pendingCreateId = None /\ editing = None
  /\ saver = Idle /\ saves = 0
  /\ known = {} /\ doubtful = {}

-----------------------------------------------------------------------------
(* The service, and the moderator *)

Open(l) == row[l].status = "OPEN"
Writes(l, text, photos) ==
  row' = [row EXCEPT ![l] = [status |-> "OPEN", text |-> text, photos |-> photos]]

ServeCreate ==
  /\ saver.at = "create"
  /\ \E l \in Listings : row[l].status = "ABSENT"
  /\ LET l == CHOOSE n \in Listings : row[n].status = "ABSENT" IN   \* any new id
       /\ Writes(l, saver.version, 0)
       /\ saver' = [saver EXCEPT !.id = l]     \* the answer has it
  /\ Serves("act", TRUE)

ServeChange ==
  /\ saver.at \in {"update", "delete", "replace"}
  /\ LET l == saver.id
         photos == row[l].photos IN
     /\ Serves("act", Open(l))
     /\ IF ~Open(l) THEN UNCHANGED row
        ELSE CASE saver.at = "update" ->
                    Writes(l, saver.version, IF saver.withPhotos \/ photos = 0 THEN photos ELSE saver.version)
               [] saver.at = "replace" -> Writes(l, row[l].text, saver.version)
               [] OTHER -> IF photos = 0 THEN UNCHANGED row ELSE Writes(l, row[l].text, 0)
  /\ UNCHANGED saver

ServeSave ==
  /\ Calling("act") /\ (ServeCreate \/ ServeChange)
  /\ UNCHANGED <<screenVars, fetched, known, doubtful, saves>>

\* GET /listings/me, for a load or at the end of a save.
ServeMine(t) ==
  /\ Calling(t) /\ (t = "act" => saver.at = "reload")
  /\ fetched' = [fetched EXCEPT ![t] = [l \in Listings |-> Seen(l)]]
  /\ Serves(t, TRUE)
  /\ UNCHANGED <<rowVars, screenVars, saver, saves>>

\* A gallery whose answer is lost is complete, and the draft may be published.
SaveFails ==
  /\ \/ FailCall("act") /\ UNCHANGED doubtful
     \/ /\ LoseAnswer("act")
        /\ doubtful' = IF saver.fn = "create" /\ saver.at = "replace"
                       THEN doubtful \cup {saver.id} ELSE doubtful
  /\ UNCHANGED <<row, known, screenVars, fetched, saver, saves>>

MineFails ==
  /\ FailCall("load") \/ LoseAnswer("load")
  /\ UNCHANGED personalVars

\* A listing that waits for its review, or has been refused, is open to its
\* owner; a moderator may approve it once it has a gallery.
Approve(l) ==
  /\ Open(l) /\ row[l].photos # 0
  /\ row' = [row EXCEPT ![l].status = "APPROVED"]
  /\ UNCHANGED <<call, screenVars, fetched, saver, known, doubtful, saves>>

-----------------------------------------------------------------------------
(* The page *)

\* The effect of the page, or the load at the end of it: none waits for another.
MineShown ==
  /\ Answered("load")
  /\ shelf' = IF Done("load") THEN fetched["load"] ELSE shelf
  /\ fetched' = [fetched EXCEPT !["load"] = Nothing]
  /\ Returns("load")
  /\ UNCHANGED <<rowVars, formKey, pendingCreateId, editing, saver, saves>>

\* The reset of the creation form: a new key remounts the file input.
BlankForm == pendingCreateId' = None /\ formKey' = formKey + 1

Saves(fn, at, id, withPhotos) ==
  /\ ~Saving
  /\ saves < MaxSaves /\ saves' = saves + 1
  /\ saver' = [fn |-> fn, at |-> at, id |-> id, version |-> saves + 1,
               withPhotos |-> withPhotos, key |-> formKey, failed |-> FALSE]
  /\ Calls("act")

CreateListing ==
  /\ Saves("create", IF pendingCreateId = None THEN "create" ELSE "update", pendingCreateId, TRUE)
  /\ UNCHANGED <<rowVars, shelf, formKey, pendingCreateId, editing, fetched>>

\* "Corriger" stays enabled during a save.  A new draft that is on the shelf
\* before the page has read that it made it stays the draft of the form.
StartEditing(l) ==
  /\ shelf[l] \in {"bare", "complete"}
  /\ editing' = [id |-> l, seen |-> shelf[l]]
  /\ IF pendingCreateId = l THEN BlankForm ELSE UNCHANGED <<pendingCreateId, formKey>>
  /\ doubtful' = IF saver.at = "create" /\ saver.id = l THEN doubtful \cup {l} ELSE doubtful
  /\ UNCHANGED <<row, known, shelf, fetched, saver, call, saves>>

CloseDialog ==
  /\ editing # None /\ editing' = None
  /\ UNCHANGED <<rowVars, shelf, formKey, pendingCreateId, fetched, saver, call, saves>>

\* Variant with a bug: new photos over the old gallery, as the service allows.
KeepsGallery(withPhotos) == "update"

\* A new gallery comes last and the old one goes first.
FirstCall(withPhotos) == IF withPhotos THEN "delete" ELSE "update"

\* Without new photos the gallery the dialog was opened with must be complete.
SaveEdit(withPhotos) ==
  /\ editing # None /\ (withPhotos \/ editing.seen = "complete")
  /\ Saves("edit", FirstCall(withPhotos), editing.id, withPhotos)
  /\ UNCHANGED <<rowVars, shelf, formKey, pendingCreateId, editing, fetched>>

\* Variant with a bug: the photos of a corrected draft are not sent again.
SkipsPhotos(at) ==
  CASE at = "create" -> "replace"
    [] at = "delete" -> "update"
    [] OTHER -> "reload"

NextCall(at) ==
  CASE at = "create" -> "replace"
    [] at = "delete" -> "update"
    [] at = "update" /\ saver.withPhotos -> "replace"
    [] OTHER -> "reload"

\* An await of createListing or saveEdit returns.
SaveAdvances ==
  /\ Done("act") /\ saver.at \in Mutations
  /\ LET next == NextCall(saver.at)
         over == next = "reload" IN
     /\ saver' = [saver EXCEPT !.at = next]
     /\ IF saver.at = "create"
        THEN pendingCreateId' = saver.id /\ known' = known \cup {<<saver.key, saver.id>>} /\ UNCHANGED formKey
        ELSE /\ IF over /\ saver.fn = "create" THEN BlankForm ELSE UNCHANGED <<pendingCreateId, formKey>>
             /\ UNCHANGED known
     /\ editing' = IF over /\ saver.fn = "edit" THEN None ELSE editing
  /\ Calls("act")
  /\ UNCHANGED <<row, doubtful, shelf, fetched, saves>>

\* Variant with a bug: a failed save forgets the draft it has made.
ForgetsDraft ==
  /\ Failed("act") /\ saver.at \in Mutations
  /\ IF saver.at = "create"
     THEN saver' = Idle /\ Returns("act")
     ELSE saver' = [saver EXCEPT !.at = "reload", !.failed = TRUE] /\ Calls("act")
  /\ pendingCreateId' = None
  /\ UNCHANGED <<rowVars, shelf, formKey, editing, fetched, saves>>

\* The catch blocks: the shelf is read again, unless there is no draft to show;
\* the draft is kept for the next try.
SaveGivesUp ==
  /\ Failed("act") /\ saver.at \in Mutations
  /\ IF saver.at = "create"
     THEN saver' = Idle /\ Returns("act")
     ELSE saver' = [saver EXCEPT !.at = "reload", !.failed = TRUE] /\ Calls("act")
  /\ UNCHANGED <<rowVars, shelf, formKey, pendingCreateId, editing, fetched, saves>>

\* loadMine never throws, and finally the forms are enabled again.
SaveEnds ==
  /\ Answered("act") /\ saver.at = "reload"
  /\ shelf' = IF Done("act") THEN fetched["act"] ELSE shelf
  /\ saver' = Idle
  /\ fetched' = [fetched EXCEPT !["act"] = Nothing]
  /\ Returns("act")
  /\ UNCHANGED <<rowVars, formKey, pendingCreateId, editing, saves>>

-----------------------------------------------------------------------------
\* What becomes of the call of a thread, and what the thread does then.
PersonalAnswers(t) ==
  \/ t = "load" /\ (ServeMine(t) \/ MineFails \/ MineShown)
  \/ t = "act" /\ (ServeSave \/ ServeMine(t) \/ SaveFails \/ SaveAdvances \/ SaveGivesUp \/ SaveEnds)

PersonalNext ==
  \/ \E t \in {"load", "act"} : PersonalAnswers(t)
  \/ CloseDialog \/ CreateListing \/ \E p \in BOOLEAN : SaveEdit(p)
  \/ \E l \in Listings : StartEditing(l) \/ Approve(l)
=============================================================================
