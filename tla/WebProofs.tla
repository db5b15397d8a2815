------------------------------ MODULE WebProofs ------------------------------
(***************************************************************************)
(* Theorems about the pages of the web frontend: each page has an          *)
(* invariant of its own, and rests while another is open.  What they say   *)
(* holds for any number of listings, saves, decisions, photos and runs,    *)
(* for any page size, and whatever calls fail or lose their answers.       *)
(***************************************************************************)
EXTENDS Web, FiniteSetTheorems, SequenceTheorems, TLAPS

-----------------------------------------------------------------------------
(* The invariants of the pages *)

\* A row the page has ever seen is there for good.
NeverUnseen ==
  /\ \A l \in Listings : shelf[l] # "absent" => row[l].status # "ABSENT"
  /\ \A t \in {"load", "act"}, l \in Listings : fetched[t][l] # "absent" => row[l].status # "ABSENT"
  /\ editing # None => row[editing.id].status # "ABSENT"
  /\ pendingCreateId # None => row[pendingCreateId].status # "ABSENT"

\* No gallery of another version, unless the draft is in doubt; and what is
\* approved has one.
RowsMatch ==
  \A l \in Listings :
    /\ row[l].status = "ABSENT" => row[l] = Absent
    /\ row[l].status = "APPROVED" => row[l].photos # 0
    /\ l \notin doubtful => row[l].photos \in {0, row[l].text}

\* A draft the form has left has no gallery yet, or the save of the form is
\* about to be told of it.
DraftIsBare ==
  pendingCreateId # None /\ pendingCreateId \notin doubtful =>
    \/ row[pendingCreateId].photos = 0
    \/ saver.fn = "create" /\ saver.at = "replace" /\ Done("act") /\ saver.id = pendingCreateId

\* A draft that is also corrected in the dialog is in doubt.
OneEditor ==
  /\ editing # None /\ editing.id = pendingCreateId => editing.id \in doubtful
  /\ editing # None /\ saver.at = "create" /\ editing.id = saver.id => editing.id \in doubtful
  /\ saver.fn = "edit" /\ saver.id = pendingCreateId /\ pendingCreateId # None => saver.id \in doubtful

\* What the page is told of was made by the form it was sent from; a form that
\* is shown without a draft was told of none.
KnownInOrder ==
  /\ \A d \in known : d[1] <= formKey
  /\ \A d, e \in known : d[1] = e[1] => d = e
  /\ pendingCreateId = None => \A d \in known : d[1] # formKey

\* How far a save has come, call by call.
SaverType ==
  /\ saver \in [fn : {"none", "create", "edit"}, at : Mutations \cup {"reload", "idle"},
                id : Listings \cup {None}, version : 0 .. MaxSaves, withPhotos : BOOLEAN,
                key : Nat, failed : BOOLEAN]
  /\ saver.at = "idle" <=> call["act"] = "none"
  /\ saver.at = "idle" => saver = Idle
  /\ saver.at # "idle" => saver.fn # "none"
  /\ saver.fn = "create" => saver.withPhotos
  /\ saver.at \notin {"idle", "create"} => saver.id # None /\ row[saver.id].status # "ABSENT"

Creating ==
  saver.at = "create" =>
    /\ saver.fn = "create"
    /\ pendingCreateId = None /\ saver.key = formKey
    /\ Calling("act") => saver.id = None
    /\ Done("act") => saver.id # None
    /\ saver.id # None => row[saver.id] = [status |-> "OPEN", text |-> saver.version, photos |-> 0]

Clearing ==
  saver.at = "delete" =>
    saver.fn = "edit" /\ saver.withPhotos /\ (Done("act") => row[saver.id].photos = 0)

Updating ==
  saver.at = "update" =>
    /\ Done("act") => row[saver.id].text = saver.version
    /\ saver.withPhotos /\ saver.id \notin doubtful => row[saver.id].photos = 0

Replacing ==
  saver.at = "replace" =>
    /\ saver.withPhotos /\ row[saver.id].text = saver.version
    /\ Done("act") => row[saver.id].photos = saver.version

PersonalInv ==
  /\ PersonalTypeOK /\ SaverType /\ NeverUnseen /\ RowsMatch /\ DraftIsBare /\ OneEditor /\ KnownInOrder
  /\ Creating /\ Clearing /\ Updating /\ Replacing /\ SavesAreTrue

\* A decision is on a revision the page has had; one that is told has been made.
DecisionsKnown ==
  \A c \in Clicks :
    /\ decision[c] = None <=> call[c] = "none"
    /\ decision[c] # None => /\ <<decision[c].id, decision[c].rev>> \in viewed
                             /\ Done(c) => <<decision[c].id, decision[c].rev>> \in ruled

QueueViewed == \A f \in Files : queue[f] # 0 => <<f, queue[f]>> \in viewed

\* A gallery is open only where it is mounted, and owns the URLs that live.
GalleriesMounted ==
  \A f \in Illustrated :
    /\ gallery[f] # "closed" => Mounted(f)
    /\ gallery[f] = "loading" => orphans[f] < MaxOrphans
    /\ blobs[f] = IF gallery[f] = "shown" THEN 1 ELSE 0

ModerationInv ==
  ModerationTypeOK /\ QueueIsTrue /\ DecisionsKnown /\ QueueViewed /\ GalleriesMounted

\* An action under way is neither announced nor shown as failed.
BusyIsTrue ==
  /\ busy \in [id : Deals \cup {None}, act : Acts \cup {"none"}, stage : {"none", "action", "refresh"}]
  /\ busy.stage = "none" <=> call["act"] = "none"
  /\ busy.stage = "none" => busy = NoAction
  /\ busy.stage = "action" => /\ busy.id \in Deals /\ busy.act \in Acts
                              /\ ~outcome.notice /\ outcome.error # "failed"

DashboardInv == DashboardTypeOK /\ DashboardIsTrue /\ BusyIsTrue

\* Of the two threads of the form one awaits at most, and before it is served
\* every proposal has been answered for.
OneSending ==
  /\ \A t \in {"act", "again"} : call[t] # "none" => sending /\ \A o \in {"act", "again"} \ {t} : call[o] = "none"
  /\ ~sending \/ (\E t \in {"act", "again"} : Calling(t)) => offers.made <= offers.answered

FormInv == DashboardTypeOK /\ DashboardIsTrue /\ ProposalsAreCounted /\ OneSending

\* A run that has not begun has no call; only the page of a listing knows a 404.
LoadInv ==
  /\ LoadTypeOK /\ LatestIsShown
  /\ \A n \in Runs : n > current => answers[n] = "none"
  /\ \A n \in handled : answers[n] \in {"done", "missing", "failed"}
  /\ \A n \in Runs : answers[n] = "missing" => page = "detail"
  /\ screen.notFound # 0 => page = "detail"

\* The effect of the home page runs again only when it has failed, and no page
\* but the first can be asked for before the listings are there.
HomeInv ==
  /\ HomeTypeOK /\ CatalogueIsShown
  /\ current \notin handled => OnScreen.shows = "loading"
  /\ OnScreen.shows # "done" => requestedPage = 1

\* The form as it was checked when its steps were left.
DescriptionChecked == step >= 2 => validateWizardStep(1, form, images)
PhotosChecked == step = LastStep => validateWizardStep(2, form, images)
WizardInv == WizardTypeOK /\ DescriptionChecked /\ PhotosChecked

\* Before the check there is no session; only who is signed in waits; what is
\* sent carries a fresh token, to a page its roles were offered.
TokensKnown ==
  /\ request \in [at : {"idle", "token", "sent", "unsigned", "unauthorized", "forbidden", "served"},
                  page : PagesOffered \cup {"none"}, offered : RoleSets,
                  token : [roles : RoleSets, life : Lives]]
  /\ ~ready => ~keycloak.authenticated
  /\ waiters # {} => ready /\ keycloak.authenticated
  /\ "request" \in waiters => request.at = "token"
  /\ request.at \in {"token", "sent"} =>
       request.page \in headerLinks([authenticated |-> TRUE, roles |-> request.offered])
  /\ request.at = "sent" => request.token.life = "fresh"

SessionInv == SessionTypeOK /\ SessionIsTrue /\ TokensKnown

\* A page that is not shown is as it was made.
PersonalPart == IF page = "personal" THEN PersonalInv ELSE PersonalInit
ModerationPart == IF page = "moderation" THEN ModerationInv ELSE ModerationInit
ExchangePart ==
  IF page = "dashboard" THEN DashboardInv /\ ProposalsAreCounted
  ELSE IF page = "proposal" THEN FormInv ELSE DashboardInit
ReadingPart == LoadInv /\ IF page = "home" THEN HomeInv ELSE HomeInit
PublishingPart == IF page = "publishing" THEN WizardInv ELSE WizardInit
SessionPart == IF page = "session" THEN SessionInv ELSE SessionInit

WebInv ==
  /\ page \in WebPages /\ CallTypeOK
  /\ PersonalPart /\ ModerationPart /\ ExchangePart /\ ReadingPart /\ PublishingPart /\ SessionPart

-----------------------------------------------------------------------------
(* The page of a member *)

\* The member's page as it opens.
LEMMA PersonalStart == PersonalInit /\ call["act"] = "none" => PersonalInv
<1> SUFFICES ASSUME PersonalInit, call["act"] = "none" PROVE PersonalInv
  OBVIOUS
<1> USE PersonalAssumption DEF PersonalInit
<1>1. PersonalTypeOK
  BY DEF PersonalTypeOK, Absent, Nothing, Idle
<1>2. SaverType /\ Creating /\ Clearing /\ Updating /\ Replacing /\ SavesAreTrue
  BY DEF SaverType, Creating, Clearing, Updating, Replacing, SavesAreTrue, Idle, Mutations
<1>3. NeverUnseen /\ RowsMatch
  BY DEF NeverUnseen, RowsMatch, Absent, Nothing
<1>4. DraftIsBare /\ OneEditor /\ KnownInOrder
  BY DEF DraftIsBare, OneEditor, KnownInOrder, Idle
<1> QED BY <1>1, <1>2, <1>3, <1>4 DEF PersonalInv

\* An answer to a load, or to the load at the end of a save, does not concern
\* the calls of a save.
LEMMA ServeMineKeeps ==
  ASSUME PersonalInv, CallTypeOK, NEW t \in {"load", "act"}, ServeMine(t)
  PROVE  PersonalInv'
<1> USE PersonalAssumption DEF PersonalInv, Done, Calling
<1>0. /\ UNCHANGED <<row, known, doubtful, shelf, formKey, pendingCreateId, editing, saver, saves>>
      /\ saver.at # "reload" => call'["act"] = call["act"]
      /\ call'["act"] = "none" <=> call["act"] = "none"
      /\ fetched' = [fetched EXCEPT ![t] = [l \in Listings |-> Seen(l)]]
  BY DEF ServeMine, Serves, CallTypeOK, Threads, rowVars, screenVars
<1>1. PersonalTypeOK' /\ NeverUnseen'
  BY <1>0 DEF PersonalTypeOK, NeverUnseen, Seen
<1>2. RowsMatch' /\ OneEditor' /\ KnownInOrder' /\ SavesAreTrue'
  BY <1>0 DEF RowsMatch, OneEditor, KnownInOrder, SavesAreTrue
<1>3. SaverType' /\ DraftIsBare'
  BY <1>0 DEF SaverType, DraftIsBare
<1>4. Creating' /\ Clearing' /\ Updating' /\ Replacing'
  BY <1>0 DEF Creating, Clearing, Updating, Replacing
<1> QED BY <1>1, <1>2, <1>3, <1>4

\* A list that does not come changes nothing that is shown.
LEMMA MineFailsKeeps ==
  ASSUME PersonalInv, CallTypeOK, MineFails
  PROVE  PersonalInv'
<1> USE DEF PersonalInv, MineFails, FailCall, LoseAnswer, Calling, Done, CallTypeOK,
  Threads, personalVars
<1>1. PersonalTypeOK' /\ NeverUnseen' /\ RowsMatch' /\ OneEditor' /\ KnownInOrder' /\ SavesAreTrue'
  BY DEF PersonalTypeOK, NeverUnseen, RowsMatch, OneEditor, KnownInOrder, SavesAreTrue,
    rowVars, screenVars
<1>2. SaverType' /\ DraftIsBare'
  BY DEF SaverType, DraftIsBare, rowVars, screenVars
<1>3. Creating' /\ Clearing' /\ Updating' /\ Replacing'
  BY DEF Creating, Clearing, Updating, Replacing, rowVars, screenVars
<1> QED BY <1>1, <1>2, <1>3

\* A list that comes is shown.
LEMMA MineShownKeeps ==
  ASSUME PersonalInv, CallTypeOK, MineShown
  PROVE  PersonalInv'
<1> USE DEF PersonalInv, Done, Calling
<1>0. /\ UNCHANGED <<row, known, doubtful, formKey, pendingCreateId, editing, saver, saves>>
      /\ call'["act"] = call["act"]
      /\ shelf' \in {shelf, fetched["load"]} /\ fetched' = [fetched EXCEPT !["load"] = Nothing]
  BY DEF MineShown, Returns, CallTypeOK, Threads, rowVars
<1>1. PersonalTypeOK' /\ NeverUnseen'
  BY <1>0 DEF PersonalTypeOK, NeverUnseen, Nothing
<1>2. RowsMatch' /\ OneEditor' /\ KnownInOrder' /\ SavesAreTrue'
  BY <1>0 DEF RowsMatch, OneEditor, KnownInOrder, SavesAreTrue
<1>3. SaverType' /\ DraftIsBare'
  BY <1>0 DEF SaverType, DraftIsBare
<1>4. Creating' /\ Clearing' /\ Updating' /\ Replacing'
  BY <1>0 DEF Creating, Clearing, Updating, Replacing
<1> QED BY <1>1, <1>2, <1>3, <1>4

\* The service makes a row that nobody has seen, for a form without a draft.
LEMMA ServeCreateKeeps ==
  ASSUME PersonalInv, CallTypeOK, Calling("act"), ServeCreate,
         UNCHANGED <<screenVars, fetched, known, doubtful, saves>>
  PROVE  PersonalInv'
<1> USE PersonalAssumption DEF PersonalInv, Calling, Done, screenVars
<1>1. PICK l \in Listings :
        /\ row[l].status = "ABSENT"
        /\ row' = [row EXCEPT ![l] = [status |-> "OPEN", text |-> saver.version, photos |-> 0]]
        /\ saver' = [saver EXCEPT !.id = l]
  BY DEF ServeCreate, Writes
<1>2. saver.at = "create" /\ call' = [call EXCEPT !["act"] = "done"]
  BY DEF ServeCreate, Serves
<1>3. call' \in [Threads -> {"none", "sent", "done", "failed"}] /\ call'["act"] = "done"
  BY <1>2 DEF CallTypeOK, Threads
<1>4. PersonalTypeOK' /\ SaverType'
  BY <1>1, <1>2, <1>3 DEF PersonalTypeOK, SaverType, Creating
<1>5. NeverUnseen'
  BY <1>1 DEF NeverUnseen
<1>6. RowsMatch'
  BY <1>1 DEF RowsMatch
<1>7. DraftIsBare' /\ OneEditor' /\ KnownInOrder'
  BY <1>1, <1>2 DEF NeverUnseen, DraftIsBare, OneEditor, KnownInOrder
<1>8. Creating' /\ Clearing' /\ Updating' /\ Replacing' /\ SavesAreTrue'
  BY <1>1, <1>2, <1>3 DEF PersonalTypeOK, Creating, Clearing, Updating, Replacing,
    SavesAreTrue
<1> QED BY <1>4, <1>5, <1>6, <1>7, <1>8

\* A listing that is no longer open refuses what a save sends.
LEMMA RefusesKeeps ==
  ASSUME PersonalInv, CallTypeOK, Calling("act"), saver.at \in {"update", "delete", "replace"},
         call' = [call EXCEPT !["act"] = "failed"], UNCHANGED personalVars
  PROVE  PersonalInv'
<1> USE DEF PersonalInv, Calling, Done, CallTypeOK, Threads, personalVars
<1>1. PersonalTypeOK' /\ NeverUnseen' /\ RowsMatch' /\ OneEditor' /\ KnownInOrder' /\ SavesAreTrue'
  BY DEF PersonalTypeOK, NeverUnseen, RowsMatch, OneEditor, KnownInOrder, SavesAreTrue,
    rowVars, screenVars
<1>2. SaverType' /\ DraftIsBare'
  BY DEF SaverType, DraftIsBare, rowVars, screenVars
<1>3. Creating' /\ Clearing' /\ Updating' /\ Replacing'
  BY DEF Creating, Clearing, Updating, Replacing, rowVars
<1> QED BY <1>1, <1>2, <1>3

\* What a save writes to an open row: a text it is the author of, and photos
\* that are none, its own, or what was there.
LEMMA ServeUpdateKeeps ==
  ASSUME PersonalInv, CallTypeOK, Calling("act"), saver.at = "update", Open(saver.id),
         NEW photos \in {0, row[saver.id].photos, saver.version},
         saver.withPhotos => photos = row[saver.id].photos,
         ~saver.withPhotos => photos \in {0, saver.version},
         Writes(saver.id, saver.version, photos), Serves("act", TRUE),
         UNCHANGED <<saver, screenVars, fetched, known, doubtful, saves>>
  PROVE  PersonalInv'
<1> USE PersonalAssumption DEF PersonalInv, Calling, Done, screenVars, Writes
<1>1. call' \in [Threads -> {"none", "sent", "done", "failed"}] /\ call'["act"] = "done"
  BY DEF Serves, CallTypeOK, Threads
<1>2. PersonalTypeOK' /\ SaverType'
  BY <1>1 DEF PersonalTypeOK, SaverType
<1>3. NeverUnseen'
  BY DEF NeverUnseen
<1>4. RowsMatch'
  BY DEF RowsMatch, Updating
<1>5. DraftIsBare'
  <2>1. CASE pendingCreateId = saver.id
    BY <2>1 DEF SaverType, DraftIsBare, OneEditor
  <2>2. CASE pendingCreateId # saver.id
    BY <2>2 DEF DraftIsBare
  <2> QED BY <2>1, <2>2
<1>6. OneEditor' /\ KnownInOrder'
  BY DEF OneEditor, KnownInOrder
<1>7. Creating' /\ Clearing' /\ Updating' /\ Replacing' /\ SavesAreTrue'
  BY <1>1 DEF PersonalTypeOK, SaverType, Creating, Clearing, Updating, Replacing,
    SavesAreTrue
<1> QED BY <1>2, <1>3, <1>4, <1>5, <1>6, <1>7

\* The service replaces a gallery, as the last call of a save.
LEMMA ServeReplaceKeeps ==
  ASSUME PersonalInv, CallTypeOK, Calling("act"), saver.at = "replace", Open(saver.id),
         Writes(saver.id, row[saver.id].text, saver.version), Serves("act", TRUE),
         UNCHANGED <<saver, screenVars, fetched, known, doubtful, saves>>
  PROVE  PersonalInv'
<1> USE PersonalAssumption DEF PersonalInv, Calling, Done, screenVars, Writes
<1>1. call' \in [Threads -> {"none", "sent", "done", "failed"}] /\ call'["act"] = "done"
  BY DEF Serves, CallTypeOK, Threads
<1>2. PersonalTypeOK' /\ SaverType'
  BY <1>1 DEF PersonalTypeOK, SaverType
<1>3. NeverUnseen'
  BY DEF NeverUnseen
<1>4. RowsMatch'
  BY DEF RowsMatch, Replacing
<1>5. DraftIsBare'
  <2>1. CASE pendingCreateId = saver.id /\ saver.fn = "create"
    BY <1>1, <2>1 DEF DraftIsBare
  <2>2. CASE pendingCreateId = saver.id /\ saver.fn # "create"
    BY <2>2 DEF SaverType, DraftIsBare, OneEditor
  <2>3. CASE pendingCreateId # saver.id
    BY <2>3 DEF DraftIsBare
  <2> QED BY <2>1, <2>2, <2>3
<1>6. OneEditor' /\ KnownInOrder'
  BY DEF OneEditor, KnownInOrder
<1>7. Creating' /\ Clearing' /\ Updating' /\ Replacing' /\ SavesAreTrue'
  BY <1>1 DEF PersonalTypeOK, SaverType, Creating, Clearing, Updating, Replacing,
    SavesAreTrue
<1> QED BY <1>2, <1>3, <1>4, <1>5, <1>6, <1>7

\* Only a correction drops a gallery, and then there is none.
LEMMA ServeDeleteKeeps ==
  ASSUME PersonalInv, CallTypeOK, Calling("act"), saver.at = "delete", Open(saver.id),
         IF row[saver.id].photos = 0 THEN UNCHANGED row ELSE Writes(saver.id, row[saver.id].text, 0),
         Serves("act", TRUE),
         UNCHANGED <<saver, screenVars, fetched, known, doubtful, saves>>
  PROVE  PersonalInv'
<1> USE PersonalAssumption DEF PersonalInv, Calling, Done, screenVars
<1>1. call' \in [Threads -> {"none", "sent", "done", "failed"}] /\ call'["act"] = "done"
  BY DEF Serves, CallTypeOK, Threads
<1>2. row' = [row EXCEPT ![saver.id] = [status |-> "OPEN", text |-> row[saver.id].text, photos |-> 0]]
  BY DEF Writes, Open, PersonalTypeOK, SaverType
<1>3. PersonalTypeOK' /\ SaverType'
  BY <1>1, <1>2 DEF PersonalTypeOK, SaverType
<1>4. NeverUnseen'
  BY <1>2 DEF NeverUnseen
<1>5. RowsMatch'
  BY <1>2 DEF RowsMatch
<1>6. DraftIsBare' /\ OneEditor' /\ KnownInOrder'
  BY <1>2 DEF DraftIsBare, OneEditor, KnownInOrder
<1>7. Creating' /\ Clearing' /\ Updating' /\ Replacing' /\ SavesAreTrue'
  BY <1>1, <1>2 DEF PersonalTypeOK, SaverType, Creating, Clearing, Updating, Replacing,
    SavesAreTrue
<1> QED BY <1>3, <1>4, <1>5, <1>6, <1>7

\* The service carries out a call by which a save changes a listing.
LEMMA ServeChangeKeeps ==
  ASSUME PersonalInv, CallTypeOK, Calling("act"), ServeChange,
         UNCHANGED <<screenVars, fetched, known, doubtful, saves>>
  PROVE  PersonalInv'
<1>0. saver.at \in {"update", "delete", "replace"} /\ UNCHANGED saver
  BY DEF ServeChange
<1>1. CASE ~Open(saver.id)
  <2>1. UNCHANGED row /\ call' = [call EXCEPT !["act"] = "failed"]
    BY <1>1 DEF ServeChange, Serves
  <2> QED BY <1>0, <2>1, RefusesKeeps DEF personalVars, rowVars
<1>2. CASE Open(saver.id) /\ saver.at = "update"
  <2> DEFINE photos == IF saver.withPhotos \/ row[saver.id].photos = 0 THEN row[saver.id].photos
                       ELSE saver.version
  <2>1. Writes(saver.id, saver.version, photos) /\ Serves("act", TRUE)
    BY <1>2 DEF ServeChange
  <2>2. /\ photos \in {0, row[saver.id].photos, saver.version}
        /\ saver.withPhotos => photos = row[saver.id].photos
        /\ ~saver.withPhotos => photos \in {0, saver.version}
    OBVIOUS
  <2> HIDE DEF photos
  <2> QED BY <1>0, <1>2, <2>1, <2>2, ServeUpdateKeeps
<1>3. CASE Open(saver.id) /\ saver.at = "replace"
  <2>1. Writes(saver.id, row[saver.id].text, saver.version) /\ Serves("act", TRUE)
    BY <1>3 DEF ServeChange
  <2> QED BY <1>0, <1>3, <2>1, ServeReplaceKeeps
<1>4. CASE Open(saver.id) /\ saver.at = "delete"
  <2>1. IF row[saver.id].photos = 0 THEN UNCHANGED row ELSE Writes(saver.id, row[saver.id].text, 0)
    BY <1>4 DEF ServeChange
  <2>2. Serves("act", TRUE)
    BY <1>4 DEF ServeChange
  <2> QED BY <1>0, <1>4, <2>1, <2>2, ServeDeleteKeeps
<1> QED BY <1>0, <1>1, <1>2, <1>3, <1>4

\* The gallery of a draft whose answer is lost puts the draft in doubt.
LEMMA SaveFailsKeeps ==
  ASSUME PersonalInv, CallTypeOK, SaveFails
  PROVE  PersonalInv'
<1> USE DEF PersonalInv, SaveFails, FailCall, LoseAnswer, Calling, Done, CallTypeOK,
  Threads, screenVars
<1>1. PersonalTypeOK' /\ SaverType'
  BY DEF PersonalTypeOK, SaverType
<1>2. NeverUnseen' /\ RowsMatch' /\ OneEditor' /\ KnownInOrder' /\ SavesAreTrue'
  BY DEF NeverUnseen, RowsMatch, OneEditor, KnownInOrder, SavesAreTrue
<1>3. DraftIsBare'
  BY DEF DraftIsBare
<1>4. Creating' /\ Clearing' /\ Updating' /\ Replacing'
  BY DEF Creating, Clearing, Updating, Replacing
<1> QED BY <1>1, <1>2, <1>3, <1>4

\* The draft a form is told of is the first it is told of.
LEMMA SaveAdvancesKeeps ==
  ASSUME PersonalInv, CallTypeOK, SaveAdvances
  PROVE  PersonalInv'
<1> USE PersonalAssumption DEF PersonalInv, SaveAdvances, NextCall, Calls, Calling, Done,
  CallTypeOK, Threads, BlankForm
<1>1. PersonalTypeOK' /\ SaverType'
  BY DEF PersonalTypeOK, SaverType, Creating, Mutations
<1>2. NeverUnseen' /\ RowsMatch'
  BY DEF NeverUnseen, RowsMatch, Creating
<1>3. DraftIsBare'
  BY DEF DraftIsBare, Creating
<1>4. OneEditor'
  BY DEF PersonalTypeOK, OneEditor, Creating
<1>5. KnownInOrder'
  <2>1. CASE saver.at = "create"
    <3>1. known' = known \cup {<<saver.key, saver.id>>} /\ pendingCreateId' = saver.id /\ formKey' = formKey
      BY <2>1
    <3>2. saver.key = formKey /\ saver.id # None /\ \A d \in known : d[1] # formKey
      BY <2>1 DEF Creating, KnownInOrder
    <3>3. formKey \in Nat
      BY DEF PersonalTypeOK
    <3> HIDE DEF SaveAdvances
    <3> QED BY <3>1, <3>2, <3>3 DEF KnownInOrder
  <2>2. CASE saver.at # "create"
    <3>1. UNCHANGED known /\ (BlankForm \/ UNCHANGED <<pendingCreateId, formKey>>)
      BY <2>2
    <3>2. formKey \in Nat /\ \A d \in known : d[1] \in Nat
      BY DEF PersonalTypeOK
    <3> HIDE DEF SaveAdvances
    <3> QED BY <3>1, <3>2 DEF KnownInOrder
  <2> QED BY <2>1, <2>2
<1>6. Creating' /\ Clearing'
  BY DEF Creating, Clearing
<1>7. Updating' /\ Replacing'
  BY DEF SaverType, Creating, Clearing, Updating, Replacing
<1>8. SavesAreTrue'
  BY DEF Updating, Replacing, SavesAreTrue, Mutations
<1> QED BY <1>1, <1>2, <1>3, <1>4, <1>5, <1>6, <1>7, <1>8

\* A call of the save has failed: what it had done is remembered.
LEMMA SaveGivesUpKeeps ==
  ASSUME PersonalInv, CallTypeOK, SaveGivesUp
  PROVE  PersonalInv'
<1> USE PersonalAssumption DEF PersonalInv, Calling, Done, Failed, CallTypeOK, Threads,
  Mutations
<1>0. /\ saver.at \in Mutations /\ call["act"] = "failed"
      /\ UNCHANGED <<rowVars, shelf, formKey, pendingCreateId, editing, fetched, saves>>
  BY DEF SaveGivesUp
<1>1. CASE saver.at = "create"
  <2>1. saver' = Idle /\ call' = [call EXCEPT !["act"] = "none"]
    BY <1>1, Zenon DEF SaveGivesUp, Returns
  <2>2. PersonalTypeOK' /\ SaverType'
    BY <1>0, <2>1 DEF PersonalTypeOK, SaverType, Idle, rowVars
  <2>3. NeverUnseen' /\ RowsMatch' /\ KnownInOrder' /\ SavesAreTrue'
    BY <1>0, <2>1 DEF NeverUnseen, RowsMatch, KnownInOrder, SavesAreTrue, Idle, rowVars
  <2>4. DraftIsBare' /\ OneEditor'
    BY <1>0, <1>1, <2>1 DEF DraftIsBare, OneEditor, Idle, rowVars
  <2>5. Creating' /\ Clearing' /\ Updating' /\ Replacing'
    BY <2>1 DEF Creating, Clearing, Updating, Replacing, Idle
  <2> QED BY <2>2, <2>3, <2>4, <2>5
<1>2. CASE saver.at # "create"
  <2>1. saver' = [saver EXCEPT !.at = "reload", !.failed = TRUE] /\ call' = [call EXCEPT !["act"] = "sent"]
    BY <1>2, Zenon DEF SaveGivesUp, Calls
  <2>2. /\ saver'.at = "reload" /\ saver'.failed /\ saver'.id = saver.id
        /\ saver'.fn = saver.fn /\ saver'.withPhotos = saver.withPhotos
    BY <2>1
  <2>3. PersonalTypeOK'
    BY <1>0, <2>2 DEF PersonalTypeOK, rowVars
  <2>4. SaverType'
    <3>1. saver' \in [fn : {"none", "create", "edit"}, at : Mutations \cup {"reload", "idle"},
                      id : Listings \cup {None}, version : 0 .. MaxSaves, withPhotos : BOOLEAN,
                      key : Nat, failed : BOOLEAN]
      BY <2>1 DEF SaverType
    <3>2. call'["act"] = "sent"
      BY <2>1
    <3>3. saver.id # None /\ row[saver.id].status # "ABSENT"
      BY <1>0, <1>2 DEF SaverType
    <3> QED BY <1>0, <2>2, <3>1, <3>2, <3>3 DEF SaverType, rowVars
  <2>5. NeverUnseen' /\ RowsMatch' /\ KnownInOrder'
    BY <1>0 DEF NeverUnseen, RowsMatch, KnownInOrder, rowVars
  <2>6. DraftIsBare' /\ OneEditor'
    BY <1>0, <1>2, <2>2 DEF DraftIsBare, OneEditor, rowVars
  <2>7. Creating' /\ Clearing' /\ Updating' /\ Replacing' /\ SavesAreTrue'
    BY <2>2 DEF Creating, Clearing, Updating, Replacing, SavesAreTrue
  <2> QED BY <2>3, <2>4, <2>5, <2>6, <2>7
<1> QED BY <1>1, <1>2

\* The save has read the list again and ends.
LEMMA SaveEndsKeeps ==
  ASSUME PersonalInv, CallTypeOK, SaveEnds
  PROVE  PersonalInv'
<1> USE PersonalAssumption DEF PersonalInv, Done, Calling
<1>0. /\ UNCHANGED <<row, known, doubtful, formKey, pendingCreateId, editing, saves>>
      /\ saver' = Idle /\ call'["act"] = "none"
      /\ shelf' \in {shelf, fetched["act"]} /\ fetched' = [fetched EXCEPT !["act"] = Nothing]
      /\ saver.at = "reload"
  BY DEF SaveEnds, Returns, CallTypeOK, Threads, rowVars
<1>1. PersonalTypeOK'
  BY <1>0 DEF PersonalTypeOK, Idle, Nothing
<1>2. SaverType'
  BY <1>0 DEF SaverType, Idle
<1>3. NeverUnseen' /\ RowsMatch' /\ KnownInOrder'
  BY <1>0 DEF NeverUnseen, RowsMatch, KnownInOrder, Nothing
<1>4. DraftIsBare' /\ OneEditor'
  BY <1>0 DEF DraftIsBare, OneEditor, Idle
<1>5. Creating' /\ Clearing' /\ Updating' /\ Replacing' /\ SavesAreTrue'
  BY <1>0 DEF Creating, Clearing, Updating, Replacing, SavesAreTrue, Idle
<1> QED BY <1>1, <1>2, <1>3, <1>4, <1>5

\* The dialog is closed without a save.
LEMMA CloseDialogKeeps ==
  ASSUME PersonalInv, CloseDialog
  PROVE  PersonalInv'
<1> USE DEF PersonalInv, CloseDialog, Calling, Done
<1>1. PersonalTypeOK' /\ SaverType' /\ NeverUnseen' /\ RowsMatch' /\ KnownInOrder' /\ SavesAreTrue'
  BY DEF PersonalTypeOK, SaverType, NeverUnseen, RowsMatch, KnownInOrder, SavesAreTrue,
    rowVars
<1>2. DraftIsBare' /\ OneEditor'
  BY DEF DraftIsBare, OneEditor, rowVars
<1>3. Creating' /\ Clearing' /\ Updating' /\ Replacing'
  BY DEF Creating, Clearing, Updating, Replacing, rowVars
<1> QED BY <1>1, <1>2, <1>3

\* A form that has left a draft saves it again; there is no gallery to keep.
LEMMA CreateListingKeeps ==
  ASSUME PersonalInv, CallTypeOK, CreateListing
  PROVE  PersonalInv'
<1> USE PersonalAssumption DEF PersonalInv, Calling, Done, CallTypeOK, Threads, Mutations
<1>0. /\ saver.at = "idle" /\ saves < MaxSaves /\ saves' = saves + 1
      /\ call' = [call EXCEPT !["act"] = "sent"]
      /\ UNCHANGED <<rowVars, shelf, formKey, pendingCreateId, editing, fetched>>
      /\ saver' = [fn |-> "create", at |-> IF pendingCreateId = None THEN "create" ELSE "update",
                   id |-> pendingCreateId, version |-> saves + 1, withPhotos |-> TRUE,
                   key |-> formKey, failed |-> FALSE]
  BY DEF CreateListing, Saves, Saving, Calls
<1>1. PersonalTypeOK'
  BY <1>0 DEF PersonalTypeOK, rowVars
<1>2. SaverType'
  <2>1. call'["act"] = "sent" /\ saver'.at # "idle" /\ saver'.fn = "create" /\ saver'.withPhotos
    BY <1>0
  <2>2. saver' \in [fn : {"none", "create", "edit"}, at : Mutations \cup {"reload", "idle"},
                    id : Listings \cup {None}, version : 0 .. MaxSaves, withPhotos : BOOLEAN,
                    key : Nat, failed : BOOLEAN]
    BY <1>0 DEF PersonalTypeOK
  <2>3. saver'.at \notin {"idle", "create"} => saver'.id # None /\ row'[saver'.id].status # "ABSENT"
    BY <1>0 DEF NeverUnseen, rowVars
  <2> QED BY <2>1, <2>2, <2>3 DEF SaverType
<1>3. NeverUnseen' /\ RowsMatch' /\ KnownInOrder'
  BY <1>0 DEF NeverUnseen, RowsMatch, KnownInOrder, rowVars
<1>4. DraftIsBare' /\ OneEditor'
  BY <1>0 DEF DraftIsBare, OneEditor, rowVars
<1>5. Creating' /\ Clearing' /\ Updating' /\ Replacing' /\ SavesAreTrue'
  BY <1>0 DEF DraftIsBare, Creating, Clearing, Updating, Replacing, SavesAreTrue, rowVars
<1> QED BY <1>1, <1>2, <1>3, <1>4, <1>5

\* With new photos the old ones go first, without them they stay.
LEMMA SaveEditKeeps ==
  ASSUME PersonalInv, CallTypeOK, NEW withPhotos \in BOOLEAN, SaveEdit(withPhotos)
  PROVE  PersonalInv'
<1> USE PersonalAssumption DEF PersonalInv, Calling, Done, CallTypeOK, Threads, Mutations
<1>0. /\ saver.at = "idle" /\ saves < MaxSaves /\ saves' = saves + 1 /\ editing # None
      /\ call' = [call EXCEPT !["act"] = "sent"]
      /\ UNCHANGED <<rowVars, shelf, formKey, pendingCreateId, editing, fetched>>
      /\ saver' = [fn |-> "edit", at |-> IF withPhotos THEN "delete" ELSE "update",
                   id |-> editing.id, version |-> saves + 1, withPhotos |-> withPhotos,
                   key |-> formKey, failed |-> FALSE]
  BY DEF SaveEdit, Saves, Saving, Calls, FirstCall
<1>1. PersonalTypeOK' /\ SaverType'
  BY <1>0 DEF PersonalTypeOK, SaverType, NeverUnseen, rowVars
<1>2. NeverUnseen' /\ RowsMatch' /\ KnownInOrder'
  BY <1>0 DEF NeverUnseen, RowsMatch, KnownInOrder, rowVars
<1>3. DraftIsBare' /\ OneEditor'
  BY <1>0 DEF DraftIsBare, OneEditor, rowVars
<1>4. Creating' /\ Clearing' /\ Updating' /\ Replacing' /\ SavesAreTrue'
  BY <1>0 DEF Creating, Clearing, Updating, Replacing, SavesAreTrue
<1> QED BY <1>1, <1>2, <1>3, <1>4

\* A dialog opened on the draft of the form takes it from the form, or puts it
\* in doubt when the form is about to be told of it.
LEMMA StartEditingKeeps ==
  ASSUME PersonalInv, CallTypeOK, NEW l \in Listings, StartEditing(l)
  PROVE  PersonalInv'
<1> USE PersonalAssumption DEF PersonalInv, StartEditing, BlankForm, Calling, Done
<1>1. PersonalTypeOK' /\ SaverType'
  BY DEF PersonalTypeOK, SaverType
<1>2. NeverUnseen' /\ RowsMatch' /\ SavesAreTrue'
  BY DEF NeverUnseen, RowsMatch, SavesAreTrue
<1>3. DraftIsBare' /\ OneEditor'
  BY DEF DraftIsBare, OneEditor
<1>4. KnownInOrder'
  BY DEF PersonalTypeOK, KnownInOrder
<1>5. Creating' /\ Clearing' /\ Updating' /\ Replacing'
  BY DEF Creating, Clearing, Updating, Replacing
<1> QED BY <1>1, <1>2, <1>3, <1>4, <1>5

\* The moderator changes no text and no photos.
LEMMA ApproveKeeps ==
  ASSUME PersonalInv, NEW l \in Listings, Approve(l)
  PROVE  PersonalInv'
<1> USE PersonalAssumption DEF PersonalInv, Approve, Open, Calling, Done, screenVars
<1>1. PersonalTypeOK' /\ SaverType'
  BY DEF PersonalTypeOK, SaverType, RowsMatch
<1>2. NeverUnseen' /\ RowsMatch' /\ OneEditor' /\ KnownInOrder' /\ SavesAreTrue'
  BY DEF NeverUnseen, RowsMatch, OneEditor, KnownInOrder, SavesAreTrue
<1>3. DraftIsBare'
  BY DEF DraftIsBare
<1>4. Creating' /\ Clearing' /\ Updating' /\ Replacing'
  BY DEF Creating, Clearing, Updating, Replacing
<1> QED BY <1>1, <1>2, <1>3, <1>4

\* Every step of the page keeps its invariant.
LEMMA PersonalStep ==
  ASSUME PersonalInv, CallTypeOK, PersonalNext
  PROVE  PersonalInv'
<1>1. ASSUME ServeSave PROVE PersonalInv'
  BY <1>1, ServeCreateKeeps, ServeChangeKeeps DEF ServeSave
<1>2. ASSUME NEW t \in {"load", "act"}, PersonalAnswers(t) PROVE PersonalInv'
  BY <1>1, <1>2, ServeMineKeeps, MineFailsKeeps, MineShownKeeps, SaveFailsKeeps,
    SaveAdvancesKeeps,
     SaveGivesUpKeeps, SaveEndsKeeps DEF PersonalAnswers
<1>3. ASSUME NEW l \in Listings, StartEditing(l) \/ Approve(l) PROVE PersonalInv'
  BY <1>3, StartEditingKeeps, ApproveKeeps
<1> QED BY <1>2, <1>3, CloseDialogKeeps, CreateListingKeeps, SaveEditKeeps DEF PersonalNext

\* The invariant speaks of the calls and of the variables of this page only.
LEMMA PersonalFrame ==
  ASSUME PersonalInv, UNCHANGED <<call, personalVars>>
  PROVE  PersonalInv'
<1> USE DEF PersonalInv, personalVars, Done, Calling
<1>1. PersonalTypeOK' /\ SaverType' /\ NeverUnseen' /\ RowsMatch' /\ OneEditor' /\ KnownInOrder'
  BY DEF PersonalTypeOK, SaverType, NeverUnseen, RowsMatch, OneEditor, KnownInOrder,
    rowVars, screenVars
<1>2. DraftIsBare' /\ Creating' /\ Clearing' /\ Updating' /\ Replacing' /\ SavesAreTrue'
  BY DEF DraftIsBare, Creating, Clearing, Updating, Replacing, SavesAreTrue, rowVars,
    screenVars
<1> QED BY <1>1, <1>2

-----------------------------------------------------------------------------
(* The page of a moderator *)

\* The variables of the page have their types as it opens.
LEMMA ModerationTyped == ModerationInit => ModerationTypeOK
<1> SUFFICES ASSUME ModerationInit PROVE ModerationTypeOK
  OBVIOUS
<1> USE ModerationSpaceAssumption DEF ModerationInit, NoQueue
<1>1. queue \in Queues /\ sent \in Queues /\ reads \in Nat
  BY DEF Queues
<1>2. allowed \in BOOLEAN
  OBVIOUS
<1>3. loadError \in BOOLEAN
  OBVIOUS
<1>4. file \in [Files -> [status : {"PENDING", "APPROVED", "REJECTED"}, rev : 1 .. MaxRev]]
  OBVIOUS
<1>5. loaded \subseteq Files /\ viewed \subseteq Files \X (1 .. MaxRev)
  OBVIOUS
<1>6. ruled \subseteq Files \X (1 .. MaxRev)
  OBVIOUS
<1>7. /\ gallery \in [Illustrated -> {"closed", "loading", "shown"}]
      /\ orphans \in [Illustrated -> 0 .. MaxOrphans] /\ blobs \in [Illustrated -> Nat]
  OBVIOUS
<1> QED BY <1>1, <1>2, <1>3, <1>4, <1>5, <1>6, <1>7 DEF ModerationTypeOK

\* The page of a moderator as it opens.
LEMMA ModerationStart ==
  ModerationInit /\ (\A c \in Clicks : call[c] = "none") => ModerationInv
<1> SUFFICES ASSUME ModerationInit, \A c \in Clicks : call[c] = "none" PROVE ModerationInv
  OBVIOUS
<1> USE ModerationSpaceAssumption DEF ModerationInit, NoQueue
<1>1. ModerationTypeOK
  BY ModerationTyped
<1>2. QueueIsTrue /\ DecisionsKnown /\ QueueViewed
  BY DEF QueueIsTrue, DecisionsKnown, QueueViewed
<1>3. GalleriesMounted
  BY DEF GalleriesMounted
<1> QED BY <1>1, <1>2, <1>3 DEF ModerationInv

\* What is unmounted is closed; what stays open stays mounted and keeps its URLs.
LEMMA UnmountsKeeps ==
  ASSUME ModerationTypeOK, GalleriesMounted, Unmounts
  PROVE  /\ gallery' \in [Illustrated -> {"closed", "loading", "shown"}]
         /\ orphans' \in [Illustrated -> 0 .. MaxOrphans] /\ blobs' \in [Illustrated -> Nat]
         /\ GalleriesMounted'
<1> DEFINE gone == Vanishing
<1>2. ASSUME NEW f \in Illustrated, f \notin gone, gallery[f] # "closed"
      PROVE  Mounted(f)'
  BY <1>2 DEF Vanishing, GalleriesMounted, Mounted
<1> USE ModerationSpaceAssumption DEF Unmounts
<1>3. ASSUME NEW f \in Illustrated
      PROVE  /\ gallery'[f] = IF f \in gone THEN "closed" ELSE gallery[f]
             /\ orphans'[f] = IF f \in gone /\ gallery[f] = "loading" THEN orphans[f] + 1 ELSE orphans[f]
             /\ blobs'[f] = IF f \in gone /\ gallery[f] = "shown" THEN blobs[f] - 1 ELSE blobs[f]
  BY DEF gone
<1>4. ASSUME NEW f \in Illustrated
      PROVE  /\ gallery[f] \in {"closed", "loading", "shown"} /\ orphans[f] \in 0 .. MaxOrphans
             /\ gallery[f] = "loading" => orphans[f] < MaxOrphans
             /\ blobs[f] = IF gallery[f] = "shown" THEN 1 ELSE 0
  BY DEF ModerationTypeOK, GalleriesMounted
<1>5. gallery' \in [Illustrated -> {"closed", "loading", "shown"}]
  BY <1>4 DEF gone
<1>6. orphans' \in [Illustrated -> 0 .. MaxOrphans]
  <2>1. ASSUME NEW f \in Illustrated PROVE orphans'[f] \in 0 .. MaxOrphans
    BY <1>3, <1>4
  <2> QED BY <2>1 DEF gone
<1>7. ASSUME NEW f \in Illustrated
      PROVE  blobs'[f] = IF gallery'[f] = "shown" THEN 1 ELSE 0
  BY <1>3, <1>4
<1>8. blobs' \in [Illustrated -> Nat]
  <2>1. ASSUME NEW f \in Illustrated PROVE blobs'[f] \in Nat
    BY <1>7
  <2> QED BY <2>1 DEF gone
<1>9. ASSUME NEW f \in Illustrated
      PROVE  /\ gallery'[f] # "closed" => Mounted(f)'
             /\ gallery'[f] = "loading" => orphans'[f] < MaxOrphans
  BY <1>2, <1>3, <1>4
<1> QED BY <1>5, <1>6, <1>7, <1>8, <1>9 DEF GalleriesMounted

\* The service is asked for the queue: what it sends is kept for the thread.
LEMMA ServeQueueKeeps ==
  ASSUME ModerationInv, CallTypeOK, ServeQueue
  PROVE  ModerationInv'
<1> USE ModerationSpaceAssumption DEF ModerationInv, galleryVars
<1>0. /\ UNCHANGED <<file, queue, reads, allowed, loadError, loaded, viewed, decision, busyId, ruled>>
      /\ UNCHANGED <<hidden, gallery, orphans, blobs>>
      /\ \A c \in Clicks : call'[c] = call[c]
      /\ sent' = [f \in Files |-> IF file[f].status = "PENDING" THEN file[f].rev ELSE 0]
  BY DEF ServeQueue, Serves, Calling, Clicks, CallTypeOK, Threads
<1>1. ModerationTypeOK'
  BY <1>0 DEF ModerationTypeOK, Queues
<1>2. QueueIsTrue' /\ DecisionsKnown' /\ QueueViewed' /\ GalleriesMounted'
  BY <1>0 DEF QueueIsTrue, DecisionsKnown, QueueViewed, GalleriesMounted, Mounted, Done
<1> QED BY <1>1, <1>2

\* What is read is shown as it is; a listing it lacks is none it has had.
LEMMA QueueShownKeeps ==
  ASSUME ModerationInv, CallTypeOK, QueueShown
  PROVE  ModerationInv'
<1> USE ModerationSpaceAssumption DEF ModerationInv
<1>0. /\ UNCHANGED <<file, reads, allowed, decision, busyId, ruled, hidden>>
      /\ loadError' \in BOOLEAN /\ sent' = NoQueue /\ Unmounts
      /\ \A c \in Clicks : call'[c] = call[c]
  BY DEF QueueShown, Returns, Answered, Done, Failed, Clicks, CallTypeOK, Threads
<1>1. \/ /\ queue' = sent /\ loaded' = InQueue(sent)
         /\ viewed' = viewed \cup {<<f, sent[f]>> : f \in InQueue(sent)}
      \/ UNCHANGED <<queue, loaded, viewed>>
  BY DEF QueueShown
<1>2. /\ gallery' \in [Illustrated -> {"closed", "loading", "shown"}]
      /\ orphans' \in [Illustrated -> 0 .. MaxOrphans] /\ blobs' \in [Illustrated -> Nat]
      /\ GalleriesMounted'
  BY <1>0, UnmountsKeeps
<1>3. sent \in Queues /\ sent' \in Queues /\ \A f \in InQueue(sent) : f \in Files /\ sent[f] \in 1 .. MaxRev
  BY <1>0 DEF ModerationTypeOK, Queues, NoQueue, InQueue
<1>4. ModerationTypeOK'
  BY <1>0, <1>1, <1>2, <1>3 DEF ModerationTypeOK, InQueue
<1>5. QueueIsTrue' /\ QueueViewed'
  BY <1>0, <1>1, <1>3 DEF QueueIsTrue, QueueViewed, InQueue
<1>6. DecisionsKnown'
  BY <1>0, <1>1 DEF DecisionsKnown, Done
<1> QED BY <1>2, <1>4, <1>5, <1>6

\* A queue that does not come changes nothing that is shown.
LEMMA QueueFailsKeeps ==
  ASSUME ModerationInv, CallTypeOK, NEW t \in Threads, QueueFails(t)
  PROVE  ModerationInv'
<1> USE DEF ModerationInv
<1>0. /\ UNCHANGED <<file, queue, reads, allowed, loadError, loaded, viewed, decision, busyId, ruled>>
      /\ UNCHANGED <<hidden, gallery, orphans, blobs>>
      /\ sent' \in {NoQueue, sent}
      /\ \A c \in Clicks : (call'[c] = "none" <=> call[c] = "none") /\ (call'[c] = "done" => call[c] = "done")
  BY DEF QueueFails, FailCall, LoseAnswer, Calling, Done, CallTypeOK, Threads, Clicks, galleryVars
<1>1. ModerationTypeOK'
  BY <1>0, ModerationSpaceAssumption DEF ModerationTypeOK, Queues, NoQueue
<1>2. QueueIsTrue' /\ QueueViewed' /\ GalleriesMounted'
  BY <1>0 DEF QueueIsTrue, QueueViewed, GalleriesMounted, Mounted
<1>3. DecisionsKnown'
  BY <1>0 DEF DecisionsKnown, Done
<1> QED BY <1>1, <1>2, <1>3

\* The service decides the revision the page was shown, and no other.
LEMMA ServeDecisionKeeps ==
  ASSUME ModerationInv, CallTypeOK, NEW c \in Clicks, ServeDecision(c)
  PROVE  ModerationInv'
<1> USE ModerationSpaceAssumption DEF ModerationInv, galleryVars, readVars
<1> DEFINE d == decision[c]
           valid == file[d.id] = [status |-> "PENDING", rev |-> d.rev]
<1>1. /\ UNCHANGED <<queue, reads, allowed, loadError, sent, loaded, viewed, decision, busyId>>
      /\ UNCHANGED <<hidden, gallery, orphans, blobs>>
      /\ d # None
      /\ file' = IF valid THEN [file EXCEPT ![d.id].status = d.to] ELSE file
      /\ ruled' = IF valid THEN ruled \cup {<<d.id, file[d.id].rev>>} ELSE ruled
      /\ call' = [call EXCEPT ![c] = IF valid THEN "done" ELSE "failed"]
  BY DEF ServeDecision, Serves
<1>2. d \in Decisions /\ <<d.id, d.rev>> \in viewed
  <2>1. decision[c] # None
    BY <1>1
  <2>2. decision[c] \in Decisions
    BY <2>1 DEF ModerationTypeOK
  <2> QED BY <2>1, <2>2 DEF DecisionsKnown
<1>3. ruled' = IF valid THEN ruled \cup {<<d.id, d.rev>>} ELSE ruled
  BY <1>1
<1>4. /\ call'[c] # "none" /\ call[c] # "none" /\ (Done(c)' => <<d.id, d.rev>> \in ruled')
      /\ \A o \in Clicks \ {c} : call'[o] = call[o]
  BY <1>1, <1>3 DEF CallTypeOK, Threads, Clicks, Done, ServeDecision, Calling
<1>5. ruled \subseteq ruled' /\ ruled' \subseteq ruled \cup {<<d.id, d.rev>>}
  BY <1>3
<1>6. file' \in [Files -> [status : {"PENDING", "APPROVED", "REJECTED"}, rev : 1 .. MaxRev]]
  <2>1. CASE valid
    BY <1>1, <1>2, <2>1 DEF ModerationTypeOK, Decisions
  <2>2. CASE ~valid
    BY <1>1, <2>2 DEF ModerationTypeOK
  <2> QED BY <2>1, <2>2
<1> HIDE DEF d, valid
<1>7. ModerationTypeOK'
  <2>1. <<d.id, d.rev>> \in Files \X (1 .. MaxRev)
    BY <1>2 DEF Decisions
  <2> QED BY <1>1, <1>5, <1>6, <2>1 DEF ModerationTypeOK
<1>8. QueueIsTrue' /\ QueueViewed' /\ GalleriesMounted'
  BY <1>1, <1>2, <1>5 DEF QueueIsTrue, QueueViewed, GalleriesMounted, Mounted
<1>9. DecisionsKnown'
  <2>1. ASSUME NEW o \in Clicks
        PROVE  /\ decision'[o] = None <=> call'[o] = "none"
               /\ decision'[o] # None => /\ <<decision'[o].id, decision'[o].rev>> \in viewed'
                                         /\ Done(o)' => <<decision'[o].id, decision'[o].rev>> \in ruled'
    <3>1. CASE o = c
      BY <1>1, <1>2, <1>4, <3>1 DEF d
    <3>2. CASE o # c
      BY <1>1, <1>4, <1>5, <3>2 DEF DecisionsKnown, Done
    <3> QED BY <3>1, <3>2
  <2> QED BY <2>1 DEF DecisionsKnown
<1> QED BY <1>7, <1>8, <1>9

\* What others do to a listing does not reach the page.
LEMMA OthersActKeeps ==
  ASSUME ModerationInv, NEW f \in Files, OthersAct(f)
  PROVE  ModerationInv'
<1> USE ModerationSpaceAssumption DEF ModerationInv, galleryVars, readVars
<1>1. /\ UNCHANGED <<call, queue, reads, allowed, loadError, sent, loaded, viewed, decision, busyId, ruled>>
      /\ UNCHANGED <<hidden, gallery, orphans, blobs>>
  BY DEF OthersAct
<1>2. file' \in [Files -> [status : {"PENDING", "APPROVED", "REJECTED"}, rev : 1 .. MaxRev]]
  BY DEF OthersAct, ModerationTypeOK
<1>3. ModerationTypeOK' /\ QueueIsTrue' /\ QueueViewed'
  BY <1>1, <1>2 DEF ModerationTypeOK, QueueIsTrue, QueueViewed
<1>4. DecisionsKnown' /\ GalleriesMounted'
  BY <1>1 DEF DecisionsKnown, GalleriesMounted, Mounted, Done
<1> QED BY <1>3, <1>4

\* The filter and the session change only what is mounted of the queue.
LEMMA FilterKeeps ==
  ASSUME ModerationInv, CallTypeOK,
         (\E out \in SUBSET Illustrated : Filter(out)) \/ LoseAccess
  PROVE  ModerationInv'
<1> USE ModerationSpaceAssumption DEF ModerationInv, queueVars, readVars
<1>1. /\ UNCHANGED <<file, queue, reads, loadError, loaded, viewed, decision, busyId, ruled>>
      /\ hidden' \in SUBSET Illustrated /\ allowed' \in BOOLEAN /\ sent' \in {NoQueue, sent}
      /\ \A c \in Clicks : call'[c] = call[c]
      /\ Unmounts
  BY DEF Filter, LoseAccess, Returns, CallTypeOK, Threads, Clicks, ModerationTypeOK
<1>2. /\ gallery' \in [Illustrated -> {"closed", "loading", "shown"}]
      /\ orphans' \in [Illustrated -> 0 .. MaxOrphans] /\ blobs' \in [Illustrated -> Nat]
      /\ GalleriesMounted'
  BY <1>1, UnmountsKeeps
<1>3. ModerationTypeOK'
  BY <1>1, <1>2 DEF ModerationTypeOK, Queues, NoQueue
<1>4. QueueIsTrue' /\ DecisionsKnown' /\ QueueViewed'
  BY <1>1 DEF QueueIsTrue, DecisionsKnown, QueueViewed, Done
<1> QED BY <1>2, <1>3, <1>4

\* When the page is back nothing is mounted yet, and so nothing is open.
LEMMA RegainAccessKeeps ==
  ASSUME ModerationInv, CallTypeOK, RegainAccess
  PROVE  ModerationInv'
<1> USE DEF ModerationInv, galleryVars
<1>1. /\ UNCHANGED <<file, queue, loadError, sent, loaded, viewed, decision, busyId, ruled>>
      /\ UNCHANGED <<hidden, gallery, orphans, blobs>>
      /\ ~allowed /\ allowed' = TRUE /\ reads' = reads + 1
      /\ \A c \in Clicks : call'[c] = call[c]
  BY DEF RegainAccess, Calls, CallTypeOK, Threads, Clicks
<1>2. ModerationTypeOK'
  BY <1>1 DEF ModerationTypeOK
<1>3. QueueIsTrue' /\ DecisionsKnown' /\ QueueViewed'
  BY <1>1 DEF QueueIsTrue, DecisionsKnown, QueueViewed, Done
<1>4. GalleriesMounted'
  BY <1>1 DEF GalleriesMounted, Mounted
<1> QED BY <1>2, <1>3, <1>4

\* A gallery is opened, arrives, or arrives too late: its URLs are counted.
LEMMA GalleryKeeps ==
  ASSUME ModerationInv, NEW f \in Illustrated, OpenGallery(f) \/ GalleryArrives(f) \/ OrphanArrives(f)
  PROVE  ModerationInv'
<1> USE ModerationSpaceAssumption DEF ModerationInv, queueVars, readVars
<1>1. /\ UNCHANGED <<call, file, queue, reads, allowed, loadError, sent, loaded, viewed>>
      /\ UNCHANGED <<decision, busyId, ruled, hidden>>
  BY DEF OpenGallery, GalleryArrives, OrphanArrives
<1>2. ModerationTypeOK'
  <2>1. /\ gallery' \in [Illustrated -> {"closed", "loading", "shown"}]
        /\ orphans' \in [Illustrated -> 0 .. MaxOrphans] /\ blobs' \in [Illustrated -> Nat]
    BY DEF ModerationTypeOK, OpenGallery, GalleryArrives, OrphanArrives, GalleriesMounted
  <2> QED BY <1>1, <2>1 DEF ModerationTypeOK
<1>3. QueueIsTrue' /\ DecisionsKnown' /\ QueueViewed'
  BY <1>1 DEF QueueIsTrue, DecisionsKnown, QueueViewed, Done
<1>5. GalleriesMounted'
  <2>1. CASE OpenGallery(f)
    BY <1>1, <2>1 DEF GalleriesMounted, ModerationTypeOK, OpenGallery, Mounted
  <2>2. CASE GalleryArrives(f)
    BY <1>1, <2>2 DEF GalleriesMounted, ModerationTypeOK, GalleryArrives, Mounted
  <2>3. CASE OrphanArrives(f)
    BY <1>1, <2>3 DEF GalleriesMounted, ModerationTypeOK, OrphanArrives, Mounted
  <2> QED BY <2>1, <2>2, <2>3
<1> QED BY <1>2, <1>3, <1>5

\* A decision is on the revision shown, which the page has had.
LEMMA DecideKeeps ==
  ASSUME ModerationInv, CallTypeOK, NEW c \in Clicks, NEW f \in Files, NEW to \in Rulings,
         Decide(c, f, to)
  PROVE  ModerationInv'
<1> USE ModerationSpaceAssumption DEF ModerationInv, galleryVars, readVars
<1> DEFINE d == [id |-> f, rev |-> queue[f], to |-> to]
<1>1. /\ UNCHANGED <<file, queue, reads, allowed, loadError, sent, loaded, viewed, ruled>>
      /\ UNCHANGED <<hidden, gallery, orphans, blobs>>
      /\ busyId' = f /\ queue[f] # 0
      /\ decision' = [decision EXCEPT ![c] = d]
      /\ call' = [call EXCEPT ![c] = "sent"]
  BY DEF Decide, Calls, Mounted
<1>2. d \in Decisions /\ d.id = f /\ <<f, d.rev>> \in viewed
  BY <1>1 DEF ModerationTypeOK, Queues, Decisions, QueueViewed
<1>3. call'[c] = "sent" /\ \A o \in Clicks \ {c} : call'[o] = call[o]
  BY <1>1 DEF CallTypeOK, Threads, Clicks
<1>4. decision'[c] = d /\ \A o \in Clicks \ {c} : decision'[o] = decision[o]
  BY <1>1 DEF ModerationTypeOK
<1>5. ModerationTypeOK'
  BY <1>1, <1>2 DEF ModerationTypeOK
<1>6. QueueIsTrue' /\ QueueViewed' /\ GalleriesMounted'
  BY <1>1 DEF QueueIsTrue, QueueViewed, GalleriesMounted, Mounted
<1>7. DecisionsKnown'
  <2>1. d # None
    BY <1>2
  <2> HIDE DEF d
  <2> QED BY <1>1, <1>2, <1>3, <1>4, <2>1 DEF DecisionsKnown, Done
<1> QED BY <1>5, <1>6, <1>7

\* What leaves the queue has been decided, in a revision the page has had.
LEMMA DecidedKeeps ==
  ASSUME ModerationInv, CallTypeOK, NEW c \in Clicks, Decided(c)
  PROVE  ModerationInv'
<1> USE ModerationSpaceAssumption DEF ModerationInv, readVars
<1> DEFINE id == decision[c].id
           remaining == IF Done(c) THEN [queue EXCEPT ![id] = 0] ELSE queue
<1>1. /\ UNCHANGED <<file, reads, allowed, loadError, sent, loaded, viewed, ruled, hidden>>
      /\ decision[c] # None /\ busyId' = None
      /\ queue' = remaining /\ Unmounts
      /\ decision' = [decision EXCEPT ![c] = None]
      /\ call' = [call EXCEPT ![c] = "none"]
  BY DEF Decided, Returns
<1>2. id \in Files /\ (Done(c) => \E rev \in 1 .. MaxRev : <<id, rev>> \in ruled)
  <2>1. decision[c] # None
    BY <1>1
  <2>2. decision[c] \in Decisions
    BY <2>1 DEF ModerationTypeOK
  <2> QED BY <2>1, <2>2 DEF Decisions, DecisionsKnown
<1>3. call'[c] = "none" /\ \A o \in Clicks \ {c} : call'[o] = call[o]
  BY <1>1 DEF CallTypeOK, Threads, Clicks
<1>4. decision'[c] = None /\ \A o \in Clicks \ {c} : decision'[o] = decision[o]
  BY <1>1 DEF ModerationTypeOK
<1>5. remaining \in Queues
  BY <1>2 DEF ModerationTypeOK, Queues
<1>6. \A f \in Files : \/ remaining[f] = queue[f]
                       \/ f = id /\ remaining[f] = 0 /\ Done(c)
  BY <1>2 DEF ModerationTypeOK, Queues
<1> HIDE DEF remaining, id
<1>7. /\ gallery' \in [Illustrated -> {"closed", "loading", "shown"}]
      /\ orphans' \in [Illustrated -> 0 .. MaxOrphans] /\ blobs' \in [Illustrated -> Nat]
      /\ GalleriesMounted'
  BY <1>1, UnmountsKeeps
<1>8. ModerationTypeOK'
  BY <1>1, <1>5, <1>7 DEF ModerationTypeOK
<1>9. QueueIsTrue' /\ QueueViewed'
  <2>1. loaded \subseteq Files
    BY DEF ModerationTypeOK
  <2> QED BY <1>1, <1>2, <1>6, <2>1 DEF QueueIsTrue, QueueViewed
<1>10. DecisionsKnown'
  BY <1>1, <1>3, <1>4 DEF DecisionsKnown, Done
<1> QED BY <1>7, <1>8, <1>9, <1>10

\* Every step of the page keeps its invariant.
LEMMA ModerationStep ==
  ASSUME ModerationInv, CallTypeOK, ModerationNext
  PROVE  ModerationInv'
<1>1. ASSUME NEW t \in Threads, ModerationAnswers(t) PROVE ModerationInv'
  BY <1>1, ServeQueueKeeps, QueueShownKeeps, ServeDecisionKeeps, DecidedKeeps,
    QueueFailsKeeps DEF ModerationAnswers
<1>2. ASSUME NEW f \in Files, NEW c \in Clicks, NEW to \in Rulings, Decide(c, f, to)
      PROVE  ModerationInv'
  BY <1>2, DecideKeeps
<1>3. ASSUME NEW f \in Illustrated, OpenGallery(f) \/ GalleryArrives(f) \/ OrphanArrives(f)
      PROVE  ModerationInv'
  BY <1>3, GalleryKeeps
<1>4. ASSUME (\E out \in SUBSET Illustrated : Filter(out)) \/ LoseAccess PROVE ModerationInv'
  BY <1>4, FilterKeeps
<1> QED BY <1>1, <1>2, <1>3, <1>4, OthersActKeeps, RegainAccessKeeps DEF ModerationNext

\* The invariant speaks of the calls and of the variables of this page only.
LEMMA ModerationFrame ==
  ASSUME ModerationInv, UNCHANGED <<call, moderationVars>>
  PROVE  ModerationInv'
BY DEF ModerationInv, ModerationTypeOK, QueueIsTrue, DecisionsKnown, QueueViewed,
       GalleriesMounted, Mounted, Done, moderationVars, queueVars, readVars, galleryVars

-----------------------------------------------------------------------------
(* The exchanges of a member, and the form of a proposal *)

\* The exchanges as they open.
LEMMA DashboardStart == DashboardInit /\ call["act"] = "none" => DashboardInv
<1> SUFFICES ASSUME DashboardInit, call["act"] = "none" PROVE DashboardInv
  OBVIOUS
<1>1. DashboardTypeOK
  BY DEF DashboardInit, DashboardTypeOK, NoAction, Stages
<1>2. DashboardIsTrue /\ BusyIsTrue
  BY DEF DashboardInit, DashboardIsTrue, BusyIsTrue, NoAction
<1> QED BY <1>1, <1>2 DEF DashboardInv

\* The service carries out an action.
LEMMA ServeActionKeeps ==
  ASSUME DashboardInv, CallTypeOK, ServeAction
  PROVE  DashboardInv'
<1> USE DEF DashboardInv, formVars
<1>1. /\ UNCHANGED <<shown, read, busy, loading, outcome, refused, offers, sending>>
      /\ busy.stage = "action" /\ call'["act"] # "none" /\ call["act"] # "none"
      /\ deal' \in {deal, [deal EXCEPT ![busy.id] = Result(busy.act)]}
  BY DEF ServeAction, Serves, Calling, CallTypeOK, Threads
<1>2. busy.id \in Deals /\ Result(busy.act) \in Stages
  BY <1>1 DEF BusyIsTrue, Result, Stages
<1>3. DashboardTypeOK'
  BY <1>1, <1>2 DEF DashboardTypeOK
<1>4. DashboardIsTrue' /\ BusyIsTrue'
  BY <1>1 DEF DashboardIsTrue, BusyIsTrue
<1> QED BY <1>3, <1>4

\* The service answers a refresh with what it has.
LEMMA ServeRefreshKeeps ==
  ASSUME DashboardInv, CallTypeOK, NEW t \in {"act", "load"}, ServeRefresh(t)
  PROVE  DashboardInv'
<1> USE DEF DashboardInv, formVars
<1>1. /\ UNCHANGED <<deal, shown, busy, loading, outcome, refused, offers, sending>>
      /\ call'["act"] = "none" <=> call["act"] = "none"
      /\ read' = [read EXCEPT ![t] = deal]
  BY DEF ServeRefresh, Serves, Calling, CallTypeOK, Threads
<1>2. DashboardTypeOK'
  BY <1>1 DEF DashboardTypeOK
<1>3. DashboardIsTrue' /\ BusyIsTrue'
  BY <1>1 DEF DashboardIsTrue, BusyIsTrue
<1> QED BY <1>2, <1>3

\* A call fails before it acts, or loses its answer.
LEMMA ExchangeFailsKeeps ==
  ASSUME DashboardInv, CallTypeOK, NEW t \in {"act", "load"}, ExchangeFails(t)
  PROVE  DashboardInv'
<1> USE DEF DashboardInv, exchangeVars, dashboardVars, formVars
<1>1. UNCHANGED exchangeVars /\ (call'["act"] = "none" <=> call["act"] = "none")
  BY DEF ExchangeFails, FailCall, LoseAnswer, Calling, Done, CallTypeOK, Threads
<1>2. DashboardTypeOK' /\ DashboardIsTrue' /\ BusyIsTrue'
  BY <1>1 DEF DashboardTypeOK, DashboardIsTrue, BusyIsTrue
<1> QED BY <1>2

\* An action is announced when it is told done, and shown as failed otherwise.
LEMMA ExecutedKeeps ==
  ASSUME DashboardInv, CallTypeOK, Executed
  PROVE  DashboardInv'
<1> USE DEF DashboardInv, formVars
<1>1. /\ UNCHANGED <<deal, shown, read, loading, offers, sending>>
      /\ busy.stage = "action" /\ call["act"] \in {"done", "failed"}
      /\ ~outcome.notice /\ outcome.error # "failed"
  BY DEF Executed, Answered, Done, Failed, BusyIsTrue
<1>2. CASE Done("act")
  <2>1. /\ refused' = FALSE /\ call'["act"] = "sent"
        /\ outcome' = [outcome EXCEPT !.notice = TRUE]
        /\ busy' = [busy EXCEPT !.stage = "refresh"]
    BY <1>2 DEF Executed, Done, Failed, Calls, CallTypeOK, Threads
  <2>2. DashboardTypeOK'
    BY <1>1, <2>1 DEF DashboardTypeOK, BusyIsTrue
  <2>3. busy'.stage = "refresh" /\ outcome'.error = outcome.error
    BY <2>1 DEF DashboardTypeOK
  <2>4. DashboardIsTrue' /\ BusyIsTrue'
    BY <1>1, <2>1, <2>3 DEF DashboardIsTrue, BusyIsTrue
  <2> QED BY <2>2, <2>4
<1>3. CASE ~Done("act")
  <2>1. /\ refused' = TRUE /\ call'["act"] = "none"
        /\ outcome' = [outcome EXCEPT !.error = "failed"]
        /\ busy' = NoAction
    BY <1>3 DEF Executed, Answered, Done, Failed, Returns, CallTypeOK, Threads
  <2>2. DashboardTypeOK'
    BY <1>1, <2>1 DEF DashboardTypeOK, NoAction
  <2>3. outcome'.notice = FALSE
    BY <1>1, <2>1 DEF DashboardTypeOK
  <2>4. DashboardIsTrue' /\ BusyIsTrue'
    BY <1>1, <2>1, <2>3 DEF DashboardIsTrue, BusyIsTrue, NoAction
  <2> QED BY <2>2, <2>4
<1> QED BY <1>2, <1>3

\* A refresh that fails says so, and does not make the action fail.
LEMMA RefreshedKeeps ==
  ASSUME DashboardInv, CallTypeOK, ExecuteRefreshed \/ Refreshed
  PROVE  DashboardInv'
<1> USE DEF DashboardInv, formVars
<1>1. /\ UNCHANGED <<deal, read, refused, offers, sending>>
      /\ shown' \in {shown, read["act"], read["load"]} /\ loading' \in {loading, FALSE}
      /\ outcome' \in {outcome, [outcome EXCEPT !.error = "stale"], [outcome EXCEPT !.error = "load"]}
      /\ \/ busy' = NoAction /\ call'["act"] = "none"
         \/ busy' = busy /\ call'["act"] = call["act"]
  BY DEF ExecuteRefreshed, Refreshed, Returns, CallTypeOK, Threads
<1>2. DashboardTypeOK'
  <2>1. shown' \in [Deals -> Stages \cup {"unknown"}]
    BY <1>1 DEF DashboardTypeOK
  <2>2. outcome' \in [notice : BOOLEAN, error : {"none", "failed", "stale", "load"}]
    BY <1>1 DEF DashboardTypeOK
  <2>3. busy'.act \in Acts \cup {"none"} /\ busy'.stage \in {"none", "action", "refresh"}
    BY <1>1 DEF DashboardTypeOK, NoAction
  <2>4. loading' \in BOOLEAN
    BY <1>1 DEF DashboardTypeOK
  <2> QED BY <1>1, <2>1, <2>2, <2>3, <2>4 DEF DashboardTypeOK
<1>3. outcome'.notice = outcome.notice /\ outcome'.error \in {outcome.error, "stale", "load"}
  BY <1>1 DEF DashboardTypeOK
<1>4. DashboardIsTrue' /\ BusyIsTrue'
  BY <1>1, <1>3 DEF DashboardIsTrue, BusyIsTrue, NoAction
<1> QED BY <1>2, <1>4

\* An action begins when no other is under way, and takes back what was announced.
LEMMA ExecuteKeeps ==
  ASSUME DashboardInv, CallTypeOK, NEW d \in Deals, NEW act \in Acts, Execute(d, act)
  PROVE  DashboardInv'
<1> USE DEF DashboardInv, formVars
<1>1. /\ UNCHANGED <<deal, shown, read, loading, offers, sending>>
      /\ busy' = [id |-> d, act |-> act, stage |-> "action"]
      /\ outcome' = [notice |-> FALSE, error |-> "none"] /\ refused' = FALSE
      /\ call'["act"] = "sent"
  BY DEF Execute, Calls, CallTypeOK, Threads
<1>2. DashboardTypeOK'
  BY <1>1 DEF DashboardTypeOK
<1>3. DashboardIsTrue' /\ BusyIsTrue'
  BY <1>1 DEF DashboardIsTrue, BusyIsTrue
<1> QED BY <1>2, <1>3

\* The other participant acts, or the page asks what has become of the exchanges.
LEMMA OthersMoveKeeps ==
  ASSUME DashboardInv, CallTypeOK, Refresh \/ \E d \in Deals : OthersMove(d)
  PROVE  DashboardInv'
<1> USE DEF DashboardInv, formVars
<1>1. /\ UNCHANGED <<shown, read, busy, outcome, refused, offers, sending>>
      /\ loading' \in BOOLEAN /\ call'["act"] = call["act"]
  BY DEF Refresh, OthersMove, Calls, CallTypeOK, Threads, DashboardTypeOK
<1>2. deal' \in [Deals -> Stages]
  BY DEF Refresh, OthersMove, Stages, DashboardTypeOK
<1>3. DashboardTypeOK' /\ DashboardIsTrue' /\ BusyIsTrue'
  BY <1>1, <1>2 DEF DashboardTypeOK, DashboardIsTrue, BusyIsTrue
<1> QED BY <1>3

\* Every step of the page keeps its invariant.
LEMMA DashboardStep ==
  ASSUME DashboardInv, CallTypeOK, DashboardNext
  PROVE  DashboardInv'
<1>1. ASSUME NEW t \in {"act", "load"}, DashboardAnswers(t) PROVE DashboardInv'
  BY <1>1, ServeActionKeeps, ServeRefreshKeeps, ExecutedKeeps, RefreshedKeeps,
    ExchangeFailsKeeps DEF DashboardAnswers
<1> QED BY <1>1, OthersMoveKeeps, ExecuteKeeps DEF DashboardNext

\* The invariant speaks of the calls and of the variables of this page only.
LEMMA DashboardFrame ==
  ASSUME DashboardInv, UNCHANGED <<call, exchangeVars>>
  PROVE  DashboardInv'
BY DEF DashboardInv, DashboardTypeOK, DashboardIsTrue, BusyIsTrue, exchangeVars,
  dashboardVars, formVars

\* The form of a proposal as it opens.
LEMMA FormStart == DashboardInit /\ (\A t \in {"act", "again"} : call[t] = "none") => FormInv
<1> SUFFICES ASSUME DashboardInit, \A t \in {"act", "again"} : call[t] = "none" PROVE FormInv
  OBVIOUS
<1>1. DashboardTypeOK
  BY DEF DashboardInit, DashboardTypeOK, NoAction, Stages
<1>2. DashboardIsTrue /\ ProposalsAreCounted /\ OneSending
  BY DEF DashboardInit, DashboardIsTrue, ProposalsAreCounted, OneSending, Calling
<1> QED BY <1>1, <1>2 DEF FormInv

\* What a step of the form leaves to be shown.
LEMMA FormKeeps ==
  ASSUME FormInv, UNCHANGED dashboardVars, offers' \in [made : Nat, answered : Nat], sending' \in BOOLEAN
  PROVE  DashboardTypeOK' /\ DashboardIsTrue'
BY DEF FormInv, DashboardTypeOK, DashboardIsTrue, dashboardVars

\* A proposal is served, and answered or lost: the form is told once.
LEMMA FormAnswersKeeps ==
  ASSUME FormInv, CallTypeOK, NEW t \in {"act", "again"}, ServeProposal(t) \/ ExchangeFails(t) \/ Submitted(t)
  PROVE  FormInv'
<1> USE DEF FormInv
<1>1. /\ offers \in [made : Nat, answered : Nat]
      /\ sending /\ offers.made <= offers.answered + 1 /\ (Calling(t) => offers.made <= offers.answered)
      /\ call[t] # "none" /\ \A o \in {"act", "again"} \ {t} : call[o] = "none"
  BY DEF DashboardTypeOK, OneSending, ProposalsAreCounted, ServeProposal, ExchangeFails,
    Submitted, FailCall,
         LoseAnswer, Calling, Done, Failed, Answered
<1>2. UNCHANGED dashboardVars /\ \A o \in {"act", "again"} \ {t} : call'[o] = call[o]
  BY DEF ServeProposal, ExchangeFails, Submitted, FailCall, LoseAnswer, Serves, Returns,
    exchangeVars,
         CallTypeOK, Threads
<1>3. CASE ServeProposal(t)
  <2>1. sending' = sending /\ call'[t] \in {"done", "failed"} /\ offers.made <= offers.answered
    BY <1>1, <1>3 DEF ServeProposal, Serves, CallTypeOK, Threads
  <2>2. offers' \in {offers, [offers EXCEPT !.made = @ + 1]}
    BY <1>3 DEF ServeProposal
  <2>3. offers' \in [made : Nat, answered : Nat] /\ offers'.made <= offers'.answered + 1
    BY <1>1, <2>1, <2>2
  <2>4. ProposalsAreCounted' /\ OneSending'
    BY <1>1, <1>2, <2>1, <2>3 DEF ProposalsAreCounted, OneSending, Calling
  <2> QED BY <1>1, <1>2, <2>1, <2>3, <2>4, FormKeeps
<1>4. CASE ExchangeFails(t)
  <2>1. UNCHANGED <<offers, sending>> /\ call'[t] = "failed"
    BY <1>4 DEF ExchangeFails, FailCall, LoseAnswer, exchangeVars, formVars, CallTypeOK,
      Threads
  <2>2. ProposalsAreCounted' /\ OneSending'
    BY <1>1, <1>2, <2>1 DEF ProposalsAreCounted, OneSending, Calling
  <2> QED BY <1>1, <1>2, <2>1, <2>2, FormKeeps
<1>5. CASE Submitted(t)
  <2>1. sending' = FALSE /\ call'[t] = "none" /\ offers' = [offers EXCEPT !.answered = @ + 1]
    BY <1>5 DEF Submitted, Returns, CallTypeOK, Threads
  <2>2. offers' \in [made : Nat, answered : Nat] /\ offers'.made <= offers'.answered
    BY <1>1, <2>1
  <2>3. ProposalsAreCounted' /\ OneSending'
    BY <1>1, <1>2, <2>1, <2>2 DEF ProposalsAreCounted, OneSending, Calling
  <2> QED BY <1>2, <2>1, <2>2, <2>3, FormKeeps
<1> QED BY <1>3, <1>4, <1>5

\* The form is sent only when nothing is under way and all is answered for.
LEMMA SubmitKeeps ==
  ASSUME FormInv, CallTypeOK, NEW t \in {"act", "again"}, Submit(t)
  PROVE  FormInv'
<1> USE DEF FormInv
<1>1. /\ UNCHANGED <<dashboardVars, offers>> /\ ~sending /\ sending' = TRUE
      /\ call'[t] = "sent" /\ \A o \in {"act", "again"} \ {t} : call'[o] = call[o]
  BY DEF Submit, Calls, CallTypeOK, Threads
<1>2. offers \in [made : Nat, answered : Nat] /\ offers.made <= offers.answered
      /\ \A o \in {"act", "again"} : call[o] = "none"
  BY <1>1 DEF OneSending, DashboardTypeOK
<1>3. ProposalsAreCounted' /\ OneSending'
  BY <1>1, <1>2 DEF ProposalsAreCounted, OneSending, Calling
<1> QED BY <1>1, <1>2, <1>3, FormKeeps

\* Every step of the form keeps its invariant.
LEMMA FormStep ==
  ASSUME FormInv, CallTypeOK, FormNext
  PROVE  FormInv'
BY FormAnswersKeeps, SubmitKeeps DEF FormNext, FormAnswers

\* The invariant speaks of the calls and of the variables of this page only.
LEMMA FormFrame ==
  ASSUME FormInv, UNCHANGED <<call, exchangeVars>>
  PROVE  FormInv'
BY DEF FormInv, DashboardTypeOK, DashboardIsTrue, ProposalsAreCounted, OneSending, Calling,
  exchangeVars, dashboardVars, formVars

-----------------------------------------------------------------------------
(* The effects that read *)

\* The first run of an effect has the call to itself.
LEMMA LoadStart == LoadInit(page) => LoadInv
<1> SUFFICES ASSUME LoadInit(page) PROVE LoadInv
  OBVIOUS
<1> USE PageLoadAssumption DEF LoadInit
<1>1. LoadTypeOK
  BY DEF LoadTypeOK, Runs, Asked
<1>2. \A n \in Runs : answers[n] \in {"none", "sent"} /\ (n > current => answers[n] = "none")
  BY DEF Runs, Asked
<1> QED BY <1>1, <1>2 DEF LoadInv, LatestIsShown

\* The effect runs again: its run has not been handled.
LEMMA RestartKeeps ==
  ASSUME LoadInv, UNCHANGED page, NEW asked \in {"none", "sent"}, Restarts(asked),
         screen' \in {screen, [loading |-> TRUE, data |-> 0, error |-> 0, notFound |-> screen.notFound]}
  PROVE  LoadInv'
<1> USE PageLoadAssumption DEF LoadInv, Runs
<1>1. /\ current \in Nat /\ current < MaxRuns /\ current' = current + 1 /\ UNCHANGED handled
      /\ answers' = [answers EXCEPT ![current + 1] = asked] /\ current + 1 \in Runs
  BY DEF Restarts, LoadTypeOK
<1>2. LoadTypeOK' /\ screen'.notFound = screen.notFound
  <2>1. /\ screen'.notFound = screen.notFound
        /\ screen' \in [loading : BOOLEAN, data : 0 .. MaxRuns, error : 0 .. MaxRuns,
                        notFound : 0 .. MaxRuns]
    <3> DEFINE again == [loading |-> TRUE, data |-> 0, error |-> 0, notFound |-> screen.notFound]
    <3>1. again.notFound = screen.notFound
      BY DEF LoadTypeOK
    <3>2. again \in [loading : BOOLEAN, data : 0 .. MaxRuns, error : 0 .. MaxRuns, notFound : 0 .. MaxRuns]
      BY DEF LoadTypeOK
    <3>3. screen' \in {screen, again}
      OBVIOUS
    <3> HIDE DEF again
    <3> QED BY <3>1, <3>2, <3>3 DEF LoadTypeOK
  <2>2. answers' \in [Runs -> {"none", "sent", "done", "missing", "failed"}]
    BY <1>1 DEF LoadTypeOK
  <2> QED BY <1>1, <2>1, <2>2 DEF LoadTypeOK
<1>3. answers[current + 1] = "none" /\ current + 1 \notin handled
  BY <1>1 DEF LoadTypeOK
<1>4. \A n \in Runs \ {current + 1} : answers'[n] = answers[n]
  BY <1>1 DEF LoadTypeOK
<1>5. answers'[current + 1] = asked
  BY <1>1 DEF LoadTypeOK
<1>6. \A n \in Runs : n > current' => answers'[n] = "none"
  BY <1>1, <1>4
<1>7. \A n \in handled' : answers'[n] \in {"done", "missing", "failed"}
  BY <1>1, <1>3, <1>4 DEF LoadTypeOK
<1>8. \A n \in Runs : answers'[n] = "missing" => page' = "detail"
  BY <1>4, <1>5
<1>9. LatestIsShown'
  BY <1>1, <1>3 DEF LatestIsShown
<1> QED BY <1>2, <1>6, <1>7, <1>8, <1>9

\* A call is answered: it is not the one of a run that has been handled.
LEMMA ServeLoadKeeps ==
  ASSUME LoadInv, UNCHANGED page, NEW n \in Runs, ServeLoad(page, n)
  PROVE  LoadInv'
<1> USE DEF LoadInv
<1>1. PICK how \in {"done", "missing", "failed"} :
        /\ answers' = [answers EXCEPT ![n] = how] /\ (how = "missing" => page = "detail")
  BY DEF ServeLoad
<1>2. answers[n] = "sent" /\ UNCHANGED <<current, handled, screen>> /\ n \notin handled
  BY DEF ServeLoad
<1>3. answers'[n] = how /\ \A m \in Runs \ {n} : answers'[m] = answers[m]
  BY <1>1 DEF LoadTypeOK
<1>4. LoadTypeOK'
  BY <1>1, <1>2 DEF LoadTypeOK
<1>5. \A m \in Runs : m > current' => answers'[m] = "none"
  <2>1. ~(n > current)
    BY <1>2
  <2> QED BY <1>2, <1>3, <2>1
<1>6. \A m \in handled' : answers'[m] \in {"done", "missing", "failed"}
  BY <1>2, <1>3 DEF LoadTypeOK
<1>7. \A m \in Runs : answers'[m] = "missing" => page' = "detail"
  BY <1>1, <1>3
<1>8. LatestIsShown'
  <2>1. ASSUME current \in handled PROVE answers'[current] = answers[current]
    BY <1>2, <1>3, <2>1 DEF LoadTypeOK
  <2>2. UNCHANGED OnScreen
    BY <1>2 DEF OnScreen
  <2> QED BY <1>2, <2>1, <2>2 DEF LatestIsShown
<1> QED BY <1>2, <1>4, <1>5, <1>6, <1>7, <1>8

\* The callbacks of a run show what came if it is the latest, and nothing else.
LEMMA ShowAnswerKeeps ==
  ASSUME LoadInv, UNCHANGED page, NEW n \in Runs, ShowAnswer(page, n)
  PROVE  LoadInv'
<1> USE DEF LoadInv
<1>1. /\ answers[n] \in {"done", "missing", "failed"} /\ n \notin handled
      /\ handled' = handled \cup {n} /\ UNCHANGED <<current, answers>>
      /\ screen' = IF n = current THEN Shows(page, n) ELSE screen
  BY DEF ShowAnswer, active
<1>2. /\ n \in 1 .. MaxRuns /\ n # 0 /\ current \in Runs /\ handled \subseteq Runs
      /\ screen \in [loading : BOOLEAN, data : 0 .. MaxRuns, error : 0 .. MaxRuns,
                     notFound : 0 .. MaxRuns]
  BY PageLoadAssumption DEF LoadTypeOK, Runs
<1>3. ASSUME answers[n] = "done"
      PROVE  Shows(page, n) = [loading |-> FALSE, data |-> n, notFound |-> 0,
                               error |-> IF page = "offers" THEN screen.error ELSE 0]
  BY <1>3 DEF Shows
<1>4. ASSUME answers[n] = "missing"
      PROVE  Shows(page, n) = [loading |-> FALSE, data |-> screen.data, notFound |-> n, error |-> 0]
  BY <1>4 DEF Shows
<1>5. ASSUME answers[n] = "failed"
      PROVE  Shows(page, n) = [loading |-> FALSE, notFound |-> screen.notFound, error |-> n,
                               data |-> IF page \in {"detail", "offers"} THEN screen.data ELSE 0]
  BY <1>5 DEF Shows
<1>6. /\ Shows(page, n) \in [loading : BOOLEAN, data : 0 .. MaxRuns, error : 0 .. MaxRuns,
                             notFound : 0 .. MaxRuns]
      /\ ~Shows(page, n).loading
      /\ answers[n] = "done" =>
           /\ Shows(page, n).data = n /\ Shows(page, n).notFound = 0
           /\ page # "offers" => Shows(page, n).error = 0
      /\ answers[n] = "missing" => Shows(page, n).notFound = n
      /\ answers[n] = "failed" => /\ Shows(page, n).error = n
                                  /\ Shows(page, n).notFound = screen.notFound
  <2>1. CASE answers[n] = "done"
    <3> DEFINE error == IF page = "offers" THEN screen.error ELSE 0
               found == [loading |-> FALSE, data |-> n, notFound |-> 0, error |-> error]
    <3>1. Shows(page, n) = found
      BY <1>3, <2>1
    <3>2. error \in 0 .. MaxRuns /\ (page # "offers" => error = 0)
      BY <1>2, PageLoadAssumption
    <3> HIDE DEF error
    <3>3. found \in [loading : BOOLEAN, data : 0 .. MaxRuns, error : 0 .. MaxRuns, notFound : 0 .. MaxRuns]
      BY <1>2, <3>2, PageLoadAssumption
    <3>4. ~found.loading /\ found.data = n /\ found.notFound = 0 /\ found.error = error
      BY <1>2
    <3> HIDE DEF found
    <3> QED BY <2>1, <3>1, <3>2, <3>3, <3>4
  <2>2. CASE answers[n] = "missing"
    <3> DEFINE lost == [loading |-> FALSE, data |-> screen.data, notFound |-> n, error |-> 0]
    <3>1. Shows(page, n) = lost
      BY <1>4, <2>2
    <3>2. lost \in [loading : BOOLEAN, data : 0 .. MaxRuns, error : 0 .. MaxRuns, notFound : 0 .. MaxRuns]
      BY <1>2, PageLoadAssumption
    <3>3. ~lost.loading /\ lost.notFound = n
      BY <1>2
    <3> HIDE DEF lost
    <3> QED BY <2>2, <3>1, <3>2, <3>3
  <2>3. CASE answers[n] = "failed"
    <3> DEFINE data == IF page \in {"detail", "offers"} THEN screen.data ELSE 0
               failed == [loading |-> FALSE, notFound |-> screen.notFound, error |-> n, data |-> data]
    <3>1. Shows(page, n) = failed
      BY <1>5, <2>3
    <3>2. data \in 0 .. MaxRuns
      BY <1>2, PageLoadAssumption
    <3> HIDE DEF data
    <3>3. failed \in [loading : BOOLEAN, data : 0 .. MaxRuns, error : 0 .. MaxRuns, notFound : 0 .. MaxRuns]
      BY <1>2, <3>2, PageLoadAssumption
    <3>4. ~failed.loading /\ failed.error = n /\ failed.notFound = screen.notFound
      BY <1>2
    <3> HIDE DEF failed
    <3> QED BY <2>3, <3>1, <3>3, <3>4
  <2> QED BY <1>1, <2>1, <2>2, <2>3
<1>7. LoadTypeOK'
  BY <1>1, <1>2, <1>6 DEF LoadTypeOK
<1>8. screen'.notFound # 0 => page = "detail"
  BY <1>1, <1>6
<1>9. LatestIsShown'
  <2>1. CASE n = current
    <3>1. /\ OnScreen.shows' = IF screen'.notFound # 0 THEN "missing"
                               ELSE IF screen'.error # 0 THEN "failed" ELSE "done"
          /\ OnScreen.run' = IF screen'.notFound # 0 THEN screen'.notFound
                             ELSE IF screen'.error # 0 THEN screen'.error ELSE screen'.data
          /\ OnScreen' = [shows |-> OnScreen.shows', run |-> OnScreen.run']
      BY <1>1, <1>6, <2>1 DEF OnScreen
    <3>2. CASE page = "offers"
      BY <1>1, <1>6, <2>1, <3>2 DEF LatestIsShown
    <3>3. CASE page # "offers"
      <4>1. CASE answers[n] = "done"
        BY <1>1, <1>6, <2>1, <3>1, <3>3, <4>1 DEF LatestIsShown
      <4>2. CASE answers[n] = "missing"
        BY <1>1, <1>2, <1>6, <2>1, <3>1, <3>3, <4>2 DEF LatestIsShown
      <4>3. CASE answers[n] = "failed"
        BY <1>1, <1>2, <1>6, <1>8, <2>1, <3>1, <3>3, <4>3 DEF LatestIsShown
      <4> QED BY <1>1, <4>1, <4>2, <4>3
    <3> QED BY <3>2, <3>3
  <2>2. CASE n # current
    <3>1. UNCHANGED <<screen, OnScreen>>
      BY <1>1, <2>2 DEF OnScreen
    <3> QED BY <1>1, <2>2, <3>1 DEF LatestIsShown
  <2> QED BY <2>1, <2>2
<1> QED BY <1>1, <1>7, <1>8, <1>9

\* Every step of a page that reads keeps its invariant.
LEMMA LoadStep ==
  ASSUME LoadInv, UNCHANGED page, LoadNext(page)
  PROVE  LoadInv'
<1>1. CASE DependencyChanges(page) \/ Retry(page)
  BY <1>1, RestartKeeps DEF DependencyChanges, Retry, Asked
<1>2. CASE ClearError(page)
  <2>1. /\ page = "offers" /\ screen' = [screen EXCEPT !.error = 0]
        /\ UNCHANGED <<current, answers, handled>>
    BY <1>2 DEF ClearError
  <2>2. /\ screen'.error = 0 /\ screen'.data = screen.data /\ screen'.notFound = screen.notFound
        /\ LoadTypeOK'
    BY <2>1 DEF LoadInv, LoadTypeOK
  <2> QED BY <2>1, <2>2 DEF LoadInv, LatestIsShown
<1>3. ASSUME NEW n \in Runs, LoadAnswers(page, n) PROVE LoadInv'
  BY <1>3, ServeLoadKeeps, ShowAnswerKeeps DEF LoadAnswers
<1> QED BY <1>1, <1>2, <1>3 DEF LoadNext

\* The invariant speaks of the variables of the effect only.
LEMMA LoadFrame ==
  ASSUME LoadInv, UNCHANGED <<page, loadVars>>
  PROVE  LoadInv'
BY DEF LoadInv, LoadTypeOK, LatestIsShown, OnScreen, loadVars

-----------------------------------------------------------------------------
(* The session *)

\* A member is refused a page that was offered only without any role, or when
\* the roles of the token are not the ones it was offered on.
LEMMA OfferedIsGranted ==
  ASSUME NEW roles \in RoleSets, roles # {},
         NEW p \in headerLinks([authenticated |-> TRUE, roles |-> roles])
  PROVE  \A token : token.roles = roles => RolesGuard(token, Required(p))
BY SessionAssumption DEF headerLinks, MemberPages, canModerate, canAccessAdmin, Required,
  RolesGuard, AppRoles

\* Before the check nobody is signed in.
LEMMA SessionStart == SessionInit => SessionInv
<1> SUFFICES ASSUME SessionInit PROVE SessionInv
  OBVIOUS
<1> USE SessionAssumption DEF SessionInit, NoRequest, SignedOut, readIdentity, Lives
<1>1. SessionTypeOK
  BY DEF SessionTypeOK
<1>2. SessionIsTrue
  BY DEF SessionIsTrue
<1>3. TokensKnown
  BY DEF TokensKnown
<1> QED BY <1>1, <1>2, <1>3 DEF SessionInv

\* Without its request the session consists of the account, the adapter and
\* what the pages render from.
LEMMA SettlesKeeps ==
  ASSUME SessionInv, NEW part \in SessionParts, Settles(part)
  PROVE  SessionInv'
<1> USE SessionAssumption DEF SessionInv, Lives
<1>1. CASE InitSettles
  <2>1. keycloak' \in [authenticated : BOOLEAN, roles : RoleSets, life : Lives]
    BY <1>1 DEF InitSettles, SessionTypeOK, Issued
  <2>2. /\ UNCHANGED <<account, waiters, request>>
        /\ ~ready /\ ready' = TRUE /\ identity' = readIdentity(keycloak')
    BY <1>1 DEF InitSettles
  <2>3. SessionTypeOK' /\ SessionIsTrue' /\ TokensKnown'
    BY <2>1, <2>2 DEF SessionTypeOK, SessionIsTrue, TokensKnown, readIdentity
  <2> QED BY <2>3
<1>2. CASE RenewalSucceeds
  <2>1. SessionTypeOK'
    BY <1>2 DEF RenewalSucceeds, SessionTypeOK, Issued, readIdentity
  <2>2. SessionIsTrue'
    BY <1>2 DEF RenewalSucceeds, SessionTypeOK, SessionIsTrue, TokensKnown, Issued,
      readIdentity
  <2>3. TokensKnown'
    BY <1>2 DEF RenewalSucceeds, SessionTypeOK, TokensKnown, Issued
  <2> QED BY <2>1, <2>2, <2>3
<1>3. CASE RenewalRefused
  BY <1>3 DEF RenewalRefused, GivesUp, SessionTypeOK, SessionIsTrue, TokensKnown,
    SignedOut, readIdentity
<1>4. CASE RenewalFails
  BY <1>4 DEF RenewalFails, GivesUp, SessionTypeOK, SessionIsTrue, TokensKnown
<1>5. CASE ServesRequest
  <2>1. PICK life \in {"fresh", "ageing"} :
          request' = [request EXCEPT !.at = Verdict([request.token EXCEPT !.life = life], request.page)]
    BY <1>5 DEF ServesRequest, Later, TokensKnown
  <2>2. request.at = "sent" /\ UNCHANGED <<account, keycloak, ready, identity, waiters>>
    BY <1>5 DEF ServesRequest
  <2> DEFINE token == [request.token EXCEPT !.life = life]
             verdict == Verdict(token, request.page)
  <2>3. token.life # "expired" /\ token.roles = request.token.roles
    BY DEF TokensKnown
  <2>4. verdict = IF RolesGuard(token, Required(request.page)) THEN "served" ELSE "forbidden"
    BY <2>3 DEF Verdict, verify
  <2>5. request.token.roles = request.offered /\ request.offered # {} => verdict = "served"
    BY <2>2, <2>3, <2>4, OfferedIsGranted DEF TokensKnown
  <2> HIDE DEF verdict
  <2>6. /\ request'.at = verdict /\ request'.page = request.page /\ request'.offered = request.offered
        /\ request'.token = request.token
    BY <2>1 DEF verdict, TokensKnown
  <2>7. request' = [request EXCEPT !.at = verdict] /\ verdict \in {"served", "forbidden"}
    BY <2>1, <2>4 DEF verdict
  <2>8. SessionTypeOK' /\ TokensKnown'
    BY <2>2, <2>6, <2>7 DEF SessionTypeOK, TokensKnown
  <2>9. SessionIsTrue'
    BY <2>2, <2>5, <2>6, <2>7 DEF SessionIsTrue
  <2> QED BY <2>8, <2>9
<1>6. CASE ShowsVerdict
  BY <1>6 DEF ShowsVerdict, SessionTypeOK, SessionIsTrue, TokensKnown, NoRequest
<1> QED BY <1>1, <1>2, <1>3, <1>4, <1>5, <1>6 DEF Settles

\* A call carries the token at hand if it lasts, and waits for the renewal if not.
LEMMA CallsServiceKeeps ==
  ASSUME SessionInv, NEW p \in PagesOffered, CallsService(p)
  PROVE  SessionInv'
<1> USE SessionAssumption DEF SessionInv, Lives
<1>1. /\ UNCHANGED <<account, keycloak, ready, identity>>
      /\ ready /\ request.at = "idle" /\ p \in headerLinks(identity)
      /\ waiters' \in {waiters, waiters \cup {"request"}}
  BY DEF CallsService
<1>2. identity.authenticated /\ identity = [authenticated |-> TRUE, roles |-> identity.roles]
  BY <1>1 DEF headerLinks, MemberPages, canModerate, canAccessAdmin, SessionTypeOK
<1>3. keycloak.authenticated
  BY <1>1, <1>2 DEF SessionIsTrue
<1>4. "request" \notin waiters
  BY <1>1 DEF TokensKnown
<1>5. CASE keycloak.life = "fresh"
  <2>1. request' = [at |-> "sent", page |-> p, offered |-> identity.roles,
                    token |-> [roles |-> keycloak.roles, life |-> "fresh"]]
        /\ UNCHANGED waiters
    BY <1>3, <1>5 DEF CallsService, SendsWith, AsksFor, NoRequest
  <2> QED BY <1>1, <1>2, <1>4, <2>1 DEF SessionTypeOK, SessionIsTrue, TokensKnown
<1>6. CASE keycloak.life # "fresh"
  <2>1. request' = [at |-> "token", page |-> p, offered |-> identity.roles,
                    token |-> [roles |-> {}, life |-> "expired"]]
    BY <1>3, <1>6 DEF CallsService, AsksFor, NoRequest
  <2> QED BY <1>1, <1>2, <1>3, <2>1 DEF SessionTypeOK, SessionIsTrue, TokensKnown
<1> QED BY <1>5, <1>6

\* Every step of the session keeps its invariant.
LEMMA SessionStep ==
  ASSUME SessionInv, SessionNext
  PROVE  SessionInv'
<1> USE SessionAssumption DEF SessionInv, Lives
<1>1. CASE AccountChanges
  <2>1. account' \in [open : BOOLEAN, roles : RoleSets]
    <3>1. PICK roles \in RoleSets, open \in {FALSE, account.open} : account' = [open |-> open, roles |-> roles]
      BY <1>1 DEF AccountChanges
    <3>2. account.open \in BOOLEAN
      BY DEF SessionTypeOK
    <3>3. open \in BOOLEAN
      BY <3>2
    <3> QED BY <3>1, <3>3
  <2>2. UNCHANGED <<keycloak, ready, identity, waiters, request>>
    BY <1>1 DEF AccountChanges
  <2>3. SessionTypeOK' /\ SessionIsTrue' /\ TokensKnown'
    BY <2>1, <2>2 DEF SessionTypeOK, SessionIsTrue, TokensKnown
  <2> QED BY <2>3
<1>2. CASE TokenAges
  BY <1>2 DEF TokenAges, SessionTypeOK, SessionIsTrue, TokensKnown
<1>3. CASE Login \/ Logout
  <2>1. /\ keycloak' = SignedOut /\ ready' = FALSE /\ identity' = readIdentity(SignedOut)
        /\ waiters' = {} /\ request' = NoRequest
    BY <1>3 DEF Login, Logout
  <2>2. account' \in [open : BOOLEAN, roles : RoleSets]
    BY <1>3 DEF Login, Logout, SessionTypeOK
  <2>3. SessionTypeOK' /\ SessionIsTrue' /\ TokensKnown'
    BY <2>1, <2>2 DEF SessionTypeOK, SessionIsTrue, TokensKnown, SignedOut, NoRequest,
      readIdentity
  <2> QED BY <2>3
<1> QED BY <1>1, <1>2, <1>3, SettlesKeeps, CallsServiceKeeps DEF SessionNext

\* The invariant speaks of the variables of the session only.
LEMMA SessionFrame ==
  ASSUME SessionInv, UNCHANGED sessionVars
  PROVE  SessionInv'
BY DEF SessionInv, SessionTypeOK, SessionIsTrue, TokensKnown, sessionVars

-----------------------------------------------------------------------------
(* The pages of the home page *)

\* A set of numbers has an n-th element for every n up to its size: ranks are
\* strictly monotone, and there are as many of them as elements.
LEMMA Ranks ==
  ASSUME NEW m \in Nat, NEW S \in SUBSET (1 .. m)
  PROVE  /\ IsFiniteSet(S) /\ Cardinality(S) \in Nat
         /\ \A i \in S : Cardinality({j \in S : j <= i}) \in 1 .. Cardinality(S)
         /\ \A n \in 1 .. Cardinality(S) : \E i \in S : Cardinality({j \in S : j <= i}) = n
<1> DEFINE UpTo(i) == {j \in S : j <= i}
           Rank == [i \in S |-> Cardinality(UpTo(i))]
<1>1. IsFiniteSet(S) /\ Cardinality(S) \in Nat
  <2>1. IsFiniteSet(1 .. m)
    BY FS_Interval
  <2> QED BY <2>1, FS_Subset, FS_CardinalityType
<1>2. ASSUME NEW i \in S
      PROVE  IsFiniteSet(UpTo(i)) /\ Cardinality(UpTo(i)) \in 1 .. Cardinality(S)
  <2>1. UpTo(i) \in SUBSET S /\ i \in UpTo(i)
    OBVIOUS
  <2>2. IsFiniteSet(UpTo(i)) /\ Cardinality(UpTo(i)) <= Cardinality(S)
    BY <1>1, <2>1, FS_Subset
  <2>3. Cardinality(UpTo(i)) \in Nat /\ Cardinality(UpTo(i)) # 0
    BY <2>1, <2>2, FS_CardinalityType, FS_EmptySet
  <2> QED BY <1>1, <2>2, <2>3
<1>3. ASSUME NEW i \in S, NEW k \in S, i < k PROVE Rank[i] < Rank[k]
  <2>1. UpTo(i) \in SUBSET UpTo(k) /\ k \in UpTo(k) /\ k \notin UpTo(i)
    <3>1. i \in Nat /\ k \in Nat /\ i < k
      BY <1>3
    <3>2. \A j \in S : j \in Nat
      OBVIOUS
    <3>3. \A j \in S : j <= i => j <= k
      BY <3>1, <3>2
    <3>4. ~(k <= i) /\ k <= k
      BY <3>1
    <3> QED BY <3>3, <3>4
  <2>2. Cardinality(UpTo(i)) <= Cardinality(UpTo(k)) /\ Cardinality(UpTo(i)) # Cardinality(UpTo(k))
    BY <1>2, <2>1, FS_Subset
  <2>3. Cardinality(UpTo(i)) \in Nat /\ Cardinality(UpTo(k)) \in Nat
    BY <1>2, FS_CardinalityType
  <2> QED BY <2>2, <2>3
<1>4. \A i \in S : Rank[i] \in 1 .. Cardinality(S)
  BY <1>2
<1> HIDE DEF Rank
<1>5. \A i, k \in S : Rank[i] = Rank[k] => i = k
  <2>1. \A i \in S : Rank[i] \in Int /\ i \in Int
    BY <1>1, <1>4
  <2> QED BY <1>3, <2>1
<1>a. Rank \in [S -> 1 .. Cardinality(S)]
  BY <1>4 DEF Rank
<1>b. Rank \in Injection(S, 1 .. Cardinality(S))
  BY <1>5, <1>a DEF Injection, IsInjective
<1>6. IsFiniteSet(1 .. Cardinality(S)) /\ Cardinality(1 .. Cardinality(S)) = Cardinality(S)
  BY <1>1, FS_Interval
<1>7. Rank \in Surjection(S, 1 .. Cardinality(S))
  <2> HIDE DEF Rank
  <2> QED BY <1>b, <1>6, FS_Injection
<1>8. \A n \in 1 .. Cardinality(S) : \E i \in S : Rank[i] = n
  <2> HIDE DEF Rank
  <2> QED BY <1>7 DEF Surjection
<1>9. ASSUME NEW n \in 1 .. Cardinality(S) PROVE \E i \in S : Cardinality({j \in S : j <= i}) = n
  BY <1>8, <1>9, Zenon DEF Rank
<1> QED BY <1>1, <1>2, <1>9

\* Rounding up: the page of a place among the pages, and no other.
LEMMA PageOfPlace ==
  ASSUME NEW n \in Nat \ {0}, NEW r \in 1 .. n
  PROVE  /\ Pages(n) \in Nat \ {0}
         /\ \E p \in 1 .. Pages(n) : \A q \in 1 .. Pages(n) :
              r \in (q - 1) * HOME_PAGE_SIZE + 1 .. q * HOME_PAGE_SIZE <=> q = p
<1> DEFINE size == HOME_PAGE_SIZE
<1>0. size \in Nat \ {0}
  BY PageLoadAssumption
<1> HIDE DEF size
<1> DEFINE Up(k) == (k + size - 1) \div size
<1>1. ASSUME NEW k \in Nat \ {0}
      PROVE  Up(k) \in Nat /\ size * Up(k) <= k + size - 1 /\ k + size - 1 < size * Up(k) + size
  <2>1. k + size - 1 \in Nat
    BY <1>0
  <2> QED BY <1>0, <2>1
<1> HIDE DEF Up
<1>2. ASSUME NEW q \in Nat, NEW p \in Nat, q < p PROVE q * size + size <= p * size
  BY <1>0, <1>2
<1>3. ASSUME NEW k \in Nat \ {0} PROVE Up(k) # 0
  BY <1>0, <1>1
<1>4. Up(r) <= Up(n)
  <2>1. ~(Up(n) < Up(r))
    <3> SUFFICES ASSUME Up(n) < Up(r) PROVE FALSE
      OBVIOUS
    <3>1. r \in Nat \ {0} /\ r <= n
      OBVIOUS
    <3>2. Up(n) * size + size <= Up(r) * size
      BY <1>1, <1>2, <3>1
    <3>3. /\ Up(r) * size \in Int /\ Up(n) * size \in Int
          /\ size * Up(r) = Up(r) * size /\ size * Up(n) = Up(n) * size
      BY <1>0, <1>1, <3>1
    <3> QED BY <1>0, <1>1, <3>1, <3>2, <3>3
  <2> QED BY <1>1, <2>1
<1>5. Pages(n) = Up(n)
  BY DEF Pages, Up, size
<1>6. ASSUME NEW q \in 1 .. Up(n)
      PROVE  r \in (q - 1) * size + 1 .. q * size <=> q = Up(r)
  <2>1. r \in Nat \ {0} /\ q \in Nat /\ Up(r) \in Nat /\ Up(n) \in Nat
    BY <1>1
  <2>2. (q - 1) * size = q * size - size /\ q * size \in Int
    BY <1>0, <2>1
  <2>3. size * Up(r) = Up(r) * size /\ Up(r) * size \in Int
    BY <1>0, <2>1
  <2>4. Up(r) * size <= r + size - 1 /\ r + size - 1 < Up(r) * size + size
    BY <1>1, <2>1, <2>3
  <2>5. CASE q = Up(r)
    BY <1>0, <2>1, <2>2, <2>3, <2>4, <2>5
  <2>6. CASE q < Up(r)
    <3>1. q * size + size <= Up(r) * size
      BY <1>2, <2>1, <2>6
    <3> QED BY <1>0, <2>1, <2>2, <2>3, <2>4, <2>6, <3>1
  <2>7. CASE Up(r) < q
    <3>1. Up(r) * size + size <= q * size
      BY <1>2, <2>1, <2>7
    <3> QED BY <1>0, <2>1, <2>2, <2>3, <2>4, <2>7, <3>1
  <2> QED BY <2>1, <2>5, <2>6, <2>7
<1>7. Up(r) \in 1 .. Up(n)
  BY <1>1, <1>3, <1>4
<1> QED BY <1>1, <1>3, <1>5, <1>6, <1>7 DEF size

\* No page up to the last is empty.
LEMMA PageHasPlace ==
  ASSUME NEW n \in Nat \ {0}, NEW p \in 1 .. Pages(n)
  PROVE  (p - 1) * HOME_PAGE_SIZE + 1 \in 1 .. n /\ (p - 1) * HOME_PAGE_SIZE + 1 <= p * HOME_PAGE_SIZE
<1> DEFINE size == HOME_PAGE_SIZE
<1>0. size \in Nat \ {0}
  BY PageLoadAssumption
<1>1. Pages(n) = (n + size - 1) \div size
  BY DEF Pages
<1> HIDE DEF size
<1> DEFINE u == (n + size - 1) \div size
<1>2. u \in Nat /\ size * u <= n + size - 1
  <2>1. n + size - 1 \in Nat
    BY <1>0
  <2> QED BY <1>0, <2>1
<1>3. p \in 1 .. u
  BY <1>1
<1> HIDE DEF u
<1>4. p * size <= u * size /\ u * size = size * u /\ p * size \in Int /\ u * size \in Int
  BY <1>0, <1>2, <1>3
<1>5. (p - 1) * size = p * size - size /\ (p - 1) * size >= 0
  BY <1>0, <1>2, <1>3
<1> QED BY <1>0, <1>2, <1>4, <1>5 DEF size

\* What is found fills the pages, each listing on one of them.
LEMMA PagesFill ==
  ASSUME NEW all \in SUBSET Published
  PROVE  LET pages == 1 .. Pages(Cardinality(all)) IN
         /\ 1 \in pages /\ pages \subseteq Nat
         /\ \A a \in all : \E p \in pages : \A q \in pages : a \in ItemsOn(q, all) <=> q = p
         /\ all # {} => \A p \in pages : ItemsOn(p, all) # {}
<1> DEFINE n == Cardinality(all)  pages == 1 .. Pages(n)
<1>1. /\ IsFiniteSet(all) /\ n \in Nat
      /\ \A a \in all : Place(a, all) \in 1 .. n
      /\ \A k \in 1 .. n : \E a \in all : Place(a, all) = k
  <2>1. MaxListings \in Nat /\ all \in SUBSET (1 .. MaxListings)
    BY PageLoadAssumption DEF Published
  <2> QED BY <2>1, Ranks DEF Place
<1>2. n = 0 <=> all = {}
  BY <1>1, FS_EmptySet
<1> HIDE DEF n
<1>3. CASE n = 0
  <2>1. Pages(n) = 1
    BY <1>3 DEF Pages
  <2> QED BY <1>2, <1>3, <2>1 DEF n
<1>4. CASE n # 0
  <2>1. n \in Nat \ {0}
    BY <1>1, <1>4
  <2>2. Pages(n) \in Nat \ {0}
    <3>1. n \in 1 .. n
      BY <2>1
    <3> QED BY <2>1, <3>1, PageOfPlace
  <2>3. ASSUME NEW a \in all
        PROVE  \E p \in pages : \A q \in pages : a \in ItemsOn(q, all) <=> q = p
    <3>1. Place(a, all) \in 1 .. n
      BY <1>1
    <3>2. PICK p \in pages : \A q \in pages :
            Place(a, all) \in (q - 1) * HOME_PAGE_SIZE + 1 .. q * HOME_PAGE_SIZE <=> q = p
      BY <2>1, <3>1, PageOfPlace
    <3> QED BY <3>2 DEF ItemsOn
  <2>4. ASSUME NEW p \in pages PROVE ItemsOn(p, all) # {}
    <3> DEFINE k == (p - 1) * HOME_PAGE_SIZE + 1
    <3>1. k \in 1 .. n /\ k <= p * HOME_PAGE_SIZE /\ p * HOME_PAGE_SIZE \in Int
      BY <2>1, <2>2, PageHasPlace, PageLoadAssumption
    <3>2. PICK a \in all : Place(a, all) = k
      BY <1>1, <3>1
    <3>3. Place(a, all) \in k .. p * HOME_PAGE_SIZE
      BY <3>1, <3>2
    <3> QED BY <3>3 DEF ItemsOn
  <2> QED BY <2>2, <2>3, <2>4 DEF n
<1> QED BY <1>3, <1>4

\* All there is to show is that there is the page that was asked for.
LEMMA PageIsShown ==
  ASSUME HomeTypeOK, requestedPage \in 1 .. Pages(Cardinality(filtered))
  PROVE  CatalogueIsShown
<1>1. filtered \in SUBSET Published
  BY DEF HomeTypeOK, filtered
<1> QED BY <1>1, PagesFill DEF CatalogueIsShown

\* The home page as it opens, on its first page.
LEMMA HomeStart == LoadInit("home") /\ HomeInit => HomeInv
<1> SUFFICES ASSUME LoadInit("home"), HomeInit PROVE HomeInv
  OBVIOUS
<1>1. HomeTypeOK
  BY DEF HomeInit, HomeTypeOK
<1>2. 1 \in 1 .. Pages(Cardinality(filtered))
  BY <1>1, PagesFill DEF HomeTypeOK, filtered
<1>3. OnScreen.shows = "loading"
  BY DEF LoadInit, OnScreen
<1> QED BY <1>1, <1>2, <1>3, PageIsShown DEF HomeInit, HomeInv

\* Every step of the home page keeps its invariant.
LEMMA HomeStep ==
  ASSUME LoadInv, HomeInv, page = "home", UNCHANGED page, HomeNext
  PROVE  LoadInv' /\ HomeInv'
<1> USE DEF HomeInv
<1>0. /\ current \in Runs /\ handled \subseteq Runs /\ current + 1 # current
      /\ current + 1 \notin handled
      /\ screen \in [loading : BOOLEAN, data : 0 .. MaxRuns, error : 0 .. MaxRuns,
                     notFound : 0 .. MaxRuns]
  BY PageLoadAssumption DEF LoadInv, LoadTypeOK, Runs
<1>1. ASSUME HomeTypeOK', requestedPage' = 1 PROVE CatalogueIsShown'
  <2>1. filtered' \in SUBSET Published
    BY <1>1 DEF HomeTypeOK, filtered
  <2>2. 1 \in 1 .. Pages(Cardinality(filtered'))
    BY <2>1, PagesFill
  <2>3. requestedPage' \in 1 .. Pages(Cardinality(filtered'))
    BY <1>1, <2>2
  <2> QED BY <1>1, <2>1, <2>3, PagesFill DEF CatalogueIsShown
<1>2. ASSUME UNCHANGED homeVars PROVE HomeTypeOK' /\ CatalogueIsShown'
  <2>1. UNCHANGED <<listings, matching, requestedPage, filtered>>
    BY <1>2 DEF homeVars, filtered
  <2>2. HomeTypeOK /\ CatalogueIsShown
    OBVIOUS
  <2> QED BY <2>1, <2>2 DEF HomeTypeOK, CatalogueIsShown
<1>3. CASE RetryListings
  <2>1. /\ LoadNext(page) /\ UNCHANGED homeVars /\ OnScreen.shows = "failed"
        /\ screen' = [loading |-> TRUE, data |-> 0, error |-> 0, notFound |-> screen.notFound]
    BY <1>3 DEF RetryListings, Retry, LoadNext
  <2>2. OnScreen'.shows = "loading" /\ requestedPage' = 1
    BY <1>0, <2>1 DEF homeVars, OnScreen
  <2> QED BY <1>2, <2>1, <2>2, LoadStep
<1>4. ASSUME NEW n \in Runs, ServeLoad("home", n), UNCHANGED homeVars PROVE LoadInv' /\ HomeInv'
  <2>1. LoadNext(page) /\ UNCHANGED <<current, handled, screen, OnScreen, homeVars>>
    BY <1>4 DEF ServeLoad, LoadAnswers, LoadNext, OnScreen
  <2> QED BY <1>2, <2>1, LoadStep DEF homeVars
<1>5. ASSUME NEW n \in Runs, ShowListings(n) PROVE LoadInv' /\ HomeInv'
  <2>1. /\ LoadNext(page) /\ UNCHANGED <<current, matching, requestedPage>>
        /\ n \notin handled /\ handled' = handled \cup {n}
        /\ n # current => UNCHANGED <<screen, listings>>
        /\ n = current => listings' \in SUBSET Published
    BY <1>5 DEF ShowListings, ShowAnswer, LoadAnswers, LoadNext, active
  <2>2. HomeTypeOK'
    BY <2>1 DEF HomeTypeOK
  <2>3. CASE n = current
    <3>1. requestedPage' = 1 /\ current' \in handled'
      BY <1>0, <2>1, <2>3
    <3> QED BY <1>1, <2>1, <2>2, <3>1, LoadStep
  <2>4. CASE n # current
    <3>1. UNCHANGED homeVars /\ UNCHANGED <<screen, OnScreen>> /\ (current' \in handled' <=> current \in handled)
      BY <1>0, <2>1, <2>4 DEF homeVars, OnScreen
    <3> QED BY <1>2, <2>1, <2>4, <3>1, LoadStep
  <2> QED BY <2>3, <2>4
<1>6. CASE UpdateFilter
  <2>1. /\ UNCHANGED loadVars /\ UNCHANGED <<handled, current, OnScreen, listings>>
        /\ requestedPage' = 1 /\ matching' \in SUBSET Published
    BY <1>6 DEF UpdateFilter, loadVars, OnScreen
  <2>2. HomeTypeOK'
    BY <2>1 DEF HomeTypeOK
  <2> QED BY <1>1, <2>1, <2>2, LoadFrame
<1>7. ASSUME NEW n \in 1 .. MaxListings, SetPage(n) PROVE LoadInv' /\ HomeInv'
  <2>1. /\ UNCHANGED loadVars /\ UNCHANGED <<handled, current, OnScreen, listings, matching>>
        /\ OnScreen.shows = "done" /\ requestedPage' = n
        /\ n \in 1 .. Pages(Cardinality(filtered))
    BY <1>7 DEF SetPage, loadVars, paginationNumbers, OnScreen
  <2>2. filtered \in SUBSET Published /\ filtered' = filtered
    BY <2>1 DEF HomeTypeOK, filtered
  <2>3. CatalogueIsShown' /\ HomeTypeOK'
    BY <2>1, <2>2, PagesFill DEF CatalogueIsShown, HomeTypeOK
  <2> QED BY <2>1, <2>3, LoadFrame
<1> QED BY <1>3, <1>4, <1>5, <1>6, <1>7 DEF HomeNext

\* The invariant speaks of the variables of the home page only.
LEMMA HomeFrame ==
  ASSUME HomeInv, UNCHANGED <<loadVars, homeVars>>
  PROVE  HomeInv'
<1>1. HomeTypeOK' /\ CatalogueIsShown'
  <2>1. UNCHANGED <<listings, matching, requestedPage, filtered>>
    BY DEF homeVars, filtered
  <2>2. HomeTypeOK /\ CatalogueIsShown
    BY DEF HomeInv
  <2> QED BY <2>1, <2>2 DEF HomeTypeOK, CatalogueIsShown
<1>2. UNCHANGED <<handled, current, OnScreen, requestedPage>>
  BY DEF loadVars, homeVars, OnScreen
<1> QED BY <1>1, <1>2 DEF HomeInv

-----------------------------------------------------------------------------
(* The wizard *)

\* The rules count with the module of finite sets that they extend.
LEMMA SameCount == \A S : Rules!Cardinality(S) = Cardinality(S)
BY Zenon DEF Rules!Cardinality, Cardinality

\* The n-th of some places in a sequence is one of them.
LEMMA NthIsOne ==
  ASSUME NEW m \in Nat, NEW S \in SUBSET (1 .. m), NEW n \in 1 .. Cardinality(S)
  PROVE  Rules!Nth(S, n) \in S
<1>1. \E i \in S : Cardinality({j \in S : j <= i}) = n
  BY Ranks
<1>2. \E i \in S : Rules!Cardinality({j \in S : j <= i}) = n
  BY <1>1, SameCount, Zenon
<1> QED BY <1>2, Zenon DEF Rules!Nth

\* A sequence that is cut keeps its elements, and is as long as it may be.
LEMMA CutIsShort ==
  ASSUME NEW S, NEW seq \in Seq(S), NEW n \in Nat
  PROVE  Cut(seq, n) \in Seq(S) /\ Len(Cut(seq, n)) <= n
<1> DEFINE m == Min({Len(seq), n})
<1>1. m \in {Len(seq), n} /\ m <= n /\ m <= Len(seq)
  <2>1. \E x \in {Len(seq), n} : \A y \in {Len(seq), n} : x <= y
    OBVIOUS
  <2>2. m \in {Len(seq), n} /\ \A y \in {Len(seq), n} : m <= y
    BY <2>1, Zenon DEF Min
  <2> QED BY <2>2
<1>2. m \in Nat
  BY <1>1
<1>3. \A i \in 1 .. m : seq[i] \in S
  BY <1>1, <1>2
<1> HIDE DEF m
<1>4. SubSeq(seq, 1, m) \in Seq(S) /\ Len(SubSeq(seq, 1, m)) = IF 1 <= m THEN m - 1 + 1 ELSE 0
  BY <1>2, <1>3, SubSeqProperties
<1>5. Len(SubSeq(seq, 1, m)) <= n
  <2>1. m = 0 \/ 1 <= m
    BY <1>2
  <2> QED BY <1>1, <1>2, <1>4, <2>1
<1>6. Cut(seq, n) = SubSeq(seq, 1, m)
  BY Zenon DEF Cut, m
<1> QED BY <1>4, <1>5, <1>6

\* What it takes to be a sequence of bounded length.
LEMMA BoundedSequences ==
  ASSUME NEW S, NEW n \in Nat
  PROVE  \A s : s \in BoundedSeq(S, n) <=> s \in Seq(S) /\ Len(s) <= n
<1>1. ASSUME NEW s \in BoundedSeq(S, n) PROVE s \in Seq(S) /\ Len(s) <= n
  <2>1. PICK m \in 0 .. n : s \in [1 .. m -> S]
    BY Zenon DEF BoundedSeq, SeqOf
  <2> QED BY <2>1
<1>2. ASSUME NEW s \in Seq(S), Len(s) <= n PROVE s \in BoundedSeq(S, n)
  <2>1. Len(s) \in 0 .. n /\ s \in [1 .. Len(s) -> S]
    BY <1>2
  <2> QED BY <2>1, Zenon DEF BoundedSeq, SeqOf
<1> QED BY <1>1, <1>2

\* Without one of its elements a sequence is shorter by one.
LEMMA RemovedIsShorter ==
  ASSUME NEW S, NEW s \in Seq(S), NEW i \in 1 .. Len(s)
  PROVE  RemoveAt(s, i) \in Seq(S) /\ Len(RemoveAt(s, i)) = Len(s) - 1
<1>1. SubSeq(s, 1, i - 1) \in Seq(S) /\ Len(SubSeq(s, 1, i - 1)) = i - 1
  <2>1. \A j \in 1 .. i - 1 : s[j] \in S
    OBVIOUS
  <2>2. /\ SubSeq(s, 1, i - 1) \in Seq(S)
        /\ Len(SubSeq(s, 1, i - 1)) = IF 1 <= i - 1 THEN i - 1 - 1 + 1 ELSE 0
    BY <2>1, SubSeqProperties
  <2> QED BY <2>2
<1>2. SubSeq(s, i + 1, Len(s)) \in Seq(S) /\ Len(SubSeq(s, i + 1, Len(s))) = Len(s) - i
  <2>1. \A j \in i + 1 .. Len(s) : s[j] \in S
    OBVIOUS
  <2>2. /\ SubSeq(s, i + 1, Len(s)) \in Seq(S)
        /\ Len(SubSeq(s, i + 1, Len(s))) = IF i + 1 <= Len(s) THEN Len(s) - (i + 1) + 1 ELSE 0
    BY <2>1, SubSeqProperties
  <2> QED BY <2>2
<1> DEFINE before == SubSeq(s, 1, i - 1)  after == SubSeq(s, i + 1, Len(s))
<1>3. before \in Seq(S) /\ after \in Seq(S) /\ Len(before) = i - 1 /\ Len(after) = Len(s) - i
  BY <1>1, <1>2
<1>4. RemoveAt(s, i) = before \o after
  BY DEF RemoveAt
<1> HIDE DEF before, after
<1>5. before \o after \in Seq(S) /\ Len(before \o after) = Len(before) + Len(after)
  BY <1>3, ConcatProperties
<1> QED BY <1>3, <1>4, <1>5

\* What is filled in was in the fields, and no blank is.
LEMMA FilledIsClean ==
  ASSUME NEW wishes \in Seq(Labels \cup {Blank})
  PROVE  /\ Filled(wishes) \in Seq(Labels)
         /\ Len(Filled(wishes)) = Cardinality(NotBlank(wishes))
         /\ ToSet(Filled(wishes)) \subseteq ToSet(wishes)
<1> DEFINE S == NotBlank(wishes)  size == Cardinality(S)
<1>1. Len(wishes) \in Nat /\ S \in SUBSET (1 .. Len(wishes))
  BY DEF NotBlank
<1>2. size \in Nat /\ \A n \in 1 .. size : Rules!Nth(S, n) \in S
  <2>1. IsFiniteSet(S) /\ Cardinality(S) \in Nat
    BY <1>1, Ranks
  <2> QED BY <1>1, <2>1, NthIsOne
<1>3. \A i \in S : wishes[i] \in Labels /\ i \in DOMAIN wishes
  BY DEF NotBlank
<1>4. Filled(wishes) = [n \in 1 .. size |-> wishes[Rules!Nth(S, n)]]
  BY DEF Filled
<1> HIDE DEF S, size
<1>5. \A n \in 1 .. size : wishes[Rules!Nth(S, n)] \in Labels /\ Rules!Nth(S, n) \in DOMAIN wishes
  BY <1>2, <1>3
<1>6. Filled(wishes) \in Seq(Labels) /\ Len(Filled(wishes)) = size
  BY <1>2, <1>4, <1>5
<1>7. ToSet(Filled(wishes)) \subseteq ToSet(wishes)
  BY <1>4, <1>5 DEF ToSet
<1> QED BY <1>6, <1>7 DEF size, S

\* Of labels that are filled in and differ the service drops none.
LEMMA DistinctStaysLong ==
  ASSUME NEW raw \in Seq(Labels), IsInjective(raw)
  PROVE  Len(Rules!normalizeTradeWishes(raw)) = Len(raw)
<1>1. Rules!FirstMet(raw) = 1 .. Len(raw)
  BY FormAssumption DEF Rules!FirstMet, IsInjective
<1>2. Cardinality(1 .. Len(raw)) = Len(raw)
  <2>1. Len(raw) \in Nat
    OBVIOUS
  <2>2. Cardinality(1 .. Len(raw)) = IF 1 > Len(raw) THEN 0 ELSE Len(raw) - 1 + 1
    BY <2>1, FS_Interval
  <2> QED BY <2>1, <2>2
<1>3. Rules!normalizeTradeWishes(raw) = [n \in 1 .. Len(raw) |-> raw[Rules!Nth(1 .. Len(raw), n)]]
  <2>1. Rules!Cardinality(1 .. Len(raw)) = Len(raw)
    BY <1>2, SameCount
  <2> QED BY <1>1, <2>1 DEF Rules!normalizeTradeWishes
<1> QED BY <1>3

Fields == [operation : {"TRADE", "DONATION"}, text : Texts,
           wishes : BoundedSeq(Labels \cup {Blank}, MaxWishes)]

\* The form as it is made has the fields of a form.
LEMMA BlankFormIsForm == createBlankListingInput \in Fields
<1> DEFINE blanks == [i \in 1 .. MinWishes |-> Blank]
<1>1. blanks \in Seq(Labels \cup {Blank}) /\ Len(blanks) = MinWishes
  BY FormAssumption
<1>2. blanks \in BoundedSeq(Labels \cup {Blank}, MaxWishes)
  BY <1>1, FormAssumption, BoundedSequences
<1>3. [units |-> 0, characters |-> 0] \in Texts
  BY DEF Texts
<1> QED BY <1>2, <1>3 DEF createBlankListingInput, Fields

\* The wizard as it opens.
LEMMA WizardStart == WizardInit => WizardInv
<1> SUFFICES ASSUME WizardInit PROVE WizardInv
  OBVIOUS
<1>1. form \in Fields
  BY BlankFormIsForm DEF WizardInit
<1> QED BY <1>1, FormAssumption DEF WizardInit, WizardInv, WizardTypeOK,
  DescriptionChecked, PhotosChecked, Fields, LastStep

\* The fields stay fields, however the wishes are edited.
LEMMA EditsKeepFields ==
  ASSUME WizardTypeOK, NEW wishes \in Seq(Labels \cup {Blank}), Len(wishes) <= MaxWishes
  PROVE  [form EXCEPT !.wishes = wishes] \in Fields
<1>1. wishes \in BoundedSeq(Labels \cup {Blank}, MaxWishes)
  BY FormAssumption, BoundedSequences
<1> QED BY <1>1 DEF WizardTypeOK, Fields

\* Wishes are padded up to the least number, and no further than the most.
LEMMA PaddedIsBounded ==
  ASSUME NEW wishes \in Seq(Labels \cup {Blank})
  PROVE  padWishes(wishes) \in Seq(Labels \cup {Blank}) /\ Len(padWishes(wishes)) <= MaxWishes
<1>1. CASE Len(wishes) >= MinWishes
  <2>1. padWishes(wishes) = Cut(wishes, MaxWishes)
    BY <1>1 DEF padWishes
  <2> QED BY <2>1, CutIsShort, FormAssumption
<1>2. CASE ~(Len(wishes) >= MinWishes)
  <2> DEFINE n == MinWishes - Len(wishes)
             blanks == [i \in 1 .. n |-> Blank]
  <2>1. n \in Nat /\ blanks \in Seq(Labels \cup {Blank}) /\ Len(blanks) = n
    BY <1>2, FormAssumption
  <2>2. padWishes(wishes) = wishes \o blanks
    BY <1>2 DEF padWishes
  <2> HIDE DEF blanks
  <2>3. wishes \o blanks \in Seq(Labels \cup {Blank}) /\ Len(wishes \o blanks) = Len(wishes) + Len(blanks)
    BY <2>1, ConcatProperties
  <2> QED BY <2>1, <2>2, <2>3, FormAssumption
<1> QED BY <1>1, <1>2

\* Wherever the wizard is, the steps before have been left in good order: the
\* fields are changed in the steps that are left again only after the check.
LEMMA WizardStep ==
  ASSUME WizardInv, WizardNext
  PROVE  WizardInv'
<1> USE DEF WizardInv
<1>0. /\ form.wishes \in Seq(Labels \cup {Blank}) /\ Len(form.wishes) <= MaxWishes
      /\ form \in Fields /\ step \in 0 .. 3
  BY BoundedSequences, FormAssumption DEF WizardTypeOK, Fields, LastStep
<1>1. ASSUME step' \in {0, 1}, form' \in Fields, images' \in Seq(UploadedImageFile), Len(images') <= MaxImages
      PROVE  WizardInv'
  BY <1>1 DEF WizardTypeOK, Fields, DescriptionChecked, PhotosChecked, LastStep
<1>2. CASE Advance
  <2>1. step' = step + 1 /\ step < 3 /\ UNCHANGED <<form, images>> /\ validateWizardStep(step, form, images)
    BY <1>2 DEF Advance, LastStep
  <2>2. WizardTypeOK'
    BY <1>0, <2>1 DEF WizardTypeOK, LastStep
  <2>3. step' >= 2 => step = 1 \/ step >= 2
    BY <1>0, <2>1
  <2>4. step' = 3 => step = 2
    BY <1>0, <2>1
  <2>5. DescriptionChecked' /\ PhotosChecked'
    BY <2>1, <2>3, <2>4 DEF DescriptionChecked, PhotosChecked, LastStep, validateWizardStep
  <2> QED BY <2>2, <2>5
<1>3. CASE Back
  <2>1. step' = step - 1 /\ step' \in 0 .. 2 /\ UNCHANGED <<form, images>>
    BY <1>0, <1>3 DEF Back
  <2>2. step' >= 2 => step >= 2
    BY <1>0, <2>1
  <2>3. DescriptionChecked' /\ PhotosChecked'
    BY <2>1, <2>2 DEF DescriptionChecked, PhotosChecked, LastStep, validateWizardStep
  <2> QED BY <2>1, <2>3 DEF WizardTypeOK, LastStep
<1>4. CASE Deposit
  <2>1. step' = 0 /\ form' \in Fields /\ images' = <<>>
    BY <1>4, BlankFormIsForm DEF Deposit
  <2> QED BY <1>1, <2>1, FormAssumption
<1>5. CASE AddWish
  <2>1. Append(form.wishes, Blank) \in Seq(Labels \cup {Blank}) /\ Len(Append(form.wishes, Blank)) <= MaxWishes
    BY <1>0, <1>5, FormAssumption DEF AddWish
  <2>2. form' = [form EXCEPT !.wishes = Append(form.wishes, Blank)] /\ step' = 1 /\ UNCHANGED images
    BY <1>5 DEF AddWish
  <2> QED BY <1>1, <2>1, <2>2, EditsKeepFields DEF WizardTypeOK
<1>6. ASSUME NEW operation \in {"TRADE", "DONATION"}, ChangeOperation(operation) PROVE WizardInv'
  <2> DEFINE wishes == IF operation = "TRADE" THEN padWishes(form.wishes) ELSE <<>>
  <2>1. wishes \in Seq(Labels \cup {Blank}) /\ Len(wishes) <= MaxWishes
    BY <1>0, PaddedIsBounded, FormAssumption
  <2>2. form' = [form EXCEPT !.operation = operation, !.wishes = wishes] /\ step' = 0 /\ UNCHANGED images
    BY <1>6 DEF ChangeOperation
  <2> HIDE DEF wishes
  <2>3. form' \in Fields
    BY <1>0, <2>1, <2>2, FormAssumption, BoundedSequences DEF Fields
  <2> QED BY <1>1, <2>2, <2>3 DEF WizardTypeOK
<1>7. ASSUME NEW text \in Texts, ChangeText(text) PROVE WizardInv'
  <2>1. form' \in Fields /\ step' = 1 /\ UNCHANGED images
    BY <1>0, <1>7 DEF ChangeText, Fields
  <2> QED BY <1>1, <2>1 DEF WizardTypeOK
<1>8. ASSUME NEW i \in 1 .. MaxWishes, RemoveWish(i) PROVE WizardInv'
  <2>1. i \in 1 .. Len(form.wishes) /\ form' = [form EXCEPT !.wishes = RemoveAt(form.wishes, i)]
        /\ step' = 1 /\ UNCHANGED images
    BY <1>0, <1>8 DEF RemoveWish
  <2>2. /\ RemoveAt(form.wishes, i) \in Seq(Labels \cup {Blank})
        /\ Len(RemoveAt(form.wishes, i)) <= MaxWishes
    BY <1>0, <2>1, RemovedIsShorter, FormAssumption
  <2> QED BY <1>1, <2>1, <2>2, EditsKeepFields DEF WizardTypeOK
<1>9. ASSUME NEW i \in 1 .. MaxWishes, NEW label \in Labels \cup {Blank}, ChangeWish(i, label)
      PROVE  WizardInv'
  <2>1. i \in 1 .. Len(form.wishes) /\ form' = [form EXCEPT !.wishes = [form.wishes EXCEPT ![i] = label]]
        /\ step' = 1 /\ UNCHANGED images
    BY <1>0, <1>9 DEF ChangeWish, Fields
  <2>2. /\ [form.wishes EXCEPT ![i] = label] \in Seq(Labels \cup {Blank})
        /\ Len([form.wishes EXCEPT ![i] = label]) <= MaxWishes
    <3> DEFINE wishes == form.wishes
    <3>1. wishes \in Seq(Labels \cup {Blank}) /\ Len(wishes) <= MaxWishes /\ i \in 1 .. Len(wishes)
      BY <1>0, <2>1
    <3> HIDE DEF wishes
    <3>2. [wishes EXCEPT ![i] = label] \in Seq(Labels \cup {Blank})
      BY <3>1
    <3>3. Len([wishes EXCEPT ![i] = label]) = Len(wishes)
      BY <3>1
    <3> QED BY <3>1, <3>2, <3>3, Zenon DEF wishes
  <2> QED BY <1>1, <2>1, <2>2, EditsKeepFields DEF WizardTypeOK
<1>10. ASSUME NEW files \in Selections, ChooseImages(files) PROVE WizardInv'
  <2>1. step = 2 /\ step' = 2 /\ UNCHANGED form /\ images' = Cut(files, MaxImages)
    BY <1>10 DEF ChooseImages
  <2>2. images' \in Seq(UploadedImageFile) /\ Len(images') <= MaxImages
    BY <2>1, FormAssumption, CutIsShort
  <2>3. WizardTypeOK' /\ PhotosChecked'
    BY <2>1, <2>2 DEF WizardTypeOK, PhotosChecked, LastStep
  <2>4. DescriptionChecked'
    BY <2>1 DEF DescriptionChecked, validateWizardStep
  <2> QED BY <2>3, <2>4
<1> QED BY <1>2, <1>3, <1>4, <1>5, <1>6, <1>7, <1>8, <1>9, <1>10 DEF WizardNext

\* The invariant speaks of the variables of the wizard only.
LEMMA WizardFrame ==
  ASSUME WizardInv, UNCHANGED wizardVars
  PROVE  WizardInv'
BY DEF WizardInv, WizardTypeOK, DescriptionChecked, PhotosChecked, validateWizardStep,
  wizardVars

\* What the wizard has checked the service accepts, if it measures the text and
\* the photos as the page does, and else it does not.
LEMMA CheckedIsAcceptable == WizardInv => ReviewedIsAcceptable
<1> SUFFICES ASSUME WizardInv, step = LastStep
             PROVE  ServiceAccepts(normalizedListingInput(form), images) <=>
                      /\ form.text.characters = form.text.units
                      /\ \A image \in ToSet(images) : image.content = image.type
  BY DEF ReviewedIsAcceptable
<1> USE DEF WizardInv
<1> DEFINE wishes == IF form.operation = "TRADE" THEN Filled(form.wishes) ELSE <<>>
<1>1. /\ form.wishes \in Seq(Labels \cup {Blank})
      /\ form.operation \in {"TRADE", "DONATION"} /\ images \in Seq(UploadedImageFile)
  BY BoundedSequences, FormAssumption DEF WizardTypeOK
<1>2. /\ form.text.units = Fit
      /\ form.operation = "TRADE" =>
           /\ Len(Filled(form.wishes)) \in MinWishes .. MaxWishes
           /\ LongLabel \notin ToSet(form.wishes) /\ IsInjective(Filled(form.wishes))
  BY DEF DescriptionChecked, validateWizardStep, LastStep
<1>3. /\ \A photo \in ToSet(images) : photo.size # 0 /\ Sendable(photo)
      /\ Len(images) \in MinImages .. MaxImages
  BY DEF PhotosChecked, validateWizardStep, validatePublicationDraft
<1>4. ASSUME NEW photo \in ToSet(images)
      PROVE  validateUploadedImage(photo) <=> photo.content = photo.type
  <2>1. "undefined" \notin IMAGE_TYPES
    BY DEF IMAGE_TYPES
  <2> QED BY <1>3, <2>1 DEF validateUploadedImage, detectImageType, Sendable
<1>5. /\ LongLabel \notin ToSet(wishes) /\ Len(wishes) <= MaxWishes
      /\ Rules!WishesAllowed(form.operation, wishes)
  <2>1. CASE form.operation = "TRADE"
    <3>1. Filled(form.wishes) \in Seq(Labels) /\ ToSet(Filled(form.wishes)) \subseteq ToSet(form.wishes)
      BY <1>1, FilledIsClean
    <3>2. Len(Rules!normalizeTradeWishes(Filled(form.wishes))) = Len(Filled(form.wishes))
      BY <1>2, <2>1, <3>1, DistinctStaysLong
    <3> QED BY <1>2, <2>1, <3>1, <3>2, FormAssumption DEF Rules!WishesAllowed
  <2>2. CASE form.operation = "DONATION"
    <3>1. <<>> \in Seq(Labels) /\ Len(<<>>) = 0 /\ ToSet(<<>>) = {} /\ IsInjective(<<>>)
      BY DEF ToSet, IsInjective
    <3>2. Len(Rules!normalizeTradeWishes(<<>>)) = 0
      BY <3>1, DistinctStaysLong
    <3> QED BY <2>2, <3>1, <3>2, FormAssumption DEF Rules!WishesAllowed
  <2> QED BY <1>1, <2>1, <2>2
<1>6. /\ normalizedListingInput(form).text = form.text
      /\ normalizedListingInput(form).operation = form.operation
      /\ normalizedListingInput(form).wishes = wishes
  BY DEF normalizedListingInput, WizardTypeOK
<1> QED BY <1>2, <1>3, <1>4, <1>5, <1>6 DEF ServiceAccepts

-----------------------------------------------------------------------------
(* The calls *)

CallSteps ==
  \/ UNCHANGED call
  \/ \E t \in Threads, how \in {"none", "sent", "done", "failed"} : call' = [call EXCEPT ![t] = how]

\* Calls keep their type.
LEMMA CallsKeepType == ASSUME CallTypeOK, CallSteps PROVE CallTypeOK'
BY DEF CallTypeOK, CallSteps

\* To send, to serve, to fail and to lose are steps of one call.
LEMMA MovesAreCallSteps ==
  ASSUME NEW t \in Threads,
         \/ Calls(t) \/ Returns(t) \/ FailCall(t) \/ LoseAnswer(t) \/ \E done \in BOOLEAN : Serves(t, done)
  PROVE  CallSteps
BY DEF CallSteps, Calls, Returns, FailCall, LoseAnswer, Serves

\* What the member's page does to the calls.
LEMMA PersonalCalls == PersonalNext => CallSteps
<1>0. "load" \in Threads /\ "act" \in Threads
  BY DEF Threads
<1>1. ASSUME NEW t \in {"load", "act"}, PersonalAnswers(t) PROVE CallSteps
  <2>1. CASE ServeMine(t) \/ MineFails \/ MineShown
    BY <1>0, <2>1, MovesAreCallSteps DEF ServeMine, MineFails, MineShown
  <2>2. CASE ServeSave
    <3>1. Open(saver.id) \in BOOLEAN
      BY DEF Open
    <3> QED BY <1>0, <2>2, <3>1, MovesAreCallSteps DEF ServeSave, ServeCreate, ServeChange
  <2>3. CASE SaveFails \/ SaveAdvances \/ SaveGivesUp \/ SaveEnds
    BY <1>0, <2>3, MovesAreCallSteps DEF SaveFails, SaveAdvances, SaveGivesUp, SaveEnds
  <2> QED BY <1>1, <2>1, <2>2, <2>3 DEF PersonalAnswers
<1>2. ASSUME CloseDialog \/ CreateListing \/ \E p \in BOOLEAN : SaveEdit(p) PROVE CallSteps
  BY <1>0, <1>2, MovesAreCallSteps DEF CloseDialog, CreateListing, SaveEdit, Saves,
    CallSteps
<1>3. ASSUME NEW l \in Listings, StartEditing(l) \/ Approve(l) PROVE CallSteps
  BY <1>3 DEF StartEditing, Approve, CallSteps
<1> QED BY <1>1, <1>2, <1>3 DEF PersonalNext

\* What the moderator's page does to the calls.
LEMMA ModerationCalls == ModerationNext => CallSteps
<1>0. "load" \in Threads /\ Clicks \subseteq Threads
  BY DEF Threads, Clicks
<1>1. ASSUME NEW t \in Threads, ModerationAnswers(t) PROVE CallSteps
  <2>1. CASE ServeQueue \/ QueueShown \/ QueueFails(t)
    BY <1>0, <2>1, MovesAreCallSteps DEF ServeQueue, QueueShown, QueueFails
  <2>2. CASE t \in Clicks /\ ServeDecision(t)
    <3> DEFINE valid == file[decision[t].id] = [status |-> "PENDING", rev |-> decision[t].rev]
    <3>1. Serves(t, valid) /\ valid \in BOOLEAN
      BY <2>2 DEF ServeDecision
    <3> QED BY <3>1, MovesAreCallSteps
  <2>3. CASE t \in Clicks /\ Decided(t)
    BY <2>3, MovesAreCallSteps DEF Decided
  <2> QED BY <1>1, <2>1, <2>2, <2>3 DEF ModerationAnswers
<1>2. ASSUME NEW f \in Files, OthersAct(f) PROVE CallSteps
  BY <1>2 DEF OthersAct, CallSteps
<1>3. ASSUME NEW c \in Clicks, NEW f \in Files, NEW to \in Rulings, Decide(c, f, to) PROVE CallSteps
  BY <1>0, <1>3, MovesAreCallSteps DEF Decide
<1>4. ASSUME NEW f \in Illustrated, OpenGallery(f) \/ GalleryArrives(f) \/ OrphanArrives(f) PROVE CallSteps
  BY <1>4 DEF OpenGallery, GalleryArrives, OrphanArrives, CallSteps
<1>5. ASSUME NEW out \in SUBSET Illustrated, Filter(out) PROVE CallSteps
  BY <1>5 DEF Filter, CallSteps
<1>6. ASSUME LoseAccess \/ RegainAccess PROVE CallSteps
  BY <1>0, <1>6, MovesAreCallSteps DEF LoseAccess, RegainAccess
<1> QED BY <1>1, <1>2, <1>3, <1>4, <1>5, <1>6 DEF ModerationNext

\* What the exchanges and the form of a proposal do to the calls.
LEMMA ExchangeCalls == DashboardNext \/ FormNext => CallSteps
<1>0. {"load", "act", "again"} \subseteq Threads
  BY DEF Threads
<1>1. ASSUME NEW t \in {"act", "load"}, DashboardAnswers(t) PROVE CallSteps
  <2>1. CASE ServeAction
    <3>1. Possible(busy.id, busy.act) \in BOOLEAN
      <4>1. CASE busy.act = "confirm"
        BY <4>1 DEF Possible
      <4>2. CASE busy.act # "confirm"
        BY <4>2 DEF Possible
      <4> QED BY <4>1, <4>2
    <3> QED BY <1>0, <2>1, <3>1, MovesAreCallSteps DEF ServeAction
  <2>2. CASE ServeRefresh(t) \/ Executed \/ ExecuteRefreshed \/ Refreshed \/ ExchangeFails(t)
    BY <1>0, <2>2, MovesAreCallSteps DEF ServeRefresh, Executed, ExecuteRefreshed,
      Refreshed, ExchangeFails
  <2> QED BY <1>1, <2>1, <2>2 DEF DashboardAnswers
<1>2. ASSUME Refresh \/ \E d \in Deals : OthersMove(d) \/ \E act \in Acts : Execute(d, act) PROVE CallSteps
  BY <1>0, <1>2, MovesAreCallSteps DEF Refresh, OthersMove, Execute, CallSteps
<1>3. ASSUME NEW t \in {"act", "again"}, FormAnswers(t) \/ Submit(t) PROVE CallSteps
  BY <1>0, <1>3, MovesAreCallSteps DEF FormAnswers, Submit, ServeProposal, ExchangeFails,
    Submitted
<1> QED BY <1>1, <1>2, <1>3 DEF DashboardNext, FormNext

-----------------------------------------------------------------------------
(* The pages together *)

\* The dashboard has no form.
LEMMA DashboardSendsNothing == DashboardNext => UNCHANGED formVars
<1>1. ASSUME NEW t \in {"act", "load"}, DashboardAnswers(t) PROVE UNCHANGED formVars
  BY <1>1 DEF DashboardAnswers, ServeAction, ServeRefresh, Executed, ExecuteRefreshed,
    Refreshed, ExchangeFails, exchangeVars
<1> QED BY <1>1 DEF DashboardNext, Refresh, OthersMove, Execute

\* A part of the page changes only while the page is shown.
LEMMA PersonalRests ==
  ASSUME PersonalPart, UNCHANGED <<page, personalVars>>, page = "personal" => UNCHANGED call
  PROVE  PersonalPart'
<1>1. PersonalInit => PersonalInit'
  BY DEF PersonalInit, personalVars, rowVars, screenVars
<1> QED BY <1>1, PersonalFrame DEF PersonalPart

\* A page that is not shown rests.
LEMMA ModerationRests ==
  ASSUME ModerationPart, UNCHANGED <<page, moderationVars>>, page = "moderation" => UNCHANGED call
  PROVE  ModerationPart'
<1>1. ModerationInit => ModerationInit'
  BY DEF ModerationInit, moderationVars, queueVars, readVars, galleryVars
<1> QED BY <1>1, ModerationFrame DEF ModerationPart

\* The exchanges and the form rest.
LEMMA ExchangeRests ==
  ASSUME ExchangePart, UNCHANGED <<page, exchangeVars>>, page \in {"dashboard", "proposal"} => UNCHANGED call
  PROVE  ExchangePart'
<1>1. DashboardInit => DashboardInit'
  BY DEF DashboardInit, exchangeVars, dashboardVars, formVars
<1>2. ProposalsAreCounted => ProposalsAreCounted'
  BY DEF ProposalsAreCounted, exchangeVars, formVars
<1> QED BY <1>1, <1>2, DashboardFrame, FormFrame DEF ExchangePart

\* The effects that read rest.
LEMMA ReadingRests == ReadingPart /\ UNCHANGED <<page, loadVars, homeVars>> => ReadingPart'
<1> SUFFICES ASSUME ReadingPart, UNCHANGED <<page, loadVars, homeVars>> PROVE ReadingPart'
  OBVIOUS
<1>2. HomeInit => HomeInit'
  BY DEF HomeInit, homeVars
<1> QED BY <1>2, LoadFrame, HomeFrame DEF ReadingPart

\* The wizard rests.
LEMMA PublishingRests == PublishingPart /\ UNCHANGED <<page, wizardVars>> => PublishingPart'
<1>1. WizardInit /\ UNCHANGED wizardVars => WizardInit'
  BY DEF WizardInit, wizardVars
<1> QED BY <1>1, WizardFrame DEF PublishingPart

\* The session rests.
LEMMA SessionRests == SessionPart /\ UNCHANGED <<page, sessionVars>> => SessionPart'
<1>1. SessionInit /\ UNCHANGED sessionVars => SessionInit'
  BY DEF SessionInit, sessionVars
<1> QED BY <1>1, SessionFrame DEF SessionPart

\* Every behaviour begins in the invariant.
LEMMA WebStart == Init => WebInv
<1> SUFFICES ASSUME Init PROVE WebInv
  OBVIOUS
<1>1. CallTypeOK /\ call["act"] = "none" /\ call["again"] = "none"
  BY DEF Init, CallTypeOK, NoCalls, Threads
<1>2. PersonalPart
  BY <1>1, PersonalStart DEF Init, PersonalPart
<1>3. ModerationPart
  BY <1>1, ModerationStart DEF Init, ModerationPart, Clicks
<1>4. ExchangePart
  <2>1. DashboardInit => ProposalsAreCounted
    BY DEF DashboardInit, ProposalsAreCounted
  <2> QED BY <1>1, <2>1, DashboardStart, FormStart DEF Init, ExchangePart
<1>5. ReadingPart /\ PublishingPart /\ SessionPart
  BY LoadStart, HomeStart, WizardStart, SessionStart DEF Init, ReadingPart, PublishingPart,
    SessionPart
<1> QED BY <1>1, <1>2, <1>3, <1>4, <1>5 DEF Init, WebInv

\* Every step, of the page that is open, keeps the invariant.
LEMMA WebStep ==
  ASSUME WebInv, [Next]_vars
  PROVE  WebInv'
<1> USE DEF WebInv
<1>1. CASE OnPersonal /\ PersonalNext
  <2>1. /\ page = "personal"
        /\ UNCHANGED <<page, moderationVars, exchangeVars, loadVars, homeVars, wizardVars, sessionVars>>
    BY <1>1 DEF OnPersonal, On
  <2>2. CallTypeOK'
    BY <1>1, PersonalCalls, CallsKeepType
  <2>3. PersonalPart'
    BY <1>1, <2>1, PersonalStep DEF PersonalPart
  <2> QED BY <2>1, <2>2, <2>3, ModerationRests, ExchangeRests, ReadingRests,
    PublishingRests, SessionRests
<1>2. CASE OnModeration /\ ModerationNext
  <2>1. /\ page = "moderation"
        /\ UNCHANGED <<page, personalVars, exchangeVars, loadVars, homeVars, wizardVars, sessionVars>>
    BY <1>2 DEF OnModeration, On
  <2>2. CallTypeOK'
    BY <1>2, ModerationCalls, CallsKeepType
  <2>3. ModerationPart'
    BY <1>2, <2>1, ModerationStep DEF ModerationPart
  <2> QED BY <2>1, <2>2, <2>3, PersonalRests, ExchangeRests, ReadingRests, PublishingRests,
    SessionRests
<1>3. CASE On("dashboard") /\ OnExchanges /\ DashboardNext
  <2>1. /\ page = "dashboard"
        /\ UNCHANGED <<page, personalVars, moderationVars, loadVars, homeVars, wizardVars, sessionVars>>
    BY <1>3 DEF OnExchanges, On
  <2>2. CallTypeOK'
    BY <1>3, ExchangeCalls, CallsKeepType
  <2>3. ProposalsAreCounted => ProposalsAreCounted'
    BY <1>3, DashboardSendsNothing DEF ProposalsAreCounted, formVars
  <2>4. ExchangePart'
    BY <1>3, <2>1, <2>3, DashboardStep DEF ExchangePart
  <2> QED BY <2>1, <2>2, <2>4, PersonalRests, ModerationRests, ReadingRests,
    PublishingRests, SessionRests
<1>4. CASE On("proposal") /\ OnExchanges /\ FormNext
  <2>1. /\ page = "proposal"
        /\ UNCHANGED <<page, personalVars, moderationVars, loadVars, homeVars, wizardVars, sessionVars>>
    BY <1>4 DEF OnExchanges, On
  <2>2. CallTypeOK'
    BY <1>4, ExchangeCalls, CallsKeepType
  <2>3. ExchangePart'
    BY <1>4, <2>1, FormStep DEF ExchangePart
  <2> QED BY <2>1, <2>2, <2>3, PersonalRests, ModerationRests, ReadingRests,
    PublishingRests, SessionRests
<1>5. CASE OnLoads /\ (\/ \E p \in Reading : On(p) /\ LoadNext(p) /\ UNCHANGED homeVars
                       \/ On("home") /\ HomeNext)
  <2>1. /\ page \in Reading \cup {"home"}
        /\ UNCHANGED <<page, call, personalVars, moderationVars, exchangeVars, wizardVars, sessionVars>>
    BY <1>5 DEF OnLoads, On
  <2>2. ASSUME NEW p \in Reading, On(p) /\ LoadNext(p) /\ UNCHANGED homeVars PROVE ReadingPart'
    <3>1. page = p /\ UNCHANGED page /\ p # "home"
      BY <2>2 DEF On, Reading
    <3>2. LoadInv' /\ (HomeInit => HomeInit')
      BY <2>2, <3>1, LoadStep DEF ReadingPart, HomeInit, homeVars
    <3> QED BY <3>1, <3>2 DEF ReadingPart
  <2>3. ASSUME On("home") /\ HomeNext PROVE ReadingPart'
    <3>1. LoadInv' /\ HomeInv' /\ page' = "home"
      BY <2>3, HomeStep DEF On, ReadingPart
    <3> QED BY <3>1 DEF ReadingPart
  <2>4. ReadingPart'
    BY <1>5, <2>2, <2>3
  <2> QED BY <2>1, <2>4, PersonalRests, ModerationRests, ExchangeRests, PublishingRests,
    SessionRests DEF CallTypeOK, Reading
<1>6. CASE OnPublishing /\ WizardNext
  <2>1. /\ page = "publishing"
        /\ UNCHANGED <<page, call, personalVars, moderationVars, exchangeVars, loadVars, homeVars,
                       sessionVars>>
    BY <1>6 DEF OnPublishing, On
  <2>2. PublishingPart'
    BY <1>6, <2>1, WizardStep DEF PublishingPart
  <2> QED BY <2>1, <2>2, PersonalRests, ModerationRests, ExchangeRests, ReadingRests,
    SessionRests DEF CallTypeOK
<1>7. CASE OnSession /\ SessionNext
  <2>1. /\ page = "session"
        /\ UNCHANGED <<page, call, personalVars, moderationVars, exchangeVars, loadVars, homeVars,
                       wizardVars>>
    BY <1>7 DEF OnSession, On
  <2>2. SessionPart'
    BY <1>7, <2>1, SessionStep DEF SessionPart
  <2> QED BY <2>1, <2>2, PersonalRests, ModerationRests, ExchangeRests, ReadingRests,
    PublishingRests DEF CallTypeOK
<1>8. CASE UNCHANGED vars
  <2>1. UNCHANGED <<page, call, personalVars, moderationVars, exchangeVars, loadVars, homeVars,
                    wizardVars, sessionVars>>
    BY <1>8 DEF vars
  <2> QED BY <2>1, PersonalRests, ModerationRests, ExchangeRests, ReadingRests,
    PublishingRests, SessionRests DEF CallTypeOK
<1> QED BY <1>1, <1>2, <1>3, <1>4, <1>5, <1>6, <1>7, <1>8 DEF Next

\* The invariant holds throughout.
LEMMA WebAlways == Spec => []WebInv
BY WebStart, WebStep, PTL DEF Spec

-----------------------------------------------------------------------------
(* What follows for the properties *)

\* Of each part, on the page it belongs to and on every other.
LEMMA PersonalHolds ==
  PersonalPart => PersonalTypeOK /\ SavesAreTrue /\ RowsMatch /\ KnownInOrder
<1>1. PersonalInit => PersonalTypeOK /\ SavesAreTrue /\ RowsMatch /\ KnownInOrder
  BY PersonalAssumption DEF PersonalInit, PersonalTypeOK, SavesAreTrue, RowsMatch,
    KnownInOrder, Absent, Nothing, Idle
<1> QED BY <1>1 DEF PersonalPart, PersonalInv

\* What the invariant says of the page of a moderator, shown or not.
LEMMA ModerationHolds == ModerationPart => ModerationTypeOK /\ QueueIsTrue /\ BlobUrlsReleased
<1>1. ASSUME ModerationInit PROVE ModerationTypeOK /\ QueueIsTrue /\ BlobUrlsReleased
  BY <1>1, ModerationTyped DEF ModerationInit, QueueIsTrue, BlobUrlsReleased
<1>2. ModerationInv => ModerationTypeOK /\ QueueIsTrue /\ BlobUrlsReleased
  BY DEF ModerationInv, GalleriesMounted, BlobUrlsReleased
<1> QED BY <1>1, <1>2 DEF ModerationPart

\* What the invariant says of the exchanges and the form, shown or not.
LEMMA ExchangeHolds == ExchangePart => DashboardTypeOK /\ DashboardIsTrue /\ ProposalsAreCounted
<1>1. ASSUME DashboardInit PROVE DashboardTypeOK
  BY <1>1 DEF DashboardInit, DashboardTypeOK, NoAction, Stages
<1>2. DashboardInit => DashboardIsTrue /\ ProposalsAreCounted
  BY DEF DashboardInit, DashboardIsTrue, ProposalsAreCounted
<1> QED BY <1>1, <1>2 DEF ExchangePart, DashboardInv, FormInv

\* What the invariant says of the other pages, shown or not.
LEMMA OthersHold ==
  ASSUME ReadingPart, PublishingPart, SessionPart
  PROVE  /\ LoadTypeOK /\ LatestIsShown /\ HomeTypeOK /\ CatalogueIsShown
         /\ WizardTypeOK /\ ReviewedIsAcceptable
         /\ SessionTypeOK /\ SessionIsTrue
<1>1. LoadInv /\ WizardInv /\ SessionInv
  BY WizardStart, SessionStart DEF ReadingPart, PublishingPart, SessionPart
<1>2. HomeTypeOK /\ CatalogueIsShown
  <2>1. CASE page = "home"
    BY <2>1 DEF ReadingPart, HomeInv
  <2>2. CASE page # "home"
    <3>1. HomeInit /\ HomeTypeOK
      BY <2>2 DEF ReadingPart, HomeInit, HomeTypeOK
    <3>2. 1 \in 1 .. Pages(Cardinality(filtered))
      BY <3>1, PagesFill DEF HomeTypeOK, filtered
    <3> QED BY <3>1, <3>2, PageIsShown DEF HomeInit
  <2> QED BY <2>1, <2>2
<1> QED BY <1>1, <1>2, CheckedIsAcceptable DEF LoadInv, WizardInv, SessionInv

\* The values of every variable of every page stay what their types say.
THEOREM TypeCorrect == Spec => []TypeOK
<1>1. WebInv => TypeOK
  BY PersonalHolds, ModerationHolds, ExchangeHolds, OthersHold DEF WebInv, TypeOK
<1> QED BY <1>1, WebAlways, PTL

\* Of one creation form the page is never told of two listings, whatever fails:
\* createListing updates the draft its form has left, until the form is reset.
\* A create that has acted and whose answer is lost leaves a draft that the page
\* is not told of, and that is not counted here.
THEOREM OneDraft == Spec => []OneDraftPerForm
<1>1. ASSUME KnownInOrder PROVE OneDraftPerForm
  <2>1. ASSUME NEW k \in 1 .. formKey
        PROVE  Cardinality({l \in Listings : <<k, l>> \in known}) <= 1
    <3> DEFINE made == {l \in Listings : <<k, l>> \in known}
    <3>1. \A l, m \in made : l = m
      <4>1. ASSUME NEW l \in made, NEW m \in made PROVE l = m
        <5>1. <<k, l>> = <<k, m>>
          BY <1>1, <4>1 DEF KnownInOrder
        <5> QED BY <5>1
      <4> QED BY <4>1
    <3> HIDE DEF made
    <3>2. ASSUME made = {} PROVE Cardinality(made) <= 1
      <4>1. Cardinality({}) = 0
        BY FS_EmptySet
      <4> QED BY <3>2, <4>1
    <3>3. ASSUME NEW l \in made PROVE Cardinality(made) <= 1
      <4>1. made = {l}
        BY <3>1
      <4>2. Cardinality({l}) = 1
        BY FS_Singleton
      <4> QED BY <4>1, <4>2
    <3> QED BY <3>2, <3>3 DEF made
  <2> QED BY <2>1 DEF OneDraftPerForm
<1>2. WebInv => OneDraftPerForm
  BY <1>1, PersonalHolds DEF WebInv
<1> QED BY <1>2, WebAlways, PTL

\* What the moderator publishes has its text and its photos from the same save,
\* unless it is a draft the page has lost track of: saveEdit deletes the gallery
\* before the text is changed, and sends the new one last.
THEOREM NoMixture == Spec => []NoMixedPublication
<1>1. RowsMatch => NoMixedPublication
  BY DEF RowsMatch, NoMixedPublication
<1>2. WebInv => NoMixedPublication
  BY <1>1, PersonalHolds DEF WebInv
<1> QED BY <1>2, WebAlways, PTL

\* A gallery that is shown has its URLs, and no other gallery has any: the
\* cleanup revokes them, and those that arrive after it.
THEOREM NoLeakedUrls == Spec => []BlobUrlsReleased
<1>1. WebInv => BlobUrlsReleased
  BY ModerationHolds DEF WebInv
<1> QED BY <1>1, WebAlways, PTL

\* What a page announces has happened: a save has been written as the form was,
\* a listing that left the queue was decided in a revision the page has had, an
\* action shown as failed did, a page of the catalogue is there, a page that is
\* offered is served.  The answer shown is that of the latest run, except an
\* older 404 that hides another error, and an older error of the proposal form;
\* and a form shown for review is accepted by the service exactly if its text
\* has as many characters as units, and its photos are what their names say.
THEOREM ScreensTrue == Spec => []ScreensAreTrue
<1>1. WebInv => ScreensAreTrue
  BY PersonalHolds, ModerationHolds, ExchangeHolds, OthersHold DEF WebInv, ScreensAreTrue
<1> QED BY <1>1, WebAlways, PTL
==============================================================================
