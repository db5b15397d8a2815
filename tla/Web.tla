--------------------------------- MODULE Web ---------------------------------
(***************************************************************************)
(* The pages of the web frontend.  A tab shows one page; the others keep   *)
(* their initial state.  What a page says has to agree with what the       *)
(* services have done, whatever calls fail and answers are lost.           *)
(***************************************************************************)
EXTENDS PersonalSpace, ModerationSpace, MarketplaceDashboard, PageLoad, PublicationForm, Session

VARIABLE page

vars == <<page, call, personalVars, moderationVars, exchangeVars, loadVars, homeVars, wizardVars, sessionVars>>
Reading == {"summary", "detail", "offers"}
WebPages ==
  {"personal", "moderation", "dashboard", "proposal", "home", "publishing", "session"} \cup Reading

TypeOK ==
  /\ page \in WebPages
  /\ CallTypeOK /\ PersonalTypeOK /\ ModerationTypeOK /\ DashboardTypeOK /\ LoadTypeOK /\ HomeTypeOK
  /\ WizardTypeOK /\ SessionTypeOK

\* The effect of a page makes its first call at once.
Init ==
  /\ page \in WebPages
  /\ call = IF page \in {"personal", "moderation", "dashboard"}
            THEN [NoCalls EXCEPT !["load"] = "sent"] ELSE NoCalls
  /\ PersonalInit /\ ModerationInit /\ DashboardInit /\ LoadInit(page) /\ HomeInit /\ WizardInit
  /\ SessionInit

On(p) == page = p /\ UNCHANGED page
OnPersonal ==
  On("personal") /\ UNCHANGED <<moderationVars, exchangeVars, loadVars, homeVars, wizardVars, sessionVars>>
OnModeration ==
  On("moderation") /\ UNCHANGED <<personalVars, exchangeVars, loadVars, homeVars, wizardVars, sessionVars>>
OnExchanges == UNCHANGED <<personalVars, moderationVars, loadVars, homeVars, wizardVars, sessionVars>>
OnLoads == UNCHANGED <<call, personalVars, moderationVars, exchangeVars, wizardVars, sessionVars>>
OnPublishing ==
  On("publishing") /\ UNCHANGED <<call, personalVars, moderationVars, exchangeVars, loadVars, homeVars, sessionVars>>
OnSession ==
  On("session") /\ UNCHANGED <<call, personalVars, moderationVars, exchangeVars, loadVars, homeVars, wizardVars>>

Next ==
  \/ OnPersonal /\ PersonalNext
  \/ OnModeration /\ ModerationNext
  \/ On("dashboard") /\ OnExchanges /\ DashboardNext
  \/ On("proposal") /\ OnExchanges /\ FormNext
  \/ \E p \in Reading : On(p) /\ OnLoads /\ LoadNext(p) /\ UNCHANGED homeVars
  \/ On("home") /\ OnLoads /\ HomeNext
  \/ OnPublishing /\ WizardNext
  \/ OnSession /\ SessionNext

\* Every call is answered (the gateway implements HttpCall), and an await whose
\* promise is settled goes on, whatever the other threads do.
Answering(t) ==
  \/ OnPersonal /\ PersonalAnswers(t)
  \/ OnModeration /\ ModerationAnswers(t)
  \/ On("dashboard") /\ OnExchanges /\ DashboardAnswers(t)
  \/ On("proposal") /\ OnExchanges /\ FormAnswers(t)

Spec == Init /\ [][Next]_vars
FairSpec ==
  /\ Spec
  /\ \A t \in Threads : WF_vars(Answering(t))
  /\ \A f \in Illustrated : WF_vars(OnModeration /\ GalleryArrives(f))
  /\ \A n \in Runs : WF_vars(On("summary") /\ OnLoads /\ LoadAnswers("summary", n) /\ UNCHANGED homeVars)
  /\ \A part \in SessionParts : WF_vars(OnSession /\ Settles(part))

-----------------------------------------------------------------------------
\* Of one creation form the page is never told of two listings: a draft whose
\* gallery could not be saved is used again, through failed updates, a dialog
\* opened on it, and answers of its updates that are lost.  A create that acted
\* while its answer was lost leaves a draft the page is not told of: the next
\* attempt makes another, and that is not counted here.
OneDraftPerForm ==
  \A k \in 1 .. formKey : Cardinality({l \in Listings : <<k, l>> \in known}) <= 1

\* A listing is never published with a text of one version and photos of
\* another, wherever a save stops and whenever the moderator decides: a new
\* gallery leaves no moment at which the old one could be approved.  Except the
\* drafts in doubt: the first gallery of one arrived without the page learning
\* of it, or a dialog was opened on one before the page read that it made it.
NoMixedPublication ==
  \A l \in Listings :
    row[l].status = "APPROVED" /\ l \notin doubtful => row[l].text = row[l].photos

\* A save that is announced has written what the form held.
SavesAreTrue ==
  saver.at = "reload" /\ ~saver.failed =>
    /\ row[saver.id].text = saver.version
    /\ saver.withPhotos => row[saver.id].photos = saver.version

\* A listing that was read leaves the queue only when this page has decided it,
\* in a revision the page has had: what the owner has changed since is refused,
\* also when the queue is read again while a decision is under way.
QueueIsTrue ==
  /\ \A f \in loaded : queue[f] = 0 => \E rev \in 1 .. MaxRev : <<f, rev>> \in ruled
  /\ ruled \subseteq viewed

\* An action that was answered is announced, and shown as failed only if it was
\* told to have failed, not because the refresh after it did.
DashboardIsTrue ==
  /\ outcome.error = "failed" => refused
  /\ outcome.notice => ~refused

\* A form in doubt leaves at most one proposal more than it was answered for.
ProposalsAreCounted == offers.made <= offers.answered + (IF sending THEN 1 ELSE 0)

\* Once the latest run of an effect has been handled, its answer is what is
\* shown.  Except on two pages: a listing once not found stays so when the next
\* one fails otherwise, and a form that has its offers may show an older error.
LatestIsShown ==
  current \in handled =>
    IF page = "offers"
    THEN IF answers[current] = "done" THEN screen.data = current ELSE screen.error \in {0, current}
    ELSE \/ OnScreen = [shows |-> answers[current], run |-> current]
         \/ page = "detail" /\ OnScreen.shows = "missing" /\ answers[current] = "failed"

\* The page of listings that was asked for is there and has something on it if
\* anything is found, wherever it was asked for and whatever is searched then;
\* and what is found is on one of the pages, and on no other.
CatalogueIsShown ==
  LET pages == 1 .. Pages(Cardinality(filtered)) IN
  /\ requestedPage \in pages
  /\ filtered # {} => ItemsOn(requestedPage, filtered) # {}
  /\ \A a \in filtered : \E p \in pages : \A q \in pages : a \in ItemsOn(q, filtered) <=> q = p

\* The form a member is shown for a last look is one the service accepts,
\* whatever was changed after going back, except for what the page does not see
\* as the service does: a text whose units and characters fall on two sides of
\* a limit, and a photo that is not what its name says.
ReviewedIsAcceptable ==
  step = LastStep =>
    (ServiceAccepts(normalizedListingInput(form), images) <=>
       /\ form.text.characters = form.text.units
       /\ \A image \in ToSet(images) : image.content = image.type)

\* Once the check is over the pages render from what the adapter has; a token it
\* hands out is still good at the service; and who is offered a page is refused
\* its calls only if the roles have been changed since, or if there are none.
SessionIsTrue ==
  /\ ready => (identity.authenticated <=> keycloak.authenticated)
  /\ request.at # "unauthorized"
  /\ request.at = "forbidden" => request.token.roles = {} \/ request.token.roles # request.offered

\* What the pages say is true: of the saves, the queue, the exchanges and what
\* they have read, although answers come late, in any order, or not at all.
ScreensAreTrue ==
  /\ SavesAreTrue /\ QueueIsTrue /\ DashboardIsTrue /\ ProposalsAreCounted /\ LatestIsShown
  /\ CatalogueIsShown /\ ReviewedIsAcceptable /\ SessionIsTrue

\* The blob URLs of a private gallery live exactly as long as it is shown, also
\* when it disappears while its images are still on their way.
BlobUrlsReleased ==
  \A f \in Illustrated : blobs[f] = (IF gallery[f] = "shown" /\ Mounted(f) THEN 1 ELSE 0)

\* What is disabled while something is awaited: what sends (the forms of a
\* member, the decisions of a moderator, the actions and the form of an
\* exchange), and what reads (the gallery of a listing, the refresh buttons, and
\* what waits for the session).
Controls == {"sends", "reads"}
Disabled(control) ==
  IF control = "sends"
  THEN Saving \/ busyId # None \/ busy # NoAction \/ sending
  ELSE \/ \E f \in Illustrated : gallery[f] = "loading"
       \/ page = "dashboard" /\ (loading \/ busy # NoAction)
       \/ page = "summary" /\ screen.loading /\ answers[current] # "none"
       \/ page = "session" /\ (~ready \/ request.at = "token")

\* No failure leaves a form or a button disabled for ever.
ButtonsComeBack == \A control \in Controls : Disabled(control) ~> ~Disabled(control)
=============================================================================
