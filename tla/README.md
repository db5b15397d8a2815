# Formal models of Troc & Don

TLA+ models of the exchange platform in `src/`, the TLC runs that check them on
small instances, and TLAPS proofs of the properties that matter most. Paths
below are relative to the repository (`src/` prefix included).

## The system and its parts

Users publish listings (a gift or a swap), ask for them with proposals, accept
or reject proposals, and both confirm that the exchange took place. Three
services with databases of their own do this, behind a gateway, with RabbitMQ
between two of them.

| Component | State | Operations | Interacts with | What is hard | What makes it correct |
|---|---|---|---|---|---|
| **Proposals** (`apps/marketplace-service/src/proposals`) | rows `Proposal`, `MarketplaceTransaction`, `MarketplaceOutboxEvent` | create, reject, accept, lists | Catalog over HTTP; publisher | `accept` is a saga: reserve one or two listings in another service, then commit locally, else compensate. Several run at once; calls time out while the server goes on; the process may die anywhere | no listing in two exchanges; a compensation frees only what its own request reserved; one decision per proposal |
| **Transactions** (`.../src/transactions`) | same rows | confirm | Catalog; publisher | two confirmations at once, no lock held over two remote calls; half-closed exchanges | a completed exchange has all listings closed; completed when both confirmed; announced once |
| **Catalog internal API** (`apps/catalog-service/src/internal`) | `Listing.status`, `availabilityStatus` | reserve, complete, release | called by Marketplace | complete and release read, then write by id | late or repeated calls never reopen a closed listing |
| **Listings and moderation** (`apps/catalog-service/src/listings`) | `Listing` and `ListingImage` rows | create, edit, approve, reject | object store | edits race with moderation; check and write are apart | what is published is what was reviewed |
| **Images and object store** (`listing-images.service.ts`, `storage/`) | rows and objects | replace, remove | S3-like store | two stores, no common transaction | no row without its object |
| **Outbox and publisher** (`apps/marketplace-service/src/events`) | outbox rows; channel, ready, blocked | publish, flush, rebuild | RabbitMQ | confirm timeouts, retries, two replicas, rebuilds that race with closes | every committed rejection is delivered at least once |
| **Notification consumer and inbox** (`apps/notification-service`) | inbox rows keyed by event id; channel | consume, ack, nack, rebuild | RabbitMQ | redelivery after a lost channel while a handler is still at work | each event is recorded exactly once |
| **Gateway** (`apps/gateway`) | per request: the exchange with a service, the response, what has been observed; metrics | route, proxy, count, log, readiness | all services | the service's answer, its timeout, the client that leaves and stream errors race, and every listener may run more than once | a client is told nothing that is not so; one metric and one true log line per request; no exchange outlives its client |
| **Web frontend** (`apps/web`) | per page: what was read, what is shown, which call is awaited; the session | publish, correct, moderate, act on exchanges, propose, read, sign in | gateway, Keycloak | a save is a chain of calls any of which may fail or lose its answer; answers come in any order; pages disappear while downloads run; tokens age and roles change | what a page says has happened; a retry finds its draft; the latest answer is shown; nothing stays disabled |
| **Guards** (JWT, roles, service token) | none | check one request | web, all services | what was offered on one token is called with another | a page that is offered is not refused, unless the roles have changed |
| **Legacy API** (`apps/api`), **deployment** | – | – | – | the code the services were extracted from, configuration | – |

`PROJECT.json` lists the same components with what is modelled of each, and
the hazards of the code at the lines where they bite.

## Modules

| Module | Models |
|---|---|
| `CatalogService` | Catalog as Marketplace sees it: `listingStatus`, `availability`, and one small state machine per internal HTTP call (`internal-listings.service.ts`, `catalog-client.service.ts`), and the status changes of edits and moderation |
| `MarketplaceData` | the Marketplace database and what is fixed about a proposal |
| `ProposalsService` | `create`, `reject`, `accept` of `proposals.service.ts`, one action per database statement or remote call |
| `TransactionsService` | `confirm` of `transactions.service.ts`, likewise |
| `Marketplace` | the composition, its fairness, and all properties |
| `Exchange` | the abstract promise: an agreement is one atomic step |
| `MCMarketplace` | the instances that TLC checks |
| `EventPublisher` | `publishEnvelope` of `event-publisher.service.ts` over a durable queue: two attempts, confirms, copies left on the wire |
| `OutboxWorker` | `outbox.worker.ts` in every replica, the rows it works on, and the events published without a row |
| `NotificationConsumer` | `consume` of `rabbitmq.consumer.ts` and `record` of `notification.store.ts` |
| `EventDelivery` | the chain from the transaction to the inbox, its fairness and properties |
| `Notified` | the abstract promise of the chain: a fact is learnt at most once, after it happened, and a rejection certainly |
| `MCEventDelivery`, `EventDeliveryProofs` | instances and theorems of the chain |
| `RecoveringChannel` | what publisher and consumer share: a connection that amqplib recovers, one current channel, its rebuild |
| `PublisherChannel` | `ready`, `blocked`, `invalidateChannel` of `event-publisher.service.ts`, with the attempts that wait for a channel, hold it and throw it away |
| `ConsumerChannel` | the same of `rabbitmq.consumer.ts`, with cancellation by the broker |
| `PublisherChannelProofs`, `ConsumerChannelProofs` | theorems about the two, which are also run as they are |
| `MarketplaceProofs`, `MarketplaceSafetyProofs` | theorems about the saga |
| `EventContract` | what Marketplace writes into an event and what `parseMarketplaceEvent` makes of a message; `Notified` and the chain are stated over messages, some of which are not events |
| `ListingRules` | a row of `Listing` with its wishes and images, and `marketplace-rules.service.ts` |
| `ListingsService` | `create`, `updateOwned`, `approve`, `reject` of `listings.service.ts`, reads and writes apart; `reserve`, `complete` and `release` by Marketplace, the last two by id, however late |
| `ListingImagesService` | `replaceOwnedImages`, `deleteOwnedImages`, `readPublicImage` of `listing-images.service.ts` over rows and bucket |
| `Moderation` | the composition of the two, and its properties |
| `Publication` | the abstract promise: what the public sees has been reviewed, and stays as it was reviewed |
| `MCModeration`, `ModerationProofs` | instances and theorems |
| `GatewayRoutes` | the routing table (`routes.ts`) and the metric labels (`observability.ts`) |
| `Gateway` | `proxy.ts` with all its listeners, `observability.ts`, `health.controller.ts`, `metrics.controller.ts` |
| `HttpCall` | the abstract promise of the gateway: what a caller may conclude from an answer |
| `MCGateway`, `GatewayProofs` | instances and theorems |
| `ApiClient` | the calls of a page (`lib/api.ts`): at most one per thread of control, answered or failed; what `HttpCall` allows is what a page has to cope with |
| `PersonalSpace` | `personal-space.tsx`: creating and correcting listings, one save at a time |
| `ModerationSpace` | `moderation-space.tsx`: the queue, read again whenever its user may moderate again, decisions side by side, private galleries and their blob URLs |
| `MarketplaceDashboard` | `marketplace-dashboard.tsx` and `listing-proposal-form.tsx`: actions with a refresh after them, refreshes beside them, proposals |
| `PageLoad` | the effects that read what a page shows, each run making the one before void: "summary" (`admin-dashboard.tsx`), "detail" (`listing-detail.tsx`), "offers" (`listing-proposal-form.tsx`), "home", each with its own flags; the catalogue on the home page, through its filter and page by page (`home-experience.tsx`, `home-pagination.ts`) |
| `ImageFiles`, `PublicationForm` | the wizard (`publication.ts`, `publication-wizard.ts`, `ListingForm`) against the rules of the service |
| `AccessGuards`, `Session` | `auth-provider.tsx` over keycloak-js, the links of the header, and the guards behind them |
| `Web`, `MCWeb`, `WebProofs` | the pages in one module, one of them open in each behaviour, their properties, and theorems |

### How state and actions correspond to the code

* `proposal`, `transaction`, `confirmed`, `outbox` are rows of
  `prisma/schema.prisma`. A transaction is named by its proposal because
  `proposalId` is unique. `outbox` counts `proposal.rejected` rows per
  proposal; `announced` counts the direct calls of `events.publish`.
* `acceptPc[a]` is the await at which request `a` of `accept` stands;
  `targetReserved` and `offeredReserved` are functions of it (`Holds`).
  Everything between two awaits is one action. A database transaction is one
  action, with its automatic rejections and their outbox rows.
* `call[<<caller, operation, listing>>]` is one HTTP request. The server's side
  (`ServeReserve`, `CheckBeforeWrite`, `WriteAfterCheck`) goes on when the
  caller has given up (`TimeOut`), which is how a reservation is made that its
  caller does not know about. `complete` and `release` read and write in two
  steps, as the code does.
* In the event chain, `row`, `attempts` and `inbox` are database columns and
  rows, `batch[w]` is what is left of the `findMany` result of worker `w` (as
  stale as it is in the code), `pubPc` is the await inside `publishEnvelope`,
  `handlerPc` the await inside `consume`. `strays` are copies whose sender gave
  up: a confirm timeout says nothing about the message. `live` is the set of
  deliveries the broker still counts as outstanding; a handler whose channel is
  lost goes on without being in it. The broker itself (a durable queue,
  redelivery of what is not acknowledged) is external and modelled by what the
  code relies on. A message is modelled by what the parser tells apart (which
  parts are objects, which fields are there and of what kind). `Foreign` messages are
  in the queue from the start and nobody's event: what the parser refuses is
  discarded, what it lets through is recorded.
* In the channel models `setup` and `rebuild` are the two places from which
  `installChannel` can be running; `trying[s]` is the channel an attempt holds.
  `told` is the broker's side of `blocked`: whether it has blocked this
  connection. amqplib's `RecoveringChannelModel` is external. Assumed of it:
  it reconnects for ever, calls `setup` once per connection and reconnects if
  setup fails, refuses to create channels meanwhile, closes all channels with
  their connection, and forwards `blocked` and `unblocked` as the broker sends
  them. What arrives on a socket is handled after the promises that earlier
  frames settled. `EventPublisher` abstracts all this as an attempt that may
  fail at any time.
* In `Moderation`, `row[l]` is one row of `Listing` with its images and wishes,
  `updatedAt` its revision. `snap[r]` is what request `r` has read, `seen[m]` what
  the moderator of review `m` was shown, `pc[r]` the await at which it stands. An
  edit, a decision and a gallery are each a read and a later write, as in the code; a
  database transaction is one action. `uploaded[u]` counts the keys drawn by
  upload `u` (`randomUUID`: no key is drawn twice), `objects` is the bucket,
  `warned` are the requests whose `bestEffortDelete` has logged a failure. Ordinary
  writes move `updatedAt` by two or more, because the claim of a gallery sets it to the
  revision read plus one millisecond: the two must be told apart.
* In `Gateway` an action is one event of Node with everything its listeners do:
  `ClientLeaves` is `aborted` and `close` in one turn of the loop, `UpstreamError`
  the `error` listener after a refused connection, a reset or the 15 s timeout.
  `author[r]` says who wrote the answer (`mixed` if the gateway's 502 went out under
  the headers of the service), `service[r]` what the service has done, which the
  gateway does not know. Durations are the bucket they fall into.
* In the web modules a thread (`load`, `act`, `again`) is a chain of awaits,
  `call[t]` its call under way. An action is what runs between two awaits. The
  service's side of a call is an action of its own, so others act before and after it.
  `PersonalSpace` numbers the saves: `row[l].text` and `row[l].photos` are the
  numbers of the saves they come from. `known` (listings the page was told of, by
  form), `doubtful` (drafts whose gallery arrived without the page learning of
  it, or that were opened in the dialog before the page had read that it made them),
  `ruled` and `viewed` (the revisions the service has decided for the page, and those the page
  has had), `loaded` and `refused` are history. In `PageLoad`, `screen` keeps for the
  data, the error and the 404 the run of the effect they come from: what a run does not
  clear stays, and `OnScreen` is what the page makes of them. `listings` is the
  answer the home page has, `matching` what its search and its type of exchange are for
  (any set: the words of a search are not modelled), `requestedPage` its `page`. `Session` keeps the adapter's
  tokens (`keycloak`), the identity the pages render from (`identity`) and the
  account at the server (`account`) apart.
* Requests that the code refuses before they change anything are left out.
* Definitions under the comment "Variant with a bug" are not part of any
  specification. They are the mistakes listed under `mutants` in
  `PROJECT.json`; with one of them put in place of the definition it precedes,
  TLC finds the named property violated, which shows that the property speaks
  about that code.

### Faults

`Faults` says what may go wrong in a run: `network` (a call is lost, or the
caller stops waiting at any time), `crash` (a request's process dies; nothing
is persisted about it and nobody resumes it), `txfail` (the database rolls the
transaction of `accept` back), `ackloss` (it commits and the acknowledgement of
the COMMIT is lost, which the code cannot tell from a rollback).

`ackloss` is kept apart. Under it `accept` compensates an acceptance that is
already committed, so a listing can be freed and booked again. The documentation
says of the saga that it is not atomic across services (docs/24, line 257), so
this is no disagreement; the properties that survive it are checked with it
(run `gifts`), the others are checked and proved without it.

In the event chain `channel` fails an attempt to publish (no ready channel, a
confirm that does not come, a channel closed under it), `database` fails a mark
or an insert, also after it has committed, `crash` kills or stops a worker, a
request or a handler, `delivery` loses the channel under a handler. `MaxFaults`
bounds how many happen; the theorems hold for any number.

In the channel models `connection` loses the connection (or fails `setup`),
`channel` closes a channel, `rebuild` refuses a step of a rebuild, `timeout` is
a confirm that does not come in time, `alarm` a resource alarm of the broker,
`cancel` a consumer that the broker cancels.

In `Moderation`, `rollback` rolls a statement or transaction back, `storage` fails
a call of the object store, with or without effect, `crash` ends a request
anywhere. `samems` lets two writes share a millisecond and `ackloss` loses the
acknowledgement of a COMMIT. Under these two the revisions cannot tell what
happened, in the model as in the code: an approval can go to an edit of the same
millisecond, and a gallery that has been committed is cleaned up as if it had not. The
run leaves them out by name and the proofs assume their absence (`Ordinary`);
`TypeCorrect` is proved with them.

In `Gateway` there is no list of faults: a service may answer early, late, in part
or never, refuse the connection or reset it, and a client may leave, at any time.

In the web modules `error` fails a call before it has an effect (no token, no
connection, an error of the gateway), `lost` carries it out and loses the
answer. Renewals of tokens fail, are refused, or succeed at any time.

## Runs

| Run | Instance | Checks |
|---|---|---|
| `gifts` | one listing, two requesters, two accepts, two confirms, edits; rollbacks and lost COMMIT acknowledgements | `DecisionRecorded`, `CompletionAnnouncedOnce` |
| `exchange` | opposite swaps of the same two listings, accepted side by side, one confirmed by both at once; network, crash and rollback faults | `SafetyInv` (the inductive invariant), `ExchangeHoldsItems`, `ClosedTogether`, `CompleteNeverRefused`, `NoDoubleBooking`, `SoleClaim`, `DecisionsAreFinal`, `ImplementsExchange` |
| `progress` | the same swaps and confirms, rollbacks, fair handlers, reliable network | `RequestsEnd`, `ReservationsAreResolved`, `ConfirmedIsCompleted` |
| `delivery` | one rejection and a malformed message, two workers, two deliveries at a time, two faults of any kind, fair | `DeliveryInv` (the inductive invariant), `ImplementsNotified` (with its liveness), `OutboxDrains`, `PublishedIsFinal` |
| `batches` | two rejections whose `createdAt` and commits disagree, one event without a row, one message with an oversized id, batches of two, two workers, one fault | `PublishedIsKept`, `RecordedOnce` |
| `publisher_channel` | two attempts at once, five channel objects, two faults of any kind, fair | `PublisherInv` (the inductive invariant), `Recovers` |
| `consumer_channel` | eight faults of any kind, fair | `ConsumerInv` (the inductive invariant), `Recovers`, `StrandedByRebuild` |
| `moderation` | one listing; any four of two edits (one makes it a gift, one names wishes), two galleries of two photos, one deletion, two reviews, one public read; rollbacks, storage failures, crashes | `ApprovedIsPublishable`, `ReferencedImagesStored`, `NoSilentOrphan`, `PublicImagesWereReviewed`, `GalleryFrozen`, `ImplementsPublication` |
| `gateway` | two requests, each for a service, for readiness or for a path that only looks like a route; one dependency, two buckets, fair | `MetricsAgree`, `LogIsTrue`, `NoOrphanExchange`, `ImplementsHttpCall` (with its liveness) |
| `web` | each page in turn: two listings and two saves; two files in the queue, one of them corrected or rejected by others, the queue read twice; two exchanges; three runs of an effect; a catalogue of up to five listings, two to a page; the wizard with eight selections of photos; the session with four sets of roles; failing calls and lost answers, fair | `TypeOK`, `OneDraftPerForm`, `NoMixedPublication`, `ScreensAreTrue`, `BlobUrlsReleased`, `ButtonsComeBack` |
| `publisher_blocked` | a lost connection and an alarm | violated: `ReconnectsAutomatically` |
| `late_rival` | as `gifts`, no fault | violated: `NoPendingRival` |

The runs are small enough for a laptop: the largest are `moderation` (670,235
states), `web` (202,921) and `gateway` (195,856). The type invariants of
`Marketplace`, `Moderation` and `Gateway` are proved instead of run.

**Bounds.** The only bounds are the sets of requests and listings, and one edit
under way per listing (`UpdateOwnedRead`). Two accepts suffice for every
conflict: reservation is decided per listing by one conditional update, so a
third request only repeats what a second one does to the first. Two listings
suffice because a proposal names at most two; opposite swaps take them in
opposite orders, the worst case. Two confirms are the two participants. For
everything in `SafetyInv` the proofs remove the bounds.

In the event chain the interesting cases are one event in the batches of both
workers, in both attempts and in two deliveries; `delivery` has them with two
faults, enough for both attempts of a sweep to fail, for a crash after a lost
confirm, or for a failed insert whose delivery is then lost. `batches` adds the
order of rows. `MaxFaults` is also what makes the runs finite and lets liveness be
stated: delivery is promised once faults stop.

In `publisher_channel` five channel objects are one for each reference there can
be: the current channel, one under `setup`, one under `rebuild`, one held by
each attempt. Two attempts are a fresh and a stale one, what it takes for a
late failure to meet a channel that is not its own. The consumer has few states
for each number of faults; eight of them are several rounds of each.

In `moderation` every property is about one listing, and what can go wrong takes at
most four requests at once: two galleries and a review, then a read, or an edit
between what a moderator saw and what he approves, and a second edit
validated against the same row. `MaxRequests` says four of the eight begin;
`MaxStamp` = 12 ends the bookings, completions and releases, which move the revision like any write. Two photos
and at most two wishes are the smallest numbers for which "too few", "enough" and
"partly uploaded" differ. The proofs remove all of these bounds.

In `gateway` one request meets every order of its own events; the second is there for
the metrics they share. `GatewayProofs` removes the bound.

In `web` the pages share no state, so a behaviour opens one of them. `MaxSaves` = 2
is a failed save and its retry, on two listings; three saves (836,024 states) show
nothing new and take too long to be part of the run. `MaxReads` = 2 is the first read of
the queue and one more, `Contended` the listing that others correct or decide, `Rulings`
the decisions taken: the page treats the two alike, and a rejected listing, unlike an
approved one, may still be corrected, so that rejections alone meet every case. `MaxRev`, `MaxSends`,
`MaxRuns` bound how often others act, a form is sent and an effect starts over; three
runs are one that is void, one that is late and one that counts. Five listings on
pages of two are three pages, the last of them short: the least for a change of the
filter to leave the page that is shown in the middle, at the end, or nowhere.
`WebProofs` removes all of these bounds.

**What the properties of the web except.** `LatestIsShown` is about the answer to the latest
run of an effect and names two pages on which another may be seen: a listing that was not
found stays so when the next one fails otherwise (`listing-detail.tsx:40-50` never takes
`notFound` back then), and the form of a proposal that has its offers may show an older
error (`listing-proposal-form.tsx:26-38` never clears it). `ReviewedIsAcceptable` says exactly when the
service accepts what the wizard has let through: if the texts have as many characters as
UTF-16 units, as far as the limits go, and the photos are what their names say. `QueueIsTrue` is
about what is decided, not about what is seen: a decision that is answered after the queue has
been read again takes the listing out of it even in a revision its owner has corrected since.

**Fairness.** A handler that has begun and can take a step takes one (Node's
event loop and the database answer), and a call that Catalog has received is
carried out. No user is obliged to send anything: a request that is `idle` may
stay so. A handler waiting for an answer that was lost is only freed by the 3 s
abort; `progress` has no network faults.

In `delivery` workers sweep (a one-second timer), a replica that is stopped is
replaced (by Kubernetes or Compose), a message on an open channel is stored,
confirmed and delivered, and handlers go on. Stray copies are under no
obligation.

In the channel runs the recovery reconnects (`maxRetries` is infinite), an
installation ends, an alarm ends and is reported, and there is always something
to publish: an attempt goes on until it is confirmed or times out. No fault is
obliged to happen. `consumer_channel` may stop (the consumer waits for
messages), so it does not check deadlock; its liveness says what it stops in.

In `gateway` Node goes on with what is on its queue, and an exchange with a service
moves or times out (`UpstreamError` is always possible while one direction is
under way). Neither services nor clients owe anything: a client may take for ever
over its upload, and it is the timeout that ends it. A gateway without requests
waits, so deadlock is not checked; `ImplementsHttpCall` says that every call is
answered.

In `web` a call is answered (which is what the gateway promises), and an await whose
promise is settled goes on; so do the downloads of a gallery and the reads of the summary,
which have no thread of their own. Of keycloak-js it is assumed that its promises settle, and of
a request that it is under way for less than the 30 s for which `getToken` asks. No
user clicks by obligation. A page that nobody touches may stop.

**Deadlock** is checked: `Idle` is the self-loop of a system in which every
request has ended and only a user could do something, so that a handler that is
stuck shows as a deadlock.

## Where code and documentation disagree

1. `late_rival`. docs/22 says that concurrent proposals are rejected
   automatically when one is accepted. `create` reads the listing, and inserts
   later: inserted after the acceptance, the proposal stays PENDING.
2. `publisher_blocked`. docs/18 promises automatic reconnection of the publisher.
   A connection lost while it is blocked leaves `blocked` set: the new channel
   is installed as not ready, rebuilds are refused, and the `unblocked` that
   would clear the flag never comes on a connection that was never blocked.

Four more were seen while modelling and have no run of their own. A comment in
`safeRelease` says that a later reconciliation job can retry a failed compensation;
there is none, and a reservation whose call timed out is not even compensated, so
with `network` faults the listing stays RESERVED. docs/17 (line 167) says that editing
a listing that is part of a transaction is forbidden; `updateOwned` checks the status it
read and writes by id, so that an approval and an acceptance in between are overwritten
and the listing of an exchange is PENDING again. docs/17 (line 192) says that page and
service detect duplicate wishes with `toLowerCase()`, whatever the locale; the steps of
the wizard lower-case in the French locale (`publication-wizard.ts:17`), which makes no
difference for the letters of French. And page and service measure texts differently: the
wizard counts UTF-16 units (`publication-wizard.ts:9-12`), the DTO characters
(`create-listing.dto.ts:19-34`, a surrogate pair is one), so that the title "😀a", of three units
and two characters, passes the wizard and is refused.

`Recovers` of `ConsumerChannel` states a weakness that its promise (docs/18, line
197: the consumer is recreated after a cancellation) does not mention: the rebuild
is tried once, and if it fails on a connection that stays up, nothing tries
again. `StrandedByRebuild` shows that this is the only way to get there.

## What is proved

For any sets of listings, proposals and requests, any assignment of listings
to proposals, any owners:

* under every fault: `TypeCorrect`, `DecisionsRecorded` and
  `CompletionsAreAnnouncedOnce`;
* under every fault but `ackloss` (an assumption named in
  `MarketplaceSafetyProofs`): `SagaIsSafe` and, from it, `NeverBookedTwice`,
  `ReservationsHaveOneOwner`, `ExchangesHoldTheirItems`,
  `ListingsCloseTogether`, `CompletionsAreAccepted`;
* with the same assumption: `DecisionsFinal` (an action property) and
  `SagaImplementsExchange` (the saga implements `Exchange`);
* for the event chain, under every fault and any number of them, events,
  replicas and deliveries: `DeliveryIsSafe`, and from it `NoRejectionIsLost`,
  `InboxHasNoDuplicates`, `PublishedStays` and `ChainImplementsNotified` (the
  part of `Notified` without fairness);
* for the channels, under every fault and any number of them, of channels and
  attempts: `PublisherIsSafe` and `ReadyMeansUsable`, `ConsumerIsSafe` and
  `OnlyRebuildStrands` (an action property);
* for the contract of events: `ParserIsExact` (the parser lets through exactly the
  messages the contract's types describe) and `EventsAreUnderstood` (everything
  Marketplace publishes is among them);
* for listings, images and moderation, for any number of requests of every kind:
  `TypeCorrect` under every fault, and, unless two writes share a millisecond or a
  COMMIT goes unacknowledged (`Ordinary`), `PublishedIsComplete`,
  `GalleriesAreFrozen` (an action property), `ReadersSeeReviewed`,
  `RowsNameStoredObjects`, `OrphansAreNotSilent` and
  `ModerationImplementsPublication`;
* for the gateway, for any number of requests, paths, dependencies and buckets:
  `TablesAgree` (a path is forwarded to the service its metric label names, and to none
  exactly if it is counted as unknown),
  `TypeCorrect`, `LogTellsTheTruth`, `ExchangesAreReleased`, `MetricsCountOnce`, and
  `GatewayKeepsHttpCall` (the part of `HttpCall` without fairness);
* for the web frontend, for any sets of listings and galleries, any number of saves,
  drafts, exchanges, photos, wishes, runs of an effect and listings in the catalogue, any
  size of its pages and any grants of roles: `TypeCorrect`, `OneDraft`, `NoMixture`,
  `NoLeakedUrls` and `ScreensTrue`.

The theorems about the web assume of its constants only that bounds are numbers, that a
page of the catalogue has room for a listing, that at least one wish and one photo are required
and no more wishes than are allowed, that the blank label is not one of the others, that
`None` is not a listing or a decision, that galleries, and what others do, are of files in the
queue, that what is decided is to approve or to reject, and that the roles granted are roles of the application, or none.

**The argument.** `NoDoubleBooking` is not inductive: what makes an acceptance
safe is that its request holds a reservation nobody else answers for. That is
`SoleClaim`: a request claims a listing while it holds it, has a granted answer
it has not read, or has a release in flight, and a claimed listing is RESERVED,
by one claimant, and in no exchange. A reservation whose call timed out has no
claimant, which costs liveness and not safety. `SoleClaim` in turn needs
`CallsBelong` (releases in flight belong to accepts that compensate,
completions to doubly confirmed exchanges, so no late call can meet a listing it
has no business with) and `ItemsHeld` (listings of an exchange are never
AVAILABLE, so the conditional reserve refuses them). `ClosingProgress` says how
far each confirm has come, from which `ClosedTogether` follows;
`CompleteNeverRefused` is part of the invariant because a refused complete is
what would leave an exchange half closed. The refinement maps each proposal to its
stage; the steps of the saga before and after the commit are stutters, and the
guard of the abstract agreement is exactly what `SoleClaim` gives at the commit.

For the event chain, `PublishedIsKept` rests on `ConfirmedIsKept` (a sender that
has seen, or is about to see, a confirm has an event the broker stored) and on
the lemma `KeptStays`: an event that is in the queue, in a live delivery or in
the inbox is in one of them after every step, because a handler acknowledges
only what is in the inbox (`RecordedBeforeAck`) and everything else that ends a
delivery puts it back. The refinement needs `NothingInvented`: copies, batches
and handlers only carry events whose transaction committed.

`ReadyIsUsable` is not inductive alone: an installation that ends sets `ready`, so
it takes `ChannelInv`, by which an installation is never under way without a
connection, and every invalidation or close of the current channel also forgets
it. For the consumer `OneConsumer` adds that nothing builds a channel while
there is one, which is what the publisher lacks.

For announcements the claim is what matters: a confirm request that stands before
the publication is the only one for its transaction, which is completed and not
yet announced (`OneAnnouncer`). That takes `DecisionRecorded`, without which another
acceptance could put the transaction back to IN_PROGRESS.

For moderation the invariant has three parts. `RowInv`: revisions only grow, and what a
request has read is the row as it is or one with an earlier revision; so an equal
revision means an equal row, and the conditional update of a decision writes what
was reviewed. `GalleryInv`: every image was drawn by one upload and for its own
listing; the objects of an upload that has not committed are in no row and in no
other request's hands; those a cleanup is about to delete are in no row; and every object
without a row has a request that answers for it. `ReferencedImagesStored` alone is
not inductive, because nothing in it says whose objects a cleanup deletes. `ReviewInv`:
an approved row has the content some moderator was shown and has approved. The
refinement maps a listing to its content while it is APPROVED; approving is the
step that publishes, every edit and every gallery withdraws first or finds the
listing private.

For the gateway `Consistent` relates the states of the two sockets, the response and the
log of one request, `Truthful` what is logged to what the service has done.
The refinement follows request by request: an event that logs nothing is a stutter, one
that logs tells its caller something `HttpCall` allows. `MetricsCountOnce` counts
sets: `finalize` adds a request to the log and one to its series in the same step, and
its guard keeps a second `finish` or `close` from doing it again.

For the web frontend the invariant is `WebInv`: the page that is open has its own
invariant (`PersonalPart`, `ModerationPart`, `ExchangePart`, `ReadingPart`,
`PublishingPart`, `SessionPart`), and a page that is not open rests.

`OneDraftPerForm` and `NoMixedPublication` need how far a save has come, call by call
(`SaverType`, `Creating`, `Clearing`, `Updating`, `Replacing`), and three facts about
listings: no gallery but none or that of the last text, unless the draft is in doubt
(`RowsMatch`); a draft the form has left has no gallery yet (`DraftIsBare`), which is
why a retry may change its text; and a draft that is also open in the dialog is in doubt
(`OneEditor`). `KnownInOrder` says that a form is told of its draft once, before a new form
takes its place. `BlobUrlsReleased` needs `GalleriesMounted`: a gallery is open only where
it is mounted, so that whatever unmounts it (a decision, the filter, a read of the queue, a
lost right) revokes its URLs, and an image that arrives later belongs to nobody.
`QueueViewed` and `DecisionsKnown` tie the queue, and the decisions under way, to the
revisions the page has had, so that what leaves the queue was decided in one of them, however
often the queue is read meanwhile. `LatestIsShown` needs that a run that has not begun has no
call and that nobody but the page of a listing knows a 404 (`LoadInv`). The session needs `TokensKnown`: what is sent carries a token that was
fresh when it was sent and was sent to a page offered to its holder; that the roles of
a page are roles its guard accepts is `OfferedIsGranted`, a fact about two tables.

`CatalogueIsShown` is arithmetic: pages are counted by rounding up, and `PagesFill` shows
that they cut any finite set of listings into parts none of which is empty or meets
another. What makes it an invariant is that a filter asks for the first page and that the
listings change only before any other page could be asked for. `paginateListings` limits
the page it is asked for to those there are; the invariant says that it never has to.
For the wizard the invariant remembers what was checked when a step was left: the description
past the first step, the photos at the last; changing either is only possible before its step is
left again. That the form as sent has the wishes as counted is stated about the n-th wish
that is not blank (`Filled`), because what the recursive filters of a library compute
cannot be proved here.

## What is only model-checked

Liveness (`progress`, `delivery`, both `Recovers`, the fair part of
`ImplementsHttpCall`, `ButtonsComeBack`), which this prover does not do, and the two
disagreements. Every safety property the passing runs check is also proved.

## What is not modelled

* **Exchange:** the list queries of proposals and transactions, which change nothing;
  requests that are refused before they read anything.
* **Channels:** `onModuleDestroy` of publisher and consumer, and a composition of
  `ConsumerChannel` with `NotificationConsumer` in place of the latter's
  `ChannelLost`, which abstracts it.
* **Listings and images:** the list queries, but for the one a moderator decides
  on; private image reads, which differ from public ones in who may make them;
  the admin summary, a set of counts; what bytes make an image, a precondition of
  uploads in `Moderation` (`ImageFiles` has it for the wizard). A storage call that takes
  effect after it has been reported as failed is not modelled: the client library is taken to
  have given up when it says so.
* **Gateway:** a request target that `URL` cannot parse, which throws before it
  is observed; header values (request ids, hop-by-hop headers, rate limits and
  security headers), which decide nothing here.
* **Guards:** signatures and malformed bearer headers, the token of internal
  calls: checks of one request, without state.
* **Web:** rendering, wording, how a search compares words, the double effects of
  React's StrictMode in development. A refresh that makes two calls is one snapshot. A save
  is told of a draft only by an answer: `OneDraftPerForm` does not count the one that a
  create leaves when it acts and its answer is lost. `getToken` renews the token without reading the
  identity again, so that the roles a page shows can lag behind those of its token until
  the timer renews it; `SessionIsTrue` allows for roles that have changed.
  `NoMixedPublication` leaves out the drafts in doubt (`doubtful`): a moderator may approve a
  draft whose gallery arrived unnoticed before the retry, and one that is open in the dialog
  before the page knows it for its own is edited from two places.
* **Legacy API:** its listings, images and rules are the Catalog service's code but
  for names; a model of it would repeat `Moderation`.
* **Deployment, CI and scripts** (load tests, end-to-end and browser checks):
  configuration, and sequential checks of a running installation.
