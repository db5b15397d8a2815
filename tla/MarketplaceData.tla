-------------------------- MODULE MarketplaceData --------------------------
(***************************************************************************)
(* The database of the Marketplace service, and what is fixed about a      *)
(* proposal.  A proposal is named by the id its row gets; the listings it  *)
(* names, its author and the owner of a listing never change.  The kind of *)
(* a listing can be edited until it is published, but only create looks at *)
(* it, and only at a published listing: it is a constant here.  A          *)
(* transaction is named by its proposal: proposalId is @unique in the      *)
(* schema.                                                                 *)
(***************************************************************************)
EXTENDS CatalogService, Naturals

CONSTANTS
  Proposals,   \* ids of the proposals that may be created
  NoListing,   \* offeredListingId = null
  Target,      \* Proposal.targetListingId
  Offered,     \* Proposal.offeredListingId
  Requester,   \* Proposal.requesterId
  Owner,       \* Listing.ownerId
  Kind         \* Listing.operationType, "DONATION" or "TRADE"

ASSUME DataAssumption ==
  /\ NoListing \notin Listings
  /\ Target \in [Proposals -> Listings]
  /\ Offered \in [Proposals -> Listings \cup {NoListing}]

VARIABLES
  proposal,     \* Proposal.status, "NONE" before the row exists
  transaction,  \* MarketplaceTransaction.status, "NONE" before the row exists
  confirmed,    \* the participants whose ...ConfirmedAt is set
  outbox,       \* number of proposal.rejected rows written for the proposal
  announced     \* number of best-effort envelopes handed to the publisher

dbVars == <<proposal, transaction, confirmed, outbox, announced>>

ProposalStatus == {"NONE", "PENDING", "ACCEPTED", "REJECTED"}
MarketplaceTransactionStatus == {"NONE", "IN_PROGRESS", "COMPLETED"}
Participants == {"owner", "requester"}
DirectEvents == {"proposal.created", "proposal.accepted", "transaction.completed"}

DataTypeOK ==
  /\ proposal \in [Proposals -> ProposalStatus]
  /\ transaction \in [Proposals -> MarketplaceTransactionStatus]
  /\ confirmed \in [Proposals -> SUBSET Participants]
  /\ outbox \in [Proposals -> Nat]
  /\ announced \in [DirectEvents \X Proposals -> Nat]

DataInit ==
  /\ proposal = [p \in Proposals |-> "NONE"]
  /\ transaction = [p \in Proposals |-> "NONE"]
  /\ confirmed = [p \in Proposals |-> {}]
  /\ outbox = [p \in Proposals |-> 0]
  /\ announced = [e \in DirectEvents \X Proposals |-> 0]

IsTrade(p) == Offered[p] # NoListing

\* The listings that change hands if the proposal goes through.
Items(p) == {Target[p]} \cup (IF IsTrade(p) THEN {Offered[p]} ELSE {})

\* The part of assertCanRequestDonation / assertCanOfferTrade that concerns
\* what never changes: owners, kinds and the two ids being different.
MayPropose(p) ==
  /\ Owner[Target[p]] # Requester[p]
  /\ IF IsTrade(p)
       THEN /\ Kind[Target[p]] = "TRADE"
            /\ Offered[p] # Target[p]
            /\ Owner[Offered[p]] = Requester[p]
            /\ Kind[Offered[p]] = "TRADE"
       ELSE Kind[Target[p]] = "DONATION"

\* The other pending proposals for the same target: the WHERE clause of the
\* automatic rejection.
Rivals(p) == {q \in Proposals : /\ q # p
                                /\ Target[q] = Target[p]
                                /\ proposal[q] = "PENDING"}

\* events.publish never throws: the handler goes on whether or not the broker
\* confirmed, so only the attempt is recorded here.
Announce(type, p) == announced' = [announced EXCEPT ![<<type, p>>] = @ + 1]
=============================================================================
