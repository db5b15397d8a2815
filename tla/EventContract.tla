---------------------------- MODULE EventContract ----------------------------
(***************************************************************************)
(* What the Marketplace service writes into an event and what the          *)
(* Notification service makes of it.  The two services share no code: each *)
(* has an event-contract.ts of its own, and the producer's data is any     *)
(* Record<string, string | null>.                                          *)
(*                                                                         *)
(* A message is the JSON text with what the parser tells apart: which of   *)
(* "message" and "data" are objects, and the kind of every value.  data is *)
(* a record of the fields that are there.                                  *)
(***************************************************************************)

EventTypes == {"proposal.created", "proposal.accepted", "proposal.rejected",
               "transaction.completed"}
ProposalTypes == {"DONATION_REQUEST", "TRADE_OFFER"}
Texts == ProposalTypes \cup {"text"}             \* strings that are not blank
Values == Texts \cup {"blank", "null", "other"}  \* other: not a string

-----------------------------------------------------------------------------
(* The producer *)

Envelope(type, data) ==
  [records |-> {"message", "data"}, type |-> type, eventId |-> "text", version |-> 1,
   occurredAt |-> "date", source |-> "marketplace-service", data |-> data]

ProposalCreated(swap) ==
  Envelope("proposal.created",
    [proposalId |-> "text", targetListingId |-> "text", requesterId |-> "text",
     proposalType |-> IF swap THEN "TRADE_OFFER" ELSE "DONATION_REQUEST",
     offeredListingId |-> IF swap THEN "text" ELSE "null"])

ProposalRejected ==
  Envelope("proposal.rejected",
    [proposalId |-> "text", targetListingId |-> "text", requesterId |-> "text",
     ownerId |-> "text"])

\* The event with the data of both messages about a transaction.
AboutTransaction(type, swap) ==
  Envelope(type,
    [proposalId |-> "text", transactionId |-> "text", targetListingId |-> "text",
     offeredListingId |-> IF swap THEN "text" ELSE "null", ownerId |-> "text",
     requesterId |-> "text"])

\* What is published about a donation or a swap.
EventOf(type, swap) ==
  IF type = "proposal.created" THEN ProposalCreated(swap)
  ELSE IF type = "proposal.rejected" THEN ProposalRejected
  ELSE AboutTransaction(type, swap)

-----------------------------------------------------------------------------
(* The consumer: a check that fails is a throw, in the code *)

isRecord(m, part) == part \in m.records
requiredString(data, field) == field \in DOMAIN data /\ data[field] \in Texts
nullableString(data, field) ==
  field \in DOMAIN data /\ (data[field] = "null" \/ data[field] \in Texts)

\* The inbox has VARCHAR(128): an insert of a longer id would fail for ever.
commonEnvelope(m) ==
  /\ m.eventId = "text"
  /\ m.version = 1
  /\ m.occurredAt = "date"
  /\ m.source = "marketplace-service"
  /\ isRecord(m, "data")

RequiredFields(type) ==
  {"proposalId", "targetListingId", "requesterId"}
    \cup (IF type = "proposal.created" THEN {"proposalType"} ELSE {"ownerId"})
    \cup (IF type \in {"proposal.accepted", "transaction.completed"} THEN {"transactionId"} ELSE {})

NullableFields(type) == IF type = "proposal.rejected" THEN {} ELSE {"offeredListingId"}

\* Variant with a bug: a type that was added later is unknown here.
ParsesOlderTypes(m) ==
  /\ isRecord(m, "message")
  /\ m.type \in EventTypes \ {"proposal.rejected"}
  /\ commonEnvelope(m)
  /\ \A f \in RequiredFields(m.type) : requiredString(m.data, f)
  /\ \A f \in NullableFields(m.type) : nullableString(m.data, f)

\* Variant with a bug: the type and the envelope are all that is looked at.
ParsesEnvelopeOnly(m) == isRecord(m, "message") /\ m.type \in EventTypes /\ commonEnvelope(m)

\* parseMarketplaceEvent returns.
Parses(m) ==
  /\ isRecord(m, "message")
  /\ m.type \in EventTypes
  /\ commonEnvelope(m)
  /\ \A f \in RequiredFields(m.type) : requiredString(m.data, f)
  /\ m.type = "proposal.created" => m.data["proposalType"] \in ProposalTypes
  /\ \A f \in NullableFields(m.type) : nullableString(m.data, f)

\* What it returns, and the inbox keeps: the fields it knows.
parseMarketplaceEvent(m) ==
  [m EXCEPT !.data = [f \in RequiredFields(m.type) \cup NullableFields(m.type) |-> m.data[f]]]

-----------------------------------------------------------------------------
(* The contract, as the type MarketplaceEventEnvelope states it *)

ProposalCreatedData ==
  [proposalId : Texts, targetListingId : Texts, requesterId : Texts,
   proposalType : ProposalTypes, offeredListingId : Texts \cup {"null"}]
ProposalRejectedData ==
  [proposalId : Texts, targetListingId : Texts, requesterId : Texts, ownerId : Texts]
ProposalAcceptedData ==
  [proposalId : Texts, transactionId : Texts, targetListingId : Texts,
   offeredListingId : Texts \cup {"null"}, ownerId : Texts, requesterId : Texts]
TransactionCompletedData == ProposalAcceptedData

\* A message has more fields than its type names, or has them exactly.
Extends(data, Type) ==
  \E event \in Type : \A f \in DOMAIN event : f \in DOMAIN data /\ data[f] = event[f]

MarketplaceEventDataMap(type) ==
  IF type = "proposal.created" THEN ProposalCreatedData
  ELSE IF type = "proposal.rejected" THEN ProposalRejectedData
  ELSE IF type = "proposal.accepted" THEN ProposalAcceptedData
  ELSE TransactionCompletedData

IsMarketplaceEvent(m) ==
  /\ m.records = {"message", "data"}
  /\ m.type \in EventTypes
  /\ m.eventId = "text" /\ m.version = 1 /\ m.occurredAt = "date"
  /\ m.source = "marketplace-service"
  /\ Extends(m.data, MarketplaceEventDataMap(m.type))
=============================================================================
