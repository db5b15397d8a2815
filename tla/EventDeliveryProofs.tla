------------------------- MODULE EventDeliveryProofs -------------------------
(***************************************************************************)
(* Theorems about EventDelivery, for every number of events, replicas and  *)
(* concurrent deliveries, and any number of faults.                        *)
(***************************************************************************)
EXTENDS EventDelivery, TLAPS

USE PublisherAssumption, OutboxAssumption

\* The parser takes what the type of the events describes, and nothing else.
\* (records only says which of the two parts are objects.)
THEOREM ParserIsExact ==
  ASSUME NEW m, m.records \subseteq {"message", "data"}
  PROVE  Parses(m) <=> IsMarketplaceEvent(m)
<1> USE DEF isRecord, EventTypes, ProposalTypes, Texts
<1>1. ASSUME Parses(m) PROVE IsMarketplaceEvent(m)
  <2>1. /\ m.records = {"message", "data"} /\ m.type \in EventTypes
        /\ m.eventId = "text" /\ m.version = 1 /\ m.occurredAt = "date"
        /\ m.source = "marketplace-service"
    BY <1>1 DEF Parses, commonEnvelope
  <2>2. \A f \in RequiredFields(m.type) : f \in DOMAIN m.data /\ m.data[f] \in Texts
    BY <1>1 DEF Parses, requiredString
  <2>3. \A f \in NullableFields(m.type) :
          f \in DOMAIN m.data /\ m.data[f] \in Texts \cup {"null"}
    BY <1>1 DEF Parses, nullableString
  <2>4. Extends(m.data, MarketplaceEventDataMap(m.type))
    <3> DEFINE d == m.data
    <3>1. CASE m.type = "proposal.created"
      <4> DEFINE event == [proposalId |-> d["proposalId"], targetListingId |-> d["targetListingId"],
                           requesterId |-> d["requesterId"], proposalType |-> d["proposalType"],
                           offeredListingId |-> d["offeredListingId"]]
      <4>1. d["proposalType"] \in ProposalTypes BY <1>1, <3>1 DEF Parses
      <4>2. event \in ProposalCreatedData
        BY <2>2, <2>3, <3>1, <4>1 DEF RequiredFields, NullableFields, ProposalCreatedData
      <4>3. \A f \in DOMAIN event : f \in DOMAIN d /\ d[f] = event[f]
        BY <2>2, <2>3, <3>1 DEF RequiredFields, NullableFields
      <4>4. MarketplaceEventDataMap(m.type) = ProposalCreatedData
        BY <3>1 DEF MarketplaceEventDataMap
      <4> HIDE DEF event
      <4> QED BY <4>2, <4>3, <4>4 DEF Extends
    <3>2. CASE m.type = "proposal.rejected"
      <4> DEFINE event == [proposalId |-> d["proposalId"], targetListingId |-> d["targetListingId"],
                           requesterId |-> d["requesterId"], ownerId |-> d["ownerId"]]
      <4>2. event \in ProposalRejectedData
        BY <2>2, <3>2 DEF RequiredFields, ProposalRejectedData
      <4>3. \A f \in DOMAIN event : f \in DOMAIN d /\ d[f] = event[f]
        BY <2>2, <3>2 DEF RequiredFields
      <4>4. MarketplaceEventDataMap(m.type) = ProposalRejectedData
        BY <3>2 DEF MarketplaceEventDataMap
      <4> HIDE DEF event
      <4> QED BY <4>2, <4>3, <4>4 DEF Extends
    <3>3. CASE m.type \in {"proposal.accepted", "transaction.completed"}
      <4> DEFINE event == [proposalId |-> d["proposalId"], transactionId |-> d["transactionId"],
                           targetListingId |-> d["targetListingId"],
                           offeredListingId |-> d["offeredListingId"],
                           ownerId |-> d["ownerId"], requesterId |-> d["requesterId"]]
      <4>2. event \in ProposalAcceptedData
        BY <2>2, <2>3, <3>3 DEF RequiredFields, NullableFields, ProposalAcceptedData
      <4>3. \A f \in DOMAIN event : f \in DOMAIN d /\ d[f] = event[f]
        BY <2>2, <2>3, <3>3 DEF RequiredFields, NullableFields
      <4>4. MarketplaceEventDataMap(m.type) = ProposalAcceptedData
        BY <3>3 DEF MarketplaceEventDataMap, TransactionCompletedData
      <4> HIDE DEF event
      <4> QED BY <4>2, <4>3, <4>4 DEF Extends
    <3> QED BY <2>1, <3>1, <3>2, <3>3
  <2> QED BY <2>1, <2>4 DEF IsMarketplaceEvent
<1>2. ASSUME IsMarketplaceEvent(m) PROVE Parses(m)
  <2>1. PICK event \in MarketplaceEventDataMap(m.type) :
          \A f \in DOMAIN event : f \in DOMAIN m.data /\ m.data[f] = event[f]
    BY <1>2 DEF IsMarketplaceEvent, Extends
  <2>2. m.type \in EventTypes BY <1>2 DEF IsMarketplaceEvent
  <2>3. isRecord(m, "message") /\ commonEnvelope(m)
    BY <1>2 DEF IsMarketplaceEvent, commonEnvelope
  <2>4. /\ \A f \in RequiredFields(m.type) : f \in DOMAIN event /\ event[f] \in Texts
        /\ \A f \in NullableFields(m.type) : f \in DOMAIN event /\ event[f] \in Texts \cup {"null"}
        /\ m.type = "proposal.created" =>
             "proposalType" \in DOMAIN event /\ event["proposalType"] \in ProposalTypes
    <3>1. CASE m.type = "proposal.created"
      BY <2>1, <3>1 DEF MarketplaceEventDataMap, ProposalCreatedData, RequiredFields, NullableFields
    <3>2. CASE m.type = "proposal.rejected"
      BY <2>1, <3>2 DEF MarketplaceEventDataMap, ProposalRejectedData, RequiredFields, NullableFields
    <3>3. CASE m.type \in {"proposal.accepted", "transaction.completed"}
      BY <2>1, <3>3 DEF MarketplaceEventDataMap, ProposalAcceptedData, TransactionCompletedData,
                        RequiredFields, NullableFields
    <3> QED BY <2>2, <3>1, <3>2, <3>3
  <2> QED BY <2>1, <2>2, <2>3, <2>4 DEF Parses, requiredString, nullableString
<1> QED BY <1>1, <1>2

\* Whatever the Marketplace service publishes, about donations and about swaps,
\* the Notification service takes, and keeps every field of it.
THEOREM EventsAreUnderstood ==
  ASSUME NEW type \in EventTypes, NEW swap \in BOOLEAN
  PROVE  /\ Parses(EventOf(type, swap))
         /\ parseMarketplaceEvent(EventOf(type, swap)) = EventOf(type, swap)
<1> DEFINE m == EventOf(type, swap)
<1> USE DEF EventOf, Envelope, RequiredFields, NullableFields
<1>1. /\ m.records = {"message", "data"} /\ m.type = type
      /\ m.eventId = "text" /\ m.version = 1 /\ m.occurredAt = "date"
      /\ m.source = "marketplace-service"
  BY DEF ProposalCreated, ProposalRejected, AboutTransaction
<1>2. /\ DOMAIN m.data = RequiredFields(type) \cup NullableFields(type)
      /\ m.data = [f \in DOMAIN m.data |-> m.data[f]]
      /\ \A f \in RequiredFields(type) : m.data[f] \in Texts
      /\ \A f \in NullableFields(type) : m.data[f] \in Texts \cup {"null"}
      /\ type = "proposal.created" => m.data["proposalType"] \in ProposalTypes
  <2> USE DEF Texts, ProposalTypes
  <2>1. CASE type = "proposal.created"
    <3>1. m.data = [proposalId |-> "text", targetListingId |-> "text", requesterId |-> "text",
                    proposalType |-> IF swap THEN "TRADE_OFFER" ELSE "DONATION_REQUEST",
                    offeredListingId |-> IF swap THEN "text" ELSE "null"]
      BY <2>1 DEF ProposalCreated
    <3> HIDE DEF m
    <3> QED BY <2>1, <3>1
  <2>2. CASE type = "proposal.rejected"
    <3>1. m.data = [proposalId |-> "text", targetListingId |-> "text", requesterId |-> "text",
                    ownerId |-> "text"]
      BY <2>2 DEF ProposalRejected
    <3> HIDE DEF m
    <3> QED BY <2>2, <3>1
  <2>3. CASE type \in {"proposal.accepted", "transaction.completed"}
    <3>1. m.data = [proposalId |-> "text", transactionId |-> "text", targetListingId |-> "text",
                    offeredListingId |-> IF swap THEN "text" ELSE "null", ownerId |-> "text",
                    requesterId |-> "text"]
      BY <2>3 DEF AboutTransaction
    <3> HIDE DEF m
    <3> QED BY <2>3, <3>1
  <2> QED BY <2>1, <2>2, <2>3 DEF EventTypes
<1>3. m = [m EXCEPT !.data = m.data]
  BY DEF ProposalCreated, ProposalRejected, AboutTransaction
<1> HIDE DEF m
<1>4. Parses(m)
  BY <1>1, <1>2 DEF Parses, isRecord, commonEnvelope, requiredString, nullableString
<1>5. parseMarketplaceEvent(m) = m
  BY <1>1, <1>2, <1>3 DEF parseMarketplaceEvent
<1> QED BY <1>4, <1>5 DEF m

\* So a message that is discarded is nobody's event, and one that is delivered
\* is an event of the Marketplace service.
LEMMA UnderstoodIsOwn == Understood = Events \ Foreign
<1>1. ASSUME NEW e \in Events \ Foreign PROVE Parses(Message(e))
  <2>1. EventType[e] \in EventTypes BY ConsumerAssumption
  <2>2. Message(e) = EventOf(EventType[e], e \in Swaps) /\ (e \in Swaps) \in BOOLEAN
    BY DEF Message
  <2> HIDE DEF Message
  <2> QED BY <2>1, <2>2, EventsAreUnderstood
<1>2. ASSUME NEW x \in Foreign PROVE ~Parses(Message(x))
  <2>1. Message(x) = ForeignMessage[x] BY DEF Message
  <2>2. ForeignMessage[x].records \subseteq {"message", "data"} /\ ~IsMarketplaceEvent(ForeignMessage[x])
    BY ConsumerAssumption
  <2> QED BY <2>1, <2>2, ParserIsExact
<1> QED BY <1>1, <1>2 DEF Understood

\* The steps of the Marketplace service, and of the wire.
SendingStep == \/ \E e \in OutboxEvents : Commit(e)
               \/ \E w \in Workers : WorkerStep(w)
               \/ \E d \in DirectEvents : DirectStep(d)
               \/ \E s \in Senders : PublishStep(s) /\ UNCHANGED outboxVars
               \/ \E e \in Events : /\ StrayArrives(e) \/ StrayLost(e)
                                    /\ UNCHANGED outboxVars

\* Next is one of three kinds of steps.
LEMMA StepKinds ==
  ASSUME [Next]_vars
  PROVE  \/ SendingStep /\ UNCHANGED consumerVars
         \/ \E h \in Handlers : ConsumerStep(h) /\ UNCHANGED outboxVars
         \/ UNCHANGED vars
BY DEF Next, SendingStep, Quiet, vars

-----------------------------------------------------------------------------
(* Type correctness. *)

\* publishEnvelope and the wire keep the publisher's variables in their types.
LEMMA PublisherStepType ==
  ASSUME PublisherTypeOK,
         \/ \E s \in Senders : PublishStep(s)
         \/ \E e \in Events : StrayArrives(e) \/ StrayLost(e)
  PROVE  PublisherTypeOK'
<1> USE DEF PublisherTypeOK, PubPcs
<1>1. ASSUME NEW s \in Senders, PublishOnChannel(s) \/ Confirmed(s)
      PROVE  PublisherTypeOK'
  BY <1>1 DEF PublishOnChannel, Confirmed, Advance
<1>2. ASSUME NEW s \in Senders, BrokerAccepts(s) PROVE PublisherTypeOK'
  BY <1>2 DEF BrokerAccepts, Advance, OneMore
<1>3. ASSUME NEW s \in Senders, AttemptFails(s) PROVE PublisherTypeOK'
  BY <1>3 DEF AttemptFails, Abandon, OneMore, Fails
<1>4. ASSUME NEW e \in Events, StrayArrives(e) \/ StrayLost(e)
      PROVE  PublisherTypeOK'
  BY <1>4 DEF StrayArrives, StrayLost, OneMore, OneLess
<1> QED BY <1>1, <1>2, <1>3, <1>4 DEF PublishStep

\* So do the workers and the handlers of direct events.
LEMMA OutboxStepType ==
  ASSUME PublisherTypeOK, OutboxTypeOK,
         \/ \E e \in OutboxEvents : Commit(e)
         \/ \E w \in Workers : WorkerStep(w)
         \/ \E d \in DirectEvents : DirectStep(d)
  PROVE  PublisherTypeOK' /\ OutboxTypeOK'
<1> USE DEF PublisherTypeOK, PubPcs, OutboxTypeOK, RowStates, publisherVars
<1>1. ASSUME NEW e \in OutboxEvents, Commit(e)
      PROVE  PublisherTypeOK' /\ OutboxTypeOK'
  BY <1>1 DEF Commit
<1>2. ASSUME NEW w \in Workers, WorkerStep(w)
      PROVE  PublisherTypeOK' /\ OutboxTypeOK'
  <2>1. CASE Sweep(w)
    BY <2>1 DEF Sweep, Batches, Pending
  <2>2. CASE DeliverNext(w)
    BY <2>2 DEF DeliverNext, Begin, outboxVars
  <2>3. CASE LeaveLoop(w) \/ Restart(w)
    BY <2>3 DEF LeaveLoop, Restart
  <2>4. CASE Mark(w)
    BY <2>4 DEF Mark, Return, OneMore
  <2>5. CASE MarkFails(w)
    BY <2>5 DEF MarkFails, Return, Fails
  <2>6. CASE Stop(w)
    BY <2>6 DEF Stop, Fails
  <2>7. CASE WorkerCrash(w)
    BY <2>7 DEF WorkerCrash, Fails, Abandon, OneMore
  <2> QED BY <1>2, <2>1, <2>2, <2>3, <2>4, <2>5, <2>6, <2>7 DEF WorkerStep, WorkerGoesOn
<1>3. ASSUME NEW d \in DirectEvents, DirectStep(d)
      PROVE  PublisherTypeOK' /\ OutboxTypeOK'
  <2>1. CASE Happen(d)
    BY <2>1 DEF Happen
  <2>2. CASE PublishDirect(d)
    BY <2>2 DEF PublishDirect, Begin, outboxVars
  <2>3. CASE DirectCrash(d)
    BY <2>3 DEF DirectCrash, Fails, Abandon, OneMore, outboxVars
  <2> QED BY <1>3, <2>1, <2>2, <2>3 DEF DirectStep
<1> QED BY <1>1, <1>2, <1>3

\* And the consumers.
LEMMA ConsumerStepType ==
  ASSUME PublisherTypeOK, ConsumerTypeOK, NEW h \in Handlers, ConsumerStep(h)
  PROVE  PublisherTypeOK' /\ ConsumerTypeOK'
<1> USE DEF PublisherTypeOK, PubPcs, ConsumerTypeOK, HandlerPcs, publisherVars
<1>1. ASSUME NEW e \in Events, Deliver(h, e)
      PROVE  PublisherTypeOK' /\ ConsumerTypeOK'
  BY <1>1 DEF Deliver, HandlerAt, OneLess
<1>0. ASSUME NEW e \in Events, Discard(h, e)
      PROVE  PublisherTypeOK' /\ ConsumerTypeOK'
  BY <1>0 DEF Discard, OneLess, consumerVars
<1>2. CASE Record(h)
  BY <1>2 DEF Record, HandlerAt, Insert, OneMore
<1>3. CASE RecordFails(h)
  BY <1>3 DEF RecordFails, HandlerAt, Insert, OneMore, Fails
<1>4. CASE Ack(h)
  BY <1>4 DEF Ack, HandlerAt
<1>5. CASE Nack(h)
  BY <1>5 DEF Nack, HandlerAt, Requeue, OneMore
<1>6. CASE ChannelLost(h)
  <2>1. CASE handling[h] \in Events
    BY <1>6, <2>1 DEF ChannelLost, Fails, Requeue, OneMore
  <2>2. CASE handling[h] = NoEvent
    <3>1. queue' = queue \/ queue' = [queue EXCEPT ![NoEvent] = @ + 1]
      BY <1>6, <2>2 DEF ChannelLost, Requeue, OneMore
    <3>2. queue' \in [Events -> Nat] BY <3>1
    <3> QED BY <1>6, <3>2 DEF ChannelLost, Fails, Requeue
  <2> QED BY <2>1, <2>2
<1>7. CASE ConsumerCrash(h)
  BY <1>7 DEF ConsumerCrash, Fails, Requeue, OneMore
<1> QED
  BY <1>0, <1>1, <1>2, <1>3, <1>4, <1>5, <1>6, <1>7 DEF ConsumerStep, HandlerGoesOn

\* Every step keeps every variable in its type.
LEMMA TypeStep == ASSUME TypeOK, [Next]_vars PROVE TypeOK'
<1> USE DEF TypeOK
<1>1. CASE SendingStep /\ UNCHANGED consumerVars
  <2>1. ConsumerTypeOK'
    BY <1>1 DEF ConsumerTypeOK, consumerVars
  <2>2. CASE \/ \E s \in Senders : PublishStep(s) /\ UNCHANGED outboxVars
             \/ \E e \in Events : /\ StrayArrives(e) \/ StrayLost(e)
                                  /\ UNCHANGED outboxVars
    <3>1. OutboxTypeOK' BY <2>2 DEF OutboxTypeOK, outboxVars
    <3> QED BY <2>1, <2>2, <3>1, PublisherStepType
  <2> QED BY <1>1, <2>1, <2>2, OutboxStepType DEF SendingStep
<1>2. CASE \E h \in Handlers : ConsumerStep(h) /\ UNCHANGED outboxVars
  <2>1. OutboxTypeOK' BY <1>2 DEF OutboxTypeOK, outboxVars
  <2> QED BY <1>2, <2>1, ConsumerStepType
<1>3. CASE UNCHANGED vars
  BY <1>3 DEF vars, publisherVars, outboxVars, consumerVars, PublisherTypeOK,
              OutboxTypeOK, ConsumerTypeOK
<1> QED BY <1>1, <1>2, <1>3, StepKinds

\* The types hold at the start.
LEMMA TypeInit == ASSUME Init PROVE TypeOK
BY DEF Init, PublisherInit, OutboxInit, ConsumerInit, TypeOK, PublisherTypeOK, PubPcs,
       OutboxTypeOK, RowStates, ConsumerTypeOK, HandlerPcs

\* Every variable keeps its type, under every fault.
THEOREM TypeCorrect == Spec => []TypeOK
<1> QED BY TypeInit, TypeStep, PTL DEF Spec

-----------------------------------------------------------------------------
(* The queue, the deliveries and the inbox do not lose an event. *)

\* Nothing on the sending side takes a message out of the queue.
LEMMA QueueGrows ==
  ASSUME TypeOK, SendingStep, NEW e \in Events
  PROVE  queue'[e] >= queue[e]
<1> USE DEF TypeOK, PublisherTypeOK, publisherVars
<1>1. CASE \E s \in Senders : PublishStep(s)
  BY <1>1 DEF PublishStep, PublishOnChannel, BrokerAccepts, Confirmed, AttemptFails, OneMore
<1>2. CASE \E f \in Events : StrayArrives(f) \/ StrayLost(f)
  BY <1>2 DEF StrayArrives, StrayLost, OneMore
<1>3. CASE \/ \E f \in OutboxEvents : Commit(f)
           \/ \E w \in Workers : WorkerStep(w)
           \/ \E d \in DirectEvents : DirectStep(d)
  <2>1. queue' = queue
    BY <1>3 DEF Commit, WorkerStep, WorkerGoesOn, Sweep, DeliverNext, LeaveLoop, Mark,
                Restart, MarkFails, Return, Stop, WorkerCrash, DirectStep, Happen,
                PublishDirect, DirectCrash, Begin
  <2> QED BY <2>1
<1> QED BY <1>1, <1>2, <1>3 DEF SendingStep

\* What the broker or Notification has stays with one of them.
LEMMA KeptStays ==
  ASSUME TypeOK, LiveIsBusy, RecordedBeforeAck, [Next]_vars,
         NEW e \in Events \ Foreign, Kept(e)
  PROVE  Kept(e)'
<1> USE DEF TypeOK, PublisherTypeOK, ConsumerTypeOK, Kept, publisherVars
<1>1. CASE SendingStep /\ UNCHANGED consumerVars
  BY <1>1, QueueGrows, TypeStep DEF consumerVars
<1>2. CASE \E h \in Handlers : ConsumerStep(h) /\ UNCHANGED outboxVars
  <2>0. PICK h \in Handlers : ConsumerStep(h) BY <1>2
  <2>1. CASE \E f \in Events : Deliver(h, f)
    <3>1. PICK f \in Events : Deliver(h, f) BY <2>1
    <3>2. h \notin live BY <3>1 DEF Deliver, HandlerAt, LiveIsBusy
    <3> QED BY <3>1, <3>2 DEF Deliver, OneLess
  <2>5. CASE \E x \in Events : Discard(h, x)
    <3>1. PICK x \in Events : Discard(h, x) BY <2>5
    <3>2. x # e BY <3>1, UnderstoodIsOwn DEF Discard
    <3> QED BY <3>1, <3>2 DEF Discard, OneLess, consumerVars
  <2>2. CASE Record(h) \/ RecordFails(h)
    BY <2>2 DEF Record, RecordFails, Insert, OneMore
  <2>3. CASE Ack(h)
    BY <2>3 DEF Ack, HandlerAt, RecordedBeforeAck
  <2>4. CASE Requeue(h)
    <3>1. CASE h \in live
      <4>1. handling[h] \in Events BY <3>1 DEF LiveIsBusy
      <4>2. queue'[e] >= queue[e] /\ queue'[handling[h]] > 0
        BY <2>4, <3>1, <4>1 DEF Requeue, OneMore
      <4>3. handling' = handling /\ inbox' = inbox /\ live' = live \ {h}
        BY <2>4 DEF Requeue
      <4>4. queue[e] \in Nat /\ queue'[e] \in Nat BY TypeStep
      <4>5. CASE inbox[e] > 0 \/ queue[e] > 0
        BY <4>2, <4>3, <4>4, <4>5
      <4>6. CASE \E g \in live : handling[g] = e
        BY <4>2, <4>3, <4>6
      <4> QED BY <4>5, <4>6
    <3>2. CASE h \notin live
      BY <2>4, <3>2 DEF Requeue
    <3> QED BY <3>1, <3>2
  <2> QED
    BY <2>0, <2>1, <2>2, <2>3, <2>4, <2>5
       DEF ConsumerStep, HandlerGoesOn, Nack, ChannelLost, ConsumerCrash
<1>3. CASE UNCHANGED vars
  BY <1>3 DEF vars, consumerVars
<1> QED BY <1>1, <1>2, <1>3, StepKinds

\* A confirm, and the mark that follows it, come after the broker has stored
\* the event.
LEMMA SendersStep ==
  ASSUME TypeOK, LiveIsBusy, RecordedBeforeAck, ConfirmedIsKept, PublishedIsKept,
         NothingInvented, [Next]_vars
  PROVE  ConfirmedIsKept' /\ PublishedIsKept'
<1> USE DEF TypeOK, PublisherTypeOK, OutboxTypeOK, PubPcs, RowStates
<1>1. \A e \in Events \ Foreign : Kept(e) => Kept(e)'
  BY KeptStays
<1>0. \A s \in Senders : pubPc[s] # "idle" => envelope[s] \in Events \ Foreign
  BY DEF NothingInvented, Occurred
<1>2. CASE /\ \A s \in Senders : pubPc'[s] \in {"queued", "true"} =>
                pubPc[s] \in {"queued", "true"} /\ envelope'[s] = envelope[s]
           /\ \A e \in OutboxEvents : row'[e] = "published" => row[e] = "published"
  BY <1>0, <1>1, <1>2 DEF ConfirmedIsKept, PublishedIsKept
<1>3. CASE SendingStep /\ UNCHANGED consumerVars
  <2>1. CASE \E s \in Senders : PublishStep(s) /\ UNCHANGED outboxVars
    <3>1. PICK s \in Senders : PublishStep(s) /\ UNCHANGED outboxVars BY <2>1
    <3>2. CASE BrokerAccepts(s)
      <4>1. queue'[envelope[s]] > 0 /\ envelope' = envelope /\ row' = row
        BY <3>1, <3>2 DEF BrokerAccepts, Advance, OneMore, outboxVars
      <4>2. \A t \in Senders : pubPc'[t] \in {"queued", "true"} =>
              t = s \/ pubPc[t] \in {"queued", "true"}
        BY <3>2 DEF BrokerAccepts, Advance
      <4>3. \A t \in Senders : pubPc'[t] \in {"queued", "true"} => Kept(envelope[t])'
        BY <1>0, <1>1, <4>1, <4>2 DEF ConfirmedIsKept, Kept
      <4> QED BY <1>1, <4>1, <4>3 DEF ConfirmedIsKept, PublishedIsKept
    <3>3. CASE PublishOnChannel(s) \/ Confirmed(s) \/ AttemptFails(s)
      BY <1>2, <3>1, <3>3 DEF PublishOnChannel, Confirmed, AttemptFails, Advance, outboxVars
    <3> QED BY <3>1, <3>2, <3>3 DEF PublishStep
  <2>2. CASE \E e \in Events : /\ StrayArrives(e) \/ StrayLost(e)
                               /\ UNCHANGED outboxVars
    BY <1>2, <2>2 DEF StrayArrives, StrayLost, outboxVars
  <2>3. CASE \E e \in OutboxEvents : Commit(e)
    BY <1>2, <2>3 DEF Commit, publisherVars
  <2>4. CASE \E d \in DirectEvents : DirectStep(d)
    BY <1>2, <2>4 DEF DirectStep, Happen, PublishDirect, DirectCrash, Begin,
                      publisherVars, outboxVars
  <2>5. CASE \E w \in Workers : WorkerStep(w)
    <3>1. PICK w \in Workers : WorkerStep(w) BY <2>5
    <3>2. CASE Mark(w)
      <4>1. /\ envelope' = envelope
            /\ \A s \in Senders : pubPc'[s] \in {"queued", "true"} => pubPc'[s] = pubPc[s]
        BY <3>2 DEF Mark, Return
      <4>2. \A e \in OutboxEvents : row'[e] = "published" =>
              row[e] = "published" \/ (e = envelope[w] /\ pubPc[w] = "true")
        BY <3>2 DEF Mark
      <4> QED BY <1>0, <1>1, <4>1, <4>2 DEF ConfirmedIsKept, PublishedIsKept
    <3>3. CASE Sweep(w) \/ DeliverNext(w) \/ LeaveLoop(w) \/ Restart(w)
      BY <1>2, <3>3 DEF Sweep, DeliverNext, LeaveLoop, Restart, Begin,
                        publisherVars, outboxVars
    <3>4. CASE MarkFails(w) \/ Stop(w) \/ WorkerCrash(w)
      BY <1>2, <3>4 DEF MarkFails, Return, Stop, WorkerCrash
    <3> QED BY <3>1, <3>2, <3>3, <3>4 DEF WorkerStep, WorkerGoesOn
  <2> QED BY <1>3, <2>1, <2>2, <2>3, <2>4, <2>5 DEF SendingStep
<1>4. CASE \E h \in Handlers : ConsumerStep(h) /\ UNCHANGED outboxVars
  <2>1. UNCHANGED <<pubPc, envelope, row>>
    BY <1>4 DEF ConsumerStep, HandlerGoesOn, Deliver, Discard, Record, Ack, Nack,
                RecordFails, ChannelLost, ConsumerCrash, Requeue, publisherVars, outboxVars
  <2> QED BY <1>2, <2>1
<1>5. CASE UNCHANGED vars
  BY <1>2, <1>5 DEF vars, publisherVars, outboxVars
<1> QED BY <1>3, <1>4, <1>5, StepKinds

\* A handler acknowledges after it has recorded, and records once.
LEMMA ConsumersStep ==
  ASSUME TypeOK, LiveIsBusy, RecordedBeforeAck, RecordedOnce, [Next]_vars
  PROVE  LiveIsBusy' /\ RecordedBeforeAck' /\ RecordedOnce'
<1> USE DEF TypeOK, ConsumerTypeOK, HandlerPcs, LiveIsBusy, RecordedBeforeAck, RecordedOnce
<1>1. CASE UNCHANGED consumerVars
  BY <1>1 DEF consumerVars
<1>2. CASE \E h \in Handlers : ConsumerStep(h)
  <2>0. PICK h \in Handlers : ConsumerStep(h) BY <1>2
  <2>1. CASE \E f \in Events : Deliver(h, f)
    BY <2>1 DEF Deliver, HandlerAt
  <2>6. CASE \E f \in Events : Discard(h, f)
    BY <2>6 DEF Discard, consumerVars
  <2>2. CASE Record(h)
    BY <2>2 DEF Record, HandlerAt, Insert, OneMore
  <2>3. CASE RecordFails(h)
    BY <2>3 DEF RecordFails, HandlerAt, Insert, OneMore
  <2>4. CASE Ack(h)
    BY <2>4 DEF Ack, HandlerAt
  <2>5. CASE Nack(h) \/ ChannelLost(h) \/ ConsumerCrash(h)
    BY <2>5 DEF Nack, ChannelLost, ConsumerCrash, HandlerAt, Requeue
  <2> QED BY <2>0, <2>1, <2>2, <2>3, <2>4, <2>5, <2>6 DEF ConsumerStep, HandlerGoesOn
<1> QED BY <1>1, <1>2, StepKinds DEF vars, consumerVars

-----------------------------------------------------------------------------
(* Copies are made of what happened, and what happened stays so. *)

\* Rows are never deleted, and a commit is never undone.
LEMMA OccurredStays ==
  ASSUME TypeOK, [Next]_vars, NEW e \in Events, Occurred(e)
  PROVE  Occurred(e)'
<1> USE DEF TypeOK, OutboxTypeOK, RowStates, Occurred
<1>1. CASE UNCHANGED <<row, happened>>
  BY <1>1
<1>2. CASE \/ \E f \in OutboxEvents : Commit(f)
           \/ \E w \in Workers : WorkerStep(w)
           \/ \E d \in DirectEvents : DirectStep(d)
  <2>1. CASE \E f \in OutboxEvents : Commit(f)
    BY <2>1 DEF Commit
  <2>2. CASE \E w \in Workers : Mark(w)
    BY <2>2 DEF Mark
  <2>3. CASE \E w \in Workers : WorkerStep(w) /\ ~Mark(w)
    BY <1>1, <2>3 DEF WorkerStep, WorkerGoesOn, Sweep, DeliverNext, LeaveLoop, Restart,
                      MarkFails, Stop, WorkerCrash, outboxVars
  <2>4. CASE \E d \in DirectEvents : DirectStep(d)
    BY <2>4 DEF DirectStep, Happen, PublishDirect, DirectCrash, outboxVars
  <2> QED BY <1>2, <2>1, <2>2, <2>3, <2>4
<1> QED BY <1>1, <1>2, StepKinds DEF SendingStep, outboxVars, vars

\* publishEnvelope and the wire carry what senders were given.
LEMMA WireStep ==
  ASSUME TypeOK, NothingInvented, [Next]_vars, UNCHANGED <<outboxVars, consumerVars>>,
         \/ \E s \in Senders : PublishStep(s)
         \/ \E e \in Events : StrayArrives(e) \/ StrayLost(e)
  PROVE  NothingInvented'
<1> USE DEF TypeOK, PublisherTypeOK
<1>1. /\ \A e \in Events : Occurred(e)' <=> Occurred(e)
      /\ handlerPc' = handlerPc /\ handling' = handling
      /\ batch' = batch /\ row' = row /\ inbox' = inbox
  BY DEF Occurred, outboxVars, consumerVars
<1>0. ASSUME \A e \in Events : /\ queue'[e] > 0 \/ strays'[e] > 0 => Occurred(e) \/ e \in Foreign
                               /\ inbox[e] > 0 => Occurred(e),
             \A s \in Senders : pubPc'[s] # "idle" => pubPc[s] # "idle",
             envelope' = envelope
      PROVE  NothingInvented'
  <2>1. \A h \in Handlers : handlerPc'[h] # "idle" => Occurred(handling[h])'
    BY <1>1 DEF NothingInvented, ConsumerTypeOK
  <2>2. \A t \in Senders : pubPc'[t] # "idle" => Occurred(envelope[t])'
    BY <1>0, <1>1 DEF NothingInvented, Occurred
  <2>3. \A w \in Workers : pubPc'[w] # "idle" => envelope'[w] \in OutboxEvents
    BY <1>0 DEF NothingInvented
  <2>4. \A e \in Events : /\ queue'[e] > 0 \/ strays'[e] > 0 => Occurred(e)' \/ e \in Foreign
                          /\ inbox'[e] > 0 => Occurred(e)'
    <3>1. \A e \in Events : /\ queue'[e] > 0 \/ strays'[e] > 0 => Occurred(e) \/ e \in Foreign
                            /\ inbox[e] > 0 => Occurred(e)
      BY <1>0
    <3>2. \A e \in Events : (Occurred(e)' <=> Occurred(e)) /\ inbox' = inbox BY <1>1
    <3> QED BY <3>1, <3>2, Zenon
  <2>5. \A w \in Workers : \A e \in batch'[w] : row'[e] # "absent"
    BY <1>1 DEF NothingInvented
  <2> QED BY <2>1, <2>2, <2>3, <2>4, <2>5 DEF NothingInvented
<1>2. CASE \E s \in Senders : PublishStep(s)
  <2>1. PICK s \in Senders : PublishStep(s) BY <1>2
  <2>2. envelope' = envelope /\ pubPc[s] # "idle"
        /\ \A t \in Senders : pubPc'[t] # "idle" => pubPc[t] # "idle"
    BY <2>1 DEF PublishStep, PublishOnChannel, BrokerAccepts, Confirmed, AttemptFails, Advance
  <2>3. \A e \in Events : /\ queue'[e] > 0 => queue[e] > 0 \/ e = envelope[s]
                          /\ strays'[e] > 0 => strays[e] > 0 \/ e = envelope[s]
    BY <2>1 DEF PublishStep, PublishOnChannel, BrokerAccepts, Confirmed, AttemptFails,
                Abandon, OneMore
  <2>4. Occurred(envelope[s]) BY <2>2 DEF NothingInvented
  <2>5. \A e \in Events : /\ queue'[e] > 0 \/ strays'[e] > 0 => Occurred(e) \/ e \in Foreign
                          /\ inbox[e] > 0 => Occurred(e)
    BY <2>3, <2>4, Zenon DEF NothingInvented
  <2> QED BY <1>0, <2>2, <2>5
<1>3. CASE \E e \in Events : StrayArrives(e) \/ StrayLost(e)
  <2>1. pubPc' = pubPc /\ envelope' = envelope
    BY <1>3 DEF StrayArrives, StrayLost
  <2>2. \A e \in Events : /\ queue'[e] > 0 => queue[e] > 0 \/ strays[e] > 0
                          /\ strays'[e] > 0 => strays[e] > 0
    BY <1>3 DEF StrayArrives, StrayLost, OneMore, OneLess
  <2>3. \A e \in Events : /\ queue'[e] > 0 \/ strays'[e] > 0 => Occurred(e) \/ e \in Foreign
                          /\ inbox[e] > 0 => Occurred(e)
    BY <2>2, Zenon DEF NothingInvented
  <2> QED BY <1>0, <2>1, <2>3
<1> QED BY <1>2, <1>3

\* A sender begins with an event that happened.
LEMMA BeginStep ==
  ASSUME TypeOK, NothingInvented, [Next]_vars, UNCHANGED consumerVars,
         \/ \E e \in OutboxEvents : Commit(e)
         \/ \E w \in Workers : WorkerStep(w)
         \/ \E d \in DirectEvents : DirectStep(d)
  PROVE  NothingInvented'
<1> USE DEF TypeOK, PublisherTypeOK, OutboxTypeOK, ConsumerTypeOK
<1>1. \A e \in Events : Occurred(e) => Occurred(e)'
  BY OccurredStays
<1>2. /\ \A h \in Handlers : handlerPc'[h] = handlerPc[h] /\ handling'[h] = handling[h]
      /\ inbox' = inbox
  BY DEF consumerVars
<1>3. ASSUME \A e \in Events : queue'[e] > 0 \/ strays'[e] > 0 => Occurred(e) \/ e \in Foreign,
             \A s \in Senders : pubPc'[s] # "idle" => Occurred(envelope'[s]),
             \A w \in Workers : \A e \in batch'[w] : row[e] # "absent",
             \A w \in Workers : pubPc'[w] # "idle" => envelope'[w] \in OutboxEvents
      PROVE  NothingInvented'
  <2>1. \A e \in Events : /\ queue'[e] > 0 \/ strays'[e] > 0 => Occurred(e)' \/ e \in Foreign
                          /\ inbox'[e] > 0 => Occurred(e)'
    BY <1>1, <1>2, <1>3 DEF NothingInvented
  <2>2. \A h \in Handlers : handlerPc'[h] # "idle" => Occurred(handling[h])'
    BY <1>1, <1>2 DEF NothingInvented
  <2>3. \A s \in Senders : pubPc'[s] # "idle" => Occurred(envelope[s])'
    <3>1. \A s \in Senders : pubPc'[s] # "idle" => envelope'[s] \in Events
      BY TypeStep
    <3> QED BY <1>1, <1>3, <3>1 DEF Occurred
  <2>4. \A w \in Workers : \A e \in batch'[w] : row'[e] # "absent"
    <3>1. \A w \in Workers : \A e \in batch'[w] : e \in OutboxEvents
      BY TypeStep
    <3> QED BY <1>1, <1>3, <3>1 DEF Occurred
  <2> QED BY <1>2, <1>3, <2>1, <2>2, <2>3, <2>4 DEF NothingInvented
<1>4. CASE \E e \in OutboxEvents : Commit(e)
  BY <1>3, <1>4 DEF Commit, publisherVars, NothingInvented
<1>5. ASSUME NEW w \in Workers, WorkerStep(w) PROVE NothingInvented'
  <2>1. CASE Sweep(w)
    BY <1>3, <2>1 DEF Sweep, Batches, Pending, publisherVars, NothingInvented
  <2>2. CASE DeliverNext(w)
    <3>1. PICK e \in batch[w] : Begin(w, e) BY <2>2 DEF DeliverNext
    <3>2. e \in OutboxEvents /\ Occurred(e) BY DEF NothingInvented, Occurred
    <3> QED BY <1>3, <2>2, <3>1, <3>2 DEF DeliverNext, Begin, outboxVars, NothingInvented
  <2>3. CASE LeaveLoop(w) \/ Restart(w)
    BY <1>3, <2>3 DEF LeaveLoop, Restart, publisherVars, NothingInvented
  <2>4. CASE Mark(w)
    BY <1>3, <2>4 DEF Mark, Return, NothingInvented
  <2>5. CASE MarkFails(w) \/ Stop(w)
    BY <1>3, <2>5 DEF MarkFails, Return, Stop, NothingInvented
  <2>6. CASE WorkerCrash(w)
    <3>1. \A e \in Events : strays'[e] > 0 => strays[e] > 0 \/ (e = envelope[w] /\ pubPc[w] # "idle")
      BY <2>6 DEF WorkerCrash, Abandon, OneMore
    <3> QED BY <1>3, <2>6, <3>1 DEF WorkerCrash, NothingInvented
  <2> QED BY <1>5, <2>1, <2>2, <2>3, <2>4, <2>5, <2>6 DEF WorkerStep, WorkerGoesOn
<1>6. ASSUME NEW d \in DirectEvents, DirectStep(d) PROVE NothingInvented'
  <2>1. CASE Happen(d)
    BY <1>3, <2>1 DEF Happen, publisherVars, NothingInvented
  <2>2. CASE PublishDirect(d)
    BY <1>3, <2>2 DEF PublishDirect, Begin, outboxVars, Occurred, NothingInvented
  <2>3. CASE DirectCrash(d)
    <3>1. Occurred(d) /\ d \notin Workers BY <2>3 DEF DirectCrash, Occurred
    <3>2. \A e \in Events : strays'[e] > 0 => strays[e] > 0 \/ (e = envelope[d] /\ pubPc[d] # "idle")
      BY <2>3 DEF DirectCrash, Abandon, OneMore
    <3> QED BY <1>3, <2>3, <3>1, <3>2 DEF DirectCrash, outboxVars, NothingInvented
  <2> QED BY <1>6, <2>1, <2>2, <2>3 DEF DirectStep
<1> QED BY <1>4, <1>5, <1>6

\* A handler gets what was in the queue.
LEMMA HandlingStep ==
  ASSUME TypeOK, LiveIsBusy, NothingInvented, NEW h \in Handlers, ConsumerStep(h),
         UNCHANGED outboxVars
  PROVE  NothingInvented'
<1> USE DEF TypeOK, PublisherTypeOK, ConsumerTypeOK, publisherVars
<1>1. /\ \A e \in Events : Occurred(e)' = Occurred(e)
      /\ batch' = batch /\ row' = row
  BY DEF Occurred, outboxVars
<1>2. pubPc' = pubPc /\ envelope' = envelope /\ strays' = strays
  BY DEF ConsumerStep, HandlerGoesOn, Deliver, Discard, Record, Ack, Nack, RecordFails,
         ChannelLost, ConsumerCrash, Requeue
<1>3. ASSUME \A e \in Events : /\ queue'[e] > 0 => Occurred(e) \/ e \in Foreign
                               /\ inbox'[e] > 0 => Occurred(e),
             \A g \in Handlers : handlerPc'[g] # "idle" => Occurred(handling'[g])
      PROVE  NothingInvented'
  <2>1. \A g \in Handlers : handlerPc'[g] # "idle" => Occurred(handling[g])'
    BY <1>1, <1>3 DEF Occurred, outboxVars
  <2>2. \A s \in Senders : pubPc'[s] # "idle" => Occurred(envelope[s])'
    BY <1>1, <1>2 DEF NothingInvented
  <2> QED BY <1>1, <1>2, <1>3, <2>1, <2>2 DEF NothingInvented
<1>4. ASSUME NEW e \in Events, Deliver(h, e) PROVE NothingInvented'
  <2>1. Occurred(e) BY <1>4, UnderstoodIsOwn DEF Deliver, NothingInvented
  <2> QED BY <1>3, <1>4, <2>1 DEF Deliver, HandlerAt, OneLess, NothingInvented
<1>8. ASSUME NEW e \in Events, Discard(h, e) PROVE NothingInvented'
  BY <1>3, <1>8 DEF Discard, OneLess, consumerVars, NothingInvented
<1>5. CASE Record(h) \/ RecordFails(h)
  BY <1>3, <1>5 DEF Record, RecordFails, HandlerAt, Insert, OneMore, NothingInvented
<1>6. CASE Ack(h)
  BY <1>3, <1>6 DEF Ack, HandlerAt, NothingInvented
<1>7. CASE Nack(h) \/ ChannelLost(h) \/ ConsumerCrash(h)
  <2>1. \A e \in Events : queue'[e] > 0 =>
          queue[e] > 0 \/ (e = handling[h] /\ handlerPc[h] # "idle")
    BY <1>7 DEF Nack, ChannelLost, ConsumerCrash, Requeue, OneMore, LiveIsBusy
  <2> QED
    BY <1>3, <1>7, <2>1 DEF Nack, ChannelLost, ConsumerCrash, HandlerAt, Requeue,
                            NothingInvented
<1> QED BY <1>4, <1>5, <1>6, <1>7, <1>8 DEF ConsumerStep, HandlerGoesOn

-----------------------------------------------------------------------------
(* The invariant. *)

\* Nothing has happened yet.
LEMMA DeliveryInvInit == ASSUME Init PROVE DeliveryInv
<1>1. TypeOK BY TypeInit
<1> QED BY <1>1 DEF Init, PublisherInit, OutboxInit, ConsumerInit, DeliveryInv, RecordedOnce,
                    PublishedIsKept, ConfirmedIsKept, RecordedBeforeAck, LiveIsBusy,
                    NothingInvented

\* Every step of every part preserves the invariant.
LEMMA DeliveryInvStep == ASSUME DeliveryInv, [Next]_vars PROVE DeliveryInv'
<1>1. NothingInvented'
  <2>1. CASE SendingStep /\ UNCHANGED consumerVars
    BY <2>1, WireStep, BeginStep DEF SendingStep, DeliveryInv
  <2>2. CASE \E h \in Handlers : ConsumerStep(h) /\ UNCHANGED outboxVars
    BY <2>2, HandlingStep DEF DeliveryInv
  <2>3. CASE UNCHANGED vars
    BY <2>3 DEF vars, publisherVars, outboxVars, consumerVars, NothingInvented, Occurred,
                DeliveryInv
  <2> QED BY <2>1, <2>2, <2>3, StepKinds
<1> QED BY <1>1, TypeStep, SendersStep, ConsumersStep DEF DeliveryInv

\* Under every fault: what is confirmed, marked or recorded is where it has to
\* be, and no copy is made of what did not happen.
THEOREM DeliveryIsSafe == Spec => []DeliveryInv
<1> QED BY DeliveryInvInit, DeliveryInvStep, PTL DEF Spec

\* No rejection that is marked published is lost between the broker and the
\* inbox.
THEOREM NoRejectionIsLost == Spec => []PublishedIsKept
<1>1. DeliveryInv => PublishedIsKept BY DEF DeliveryInv
<1> QED BY <1>1, DeliveryIsSafe, PTL

\* An event has at most one row in the inbox.
THEOREM InboxHasNoDuplicates == Spec => []RecordedOnce
<1>1. DeliveryInv => RecordedOnce BY DEF DeliveryInv
<1> QED BY <1>1, DeliveryIsSafe, PTL

\* A published row is never touched again.
THEOREM PublishedStays == Spec => PublishedIsFinal
<1>1. ASSUME TypeOK, [Next]_vars, NEW e \in OutboxEvents, row[e] = "published"
      PROVE  row'[e] = "published" /\ attempts'[e] = attempts[e]
  <2> USE DEF TypeOK, OutboxTypeOK
  <2>1. CASE UNCHANGED <<row, attempts>>
    BY <1>1, <2>1
  <2>2. CASE \E f \in OutboxEvents : Commit(f)
    BY <1>1, <2>2 DEF Commit
  <2>3. CASE \E w \in Workers : WorkerStep(w)
    <3>1. PICK w \in Workers : WorkerStep(w) BY <2>3
    <3>2. CASE Mark(w)
      <4>1. CASE UNCHANGED <<row, attempts>> BY <2>1, <4>1
      <4>2. CASE envelope[w] # e BY <1>1, <3>2, <4>2 DEF Mark, OneMore
      <4> QED BY <1>1, <3>2, <4>1, <4>2 DEF Mark
    <3>3. CASE ~Mark(w)
      BY <2>1, <3>1, <3>3 DEF WorkerStep, WorkerGoesOn, Sweep, DeliverNext, LeaveLoop,
                              Restart, MarkFails, Stop, WorkerCrash, outboxVars
    <3> QED BY <3>2, <3>3
  <2>4. CASE \E d \in DirectEvents : DirectStep(d)
    BY <2>1, <2>4 DEF DirectStep, Happen, PublishDirect, DirectCrash, outboxVars
  <2> QED
    BY <2>1, <2>2, <2>3, <2>4, StepKinds, <1>1 DEF SendingStep, outboxVars, vars
<1>2. TypeOK /\ [Next]_vars
        => [\A e \in OutboxEvents : row[e] = "published" =>
              row'[e] = "published" /\ attempts'[e] = attempts[e]]_vars
  BY <1>1
<1> QED BY <1>2, TypeCorrect, PTL DEF Spec, PublishedIsFinal

\* A step that changes the stage of one event changes KnownOf there.
LEMMA KnownUpdate ==
  ASSUME NEW e \in Events, NEW v,
         \A f \in Events : Stage(f)' = IF f = e THEN v ELSE Stage(f)
  PROVE  KnownOf' = [KnownOf EXCEPT ![e] = v]
BY DEF KnownOf

\* Each commit is an occurrence, and the first insert is when it is learnt.
LEMMA ChainStep == ASSUME DeliveryInv, [Next]_vars PROVE [N!NotifiedNext]_KnownOf
<1> USE DEF DeliveryInv, TypeOK, OutboxTypeOK, RowStates, ConsumerTypeOK
<1>1. CASE UNCHANGED <<row, happened, inbox>>
  BY <1>1 DEF KnownOf, Stage, Occurred
<1>2. CASE \E e \in OutboxEvents : Commit(e) /\ UNCHANGED consumerVars
  <2>1. PICK e \in OutboxEvents : Commit(e) /\ UNCHANGED consumerVars BY <1>2
  <2>2. inbox[e] = 0 BY <2>1 DEF NothingInvented, Occurred, Commit
  <2>3. Stage(e) = "nothing" BY <2>1, <2>2 DEF Stage, Occurred, Commit
  <2>4. \A f \in Events : Stage(f)' = IF f = e THEN "happened" ELSE Stage(f)
    BY <2>1, <2>2 DEF Stage, Occurred, Commit, consumerVars
  <2>5. KnownOf' = [KnownOf EXCEPT ![e] = "happened"] BY <2>4, KnownUpdate
  <2> QED BY <2>3, <2>5 DEF N!NotifiedNext, N!Happens, KnownOf
<1>3. CASE \E d \in DirectEvents : Happen(d) /\ UNCHANGED consumerVars
  <2>1. PICK d \in DirectEvents : Happen(d) /\ UNCHANGED consumerVars BY <1>3
  <2>2. inbox[d] = 0 BY <2>1 DEF NothingInvented, Occurred, Happen
  <2>3. Stage(d) = "nothing" BY <2>1, <2>2 DEF Stage, Occurred, Happen
  <2>4. \A f \in Events : Stage(f)' = IF f = d THEN "happened" ELSE Stage(f)
    BY <2>1, <2>2 DEF Stage, Occurred, Happen, consumerVars
  <2>5. KnownOf' = [KnownOf EXCEPT ![d] = "happened"] BY <2>4, KnownUpdate
  <2> QED BY <2>3, <2>5 DEF N!NotifiedNext, N!Happens, KnownOf
<1>4. CASE \E h \in Handlers : (Record(h) \/ RecordFails(h)) /\ UNCHANGED outboxVars
  <2>1. PICK h \in Handlers : (Record(h) \/ RecordFails(h)) /\ UNCHANGED outboxVars
    BY <1>4
  <2> DEFINE e == handling[h]
  <2>2. e \in Events /\ Occurred(e)
    BY <2>1 DEF Record, RecordFails, HandlerAt, NothingInvented
  <2>3. CASE UNCHANGED inbox BY <1>1, <2>1, <2>3 DEF outboxVars
  <2>4. CASE inbox[e] = 0 /\ inbox' = OneMore(inbox, e)
    <3>1. Stage(e) = "happened" BY <2>2, <2>4 DEF Stage
    <3>2. \A f \in Events : Stage(f)' = IF f = e THEN "learnt" ELSE Stage(f)
      BY <2>1, <2>2, <2>4 DEF Stage, Occurred, OneMore, outboxVars
    <3>3. KnownOf' = [KnownOf EXCEPT ![e] = "learnt"] BY <2>2, <3>2, KnownUpdate
    <3> QED BY <2>2, <3>1, <3>3 DEF N!NotifiedNext, N!Learn, KnownOf
  <2> QED BY <2>1, <2>3, <2>4 DEF Record, RecordFails, Insert
<1>5. CASE \E h \in Handlers : /\ ConsumerStep(h) /\ UNCHANGED outboxVars
                               /\ ~Record(h) /\ ~RecordFails(h)
  BY <1>1, <1>5 DEF ConsumerStep, HandlerGoesOn, Deliver, Discard, Ack, Nack, ChannelLost,
                    ConsumerCrash, Requeue, outboxVars, consumerVars
<1>6. CASE \E w \in Workers : WorkerStep(w) /\ UNCHANGED consumerVars
  <2>1. \A e \in OutboxEvents : row'[e] = "absent" <=> row[e] = "absent"
    <3>1. PICK w \in Workers : WorkerStep(w) BY <1>6
    <3>2. CASE Mark(w) BY <3>2 DEF Mark
    <3>3. CASE ~Mark(w)
      BY <3>1, <3>3 DEF WorkerStep, WorkerGoesOn, Sweep, DeliverNext, LeaveLoop, Restart,
                        MarkFails, Stop, WorkerCrash, outboxVars
    <3> QED BY <3>2, <3>3
  <2>2. happened' = happened /\ inbox' = inbox
    BY <1>6 DEF WorkerStep, WorkerGoesOn, Sweep, DeliverNext, LeaveLoop, Restart, Mark,
                MarkFails, Stop, WorkerCrash, outboxVars, consumerVars
  <2> QED BY <2>1, <2>2 DEF KnownOf, Stage, Occurred
<1>7. CASE \E d \in DirectEvents : DirectStep(d) /\ ~Happen(d) /\ UNCHANGED consumerVars
  BY <1>1, <1>7 DEF DirectStep, PublishDirect, DirectCrash, outboxVars, consumerVars
<1>8. CASE UNCHANGED <<outboxVars, consumerVars>> \/ UNCHANGED vars
  BY <1>1, <1>8 DEF vars, outboxVars, consumerVars
<1> QED
  BY <1>2, <1>3, <1>4, <1>5, <1>6, <1>7, <1>8, StepKinds DEF SendingStep

\* Leaving fairness aside, the chain implements Notified: nothing is learnt
\* before it happened, and nothing twice.
THEOREM ChainImplementsNotified == Spec => NotifiedSafely
<1>1. ASSUME Init PROVE N!NotifiedInit
  BY <1>1 DEF Init, OutboxInit, ConsumerInit, N!NotifiedInit, KnownOf, Stage, Occurred
<1> QED BY <1>1, ChainStep, DeliveryIsSafe, PTL DEF Spec, NotifiedSafely
=============================================================================
