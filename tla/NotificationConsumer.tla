------------------------ MODULE NotificationConsumer ------------------------
(***************************************************************************)
(* RabbitMqConsumer.consume and NotificationStore.record.  A handler owns  *)
(* one delivery; prefetch(10) and the replicas make several run at once.   *)
(* When the channel is lost the broker takes the delivery back and the     *)
(* handler goes on without knowing.  A message that the parser does not      *)
(* take is discarded on the spot.                                          *)
(***************************************************************************)
EXTENDS EventPublisher, EventContract

CONSTANTS
  Handlers,        \* concurrent deliveries: prefetch, times replicas
  EventType,       \* the type of every event of the Marketplace service
  Swaps,           \* those that are about a swap
  ForeignMessage   \* what the others contain

\* Foreign messages break the contract: a message that does not could as well be
\* an event of the Marketplace service.
ASSUME ConsumerAssumption ==
  /\ EventType \in [Events \ Foreign -> EventTypes]
  /\ \A x \in Foreign : /\ ForeignMessage[x].records \subseteq {"message", "data"}
                         /\ ~IsMarketplaceEvent(ForeignMessage[x])

Message(e) == IF e \in Foreign THEN ForeignMessage[e] ELSE EventOf(EventType[e], e \in Swaps)
Understood == {e \in Events : Parses(Message(e))}

VARIABLES
  handling,    \* the event of each handler
  handlerPc,   \* where it stands in consume
  live,        \* handlers whose delivery the broker still counts as theirs
  inbox        \* number of notification_events rows with the event's id

consumerVars == <<handling, handlerPc, live, inbox>>

HandlerPcs == {"idle", "record", "ack", "nack"}

ConsumerTypeOK == /\ handling \in [Handlers -> Events \cup {NoEvent}]
                  /\ handlerPc \in [Handlers -> HandlerPcs]
                  /\ live \subseteq Handlers
                  /\ inbox \in [Events -> Nat]
                  /\ \A h \in Handlers : handlerPc[h] # "idle" => handling[h] \in Events

ConsumerInit == /\ handling = [h \in Handlers |-> NoEvent]
                /\ handlerPc = [h \in Handlers |-> "idle"]
                /\ live = {}
                /\ inbox = [e \in Events |-> 0]

HandlerAt(h, from, to) == /\ handlerPc[h] = from
                          /\ handlerPc' = [handlerPc EXCEPT ![h] = to]

\* The broker pushes a message that is an event.
Deliver(h, e) == /\ queue[e] > 0
                 /\ e \in Understood
                 /\ HandlerAt(h, "idle", "record")
                 /\ handling' = [handling EXCEPT ![h] = e]
                 /\ live' = live \cup {h}
                 /\ queue' = OneLess(queue, e)
                 /\ UNCHANGED <<strays, pubPc, envelope, attempt, spent, inbox>>

\* Variant with a bug: what cannot be parsed goes back to the queue.
RequeuesPoison(h, e) == /\ queue[e] > 0
                        /\ e \notin Understood
                        /\ handlerPc[h] = "idle"
                        /\ UNCHANGED <<publisherVars, consumerVars>>

\* The parser throws, before anything is awaited: nack without requeue.
Discard(h, e) == /\ queue[e] > 0
                 /\ e \notin Understood
                 /\ handlerPc[h] = "idle"
                 /\ queue' = OneLess(queue, e)
                 /\ UNCHANGED <<strays, pubPc, envelope, attempt, spent, consumerVars>>

\* Variant with a bug: no unique key.
InsertAlways(e) == inbox' = OneMore(inbox, e)

\* createMany with skipDuplicates, arbitrated by the primary key.
Insert(e) == inbox' = IF inbox[e] = 0 THEN OneMore(inbox, e) ELSE inbox

Record(h) == /\ HandlerAt(h, "record", "ack")
             /\ Insert(handling[h])
             /\ UNCHANGED <<publisherVars, handling, live>>

\* Variant with a bug: the message is acknowledged when the insert fails.
AcksFailure(h) == /\ HandlerAt(h, "record", "ack")
                  /\ Fails("database")
                  /\ UNCHANGED <<queue, strays, pubPc, envelope, attempt,
                                 handling, live, inbox>>

\* The insert fails, or commits and its acknowledgement is lost.
RecordFails(h) == /\ HandlerAt(h, "record", "nack")
                  /\ Fails("database")
                  /\ Insert(handling[h]) \/ UNCHANGED inbox
                  /\ UNCHANGED <<queue, strays, pubPc, envelope, attempt,
                                 handling, live>>

\* ack throws on a closed channel, and the catch block goes on to nack.
Ack(h) == /\ \/ h \in live /\ HandlerAt(h, "ack", "idle")
             \/ h \notin live /\ HandlerAt(h, "ack", "nack")
          /\ live' = live \ {h}
          /\ UNCHANGED <<publisherVars, handling, inbox>>

\* The broker takes the delivery of h back, if it still counts as its.
Requeue(h) == /\ live' = live \ {h}
              /\ queue' = IF h \in live THEN OneMore(queue, handling[h]) ELSE queue
              /\ UNCHANGED <<strays, pubPc, envelope, attempt, handling, inbox>>

\* Variant with a bug: nack(message, false, false).
NackDiscards(h) == /\ HandlerAt(h, "nack", "idle")
                   /\ live' = live \ {h}
                   /\ UNCHANGED <<publisherVars, handling, inbox>>

\* After 500 ms; on a closed channel nack throws and is ignored.
Nack(h) == /\ HandlerAt(h, "nack", "idle")
           /\ Requeue(h)
           /\ UNCHANGED spent

\* The channel of h is lost and h works on.  (All deliveries of a channel are
\* lost together in the code; here also one at a time.)
ChannelLost(h) == /\ h \in live
                  /\ Fails("delivery")
                  /\ Requeue(h)
                  /\ UNCHANGED handlerPc

ConsumerCrash(h) == /\ handlerPc[h] # "idle"
                    /\ Fails("crash")
                    /\ Requeue(h)
                    /\ handlerPc' = [handlerPc EXCEPT ![h] = "idle"]

HandlerGoesOn(h) == \/ \E e \in Events : Deliver(h, e) \/ Discard(h, e)
                    \/ Record(h) \/ Ack(h) \/ Nack(h)

ConsumerStep(h) == \/ HandlerGoesOn(h) \/ RecordFails(h)
                   \/ ChannelLost(h) \/ ConsumerCrash(h)
=============================================================================
