---------------------------- MODULE EventDelivery ----------------------------
(***************************************************************************)
(* From the transaction of the Marketplace service to the inbox of the     *)
(* Notification service: outbox rows and their workers, direct events,     *)
(* the durable queue, and the consumers.                                   *)
(***************************************************************************)
EXTENDS OutboxWorker, NotificationConsumer

\* Only rejections have an outbox.
ASSUME TypesAssumption ==
  /\ \A e \in OutboxEvents : EventType[e] = "proposal.rejected"
  /\ \A d \in DirectEvents : EventType[d] # "proposal.rejected"

vars == <<publisherVars, outboxVars, consumerVars>>

Init == PublisherInit /\ OutboxInit /\ ConsumerInit

\* Nothing is under way and nothing waits: the next event is up to the users.
Quiet == /\ \A s \in Senders : pubPc[s] \in {"idle", "true", "false"}
         /\ \A e \in Events : queue[e] = 0 /\ strays[e] = 0
         /\ \A h \in Handlers : handlerPc[h] = "idle"
         /\ Pending = {}
         /\ UNCHANGED vars

Next == \/ \E e \in OutboxEvents : Commit(e) /\ UNCHANGED consumerVars
        \/ \E w \in Workers : WorkerStep(w) /\ UNCHANGED consumerVars
        \/ \E d \in DirectEvents : DirectStep(d) /\ UNCHANGED consumerVars
        \/ \E s \in Senders : PublishStep(s) /\ UNCHANGED <<outboxVars, consumerVars>>
        \/ \E e \in Events : /\ StrayArrives(e) \/ StrayLost(e)
                             /\ UNCHANGED <<outboxVars, consumerVars>>
        \/ \E h \in Handlers : ConsumerStep(h) /\ UNCHANGED outboxVars
        \/ Quiet

Spec == Init /\ [][Next]_vars

\* The one-second timer sweeps, handlers go on, a replica that stopped is
\* replaced, the broker stores, confirms and delivers what it receives.
SenderGoesOn(s) == /\ PublishOnChannel(s) \/ BrokerAccepts(s) \/ Confirmed(s)
                   /\ UNCHANGED <<outboxVars, consumerVars>>

Fairness ==
  /\ \A w \in Workers : WF_vars(WorkerGoesOn(w) /\ UNCHANGED consumerVars)
  /\ \A s \in Senders : WF_vars(SenderGoesOn(s))
  /\ \A h \in Handlers : WF_vars(HandlerGoesOn(h) /\ UNCHANGED outboxVars)

FairSpec == Spec /\ Fairness

-----------------------------------------------------------------------------
\* Every variable has the values the code can give it.
TypeOK == PublisherTypeOK /\ OutboxTypeOK /\ ConsumerTypeOK

\* The broker or Notification has the event and will not lose it.
Kept(e) == \/ inbox[e] > 0
           \/ queue[e] > 0
           \/ \E h \in live : handling[h] = e

\* A row is marked published only once the event is safe: whatever the worker,
\* the channel, the handler or its database did, the event is in the inbox, in
\* the queue, or in a delivery that the broker will take back.
PublishedIsKept == \A e \in OutboxEvents : row[e] = "published" => Kept(e)

\* What happened; only that is ever sent.
Occurred(e) == IF e \in OutboxEvents THEN row[e] # "absent" ELSE e \in happened

\* However many copies two workers, two attempts and redeliveries make of an
\* event, the inbox has one row of it.
RecordedOnce == \A e \in Events : inbox[e] <= 1

\* A worker with a stale batch that finds its row published by another worker
\* changes nothing: neither the mark nor the number of attempts.
PublishedIsFinal ==
  [][\A e \in OutboxEvents : row[e] = "published" =>
       row'[e] = "published" /\ attempts'[e] = attempts[e]]_vars

\* What PublishedIsKept rests on: a worker that saw a confirm, and a handler
\* about to acknowledge, and that copies are only made of what happened: what
\* somebody else put in the queue is never recorded.
ConfirmedIsKept ==
  \A s \in Senders : pubPc[s] \in {"queued", "true"} => Kept(envelope[s])

RecordedBeforeAck ==
  \A h \in Handlers : handlerPc[h] = "ack" => inbox[handling[h]] > 0

LiveIsBusy == \A h \in live : handlerPc[h] # "idle"

NothingInvented ==
  /\ \A e \in Events : /\ queue[e] > 0 \/ strays[e] > 0 => Occurred(e) \/ e \in Foreign
                       /\ inbox[e] > 0 => Occurred(e)
  /\ \A h \in Handlers : handlerPc[h] # "idle" => Occurred(handling[h])
  /\ \A s \in Senders : pubPc[s] # "idle" => Occurred(envelope[s])
  /\ \A w \in Workers : \A e \in batch[w] : row[e] # "absent"
  /\ \A w \in Workers : pubPc[w] # "idle" => envelope[w] \in OutboxEvents

DeliveryInv == /\ TypeOK /\ RecordedOnce /\ PublishedIsKept
               /\ ConfirmedIsKept /\ RecordedBeforeAck /\ LiveIsBusy
               /\ NothingInvented

-----------------------------------------------------------------------------
Stage(e) == IF inbox[e] > 0 THEN "learnt"
            ELSE IF Occurred(e) THEN "happened" ELSE "nothing"

KnownOf == [e \in Events |-> Stage(e)]

N == INSTANCE Notified WITH Facts <- Events, Guaranteed <- OutboxEvents,
                            known <- KnownOf

\* The chain implements Notified: no event is learnt before it happened, none
\* twice, and every committed rejection is learnt once faults stop.
ImplementsNotified == N!NotifiedSpec

\* The part of it that does not depend on fairness.
NotifiedSafely == N!NotifiedInit /\ [][N!NotifiedNext]_KnownOf

\* Every row is eventually marked, no delivery is redelivered for ever, and a
\* message that nobody understands leaves the queue.
OutboxDrains ==
  /\ \A e \in OutboxEvents : row[e] = "pending" ~> row[e] = "published"
  /\ \A e \in OutboxEvents :
       row[e] = "published" ~> [](inbox[e] > 0 /\ queue[e] = 0)
  /\ \A x \in Foreign : <>[](queue[x] = 0)
=============================================================================
