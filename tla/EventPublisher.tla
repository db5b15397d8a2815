--------------------------- MODULE EventPublisher ---------------------------
(***************************************************************************)
(* MarketplaceEventPublisher.publishEnvelope over a durable queue: two     *)
(* attempts with the same event id, each waiting a bounded time for a      *)
(* ready channel and for the broker's confirm.  When an attempt is given   *)
(* up its copy may still be on the wire and reach the queue later.         *)
(***************************************************************************)
EXTENDS Naturals

CONSTANTS
  Events,     \* event ids
  Foreign,    \* those of messages that the Marketplace service did not send
  Senders,    \* activities that call publishEnvelope
  NoEvent,    \* a sender or a handler that has no event
  Faults,     \* the faults that may happen, a subset of FaultKinds
  MaxFaults   \* bound: how many of them happen in a behaviour

FaultKinds == {"channel", "database", "crash", "delivery"}

ASSUME PublisherAssumption == /\ NoEvent \notin Events /\ Foreign \subseteq Events
                              /\ Faults \subseteq FaultKinds
                              /\ MaxFaults \in Nat

VARIABLES
  queue,      \* number of copies of each event in the durable queue
  strays,     \* copies on the wire that no sender waits for any more
  pubPc,      \* where each sender stands in publishEnvelope
  envelope,   \* the event each sender publishes
  attempt,    \* its attempt, 1 or 2
  spent       \* faults that have happened

publisherVars == <<queue, strays, pubPc, envelope, attempt, spent>>

\* "true" and "false" are what publishEnvelope has returned.
PubPcs == {"idle", "ready", "sent", "queued", "true", "false"}

PublisherTypeOK ==
  /\ queue \in [Events -> Nat] /\ strays \in [Events -> Nat]
  /\ pubPc \in [Senders -> PubPcs]
  /\ envelope \in [Senders -> Events \cup {NoEvent}]
  /\ attempt \in [Senders -> {1, 2}]
  /\ spent \in 0..MaxFaults
  /\ \A s \in Senders : pubPc[s] # "idle" => envelope[s] \in Events

PublisherInit ==
  /\ queue = [e \in Events |-> IF e \in Foreign THEN 1 ELSE 0]
  /\ strays = [e \in Events |-> 0]
  /\ pubPc = [s \in Senders |-> "idle"]
  /\ envelope = [s \in Senders |-> NoEvent]
  /\ attempt = [s \in Senders |-> 1]
  /\ spent = 0

\* One fault of this kind happens now.
Fails(kind) == kind \in Faults /\ spent < MaxFaults /\ spent' = spent + 1

\* count with one more copy of e.
OneMore(count, e) == [count EXCEPT ![e] = @ + 1]
OneLess(count, e) == [count EXCEPT ![e] = @ - 1]

\* A copy that is still on the wire when its sender goes away is a stray.
Abandon(s) == strays' = IF pubPc[s] = "sent" THEN OneMore(strays, envelope[s])
                                             ELSE strays

Begin(s, e) == /\ pubPc[s] = "idle"
               /\ pubPc' = [pubPc EXCEPT ![s] = "ready"]
               /\ envelope' = [envelope EXCEPT ![s] = e]
               /\ attempt' = [attempt EXCEPT ![s] = 1]
               /\ UNCHANGED <<queue, strays, spent>>

Advance(s, from, to) == /\ pubPc[s] = from
                        /\ pubPc' = [pubPc EXCEPT ![s] = to]

\* Variant with a bug: the confirm is not awaited.
TrustsTheSocket(s) ==
  /\ Advance(s, "ready", "true")
  /\ strays' = OneMore(strays, envelope[s])
  /\ UNCHANGED <<queue, envelope, attempt, spent>>

\* waitUntilReady returns and channel.publish writes to the socket.
PublishOnChannel(s) ==
  /\ Advance(s, "ready", "sent")
  /\ UNCHANGED <<queue, strays, envelope, attempt, spent>>

\* The broker stores the persistent message ...
BrokerAccepts(s) ==
  /\ Advance(s, "sent", "queued")
  /\ queue' = OneMore(queue, envelope[s])
  /\ UNCHANGED <<strays, envelope, attempt, spent>>

\* ... and its confirm resolves waitForConfirms.
Confirmed(s) ==
  /\ Advance(s, "queued", "true")
  /\ UNCHANGED <<queue, strays, envelope, attempt, spent>>

\* No ready channel in time, a confirm that does not come in time, a channel
\* closed by the broker, by a lost connection, or by another attempt that
\* invalidated it: the attempt fails, a second one follows the first.
AttemptFails(s) ==
  /\ pubPc[s] \in {"ready", "sent", "queued"}
  /\ Fails("channel")
  /\ Abandon(s)
  /\ pubPc' = [pubPc EXCEPT ![s] = IF attempt[s] = 1 THEN "ready" ELSE "false"]
  /\ attempt' = [attempt EXCEPT ![s] = 2]
  /\ UNCHANGED <<queue, envelope>>

PublishStep(s) == \/ PublishOnChannel(s) \/ BrokerAccepts(s)
                  \/ Confirmed(s) \/ AttemptFails(s)

\* A stray copy reaches the queue, or is lost with its connection.
StrayArrives(e) == /\ strays[e] > 0
                   /\ strays' = OneLess(strays, e)
                   /\ queue' = OneMore(queue, e)
                   /\ UNCHANGED <<pubPc, envelope, attempt, spent>>

StrayLost(e) == /\ strays[e] > 0
                /\ strays' = OneLess(strays, e)
                /\ UNCHANGED <<queue, pubPc, envelope, attempt, spent>>
=============================================================================
