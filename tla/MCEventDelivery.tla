--------------------------- MODULE MCEventDelivery ---------------------------
(***************************************************************************)
(* Small instances of EventDelivery.                                       *)
(***************************************************************************)
EXTENDS EventDelivery, TLC

CONSTANTS e1, e2,   \* outbox events
          d1,       \* an event without a row
          x1,       \* a message of somebody else
          w1, w2,   \* replicas of the Marketplace service
          h1, h2    \* concurrent deliveries

\* The row that becomes visible last may have the older createdAt.
SameAge == [e \in OutboxEvents |-> 0]
Ages == (e1 :> 1) @@ (e2 :> 0)

OnlyRejections == [e \in Events \ Foreign |-> "proposal.rejected"]
AlsoAccepted == [e \in Events \ Foreign |-> IF e = d1 THEN "proposal.accepted" ELSE "proposal.rejected"]

-----------------------------------------------------------------------------
(* Messages that are not events *)

AnEvent == EventOf("proposal.created", TRUE)
Without(data, f) == [g \in DOMAIN data \ {f} |-> data[g]]

IncompleteMessage == [x \in Foreign |-> [AnEvent EXCEPT !.data = Without(AnEvent.data, "requesterId")]]
OversizedMessage == [x \in Foreign |-> [AnEvent EXCEPT !.eventId = "long"]]

DeliverySymmetry == Permutations(Workers) \cup Permutations(Handlers)
=============================================================================
