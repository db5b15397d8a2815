---------------------------- MODULE OutboxWorker ----------------------------
(***************************************************************************)
(* MarketplaceOutboxWorker, one per replica of the Marketplace service,    *)
(* and the events that are published without an outbox.  A worker works    *)
(* through a batch it read at the start, however stale the batch gets.     *)
(***************************************************************************)
EXTENDS EventPublisher, FiniteSets

CONSTANTS
  Workers,        \* replicas
  OutboxEvents,   \* proposal.rejected events, by eventId
  DirectEvents,   \* events published after the commit, without a row
  BatchSize,      \* take: 25
  CreatedAt       \* createdAt of each row: when its transaction began

\* A direct event is published by the handler it belongs to, once.
ASSUME OutboxAssumption ==
  /\ Events = OutboxEvents \cup DirectEvents \cup Foreign
  /\ OutboxEvents \cap DirectEvents = {}
  /\ Foreign \cap (OutboxEvents \cup DirectEvents) = {}
  /\ Senders = Workers \cup DirectEvents
  /\ Workers \cap DirectEvents = {}
  /\ BatchSize \in Nat \ {0}
  /\ CreatedAt \in [OutboxEvents -> Nat]

VARIABLES
  row,        \* the outbox row of each event
  attempts,   \* MarketplaceOutboxEvent.attempts
  batch,      \* what is left of the batch of each worker
  stopping,   \* workers whose module is being destroyed
  happened    \* direct events whose transaction has committed

outboxVars == <<row, attempts, batch, stopping, happened>>

RowStates == {"absent", "pending", "published"}

OutboxTypeOK == /\ row \in [OutboxEvents -> RowStates]
                /\ attempts \in [OutboxEvents -> Nat]
                /\ batch \in [Workers -> SUBSET OutboxEvents]
                /\ stopping \subseteq Workers
                /\ happened \subseteq DirectEvents

OutboxInit == /\ row = [e \in OutboxEvents |-> "absent"]
              /\ attempts = [e \in OutboxEvents |-> 0]
              /\ batch = [w \in Workers |-> {}]
              /\ stopping = {} /\ happened = {}

Pending == {e \in OutboxEvents : row[e] = "pending"}

\* The transaction that rejects the proposal inserts the row.  Rows become
\* visible in any order, whatever their createdAt.
Commit(e) == /\ row[e] = "absent"
             /\ row' = [row EXCEPT ![e] = "pending"]
             /\ UNCHANGED <<publisherVars, attempts, batch, stopping, happened>>

\* findMany orders by createdAt and takes the first BatchSize.
Batches == {B \in SUBSET Pending :
              /\ \A e \in B, d \in Pending \ B : CreatedAt[e] <= CreatedAt[d]
              /\ \/ B = Pending /\ Cardinality(B) <= BatchSize
                 \/ Cardinality(B) = BatchSize}

\* flush: at most one sweep at a time per replica, none once it stops.
Sweep(w) ==
  /\ pubPc[w] = "idle" /\ batch[w] = {} /\ w \notin stopping
  /\ Pending # {}
  /\ \E B \in Batches : batch' = [batch EXCEPT ![w] = B]
  /\ UNCHANGED <<publisherVars, row, attempts, stopping, happened>>

\* The head of the loop.
DeliverNext(w) ==
  /\ w \notin stopping
  /\ \E e \in batch[w] : /\ \A d \in batch[w] : CreatedAt[e] <= CreatedAt[d]
                         /\ Begin(w, e)
  /\ UNCHANGED outboxVars

LeaveLoop(w) == /\ w \in stopping /\ pubPc[w] = "idle" /\ batch[w] # {}
                /\ batch' = [batch EXCEPT ![w] = {}]
                /\ UNCHANGED <<publisherVars, row, attempts, stopping, happened>>

Return(w) == /\ pubPc' = [pubPc EXCEPT ![w] = "idle"]
             /\ UNCHANGED <<queue, strays, envelope, attempt>>

\* Variants with a bug: the row is marked whatever publishEnvelope returned;
\* the update looks at the id only.
MarkAnyway(w) ==
  LET e == envelope[w] IN
  /\ pubPc[w] \in {"true", "false"}
  /\ Return(w)
  /\ row' = [row EXCEPT ![e] = "published"]
  /\ attempts' = OneMore(attempts, e)
  /\ batch' = [batch EXCEPT ![w] = @ \ {e}]
  /\ UNCHANGED <<spent, stopping, happened>>

MarkById(w) ==
  LET e == envelope[w] IN
  /\ pubPc[w] \in {"true", "false"}
  /\ Return(w)
  /\ row' = [row EXCEPT ![e] = IF pubPc[w] = "true" THEN "published" ELSE @]
  /\ attempts' = OneMore(attempts, e)
  /\ batch' = [batch EXCEPT ![w] = IF pubPc[w] = "true" THEN @ \ {e} ELSE {}]
  /\ UNCHANGED <<spent, stopping, happened>>

\* updateMany where publishedAt is null; a failure ends the sweep.
Mark(w) ==
  LET e == envelope[w] IN
  /\ pubPc[w] \in {"true", "false"}
  /\ Return(w)
  /\ \/ /\ row[e] = "pending"
        /\ row' = [row EXCEPT ![e] = IF pubPc[w] = "true" THEN "published" ELSE @]
        /\ attempts' = OneMore(attempts, e)
     \/ /\ row[e] # "pending"
        /\ UNCHANGED <<row, attempts>>
  /\ batch' = [batch EXCEPT ![w] = IF pubPc[w] = "true" THEN @ \ {e} ELSE {}]
  /\ UNCHANGED <<spent, stopping, happened>>

\* The update fails: the sweep rejects and the row stays as it is.
MarkFails(w) ==
  /\ pubPc[w] \in {"true", "false"}
  /\ Fails("database")
  /\ Return(w)
  /\ batch' = [batch EXCEPT ![w] = {}]
  /\ UNCHANGED <<row, attempts, stopping, happened>>

\* onModuleDestroy, and the replica that takes its place.
Stop(w) == /\ w \notin stopping
           /\ Fails("crash")
           /\ stopping' = stopping \cup {w}
           /\ UNCHANGED <<queue, strays, pubPc, envelope, attempt,
                          row, attempts, batch, happened>>

Restart(w) == /\ w \in stopping /\ pubPc[w] = "idle" /\ batch[w] = {}
              /\ stopping' = stopping \ {w}
              /\ UNCHANGED <<publisherVars, row, attempts, batch, happened>>

\* The process dies and is started again.
WorkerCrash(w) ==
  /\ Fails("crash")
  /\ Abandon(w)
  /\ pubPc' = [pubPc EXCEPT ![w] = "idle"]
  /\ batch' = [batch EXCEPT ![w] = {}]
  /\ stopping' = stopping \ {w}
  /\ UNCHANGED <<queue, envelope, attempt, row, attempts, happened>>

WorkerGoesOn(w) == \/ Sweep(w) \/ DeliverNext(w) \/ LeaveLoop(w)
                   \/ Mark(w) \/ Restart(w)

WorkerStep(w) == \/ WorkerGoesOn(w) \/ MarkFails(w) \/ Stop(w) \/ WorkerCrash(w)

-----------------------------------------------------------------------------
(* Events without an outbox. *)

Happen(d) == /\ happened' = happened \cup {d}
             /\ d \notin happened
             /\ UNCHANGED <<publisherVars, row, attempts, batch, stopping>>

PublishDirect(d) == /\ d \in happened
                    /\ Begin(d, d)
                    /\ UNCHANGED outboxVars

\* The process dies after the commit: nobody publishes the event any more.
DirectCrash(d) ==
  /\ d \in happened /\ pubPc[d] \notin {"true", "false"}
  /\ Fails("crash")
  /\ Abandon(d)
  /\ pubPc' = [pubPc EXCEPT ![d] = "false"]
  /\ envelope' = [envelope EXCEPT ![d] = d]
  /\ UNCHANGED <<queue, attempt, outboxVars>>

DirectStep(d) == Happen(d) \/ PublishDirect(d) \/ DirectCrash(d)
=============================================================================
