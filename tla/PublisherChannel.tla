-------------------------- MODULE PublisherChannel --------------------------
(***************************************************************************)
(* MarketplaceEventPublisher: who decides that it is ready.  Attempts to   *)
(* publish wait for it, hold the channel they found, and throw it away     *)
(* when they fail; the broker blocks and unblocks the connection.  What    *)
(* EventPublisher calls a failed attempt is made of these steps.           *)
(***************************************************************************)
EXTENDS RecoveringChannel

CONSTANT Attempts   \* attempts to publish that run at once

VARIABLES
  blocked,   \* this.blocked
  alarm,     \* the broker is short of a resource
  told,      \* it has sent connection.blocked on this connection
  trying     \* the channel each attempt holds; "waiting" for one, or "idle"

publisherVars == <<blocked, alarm, told, trying>>
vars == <<channelVars, publisherVars>>

PublisherTypeOK == /\ blocked \in BOOLEAN /\ alarm \in BOOLEAN /\ told \in BOOLEAN
                   /\ trying \in [Attempts -> Channels \cup {"idle", "waiting"}]

Init == /\ ChannelInit
        /\ blocked = FALSE /\ alarm = FALSE /\ told = FALSE
        /\ trying = [s \in Attempts |-> "idle"]

\* A new channel is an object that nobody refers to: one that was replaced
\* without being closed no longer matters, since its close handler ignores it.
Fresh == {c \in Channels : ~Used(c) /\ \A s \in Attempts : trying[s] # c}

isReady == ready /\ ~blocked

-----------------------------------------------------------------------------
(* The connection. *)

Connects == Reconnect(Fresh) /\ UNCHANGED publisherVars

\* installChannel ends with ready = !blocked.
Installs == /\ InstallFromSetup(~blocked) \/ InstallFromRebuild(~blocked)
            /\ UNCHANGED publisherVars

InstallFails == RebuildFails /\ UNCHANGED publisherVars

\* The disconnect handler forgets the channel and not that it is blocked.
Disconnects == /\ ConnectionLost
               /\ told' = FALSE
               /\ UNCHANGED <<blocked, alarm, trying>>

Closes == /\ \E c \in open : ChannelCloses(c, ~blocked, Fresh)
          /\ UNCHANGED publisherVars

AlarmStarts == /\ ~alarm /\ alarm' = TRUE
               /\ Fails("alarm")
               /\ UNCHANGED <<up, open, channel, ready, setup, rebuild,
                              blocked, told, trying>>

AlarmStops == /\ alarm /\ alarm' = FALSE
              /\ UNCHANGED <<channelVars, blocked, told, trying>>

\* The broker tells a connection that publishes during an alarm.
Blocked == /\ alarm /\ up /\ ~told
           /\ \E s \in Attempts : trying[s] \in open
           /\ told' = TRUE /\ blocked' = TRUE /\ ready' = FALSE
           /\ UNCHANGED <<up, open, channel, setup, rebuild, spent, alarm, trying>>

\* Variant with a bug: ready again, whatever became of the channel.
UnblockedIsReady ==
  /\ ~alarm /\ told
  /\ told' = FALSE /\ blocked' = FALSE /\ ready' = TRUE
  /\ UNCHANGED <<up, open, channel, setup, rebuild, spent, alarm, trying>>

\* It tells the same connection when the alarm is over.
Unblocked == /\ ~alarm /\ told
             /\ told' = FALSE /\ blocked' = FALSE
             /\ \/ channel # None /\ ready' = TRUE /\ UNCHANGED rebuild
                \/ channel = None /\ ScheduleRebuild(TRUE, Fresh) /\ UNCHANGED ready
             /\ UNCHANGED <<up, open, channel, setup, spent, alarm, trying>>

-----------------------------------------------------------------------------
(* An attempt of publishEnvelope. *)

\* The outbox worker, or a handler, has something to publish.
StartAttempt(s) == /\ trying[s] = "idle"
                   /\ trying' = [trying EXCEPT ![s] = "waiting"]
                   /\ UNCHANGED <<channelVars, blocked, alarm, told>>

\* waitUntilReady returns, and the message goes out on the current channel.
TakeChannel(s) == /\ trying[s] = "waiting" /\ isReady /\ channel # None
                  /\ trying' = [trying EXCEPT ![s] = channel]
                  /\ UNCHANGED <<channelVars, blocked, alarm, told>>

\* waitForConfirms resolves; a blocked connection is not served.
ConfirmArrives(s) == /\ trying[s] \in open /\ ~told
                     /\ trying' = [trying EXCEPT ![s] = "idle"]
                     /\ UNCHANGED <<channelVars, blocked, alarm, told>>

\* Variant with a bug: the channel is dropped and nobody builds another.
DropChannel(s) ==
  /\ trying' = [trying EXCEPT ![s] = "idle"]
  /\ ready' = FALSE
  /\ open' = open \ {trying[s]}
  /\ channel' = IF channel = trying[s] THEN None ELSE channel
  /\ UNCHANGED <<up, setup, rebuild>>

\* invalidateChannel, with the channel of the attempt, if it had got one.  The
\* publisher stops being ready even when that channel was not the current one.
InvalidateChannel(s) ==
  /\ trying' = [trying EXCEPT ![s] = "idle"]
  /\ ready' = FALSE
  /\ open' = open \ {trying[s]}
  /\ channel' = IF channel = trying[s] THEN None ELSE channel
  /\ ScheduleRebuild(~blocked, Fresh)
  /\ UNCHANGED <<up, setup>>

\* waitUntilReady gives up, or the channel turns out to be closed.
AttemptFails(s) ==
  /\ \/ trying[s] = "waiting" /\ ~isReady
     \/ trying[s] \in Channels \ open
  /\ InvalidateChannel(s)
  /\ UNCHANGED <<spent, blocked, alarm, told>>

\* The confirm does not come in time.
ConfirmTimesOut(s) ==
  /\ trying[s] \in open
  /\ (told /\ UNCHANGED spent) \/ (~told /\ Fails("timeout"))
  /\ InvalidateChannel(s)
  /\ UNCHANGED <<blocked, alarm, told>>

AttemptStep(s) == \/ StartAttempt(s) \/ TakeChannel(s) \/ ConfirmArrives(s)
                  \/ AttemptFails(s) \/ ConfirmTimesOut(s)

Next == \/ Connects \/ Installs \/ InstallFails \/ Disconnects \/ Closes
        \/ AlarmStarts \/ AlarmStops \/ Blocked \/ Unblocked
        \/ \E s \in Attempts : AttemptStep(s)

Spec == Init /\ [][Next]_vars

\* The recovery reconnects, an installation ends, an alarm is dealt with and
\* announced; there is always something to publish, and timeouts expire.
FairSpec == /\ Spec
            /\ WF_vars(Connects) /\ WF_vars(Installs)
            /\ WF_vars(AlarmStops) /\ WF_vars(Unblocked)
            /\ \A s \in Attempts : WF_vars(AttemptStep(s))

-----------------------------------------------------------------------------
\* When isReady says so there is an open channel of a live connection to
\* publish on, and ready is never set under a block, whoever closes, blocks or
\* replaces the channel meanwhile.
ReadyIsUsable == ready => ~blocked /\ up /\ channel \in open

\* The inductive invariant: the types, and what ReadyIsUsable rests on.
PublisherInv == ChannelInv /\ PublisherTypeOK /\ ReadyIsUsable

\* The service believes in a block that no connection is under.
StaleBlock == blocked /\ ~told

\* Once faults stop the publisher becomes ready and stays so, unless it holds
\* a block of a connection that is gone.
Recovers == <>[]isReady \/ <>[]StaleBlock

\* What the documentation says: RabbitMQ reconnection is automatic on the side
\* of the publisher (docs/18, line 177).
ReconnectsAutomatically == <>[]isReady
=============================================================================
