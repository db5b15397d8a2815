--------------------------- MODULE ConsumerChannel ---------------------------
(***************************************************************************)
(* RabbitMqConsumer: the channel its consumer lives on.  The broker may    *)
(* cancel the consumer of a channel that stays open (its queue is gone or  *)
(* moves to another node), and nobody calls the service who would notice   *)
(* that it is not ready.                                                   *)
(***************************************************************************)
EXTENDS RecoveringChannel

\* A channel that consumes is not a new one, even when nothing refers to it.
Fresh == {c \in Channels : ~Used(c) /\ c \notin open}

Init == ChannelInit

Connects == Reconnect(Fresh)

\* Variant with a bug: only setup says that the consumer is ready again.
RebuildIsSilent == InstallFromSetup(TRUE) \/ InstallFromRebuild(ready)

\* installChannel ends with ready = true.
Installs == InstallFromSetup(TRUE) \/ InstallFromRebuild(TRUE)

Closes == \E c \in open : ChannelCloses(c, TRUE, Fresh)

\* Variant with a bug: the cancelled consumer's channel stays the current one.
KeepCancelled(c) ==
  /\ c \in open
  /\ Fails("cancel")
  /\ open' = open \ {c}
  /\ ScheduleRebuild(TRUE, Fresh)
  /\ UNCHANGED <<up, channel, ready, setup>>

\* Variant with a bug: the channel is given up and nobody builds another.
GiveUpOnly(c) ==
  /\ c \in open
  /\ Fails("cancel")
  /\ open' = open \ {c}
  /\ channel' = None /\ ready' = FALSE
  /\ UNCHANGED <<up, setup, rebuild>>

\* consume is called with null: the channel is given up and closed, and a new
\* one is built even if the cancelled one was not the current one.
Cancelled(c) ==
  /\ c \in open
  /\ Fails("cancel")
  /\ open' = open \ {c}
  /\ \/ channel = c /\ channel' = None /\ ready' = FALSE
     \/ channel # c /\ UNCHANGED <<channel, ready>>
  /\ ScheduleRebuild(TRUE, Fresh)
  /\ UNCHANGED <<up, setup>>

Cancels == \E c \in open : Cancelled(c)

Next == \/ Connects \/ Installs \/ RebuildFails \/ ConnectionLost
        \/ Closes \/ Cancels

Spec == Init /\ [][Next]_channelVars

\* The recovery reconnects and an installation ends.
FairSpec == Spec /\ WF_channelVars(Connects) /\ WF_channelVars(Installs)

-----------------------------------------------------------------------------
\* The service never has two consumers: a channel that is not the current one
\* is not left behind consuming, and none is built while one consumes.
OneConsumer == /\ open \subseteq {channel}
               /\ setup # None \/ rebuild # None => open = {}
               /\ setup = None \/ rebuild = None

\* The inductive invariant: the types, that a ready service consumes on an open
\* channel, and only on one.
ConsumerInv == ChannelInv /\ OneConsumer

\* The connection is alive, there is no channel, and none is being made.
Stranded == up /\ channel = None /\ setup = None /\ rebuild = None

\* Whatever is closed, cancelled or lost, and in whatever order, the consumer
\* is ready in the end, or left without a channel on a connection that lives on.
Recovers == <>[]ready \/ <>[]Stranded

\* Only a rebuild that fails leaves it there.
StrandedByRebuild == [][~Stranded /\ Stranded' => RebuildFails]_channelVars
=============================================================================
