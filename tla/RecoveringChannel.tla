-------------------------- MODULE RecoveringChannel --------------------------
(***************************************************************************)
(* What MarketplaceEventPublisher and RabbitMqConsumer have in common: a   *)
(* connection that amqplib recovers by itself, running the setup callback  *)
(* each time, and one current channel that the service rebuilds by itself. *)
(* The handlers of a promise run before anything else arrives, so that     *)
(* what a lost connection or a closed channel rejects is part of one step. *)
(***************************************************************************)
EXTENDS Naturals

CONSTANTS
  Channels,    \* channel objects; one that nothing refers to is used again
  None,        \* undefined
  Faults,      \* the faults that may happen, a subset of FaultKinds
  MaxFaults    \* bound: how many of them happen in a behaviour

FaultKinds == {"connection", "channel", "rebuild", "timeout", "alarm", "cancel"}

ASSUME ChannelAssumption == /\ None \notin Channels
                            /\ Faults \subseteq FaultKinds
                            /\ MaxFaults \in Nat

VARIABLES
  up,        \* the model has a connection
  open,      \* channels that are open, of those that something refers to
  channel,   \* this.channel
  ready,     \* this.ready
  setup,     \* the channel that the setup callback is preparing
  rebuild,   \* the channel that rebuildPromise is preparing
  spent      \* faults that have happened

channelVars == <<up, open, channel, ready, setup, rebuild, spent>>

ChannelTypeOK == /\ up \in BOOLEAN /\ ready \in BOOLEAN
                 /\ open \subseteq Channels
                 /\ channel \in Channels \cup {None}
                 /\ setup \in Channels \cup {None}
                 /\ rebuild \in Channels \cup {None}
                 /\ spent \in 0..MaxFaults

ChannelInit == /\ up = FALSE /\ ready = FALSE /\ open = {}
               /\ channel = None /\ setup = None /\ rebuild = None
               /\ spent = 0

Fails(kind) == kind \in Faults /\ spent < MaxFaults /\ spent' = spent + 1

\* The service refers to c.
Used(c) == c \in {channel, setup, rebuild}

\* scheduleChannelRebuild, where the caller says whether anything forbids it:
\* installChannel starts, or fails at once when there is no connection.
ScheduleRebuild(allowed, fresh) ==
  IF allowed /\ up /\ rebuild = None
    THEN \E c \in fresh : rebuild' = c
    ELSE UNCHANGED rebuild

\* The recovery connects and calls setup, which calls installChannel.
Reconnect(fresh) ==
  /\ ~up
  /\ up' = TRUE
  /\ \E c \in fresh : setup' = c
  /\ UNCHANGED <<open, channel, ready, rebuild, spent>>

\* The end of installChannel, from setup or from a rebuild: the last one to
\* finish is the current channel, whatever was before.
InstallFromSetup(isReady) ==
  /\ setup # None
  /\ channel' = setup /\ open' = open \cup {setup}
  /\ setup' = None /\ ready' = isReady
  /\ UNCHANGED <<up, rebuild, spent>>

InstallFromRebuild(isReady) ==
  /\ rebuild # None
  /\ channel' = rebuild /\ open' = open \cup {rebuild}
  /\ rebuild' = None /\ ready' = isReady
  /\ UNCHANGED <<up, setup, spent>>

\* The broker refuses one of the steps of installChannel: the catch block only
\* says that the service is not ready, even if another channel is.
RebuildFails ==
  /\ rebuild # None
  /\ Fails("rebuild")
  /\ rebuild' = None /\ ready' = FALSE
  /\ UNCHANGED <<up, open, channel, setup>>

\* The connection is lost, or setup fails, which the recovery treats alike:
\* every channel closes and every installation fails.
ConnectionLost ==
  /\ up
  /\ Fails("connection")
  /\ up' = FALSE /\ ready' = FALSE /\ open' = {}
  /\ channel' = None /\ setup' = None /\ rebuild' = None

\* The broker closes a channel: only the current one is replaced.
ChannelCloses(c, allowed, fresh) ==
  /\ c \in open
  /\ Fails("channel")
  /\ open' = open \ {c}
  /\ \/ /\ channel = c
        /\ channel' = None /\ ready' = FALSE
        /\ ScheduleRebuild(allowed, fresh)
     \/ /\ channel # c
        /\ UNCHANGED <<channel, ready, rebuild>>
  /\ UNCHANGED <<up, setup>>
-----------------------------------------------------------------------------
\* A channel, or one being made, is of the connection there is, and the current
\* channel is open; the service says it is ready only with one.
ChannelInv == /\ ChannelTypeOK
              /\ channel # None => channel \in open
              /\ ready => channel # None
              /\ ~up => open = {} /\ setup = None /\ rebuild = None
=============================================================================
