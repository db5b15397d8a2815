------------------------ MODULE ConsumerChannelProofs ------------------------
(***************************************************************************)
(* Theorems about ConsumerChannel, for any number of channels and faults.  *)
(***************************************************************************)
EXTENDS ConsumerChannel, TLAPS

\* A fault is counted within its bound, in any step that has one.
LEMMA FaultCounted ==
  ASSUME ChannelTypeOK, NEW kind, Fails(kind)
  PROVE  spent' \in 0..MaxFaults
BY ChannelAssumption DEF ChannelTypeOK, Fails

\* No fault has happened yet.
LEMMA NoneCounted == 0 \in 0..MaxFaults
BY ChannelAssumption

\* What is built is not undefined.
LEMMA NoneIsNoChannel == None \notin Channels
BY ChannelAssumption

\* The consumer starts without a connection and not ready.
LEMMA InvInit == Init => ConsumerInv
BY NoneCounted DEF Init, ChannelInit, ConsumerInv, ChannelInv, ChannelTypeOK, OneConsumer

\* Every step keeps the invariant.
LEMMA InvNext == ConsumerInv /\ [Next]_channelVars => ConsumerInv'
<1> SUFFICES ASSUME ConsumerInv, [Next]_channelVars PROVE ConsumerInv'
  OBVIOUS
<1> USE DEF ConsumerInv, ChannelInv, ChannelTypeOK, OneConsumer
<1>1. CASE Connects
  BY <1>1 DEF Connects, Reconnect, Fresh
<1>2. CASE InstallFromSetup(TRUE)
  BY <1>2 DEF InstallFromSetup
<1>3. CASE InstallFromRebuild(TRUE)
  BY <1>3 DEF InstallFromRebuild
<1>4. CASE RebuildFails
  BY <1>4, FaultCounted DEF RebuildFails
<1>5. CASE ConnectionLost
  BY <1>5, FaultCounted DEF ConnectionLost
<1>6. ASSUME NEW c \in open, ChannelCloses(c, TRUE, Fresh) PROVE ConsumerInv'
  BY <1>6, FaultCounted DEF ChannelCloses, ScheduleRebuild, Fresh
<1>7. ASSUME NEW c \in open, Cancelled(c) PROVE ConsumerInv'
  BY <1>7, FaultCounted DEF Cancelled, ScheduleRebuild, Fresh
<1>8. CASE UNCHANGED channelVars
  BY <1>8 DEF channelVars
<1> QED
  BY <1>1, <1>2, <1>3, <1>4, <1>5, <1>6, <1>7, <1>8
  DEF Next, Installs, Closes, Cancels

\* The inductive invariant of the consumer: a ready service has exactly one open
\* channel, and never two that consume (rabbitmq.consumer.ts).
THEOREM ConsumerIsSafe == Spec => []ConsumerInv
BY InvInit, InvNext, PTL DEF Spec

\* With that invariant, a step that leaves a live connection without a channel,
\* and without one in the making, is a failed rebuild: neither a close nor a
\* cancellation does it, in whatever state it meets the service.
LEMMA StepStrands ==
  ConsumerInv /\ [Next]_channelVars => (~Stranded /\ Stranded' => RebuildFails)
<1> SUFFICES ASSUME ConsumerInv, [Next]_channelVars, ~Stranded, Stranded'
             PROVE  RebuildFails
  OBVIOUS
<1> USE DEF ConsumerInv, ChannelInv, ChannelTypeOK, OneConsumer,
        Stranded
<1>1. ~Connects
  BY NoneIsNoChannel DEF Connects, Reconnect, Fresh
<1>2. ~InstallFromSetup(TRUE) /\ ~InstallFromRebuild(TRUE)
  BY DEF InstallFromSetup, InstallFromRebuild
<1>3. ~ConnectionLost
  BY DEF ConnectionLost
<1>4. ASSUME NEW c \in open, ChannelCloses(c, TRUE, Fresh) PROVE FALSE
  BY <1>4, NoneIsNoChannel DEF ChannelCloses, ScheduleRebuild, Fresh
<1>5. ASSUME NEW c \in open, Cancelled(c) PROVE FALSE
  BY <1>5, NoneIsNoChannel DEF Cancelled, ScheduleRebuild, Fresh
<1>6. ~UNCHANGED channelVars
  BY DEF channelVars
<1> QED
  BY <1>1, <1>2, <1>3, <1>4, <1>5, <1>6 DEF Next, Installs, Closes, Cancels

\* Only a failed rebuild strands the consumer.
THEOREM OnlyRebuildStrands == Spec => StrandedByRebuild
<1>1. ConsumerInv /\ [Next]_channelVars
        => [~Stranded /\ Stranded' => RebuildFails]_channelVars
  BY StepStrands
<1> QED
  BY <1>1, ConsumerIsSafe, PTL DEF Spec, StrandedByRebuild
=============================================================================
