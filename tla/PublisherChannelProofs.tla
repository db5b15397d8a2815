----------------------- MODULE PublisherChannelProofs -----------------------
(***************************************************************************)
(* Theorems about PublisherChannel, for any number of channels, attempts   *)
(* and faults.                                                             *)
(***************************************************************************)
EXTENDS PublisherChannel, TLAPS

\* A fault is counted within its bound, in any step that has one.
LEMMA FaultCounted ==
  ASSUME ChannelTypeOK, NEW kind, Fails(kind)
  PROVE  spent' \in 0..MaxFaults
BY ChannelAssumption DEF ChannelTypeOK, Fails

\* No fault has happened yet.
LEMMA NoneCounted == 0 \in 0..MaxFaults
BY ChannelAssumption

\* The publisher starts without a connection and not ready.
LEMMA InvInit == Init => PublisherInv
BY NoneCounted DEF Init, ChannelInit, PublisherInv, ChannelInv, ChannelTypeOK,
       PublisherTypeOK, ReadyIsUsable

\* A failed attempt closes the channel it held, and forgets it if it is the
\* current one; a rebuild begins only on a live connection.
LEMMA InvalidateKeepsInv ==
  ASSUME PublisherInv, NEW s \in Attempts, InvalidateChannel(s),
         spent' = spent \/ Fails("timeout"),
         UNCHANGED <<blocked, alarm, told>>
  PROVE  PublisherInv'
<1>1. ChannelTypeOK' /\ PublisherTypeOK'
  BY FaultCounted DEF PublisherInv, ChannelInv, ChannelTypeOK, PublisherTypeOK,
                      InvalidateChannel, ScheduleRebuild, Fresh
<1>2. channel' # None => channel' \in open'
  BY DEF PublisherInv, ChannelInv, InvalidateChannel
<1>3. ~up' => open' = {} /\ setup' = None /\ rebuild' = None
  BY DEF PublisherInv, ChannelInv, InvalidateChannel, ScheduleRebuild
<1>4. ~ready'
  BY DEF InvalidateChannel
<1> QED
  BY <1>1, <1>2, <1>3, <1>4 DEF PublisherInv, ChannelInv, ReadyIsUsable

\* Every step keeps the invariant.
LEMMA InvNext == PublisherInv /\ [Next]_vars => PublisherInv'
<1> SUFFICES ASSUME PublisherInv, [Next]_vars PROVE PublisherInv'
  OBVIOUS
<1> USE DEF PublisherInv, ChannelInv, ChannelTypeOK,
        PublisherTypeOK, ReadyIsUsable
<1>1. CASE Connects
  BY <1>1 DEF Connects, Reconnect, Fresh, publisherVars
<1>2. CASE Installs
  BY <1>2 DEF Installs, InstallFromSetup, InstallFromRebuild, publisherVars
<1>3. CASE InstallFails
  BY <1>3, FaultCounted DEF InstallFails, RebuildFails, publisherVars
<1>4. CASE Disconnects
  BY <1>4, FaultCounted DEF Disconnects, ConnectionLost
<1>5. CASE Closes
  <2>1. PICK c \in open : ChannelCloses(c, ~blocked, Fresh)
    BY <1>5 DEF Closes
  <2>2. UNCHANGED publisherVars
    BY <1>5 DEF Closes
  <2>3. CASE channel = c /\ ready' = FALSE
    BY <2>1, <2>2, <2>3, FaultCounted
    DEF ChannelCloses, ScheduleRebuild, Fresh, publisherVars
  <2>4. CASE channel # c /\ UNCHANGED <<channel, ready, rebuild>>
    BY <2>1, <2>2, <2>4, FaultCounted DEF ChannelCloses, publisherVars
  <2> QED
    BY <2>1, <2>3, <2>4 DEF ChannelCloses
<1>6. CASE AlarmStarts
  BY <1>6, FaultCounted DEF AlarmStarts
<1>7. CASE AlarmStops
  BY <1>7 DEF AlarmStops, channelVars
<1>8. CASE Blocked
  BY <1>8 DEF Blocked
<1>9. CASE Unblocked
  <2>1. CASE channel # None /\ ready' = TRUE /\ UNCHANGED rebuild
    BY <1>9, <2>1 DEF Unblocked
  <2>2. CASE channel = None /\ ScheduleRebuild(TRUE, Fresh) /\ UNCHANGED ready
    BY <1>9, <2>2 DEF Unblocked, ScheduleRebuild, Fresh
  <2> QED
    BY <1>9, <2>1, <2>2 DEF Unblocked
<1>10. ASSUME NEW s \in Attempts, AttemptStep(s) PROVE PublisherInv'
  <2>1. CASE StartAttempt(s)
    BY <2>1 DEF StartAttempt, channelVars
  <2>2. CASE TakeChannel(s)
    BY <2>2 DEF TakeChannel, channelVars
  <2>3. CASE ConfirmArrives(s)
    BY <2>3 DEF ConfirmArrives, channelVars
  <2>4. CASE AttemptFails(s)
    BY <2>4, InvalidateKeepsInv DEF AttemptFails
  <2>5. CASE ConfirmTimesOut(s)
    BY <2>5, InvalidateKeepsInv DEF ConfirmTimesOut
  <2> QED
    BY <1>10, <2>1, <2>2, <2>3, <2>4, <2>5 DEF AttemptStep
<1>11. CASE UNCHANGED vars
  BY <1>11 DEF vars, channelVars, publisherVars
<1> QED
  BY <1>1, <1>2, <1>3, <1>4, <1>5, <1>6, <1>7, <1>8, <1>9, <1>10, <1>11 DEF Next

\* The inductive invariant of the publisher holds whatever the broker, the
\* network and the attempts do (event-publisher.service.ts).
THEOREM PublisherIsSafe == Spec => []PublisherInv
BY InvInit, InvNext, PTL DEF Spec

\* isReady never sends an attempt to a channel that is gone: not after a close,
\* a lost connection, an unblock, or a rebuild that overtakes another.
THEOREM ReadyMeansUsable == Spec => []ReadyIsUsable
<1>1. PublisherInv => ReadyIsUsable
  BY DEF PublisherInv
<1> QED
  BY <1>1, PublisherIsSafe, PTL
=============================================================================
