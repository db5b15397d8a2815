\* Eight faults of any kind that concerns a consumer.
SPECIFICATION FairSpec
CONSTANTS
  None = None
  Channels = {c1, c2, c3, c4}
  Faults = {"connection", "channel", "rebuild", "cancel"}
  MaxFaults = 8
INVARIANTS ConsumerInv
PROPERTIES Recovers StrandedByRebuild
CHECK_DEADLOCK FALSE
