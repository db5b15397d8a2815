\* Two attempts at once, two faults of any kind.
SPECIFICATION FairSpec
CONSTANTS
  None = None
  Channels = {c1, c2, c3, c4, c5}
  Attempts = {s1, s2}
  Faults = {"connection", "channel", "rebuild", "timeout", "alarm"}
  MaxFaults = 2
INVARIANTS PublisherInv
PROPERTIES Recovers
