\* A connection that is lost while the broker blocks it.
SPECIFICATION FairSpec
CONSTANTS
  None = None
  Channels = {c1, c2, c3, c4, c5}
  Attempts = {s1}
  Faults = {"connection", "alarm"}
  MaxFaults = 2
PROPERTIES ReconnectsAutomatically
