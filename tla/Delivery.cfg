\* One rejection event and a malformed message, two replicas of each service, two faults.
SPECIFICATION FairSpec
CONSTANTS
  e1 = e1  e2 = e2  d1 = d1
  w1 = w1  w2 = w2  h1 = h1  h2 = h2
  NoEvent = NoEvent
  x1 = x1
  Events = {e1, x1}
  Foreign = {x1}
  EventType <- OnlyRejections
  Swaps = {}
  ForeignMessage <- IncompleteMessage
  OutboxEvents = {e1}
  DirectEvents = {}
  Workers = {w1, w2}
  Senders = {w1, w2}
  Handlers = {h1, h2}
  BatchSize = 1
  CreatedAt <- SameAge
  Faults = {"channel", "database", "crash", "delivery"}
  MaxFaults = 2
INVARIANTS DeliveryInv
PROPERTIES ImplementsNotified OutboxDrains PublishedIsFinal
