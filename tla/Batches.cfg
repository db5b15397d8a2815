\* Two rejections whose rows become visible in any order and an event without
\* a row, a message with an oversized id, two replicas of the Marketplace service,
\* one delivery at a time.
SPECIFICATION Spec
CONSTANTS
  e1 = e1  e2 = e2  d1 = d1
  w1 = w1  w2 = w2  h1 = h1  h2 = h2
  NoEvent = NoEvent
  x1 = x1
  Events = {e1, e2, d1, x1}
  Foreign = {x1}
  EventType <- AlsoAccepted
  Swaps = {d1}
  ForeignMessage <- OversizedMessage
  OutboxEvents = {e1, e2}
  DirectEvents = {d1}
  Workers = {w1, w2}
  Senders = {w1, w2, d1}
  Handlers = {h1}
  BatchSize = 2
  CreatedAt <- Ages
  Faults = {"channel", "database", "crash", "delivery"}
  MaxFaults = 1
INVARIANTS PublishedIsKept RecordedOnce
