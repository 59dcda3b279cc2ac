SPECIFICATION FairSpec
CONSTANTS
  OutboundCapacity = 1
  EventCapacity = 1
  MaxFrames = 1
  MaxMessages = 1
  Reverse = {r1, r2}
  Images = {i1, i2}
  MaxChunks = 6
INVARIANTS
  CleanShutdown
  ProcessInvariant
  OneAnswer
  BilledOnce
  AbandonedIsFatal
  PngInvariant
PROPERTIES
  EveryCleanupEnds
  EveryRequestAnswered
CHECK_DEADLOCK FALSE
