SPECIFICATION FairSpec
CONSTANTS
  MaxRuns = 1
  MaxEvents = 3
  MaxLate = 0
  EventCapacity = 2
  MaxOutput = 3
  CallersAbort = FALSE
  Items <- Mixed
  ImageIds <- OneImage
INVARIANT DeliveredInOrderWithoutGaps
INVARIANT SuccessIsComplete
INVARIANT RetainedBytesExact
PROPERTY HeldRunEnds
PROPERTY DroppedRunFreesThread
CHECK_DEADLOCK FALSE
