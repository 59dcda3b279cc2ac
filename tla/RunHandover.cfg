SPECIFICATION Spec
CONSTANTS
  MaxRuns = 2
  MaxEvents = 1
  MaxLate = 1
  EventCapacity = 1
  MaxOutput = 2
  CallersAbort = TRUE
  Items <- TextOnly
  ImageIds <- NoImageIds
INVARIANT CancelMeetsOwnRun
INVARIANT AtMostOneInterrupt
PROPERTY ImplementsOwnership
CHECK_DEADLOCK FALSE
