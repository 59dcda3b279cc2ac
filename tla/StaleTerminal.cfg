SPECIFICATION Spec
CONSTANTS
  MaxRuns = 2
  MaxEvents = 3
  MaxLate = 1
  EventCapacity = 1
  MaxOutput = 3
  CallersAbort = FALSE
  Items <- TextOnly
  ImageIds <- NoImageIds
INVARIANT SuccessIsComplete
CHECK_DEADLOCK FALSE
