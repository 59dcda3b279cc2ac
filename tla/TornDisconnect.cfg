SPECIFICATION FairSpec
CONSTANTS
  MaxRuns = 1
  MaxEvents = 1
  MaxLate = 0
  EventCapacity = 1
  MaxOutput = 1
  CallersAbort = TRUE
  Items <- TextOnly
  ImageIds <- NoImageIds
PROPERTY HeldRunEnds
CHECK_DEADLOCK FALSE
