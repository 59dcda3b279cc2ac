SPECIFICATION Spec
CONSTANTS
  MaxRuns = 1
  MaxEvents = 2
  MaxLate = 0
  EventCapacity = 1
  MaxOutput = 2
  CallersAbort = FALSE
  Items <- TextOnly
  ImageIds <- NoImageIds
INVARIANT TerminalNotDiscarded
CHECK_DEADLOCK FALSE
