SPECIFICATION FairSpec
CONSTANTS
  create = create
  query = query
  none = none
  Requests <- Create
  NonIdempotent <- Create
  NoRequest <- none
  OperationDeadline = TRUE
PROPERTY LostOutcomeCuts
PROPERTY EveryRequestEnds
CHECK_DEADLOCK FALSE
