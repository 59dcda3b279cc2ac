SPECIFICATION Spec
CONSTANTS
  create = create
  query = query
  none = none
  Requests <- Both
  NonIdempotent <- Create
  NoRequest <- none
  OperationDeadline = FALSE
INVARIANT OrphanFences
INVARIANT HonestFailure
INVARIANT NoWaiterLeft
CHECK_DEADLOCK FALSE
