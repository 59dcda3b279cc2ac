SPECIFICATION Spec
CONSTANTS
  create = create
  query = query
  none = none
  Requests <- Create
  NonIdempotent <- Create
  NoRequest <- none
  OperationDeadline = TRUE
INVARIANT OrphanFences
CHECK_DEADLOCK FALSE
