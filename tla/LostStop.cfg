SPECIFICATION FairSpec
CONSTANTS
  Members = {a}
  ScanAttempts = 2
PROPERTY StopEndsCustody
CHECK_DEADLOCK FALSE
