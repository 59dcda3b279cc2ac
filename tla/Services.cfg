SPECIFICATION FairSpec
CONSTANTS
  Logins = {a, b}
  Waits = {w}
  EarlyCapacity = 1
  Threads = {s, t}
  OneShot = {t}
INVARIANTS
  LoginInvariant
  NoLoginLeft
  SessionInvariant
  ShutdownLeavesNothing
PROPERTIES
  ShutdownEnds
  AbandonedOneShotEnds
CHECK_DEADLOCK FALSE
