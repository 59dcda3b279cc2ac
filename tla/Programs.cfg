SPECIFICATION ProgramsSpec
CONSTANTS
  Members = {a, b}
  ScanAttempts = 2
  Resolvers = {r1, r2}
  MaxKills = 1
  MaxCorruptions = 1
  Ids = {i, j, k}
  Viewport = 2
  MaxLine = 2
  MaxInput = 7
  MaxChunk = 3
INVARIANTS
  CleanExit
  NoStraySignal
  NoTornInstall
  OneInstallation
  VerificationLeavesNothing
  SuccessIsClean
  OriginalFailureKept
  AcceptedFits
  LinesAreExact
PROPERTIES
  CustodyEnds
  EveryResolveEnds
  TimedVerificationEnds
  ProviderAnswers
CHECK_DEADLOCK FALSE
