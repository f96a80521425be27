SPECIFICATION Spec
CONSTANTS
  Paths <- MCPaths
  Name <- MCName
  Visibility <- MCVisibility
  Tests <- MCTests
  Repositories <- MCRepositories
  Queries <- MCQueries
  MaxFiles = 4
  MaxFileBytes = 2
  MaxSourceBytes = 4
  MaxSymbols = 4
  MaxReferences = 3
  Hops = 2
  MaxResults = 3
  MaxShared = 1
  MaxNewHead = 1
  MaxTraces = 1
  MaxCallers = 2
  MaxTurns = 2
  MaxTotal = 2
  PerTool = 1
  MaxMatches = 1
  CallsPerTurn = 2
  TranscriptLimit = 2
INVARIANTS InvestigationTypeOK ClaimIsGrounded BudgetsHold NoKindCrowdedOut
CHECK_DEADLOCK FALSE
