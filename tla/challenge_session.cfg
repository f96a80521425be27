SPECIFICATION Spec
CONSTANTS
  None = None
  Pairs <- MCPairs
  Artifacts <- MCArtifacts
  Existing <- MCExisting
  Reports <- MCReports
  MaxCandidates = 2
  MaxStrays = 1
  Explored <- MCExplored
INVARIANTS SessionTypeOK PlanIsShared NothingLeftSilently InstalledOnce DiscriminatingIsComparable AttemptsIsolated
PROPERTIES SessionEnds
CHECK_DEADLOCK FALSE
