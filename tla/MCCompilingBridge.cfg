CONSTANTS
  Requests <- MCRequests
  Keys <- MCKeys
  Weights = {260, 325, 520}
  NoWeight = NoWeight
  MaxEntries = 2
  MaxWeight = 600
  MaxLoads = 3
  MaxClears = 1
  Facts <- MCFacts
  Modules = {"module"}
  StandardCompileLimits <- MCCompileLimits
  StandardGraphLimits <- MCGraphLimits
  StandardCapabilityLimits <- MCCapabilityLimits
  MaxCost = 9
  MaxArtifact = 7
  Compiler = "build"
  Transform <- MCTransform
SPECIFICATION BridgeSpec
INVARIANTS WithinLimits OneLoadPerKey NothingOutlivesClear CacheTransparent EditedSourceStands
CHECK_DEADLOCK FALSE
