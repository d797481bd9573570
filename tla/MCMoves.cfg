CONSTANTS
  Direct = 7
  Step = 10
  Int64Max = 89
  Nanoseconds = 4
  InstantMax = 10
  Chars = {"text", "ok", "error"}
  JsonType = "json"
  JsonTags = "none"
  FuelUnit = 4
  Nesting = 8
  SchemaNesting = 4
  Types <- MCTypes
  Operations <- MCOperations
  Slot <- MCSlot
  Platform <- MCPlatform
  Host <- MCHost
SPECIFICATION Spec
INVARIANT MovesCarryStatements
CHECK_DEADLOCK FALSE
