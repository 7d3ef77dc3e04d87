CONSTANTS
  a = a
  b = b
  ToolFence = ToolFence
  NULL = NULL
  KernelKinds <- MCKinds
  Names <- MCOneName
  Ids <- MCOneId
  Powers <- MCPowers
  Tools <- MCPapi
  MaxBegins = 3
SPECIFICATION NestingSpec
INVARIANT BlocksMeasured
CHECK_DEADLOCK FALSE
