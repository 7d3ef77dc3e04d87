CONSTANTS
  a = a
  b = b
  ToolFence = ToolFence
  NULL = NULL
  KernelKinds <- MCKinds
  Names <- MCNames
  Ids <- MCIds
  Powers <- MCPowers
  Tools <- MCTools
  MaxBegins = 4
SPECIFICATION RegistrySpec
INVARIANTS
  PapiFollowsHost
  RangesFollowHost
  TraceNests
  FocusIsTrue
  LogIsReadable
  EnergyOnce
PROPERTIES
  TraceIsTrue
  EnergyOfKernel
SYMMETRY MCSymmetry
CHECK_DEADLOCK FALSE
