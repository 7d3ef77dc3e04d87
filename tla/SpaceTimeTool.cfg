CONSTANTS
  Frames <- MCFrames
  RootFrame <- MCRootFrame
  NullFrame = NullFrame
  MaxBegins = 4
  MaxClock = 2
  Spaces <- MCSpaces
  Handles <- MCHandles
  SpaceOf <- MCSpaceOf
  a1 = a1
  a2 = a2
  a3 = a3
  Addresses <- MCAddresses
  Sizes = {0, 1, 2}
  MaxCalls = 3
  MaxMixed = 3
SYMMETRY MCSymmetry
SPECIFICATION ToolSpec
INVARIANTS
  ToolTypeOK
  ReportIsTrue
  InversionConserves
  KernelCallsCounted
  AccountIsTrue
  SnapshotFramesTrue
