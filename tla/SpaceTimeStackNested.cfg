CONSTANTS
  Frames <- MCFrames
  RootFrame <- MCRootFrame
  NullFrame = NullFrame
  MaxBegins = 2
  MaxClock = 2
SPECIFICATION Spec
INVARIANT KokkosTimeWithinTotal
