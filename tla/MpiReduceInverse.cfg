CONSTANTS
  RootFrame = 0
  comm_size = 2
  InitialTrees <- MCFlatTrees
SPECIFICATION Spec
INVARIANT BottomUpAverage
CHECK_DEADLOCK FALSE
