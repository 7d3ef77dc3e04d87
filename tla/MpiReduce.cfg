CONSTANTS
  RootFrame = 0
  comm_size = 3
  InitialTrees <- MCTrees
SPECIFICATION Spec
INVARIANTS
  CollectivesMatch
  TreesMerged
PROPERTY
  Termination
CHECK_DEADLOCK FALSE
