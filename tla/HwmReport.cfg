CONSTANTS
  comm_size = 3
  NSPACES = 2
  Totals <- MCTotals
  hwm <- MChwm
SPECIFICATION Spec
INVARIANTS
  PrintsLowestMaximum
  ProcessHwmIsTrue
PROPERTY
  Termination
CHECK_DEADLOCK FALSE
