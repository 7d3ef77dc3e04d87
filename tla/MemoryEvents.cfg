CONSTANTS
  t1 = t1
  t2 = t2
  a1 = a1
  a2 = a2
  Idle = Idle
  Recorded = Recorded
  NoThread = NoThread
  Threads <- MCThreads
  SpaceNames <- MCSpaceNames
  Addresses <- MCAddresses
  Sizes <- MCSizes
  MaxSpaces = 2
  MaxCalls = 4
SPECIFICATION Spec
INVARIANTS
  MemTypeOK
  SpacesDistinct
  LinesInTimeOrder
  UsageIsTrue
PROPERTIES
  OneAtATime
  CallbacksReturn
CHECK_DEADLOCK FALSE
