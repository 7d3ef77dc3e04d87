CONSTANTS
  Environments <- MCEnvironmentsLogger
  Library <- MCLibrary
  Names <- MCNames
  NotSet = NotSet
  Unreadable = Unreadable
  Malformed = Malformed
  ChildFirst = 0
  MaxLive = 2
  MaxBegins = 3
SPECIFICATION Spec
INVARIANT
  CompletedKernelsEnded
