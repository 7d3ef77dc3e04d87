CONSTANTS
  Environments <- MCEnvironments
  Library <- MCLibrary
  NotSet = NotSet
  RandMax = 2
  Word = 16
  MaxBegins = 4
SPECIFICATION Spec
INVARIANTS
  TypeOK
  ChildEndsMatch
  NoStaleEntry
  PeriodicSampling
  FencedCalls
PROPERTY
  WrapsChild
