CONSTANTS
  Environments <- MCEnvironments
  Library <- MCLibrary
  Names <- MCNames
  NotSet = NotSet
  Unreadable = Unreadable
  Malformed = Malformed
  ChildFirst = 4
  MaxLive = 3
  MaxBegins = 4
SPECIFICATION Spec
INVARIANTS
  TypeOK
  EndsRouted
  ActiveDrains
PROPERTY
  FinalizeMeansIt
  WrapsChild
