CONSTANTS
  Kernels <- MCKernels
  RegionNames <- MCRegions
  NoEntry = NoEntry
  RegionSlots = 2
  MaxLive = 2
  MaxBegins = 3
  MaxClock = 2
  Demangled <- MCDemangled
  Empty = ""
  MaxFiles = 2
SPECIFICATION ReaderSpec
INVARIANTS
  MergedExact
  MergedConserves
  SummariesTrue
