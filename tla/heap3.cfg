CONSTANTS
  Cell = {c1, c2, c3}
  Nil = Nil
  Table = Table
  Leaf = Leaf
  Types <- MCTablesOnly
  SizeOf <- MCSizeOf
  TraceType <- MCTraceType
  LockableTypes = {}
  TimingNum = 3
  TimingDen = 2
  PauseNum = 1
  PauseDen = 2
  CollectionGranularity = 2
  MinSleep = 2
  MaxRoots = 1
SPECIFICATION Spec
SYMMETRY CellSymmetry
CONSTRAINT DefinedBehaviour
INVARIANTS TypeOK AllListExact  TotalAllocatedExact RootsLive BlackInvariant GrayEntriesLive LeakFree
