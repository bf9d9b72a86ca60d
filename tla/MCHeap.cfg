SPECIFICATION Spec
CONSTANTS
  Thread = {t1, t2}
  None = None
  Null = Null
  KernelPages = 3
  UserPages = 1
  AddrPages = 32
  PhysBase = 16
  MaxRun = 2
  Class = {1, 2}
  MaxPartly = 1
  ArenaSize <- TwoBlocks
SYMMETRY Interchangeable
CHECK_DEADLOCK FALSE
INVARIANTS MemoryTypeOK ScansFindFirst OneHolder FreeListsSound WildHasCause
PROPERTIES PastEndLast NothingReturns
