SPECIFICATION Spec
CONSTANTS
  w1 = w1
  w2 = w2
  heap = heap
  lk = lk
  ctr = ctr
  Worker = {w1, w2}
  Idle = Idle
  Initial = Initial
  HeapLock = heap
  Lock = {heap, lk}
  Counter = {ctr}
  InitialCount <- OneCounter
  IsrSema = {ctr}
  Creator = {Initial, w1, w2}
  MaxCalls = 2
  MaxCount = 1
SYMMETRY Interchangeable
INVARIANTS IInv CriticalAtomic MutualExclusion HolderIsOwner LevelTellsTruth EoiOwed
  ListsSound StatusMatchesList
PROPERTIES SwitchesWithInterruptsOff DeadStaysDead KeepsPromise
