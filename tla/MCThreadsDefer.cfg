SPECIFICATION Spec
CONSTANTS
  w1 = w1
  w2 = w2
  lk = lk
  heap = heap
  ctr = ctr
  Worker = {w1, w2}
  Idle = Idle
  Initial = Initial
  HeapLock = heap
  Lock = {heap}
  Counter = {ctr}
  InitialCount <- OneCounter
  IsrSema = {ctr}
  Creator = {Initial}
  MaxCalls = 2
  MaxCount = 1
PROPERTIES YieldsAfterRestoring
