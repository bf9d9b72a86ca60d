SPECIFICATION TimerSpec
CONSTANTS
  w1 = w1
  w2 = w2
  heap = heap
  queueLock = queueLock
  s1 = s1
  s2 = s2
  Worker = {w1, w2}
  Idle = Idle
  Initial = Initial
  HeapLock = heap
  QueueLock = queueLock
  Lock = {heap, queueLock}
  Counter = {s1, s2}
  SleepSema <- OwnSema
  InitialCount <- NoUnits
  IsrSema = {s1, s2}
  Creator = {Initial}
  Duration = {0, 2}
  TimeSlice = 6
  MaxTicks = 4
  MaxCalls = 2
  MaxCount = 5
CHECK_DEADLOCK FALSE
PROPERTIES WokenReturns
