SPECIFICATION SystemSpec
CONSTANTS
  Elem = {e1, e2, e3}
  List = {"first", "second"}
  Null = Null
  First = p
  Proc = {p, c1, c2, c3}
  Code = {0, 1}
  Frame <- MCFrame
  NewPage <- MCNewPage
  Elsewhere <- MCElsewhere
  Slots = 3
  Skew = 1
  BootMap <- MCBootMap
  Address <- MCAddress
  MaxPages = 10
  FdCount = 4
  SemtableSize = 2
  MaxOpens = 5
  CacheSize = 3
  Written = {1, 2, 4}
  UserLocks = 2
  Functions <- MCFunctions
  Absent <- MCAbsent
  Machine <- MCMachine
  MaxDevices = 2
  MaxFunctions = 2
  ByteBits = 1
  Conversion <- MCConversion
  Argument = {0, 1, 7, 9, 18, 200, 255}
  MaxCells = 16
  MaxLines = 2
  Text <- MCText
  TickText <- MCTickText
  MaxPrints = 4
  Bytes = 2
  NanoPerSec = 40
  MsPerSec = 4
  Quantum = 5
  Length <- MCLength
  Seconds = {0, 1, 2, 3, 20, 50, 100}
  Nanos <- MCNanos
CHECK_DEADLOCK FALSE
INVARIANT CopyKeepsContents
