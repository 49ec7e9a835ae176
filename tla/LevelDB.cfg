SPECIFICATION AllSpec
CONSTANTS
  Caller = {1, 2, 3, 4}
  NoCaller = 0
  Call <- CallMade
  Size <- BatchSize
  Pieces = 1
  WriteBuffer = 0
  Trigger = 1
  Slowdown = 1
  Stop = 2
  SmallBatch = 2
  LargeGroup = 4
  Faults = {"append", "sync", "switch", "background"}
  LockThread = {1, 2, 3}
  NoLock = 0
  FileThread = {1, 2, 3}
  TableFile = {1, 2, 3}
  MmapLimit = 1
  FdLimit = 1
INVARIANT QueueSound ListSound CursorAgrees  LimitsSound
          LogSound TableSound RepairSound
PROPERTY CacheSound
CHECK_DEADLOCK FALSE
