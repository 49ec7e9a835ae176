SPECIFICATION Spec
CONSTANTS
  MaxWrites = 2
  MaxCrashes = 2
  MaxNumber = 10
  MaxForced = 0
  WriteBuffer = 1
  Faults <- AllFaults
INVARIANT OpenSound OwedIsOnDisk CorruptOnlyWhenNew FilesSound
PROPERTY StoreSpec
CHECK_DEADLOCK FALSE
