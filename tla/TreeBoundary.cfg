SPECIFICATION Spec
CONSTANTS
  LevelBytes = 2
  GrandLimit = 1
  ExpandLimit = 6
  Options <- Divided
INVARIANT ReadsAgree
CHECK_DEADLOCK FALSE
