CONSTANTS
  IdleLock = TRUE
  MaxShots = 3
  MaxLocks = 2
  Secrets = {"pw", "user"}
  MaxTimeOut = 3
  HasSelection = TRUE
  ClearOnExit = TRUE
SPECIFICATION DeskSpec
INVARIANTS OneLockWaits LockedIsForgotten
PROPERTIES RestoreLocks LockEnds
CHECK_DEADLOCK FALSE
