CONSTANTS
  Secrets = {"pw", "user"}
  MaxTimeOut = 3
  HasSelection = TRUE
  ClearOnExit = TRUE
SPECIFICATION Spec
INVARIANTS HeldInTime
PROPERTIES PutBackIsCleared
