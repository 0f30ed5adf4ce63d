CONSTANTS
  Stems = {"a", "b"}
  Exts = {"dat"}
  MaxRev = 2
  Faults <- CarefulUse
SPECIFICATION Spec
INVARIANTS CleanIsRecoverable OneGoodCopy
PROPERTIES StoreSpec BackupIsPrevious LoadReturns
