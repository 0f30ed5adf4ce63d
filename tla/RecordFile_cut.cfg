CONSTANTS
  Entries <- AllEntries
  MaxEntries = 2
  FirstNul <- StartNul
  InnerNul <- LaterNul
  DiskFills = TRUE
SPECIFICATION Spec
INVARIANTS LoadsAsAbstracted AddedIsPrefix RawFieldsKept OnlyTheLastIsCut
PROPERTIES WholeFileLoads
CHECK_DEADLOCK FALSE
