CONSTANTS
  LastId = 2
  Letters <- AllLetters
  Stamps <- AllStamps
  Docs <- AllDocs
  Users <- TwoUsers
  NowAt <- NowIn
  FreshAt <- FreshIn
  FirstNul <- Firsts
  CString <- Cut
  MaxRounds = 3
SPECIFICATION FormatsSpec
INVARIANTS SecretsSurvive NeverThrows
PROPERTIES FieldsKept GroupsKept StableAfterOne
CHECK_DEADLOCK FALSE
