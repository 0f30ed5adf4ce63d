SPECIFICATION Spec
CONSTANTS
  Byte <- MCByte
  XorByte <- MCXor
  Add <- MCAdd
  PTable <- MCPTable
  STable <- MCSTable
  Ivs <- MCIvs
  HashBlock = 16
  Radix = 4
  Obj = {e1, e2}
  Texts <- MCTexts
  Fields <- MCFields
  Seeds <- MCSeeds
  Stuffs <- MCStuffs
  Salts <- MCSalts
  AlgorKey <- MCAlgorKey
  HashBytes <- MCHashBytes
  Stirs = 2
  MaxRecords = 2
INVARIANTS ReadsBack HoldsItsText OpensAgain FormatKept
CHECK_DEADLOCK FALSE
