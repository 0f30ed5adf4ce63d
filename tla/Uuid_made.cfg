SPECIFICATION Spec
CONSTANTS
  Objects = {u1, u2}
  Instants <- MCInstants
  Ticks = 2
  Draws <- MCDraws
  Nodes <- MCNodes
  MaxFiles = 2
  MaxBack = 1
SYMMETRY Symmetric
INVARIANTS UniqueInObject TimeIsReadBack FormsAgree SaveHasAFile
CHECK_DEADLOCK FALSE
