CONSTANTS
  Stems = {"a"}
  Exts = {"txt"}
  MaxRev = 2
  Faults <- AnythingGoes
SPECIFICATION Spec
INVARIANTS TypeOK
