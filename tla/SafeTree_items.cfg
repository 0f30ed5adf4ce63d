CONSTANTS
  Safe = safe
  Groups = {g1, g2, g3}
  Entries = {e1, e2}
SPECIFICATION Spec
INVARIANTS TreeIsSound ViewAgrees
PROPERTIES DeletesTheSubtree DeletionEnds
