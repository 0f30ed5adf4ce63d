SPECIFICATION Spec
CONSTANTS
  Entries = {"e1", "e2"}
  Groups = {"g"}
  Home <- HomeOfE1
  Paths = {p, q}
  MaxVersion = 2
  MaxDialogs = 2
  SavesFail = TRUE
  LoadsFail = TRUE
SYMMETRY PathsAlike
INVARIANT SaveEnabledWhenChanged
INVARIANT OneDialogPerEntry
INVARIANT CleanHidesOnlyDeletions
PROPERTY DiscardNeedsNo
