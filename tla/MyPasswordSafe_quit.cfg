SPECIFICATION Spec
CONSTANTS
  Entries = {"e1"}
  Groups = {}
  Home <- HomeOfE1
  Paths = {"p"}
  MaxVersion = 2
  MaxDialogs = 1
  SavesFail = FALSE
  LoadsFail = FALSE
PROPERTY QuitKeepsChanges
