SPECIFICATION Spec
CONSTANTS
  Files = {"f1", "f2"}
  Generates = {"show", "fetch"}
  Switches = {"lock"}
  Tries = {0, 2}
  TimeOuts = {0, 60}
  FoundTries = {3, 12}
PROPERTY SettingsSurvive
