CONSTANTS
  Strategy = {s1, s2}
  Parameter = {p}
  Value = {1, 2}
  Given = {None}
  Bound = {{1}}
  None = None
  Boots = {"replay", "empty"}
  MaxRows = 6
  MaxBoots = 2
SPECIFICATION Spec
SYMMETRY Symmetry
INVARIANTS
  RecordsAreReplay
  HistoriesContinue
  UpdatesWereRatified
  ParametersInBounds
CHECK_DEADLOCK FALSE
