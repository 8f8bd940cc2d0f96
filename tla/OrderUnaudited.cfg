SPECIFICATION Spec
CONSTANTS
  None = None
  Window <- MCWindow
  Capacity = 2
  ModeGiven = {FALSE}
  BootTrading = FALSE
  BootDeveloping = TRUE
  Raised = {"LOW"}
  MaxSignals = 2
  MaxHazards = 2
  MaxPosition = 1
  MaxTime = 1
PROPERTIES FillsAreAudited
