SPECIFICATION Spec
CONSTANTS
  None = None
  Window <- MCWindow
  Capacity = 2
  ModeGiven = {TRUE, FALSE}
  BootTrading = FALSE
  BootDeveloping = TRUE
  Raised = {"LOW", "CRITICAL"}
  MaxSignals = 2
  MaxHazards = 3
  MaxPosition = 1
  MaxTime = 1
PROPERTIES FillsClearOfHazards HazardNeverRelaxes OffHolds
