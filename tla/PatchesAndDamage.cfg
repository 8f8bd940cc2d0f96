SPECIFICATION EitherSpec
CONSTANTS
  Strategy = {s1}
  Reason = {"win_rate"}
  Ticker = {t1, t2}
  Reviewer = {v1}
  MaxPatches = 3
  Gated = FALSE
  Process = {p1}
  Request = {r1, r2, r3}
  NonText = {r3}
  None = None
  InsertFaults = TRUE
  Closes = TRUE
  PowerFails = TRUE
  MaxEdits = 2
SYMMETRY EitherSymmetry
CHECK_DEADLOCK FALSE
INVARIANTS
  OncePerBreach DecisionsTellStages
  BootedIsGenuine VerifiersAgree
