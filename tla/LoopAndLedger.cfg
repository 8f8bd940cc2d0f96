SPECIFICATION EitherSpec
CONSTANTS
  Thread = {w1, w2}
  Outcome = {o1, o2}
  NoSnapshot = NoSnapshot
  Lo = 0
  Hi = 1
  Step = 1
  Initial = 0
  MaxSamples = 1
  MaxTicks = 3
  Process = {p1, p2}
  Request = {r1, r2, r3}
  NonText = {}
  None = None
  InsertFaults = TRUE
  Closes = FALSE
  PowerFails = FALSE
  MaxEdits = 0
CHECK_DEADLOCK FALSE
INVARIANTS
  OutcomesKept OutcomesOnce UpdatesFromTold
  MirrorsArePrefixes ChainSurvives AckedIsDurable ReaderSeesPrefix
PROPERTIES
  DrainedIsObserved LogSpec
