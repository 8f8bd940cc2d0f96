SPECIFICATION FairSpec
CONSTANTS
  w1 = w1  w2 = w2  d1 = d1  n1 = n1  n2 = n2  h1 = h1  h2 = h2  p1 = p1  p2 = p2
  None = None
  Workers = {w1, w2}
  Drifters = {d1}
  Serialised = {}
  Nonces = {n1}
  PolicyHashes = {p1}
  GateHashes = {h1}
  GatesWired = FALSE
  OperatorScoped = {"CANARY"}
  NonceCapacity = 1
  FreshnessWindow = 1
  LedgerFaults = FALSE
  FileLoss = FALSE
  MaxTime = 0
  MaxConsents = 1
  MaxBoots = 0
CHECK_DEADLOCK FALSE
PROPERTIES KillLocks
