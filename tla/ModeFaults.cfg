SPECIFICATION Spec
CONSTANTS
  w1 = w1  w2 = w2  d1 = d1  n1 = n1  n2 = n2  h1 = h1  h2 = h2  p1 = p1  p2 = p2
  None = None
  Workers = {w1}
  Drifters = {d1}
  Serialised = {w1, d1}
  Nonces = {n1, n2}
  PolicyHashes = {p1, p2}
  GateHashes = {h1, h2}
  GatesWired = TRUE
  OperatorScoped = {}
  NonceCapacity = 2
  FreshnessWindow = 1
  LedgerFaults = TRUE
  FileLoss = TRUE
  MaxTime = 0
  MaxConsents = 2
  MaxBoots = 1
SYMMETRY Symmetric
CHECK_DEADLOCK FALSE
INVARIANTS LedgerAgrees BoundIsAnchored ConsentBacksMove
