SPECIFICATION LearnSpec
CONSTANTS
  Thread = {w1, w2}
  Outcome = {o1, o2}
  NoSnapshot = NoSnapshot
  Lo = 0
  Hi = 1
  Step = 1
  Initial = 0
  MaxSamples = 1
  MaxTicks = 3
CHECK_DEADLOCK FALSE
INVARIANT OutcomesReach
