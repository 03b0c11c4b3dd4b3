\* The instance is bounded (runs, edits, losses), so it stops when they are used up.
SPECIFICATION FairSpec
CONSTANTS
  Runs = {r1}
  Web = {w1}
  Workers = {k1}
  MaxVersion = 1
  Legacy = {}
  MaxRetries = 1
  MaxLosses = 1
  NoRun = NoRun
  NoResult = NoResult
PROPERTIES EveryRunEnds StrandedRescued KeepsContract
CHECK_DEADLOCK FALSE
