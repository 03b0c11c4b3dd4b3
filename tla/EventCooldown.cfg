\* The instance is bounded (runs, attempts, clock), so it stops.
SPECIFICATION Spec
CONSTANTS
  Runs = {r1, r2}
  Assets = {a1}
  Cooldown = 25
  Attempts = 2
  Start = 1380
  Step = 15
  Horizon = 1410
  NoAsset = NoAsset
INVARIANTS TypeOK SuppressionIsRecent DuplicatesNeedOverlap CountsItsReceipts StampedWasSent
SYMMETRY Symmetry
CHECK_DEADLOCK FALSE
