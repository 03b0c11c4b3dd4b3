\* The instance is bounded (runs, edits, losses), so it stops when they are used up.
SPECIFICATION Spec
CONSTANTS
  Runs = {r1}
  Web = {w1}
  Workers = {k1}
  MaxVersion = 2
  Legacy = {2}
  MaxRetries = 1
  MaxLosses = 1
  NoRun = NoRun
  NoResult = NoResult
INVARIANTS TypeOK ResultAtHand SettledWhenIdle ReceiptOfNewestResult CompleteHasReceipt
PROPERTY FinalStays
CHECK_DEADLOCK FALSE
