\* Checks what a document says; the instance is bounded, so it stops.
SPECIFICATION Spec
CONSTANTS
  Runs = {r1}
  Web = {w1}
  Workers = {}
  MaxVersion = 2
  Legacy = {}
  MaxRetries = 1
  MaxLosses = 0
  NoRun = NoRun
  NoResult = NoResult
INVARIANT ReceiptNamesItsVersion
CHECK_DEADLOCK FALSE
