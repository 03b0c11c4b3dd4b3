\* One run, as in Investigation.cfg.
SPECIFICATION Spec
CONSTANTS
  None = None
  Broken = Broken
  DefaultLimit = 3
  ShownLimit = 2
  WideEnough = 3
  FlaggedMost = 2
  HeadlinesMost = 2
  Spellable = {"BTC", "ETH", "SOL"}
  Slack = 1
  MaxRetries = 1
  Fears = {20, 75}
  Requests <- MCRequests
  Markets <- MCMarkets
  Histories <- MCHistories
  Contents <- MCContents
  Snapshots <- MCSnapshots
INVARIANT CapListHoldsTheTop
