SPECIFICATION FairSpec
CONSTANTS
  e1 = e1
  e2 = e2
  e3 = e3
  Event = {e1, e2, e3}
  ts <- MCTsMidnight
  Billable = {e1, e2, e3}
  Overlap = 2
  Lookback = 1
  DayLength = 5
  FetchSpan = 1
  StartTime = 2
  MaxTime = 5
  MaxCrashes = 1
  MaxSigterms = 1
  MaxLoadFaults = 1
INVARIANTS TypeOK BilledOnce SnapshotCoherent SpendIsOfItsDay OnlyLaggardsAreMissed
PROPERTIES SavedSpendOnlyGrows LedgerSpec WindowIsRead
