SPECIFICATION Spec
CONSTANTS
  e1 = e1
  e2 = e2
  e3 = e3
  Event = {e1, e2, e3}
  ts <- MCTsOneDay
  Billable = {e1, e2, e3}
  Overlap = 1
  Lookback = 1
  DayLength = 20
  FetchSpan = 1
  StartTime = 2
  MaxTime = 5
  MaxCrashes = 0
  MaxSigterms = 1
  MaxLoadFaults = 0
INVARIANTS NeverPricedTwice
