SPECIFICATION FairSpec
CONSTANTS
  Replica = {r1, r2}
  LookBack = 0
  LastDay = 1
  MaxEvents = 1
  MaxTerms = 2
  MaxFaults = 1
INVARIANTS TypeOK BilledOnce SpendIsComplete
PROPERTIES LeaderHasTheLastWord
CHECK_DEADLOCK FALSE
