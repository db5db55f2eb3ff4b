SPECIFICATION Spec
CONSTANTS
  Replica = {r1, r2}
  LookBack = 1
  LastDay = 2
  MaxEvents = 2
  MaxTerms = 2
  MaxFaults = 0
INVARIANTS BilledOnce SpendIsComplete
CHECK_DEADLOCK FALSE
