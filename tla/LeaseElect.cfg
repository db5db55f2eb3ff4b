SPECIFICATION Spec
CONSTANTS
  r1 = r1
  r2 = r2
  r3 = r3
  Nobody = Nobody
  Replica = {r1, r2}
  offset <- MCAhead
  Skew = 1
  LeaseDuration = 9
  RenewDeadline = 2
  RetryPeriod = 1
  MainPause = 1
  JoinSpan = 1
  CallSpan = 1
  MaxTime = 20
  MaxFaults = 2
  MaxStops = 1
INVARIANTS TypeOK LeaderHoldsLease LapseIsShort
PROPERTIES LeadershipIsKept
CHECK_DEADLOCK FALSE
