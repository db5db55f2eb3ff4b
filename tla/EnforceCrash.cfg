SPECIFICATION Spec
CONSTANTS
  alpha = alpha
  beta = beta
  r1 = r1
  r2 = r2
  r3 = r3
  Absent = Absent
  Project = {alpha, beta}
  Role = {r1, r2, r3}
  FirstTags <- MCTags
  NoTag = NoTag
  Thresholds = {50, 100}
  Settings <- MCSettings
  FirstConfig <- MCConfig
  MaxSpend = 1
  MaxDay = 1
  MaxEdits = 1
  MaxStops = 1
  MaxFaults <- MCCrashFaults
SYMMETRY MCSymmetry
INVARIANTS TypeOK PollIsExact BlockedMeansDenied AlertsRepeatOnlyAfterLoss
