SPECIFICATION FairSpec
CONSTANTS
  alpha = alpha
  beta = beta
  r1 = r1
  r2 = r2
  r3 = r3
  Absent = Absent
  Project = {alpha}
  Role = {r1, r2}
  FirstTags <- MCTagsAlpha
  NoTag = NoTag
  Thresholds = {500}
  Settings <- MCSettings
  FirstConfig <- MCConfig
  MaxSpend = 2
  MaxDay = 1
  MaxEdits = 1
  MaxStops = 1
  MaxFaults <- MCIamFaults
INVARIANTS DenyIsRemembered
PROPERTIES OverBudgetIsBlocked EnforceOffLifts
