SPECIFICATION Spec
CONSTANTS
  alpha = alpha
  beta = beta
  r1 = r1
  r2 = r2
  r3 = r3
  Absent = Absent
  Project = {alpha}
  Role = {r1, r2}
  FirstTags <- MCTagsAlpha
  NoTag = NoTag
  Thresholds = {50, 100}
  Settings <- MCSettings
  FirstConfig <- MCConfig
  MaxSpend = 1
  MaxDay = 0
  MaxEdits = 0
  MaxStops = 1
  MaxFaults <- NoFaults
INVARIANTS AlertsOncePerDay
