SPECIFICATION Spec
CONSTANTS
  Replica = {r1, r2}
  LookBack = 1
  LastDay = 2
  MaxEvents = 2
  MaxTerms = 3
  MaxFaults = 0
PROPERTIES FailoverResumes
CHECK_DEADLOCK FALSE
