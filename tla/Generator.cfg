SPECIFICATION Spec
CONSTANTS
  Role = {r1, r2}
  Managed = {"Allow"}
  Inline = {"Deny"}
  MaxAttempts = 2
  LastMinute = 2
  MaxFaults = 3
INVARIANTS TypeOK LoggedOnce
PROPERTIES BlockedIsSuppressed CatchesUp ComesBack
