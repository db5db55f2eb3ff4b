SPECIFICATION FairSpec
CONSTANTS
  Role = {r1}
  Project = {alpha, beta}
  Model = {m1}
  NoTag = NoTag
  Nobody = Nobody
  Skipped = Skipped
  TTL = 2
  PollSpan = 1
INVARIANTS TypeOK
PROPERTIES PricedAsTagged SkippedForCause RetagIsSeen
