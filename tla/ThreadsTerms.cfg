SPECIFICATION FairSpec
CONSTANTS
  Batch = 2
  PromptStart = TRUE
  MaxTerms = 3
  MaxTimeouts = 1
  MaxFaults = 1
INVARIANTS TypeOK StrayCallsAreOneBatch FenceIsTrue
PROPERTIES ShutdownEnds HolderEnforces StandbyIsQuiet
CHECK_DEADLOCK FALSE
