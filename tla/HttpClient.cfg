SPECIFICATION FairSpec
CONSTANTS
  Capacity = 1
  MaxOutput = 2
  Attempts = 3
INVARIANTS
  TypeOK
  NothingLeftBehind
  ResultFollowsOutcomes
PROPERTIES
  CallComesBack
CHECK_DEADLOCK FALSE
