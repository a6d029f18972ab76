SPECIFICATION FairSpec
CONSTANTS
  Promises = {p1, p2, p3}
  Plain = {u, v}
  MaxDepth = 3
INVARIANTS
  TypeOK
  OneRunnerPerTakenTask
  StillPendingOnlyIfReentrant
  AnswerIsEndOfChain
PROPERTIES
  KeepsPromises
  AwaitComesBack
CHECK_DEADLOCK FALSE
