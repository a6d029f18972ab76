SPECIFICATION FairSpec
CONSTANTS
  c1 = c1
  c2 = c2
  Conns = {c1, c2}
  NoConn = NoConn
  HeaderSize = 2
  Requests <- MCRequests
  Chunk = 2
  Modulus = 8
  MaxSent = 4
INVARIANTS
  TypeOK
  BodyIsWhatWasSent
  RightAnswer
PROPERTIES
  ServesInTurn
  Served
CHECK_DEADLOCK FALSE
