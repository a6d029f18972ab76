SPECIFICATION Spec
CONSTANTS
  Columns = {0, 1, 2}
  MaxLines = 5
  MaxIrregular = 3
INVARIANTS
  TokensBalance
  LevelsAreOpenColumns
  StructureIsColumns
  RegularIsAccepted
  OverrunOnlyIfUnterminated
CHECK_DEADLOCK FALSE
