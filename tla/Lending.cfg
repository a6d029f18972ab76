SPECIFICATION Spec
CONSTANTS
  Globals = {x}
  Param = a
  Blocks = {b1, b2, b3}
  Promises = {p}
  Literals = {2}
  MaxLength = 2
  MaxRefs = 3
  MaxStack = 3
SYMMETRY Interchangeable
INVARIANTS
  SoundUnlessLapse
  VisitsEachOnce
PROPERTIES
  EndsWithAll
CHECK_DEADLOCK FALSE
