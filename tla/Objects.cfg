SPECIFICATION ObjectsSpec
CONSTANTS
  Variables = {x, y}
  Attributes = {a}
  Blocks = {1, 2, 3}
  Instances = {1}
  MaxRefs = 4
INVARIANTS
  OwnersExact
PROPERTIES
  ObjectsAreValues
CHECK_DEADLOCK FALSE
