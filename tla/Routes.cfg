SPECIFICATION Spec
CONSTANTS
  Controllers = {"A"}
  Methods = {"one", "two"}
  Verbs = {"GET", "POST"}
  Paths = {"a", "b"}
  MaxAnnotations = 1
INVARIANTS
  RoutesAsDeclared
CHECK_DEADLOCK FALSE
