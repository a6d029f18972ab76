SPECIFICATION CallsSpec
CONSTANTS
  Envs = {global, e1, e2, e3, e4}
  Global = global
  Main = main
  outer = outer
  inner = inner
  f = f
  g = g
  a = a
  b = b
  Funs = {outer, inner}
  Names = {f, g, a, b}
  Plain = {number}
  MaxDepth = 4
  Within <- NestedWithin
  Params <- DistinctParams
  Writes <- DistinctWrites
  MaxActs = 7
  StrayAllowed = TRUE
SYMMETRY Interchangeable
INVARIANTS
  NoDanglingEnv
  RefsExact
  FramesBalanced
  ReturnUnwinds
  EscapeReachesItsLoop
PROPERTIES
  ArgumentsBindLocally
CHECK_DEADLOCK FALSE
