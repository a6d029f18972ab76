SPECIFICATION Spec
CONSTANTS
  a = a
  b = b
  x = x
  y = y
  z = z
  pr = pr
  Files = {a, b, builtins}
  Builtins = builtins
  Main = program
  Names = {x, y, z, pr}
  Natives = {pr}
  Public <- PublicNames
  Private <- PrivateNames
  Imports <- Layered
  MaxNesting = 4
INVARIANTS
  MarkedIsNotExported
CHECK_DEADLOCK FALSE
