SPECIFICATION Spec
CONSTANTS
  hs = hs
  hp = hp
  h = h
  Source <- Text
  Literals = 1
  Handlers = {hs, hp, h}
  NoHandler = NoHandler
  Registrations <- Uses
  Effects <- Does
  FirstModifiers <- Builtin
  MaxTypes = 2
  MaxNesting = 2
INVARIANTS
  AppliedInOrder
  BodyHeldOnce
  SeenTypesAreComplete
CHECK_DEADLOCK FALSE
