SPECIFICATION Spec
CONSTANTS
  Capacity = 5
  Decls <- MCDecls
  Zs <- MCZs
  Inputs <- MCInputs
  Far = 1
  MaxFrames = 2
  MaxMade = 4
  MaxScrolls = 2
INVARIANTS TreeWhole CutAsDeclared NothingDropped MapCurrent LossIsTold
PROPERTY ScrollRemembered
CHECK_DEADLOCK FALSE
