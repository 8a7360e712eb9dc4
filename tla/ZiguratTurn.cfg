CONSTANTS
  Clients = {c1, c2}
  NoOne = none
  LockWait = 2
SPECIFICATION FairSpec
INVARIANTS HeldIsLocked WorkUnderTurn
PROPERTY VerbEnds
