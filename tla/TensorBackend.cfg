CONSTANTS
  NSlots = 5
  MaxEntry = 2
  MaxNode = 3
  MaxLeaf = 3
  KeySize = 9
  NScalars = 1
  Scalars = {1}
  Axes = {1, 2}
  Calls = {"unary", "binary", "scalar", "sum", "std", "reshape", "gather", "slice", "standardise"}
  MaxFaults = 1
  MaxSteps = 3
SPECIFICATION MCSpec
INVARIANTS RefsCount HandlesKept ValueStands GradientReaches
