SPECIFICATION Spec
CONSTANTS
  Trees <- AllTrees
  Caps = {1, 2, 3, 4, 5, 8}
INVARIANTS
  ScanIsSequential
