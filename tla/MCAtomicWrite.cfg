SPECIFICATION Spec
CONSTANTS
  Writers = {"w1", "w2", "w3"}
  Names = {"t1", "t2", "t3"}
  Size = 2
  Attempts = 3
  Windows = TRUE
INVARIANTS
  DestIsWhole
  NoStrayTemporary
PROPERTIES
  EveryCallReturns
  AtomicReplaceSpec
