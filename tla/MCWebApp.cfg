SPECIFICATION Spec
CONSTANTS
  Modules = {"a", "b"}
  CompanionOf <- MCCompanionOf
  Drops <- MCDrops
  Limits = {1, 2}
  MaxFiles = 3
  Loops = {1, 2}
  Stagers = {1, 2}
INVARIANTS
  OneLoopPerEntry
  WorkingIsHeld
  ResultBelongsToItsFile
  QuietPageIsCurrent
PROPERTIES
  LoopsEnd
