SPECIFICATION Spec
CONSTANTS
  Modules = {"a", "b"}
  CompanionOf <- MCCompanionOf
  Drops <- MCGuardDrops
  Limits = {1}
  MaxFiles = 3
  Loops = {1}
  Stagers = {1}
PROPERTIES
  OversizedIsNeverRead
CHECK_DEADLOCK FALSE
