SPECIFICATION Spec
CONSTANTS
  Images <- MCImages
  Word <- W
  None = None
  MaxPerTable = 2
  MaxDescriptors = 3
  MaxThunks = 5
  MaxDelay = 3
  MaxCallbacks = 5
  MaxBlocks = 4
  MaxExceptions = 3
  MaxBound = 3
  MaxSections = 3
  MaxStreams = 6
  MaxStreamName = 32
  MaxRelocations = 4
  MaxDynamic = 16
  MaxSlots = 4
  MaxBuckets = 4
INVARIANT SoundTlsIsQuiet
CHECK_DEADLOCK FALSE
