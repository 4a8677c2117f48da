SPECIFICATION LibrarySpec
CONSTANTS
  Elfs <- MCElfs
  Streams <- MCStreams
  ConfigOf <- MCConfigOf
  Ceilings <- MCCeilings
  Libraries <- MCLibraries
  Seeds = {"seed"}
  Boot = 226
  Ids = 256
  None = None
INVARIANTS
  LibraryTypeOK
  ChildrenUseTheirInterpreter
  StreamsAreReadOnce
  ReportedFilesStay
  DecodedWithinLimits
  RelocationsKeepTheirSymbols
  NothingElseIsTouched
  PublishedOnlyWhole
CHECK_DEADLOCK FALSE
