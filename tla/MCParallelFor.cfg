SPECIFICATION Spec
CONSTANTS
  BufLen = 3
  MaxBlocks = 3
  MaxCap = 3
  SpanChoices <- MCSpans
  PerChoices <- MCPer
INVARIANTS
  ExclusiveWriters
  PanicCarriesItsLocation
PROPERTIES
  FanOutSpec
  Returns
