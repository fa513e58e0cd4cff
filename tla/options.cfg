SPECIFICATION Spec
CONSTANTS
  Parsers <- MCParsers
  Pointers <- MCPointers
  Programs <- MCPrograms
  Reads <- MCReads
  Size <- Bytes
  Known <- MCKnown
  MaxWords = 2
INVARIANTS
  OwnWord
  Fits
  Within
  Carried
  Readable
  Whole
  Aligned
CHECK_DEADLOCK FALSE
