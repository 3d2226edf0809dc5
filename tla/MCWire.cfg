SPECIFICATION Spec
CONSTANTS
  Chars <- MCChars
  Entities <- MCEntities
  Carried <- MCCarried
  BufferSize = 3
  MaxLines = 2
CHECK_DEADLOCK FALSE
INVARIANTS
  LinesAreReadBack
  ReceptionInv
PROPERTIES
  LinesAreHandled
