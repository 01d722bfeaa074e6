SPECIFICATION Spec
CONSTANTS
  BUFFER_BLOCK_SIZE = 2
  READ_BUFFER_SIZE = 2
  MaxDigits = 1
  MaxReceived = 8
INVARIANTS
  TypeOK
  ChunksDoNotMatter
PROPERTIES
  LexerComesToRest
CHECK_DEADLOCK FALSE
