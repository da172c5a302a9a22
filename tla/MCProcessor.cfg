CONSTANTS
  Length = 2
  Depth = 2
  AluWords <- MCAluWords
  AluPrograms <- MCPrograms
  ByteValues = 6
  PageBytes = 12
  Setups <- MCSetups
  Evictions = 1
  Dirs = {0}
  Tabs = {0, 1}
  Ways = 2
  Frames = {0, 1}
  Contents <- MCContents
  Pae = FALSE
  Prime = 5
  Registers = 3
SPECIFICATION MCSpec
CHECK_DEADLOCK FALSE
INVARIANTS
  StackIsStack
  ProgramsRight
  Restartable
  TranslationsRight
  ProgramInOrder
PROPERTIES
  Completes
  SmiServed
