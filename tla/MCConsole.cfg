SPECIFICATION Spec
CHECK_DEADLOCK FALSE
CONSTANTS
  SCREEN_WIDTH = 8
  SCREEN_HEIGHT = 2
  ByteValues = 4
  Nul = Nul
  IntBits = 4
  LongLongBits = 6
  Scripts <- MCScripts
  HandlerTexts <- MCHandlerTexts
  MaxInterrupts = 2
  Characters <- MCCharacters
INVARIANTS InsideScreen EachTextWhole
PROPERTIES ImplementsTerminal
