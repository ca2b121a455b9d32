SPECIFICATION Spec
CONSTANTS
  NumTerminals = 2
  NUM_COLS = 2
  NUM_ROWS = 2
  MAX_BUF_SIZE = 3
  SPACE_ASCII = "SPACE"
  END_OF_LINE = "EOL"
  NUL = "NUL"
  Chars = {"a"}
  Texts <- SmallTexts
INVARIANT CursorIsDisplayedOnes
INVARIANT LineStandsBeforeCursor
PROPERTY ImplementsConsoles
PROPERTY BackspaceErasesLastTyped
