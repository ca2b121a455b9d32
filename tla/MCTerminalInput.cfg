SPECIFICATION Spec
CONSTANTS
  NumTerminals = 2
  MAX_BUF_SIZE = 3
  Chars = {"a"}
  SPACE_ASCII = "SPACE"
  END_OF_LINE = "EOL"
  NUL = "NUL"
  Requests = {2, 4}
  TypingAhead = FALSE
PROPERTY ImplementsLines
PROPERTY ReadEndsInNewline
PROPERTY NobodyWaitsForEver
