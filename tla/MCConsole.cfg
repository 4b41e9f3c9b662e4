SPECIFICATION MCSpec
CONSTANTS
  INPUT_BUF = 4
  HISTORY_SIZE = 3
  MaxKeys = 6
  MAXARGS = 3
  LineLength = 5
INVARIANTS LineSound ParserRight CommandMeans
PROPERTIES IsLineEditor KeyEffects TabAnswered
CHECK_DEADLOCK FALSE
