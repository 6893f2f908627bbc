CONSTANTS
  MaxAttempts = 2
  MaxSentences = 1
  MaxReconnects = 1
SPECIFICATION HomeSpec
CHECK_DEADLOCK FALSE
INVARIANT ResetForgets
