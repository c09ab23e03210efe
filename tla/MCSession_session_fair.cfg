SPECIFICATION FairSpec
CONSTANTS
  MaxConns = 2
  MaxPrompts = 1
  MaxCommands = 1
  MaxCancels = 1
  MaxTerms = 1
  Retries = 1
CHECK_DEADLOCK FALSE
PROPERTIES CallEnds CancelCloses ServerLeaves
