SPECIFICATION Spec
CONSTANTS
  MaxConns = 2
  MaxPrompts = 2
  MaxCommands = 2
  MaxCancels = 1
  MaxTerms = 1
  Retries = 1
CONSTRAINT PromptsOrTerm
CHECK_DEADLOCK FALSE
INVARIANTS TurnsAlternate AnswersThePrompt CancelReaches SessionInv
