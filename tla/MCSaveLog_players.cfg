SPECIFICATION Spec
CONSTANTS
  p1 = p1  p2 = p2  w1 = w1
  look = look  move = move  die = die  yes = yes
  Players = {p1, p2}
  Watchers = {}
  Commands = {move, die}
  Answers = {yes}
  Prompts <- OnePrompt
  Deadly = {die}
  Garble = Garble
  NoCommand = NoCommand
  MaxLines = 5
  MaxRecoveries = 3
  MaxCrashes = 1
  MaxPanics = 1
CHECK_DEADLOCK FALSE
SYMMETRY PlayerSymmetry
INVARIANTS Inv WriterInSync
PROPERTIES RecoveryLosesNothing HistoryKept
