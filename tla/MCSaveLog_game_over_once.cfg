SPECIFICATION Spec
CONSTANTS
  p1 = p1  p2 = p2  w1 = w1
  look = look  move = move  die = die  yes = yes
  Players = {p1, p2}
  Watchers = {}
  Commands = {die}
  Answers = {yes}
  Prompts <- OnePrompt
  Deadly = {die}
  Garble = Garble
  NoCommand = NoCommand
  MaxLines = 5
  MaxRecoveries = 3
  MaxCrashes = 0
  MaxPanics = 0
CHECK_DEADLOCK FALSE
INVARIANT GameOverOnce
