SPECIFICATION Spec
CONSTANTS
  p1 = p1  p2 = p2  w1 = w1
  look = look  move = move  die = die  yes = yes
  Players = {p1}
  Watchers = {w1}
  Commands = {look, die}
  Answers = {yes}
  Prompts <- OnePrompt
  Deadly = {die}
  Garble = Garble
  NoCommand = NoCommand
  MaxLines = 6
  MaxRecoveries = 3
  MaxCrashes = 1
  MaxPanics = 1
CHECK_DEADLOCK FALSE
INVARIANTS FreshViewSound SavesSound
