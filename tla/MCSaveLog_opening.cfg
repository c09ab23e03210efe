SPECIFICATION FairSpec
CONSTANTS
  p1 = p1  p2 = p2  w1 = w1
  look = look  move = move  die = die  yes = yes
  Players = {p1, p2}
  Watchers = {}
  Commands = {look, move}
  Answers = {yes}
  Prompts <- OnePrompt
  Deadly = {}
  Garble = Garble
  NoCommand = NoCommand
  MaxLines = 5
  MaxRecoveries = 3
  MaxCrashes = 1
  MaxPanics = 0
CHECK_DEADLOCK FALSE
PROPERTIES OpeningEnds PlayersFollow
