SPECIFICATION Spec
CONSTANTS
  l1 = l1
  l2 = l2
  l3 = l3
  m1 = m1
  lamp = lamp
  candle = candle
  spare = spare
  corpse = corpse
  troll = troll
  sack = sack
  NoLevel = NoLevel
  Limbo = Limbo
  Levels = {l1, l2, l3}
  Start = l1
  Monsters = {m1}
  Lamps = {lamp}
  Candles = {candle, spare}
  Corpses = {corpse}
  Trolls = {troll}
  Sacks = {sack}
  Spares = {spare}
  Scenes <- AllScenes
  MaxMoves = 3
  Fuel = 2
  Quantity = 2
  MagicTimes = {0, 1}
  CloseAge = 1
  RotTime = 3
  Careful = TRUE
INVARIANTS TypeOK LitHasLight InTheRightLists FuelIsRight
PROPERTY LoadingKeepsTimers
CHECK_DEADLOCK FALSE
