SPECIFICATION FairSpec
CONSTANTS
  Procs = {1, 2}
  Players = {1, 2}
  Peekers = {}
  Leavers = {}
  Mortal = {}
  Slow = {}
  Freezers = {}
  MaxTurns = 0
  MaxAsked = 5
PROPERTY ChangeReturns
