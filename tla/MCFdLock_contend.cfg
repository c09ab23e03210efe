SPECIFICATION Spec
CONSTANTS
  Procs = {1, 2, 3}
  Players = {1, 2, 3}
  Peekers = {}
  Leavers = {}
  Mortal = {}
  Slow = {}
  Freezers = {}
  MaxTurns = 0
  MaxAsked = 5
INVARIANTS BlocksOnComingSignal CountsMatch NoDeadlock
