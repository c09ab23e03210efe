SPECIFICATION Spec
CONSTANTS
  Procs = {1, 2, 3}
  Players = {1, 2}
  Peekers = {1, 3}
  Leavers = {1, 3}
  Mortal = {1}
  Slow = {2}
  Freezers = {1}
  MaxTurns = 2
  MaxAsked = 5
CHECK_DEADLOCK FALSE
INVARIANTS SectionLocked InformedOfWrite NoSilentWrite
PROPERTY PromiseKept
