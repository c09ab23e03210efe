SPECIFICATION Spec
CONSTANTS
  p1 = p1  p2 = p2
  Procs = {p1, p2}
  Games = {1, 2, 3}
  NameOf <- Name
  NoName = ""
  PointsOf <- Points
  Unscored = {3}
  MaxMishaps = 1
  TTLISTLEN = 2
  PLAYERMAX = 3
CHECK_DEADLOCK FALSE
SYMMETRY Symmetric
INVARIANTS UnfinishedHasFile DoneIsRecorded NoScoreLost
