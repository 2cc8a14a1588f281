CONSTANTS
  B = 2
  Nodes = {1, 2, 3, 4, 5, 6, 7, 8, 9, 10, 11, 12, 13, 14, 15, 16, 17, 18, 19, 20, 21, 22, 23, 24, 25, 26, 27, 28}
  Null = Null
  MinCap = 1
  Starts <- MCStarts
SPECIFICATION TreeSpec
INVARIANTS CommitInfallible
\* The client stops when its calls are used up.
CHECK_DEADLOCK FALSE
