SPECIFICATION Spec
CONSTANTS
  Threads = {t1, t2, t3}
  Handles = {h1, h2, h3, h4, h5}
  NoHandle = NoHandle
  MaxRefcount = 3
SYMMETRY Perms
INVARIANTS
  CountsMatch
PROPERTY ImplementsSharedValue
