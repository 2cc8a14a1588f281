CONSTANTS
  MaxErrors = 4
  MaxWalked = 4
  MaxLost = 3
  MaxSpare = 1
  Caps = {2, 3}
  NoCap = NoCap

SPECIFICATION WalkSpec

INVARIANT SearchesNewestFirst

CHECK_DEADLOCK FALSE
