CONSTANTS
  MaxErrors = 3
  MaxLost = 2
  MaxSpare = 1
  Caps = {3}
  NoCap = NoCap

SPECIFICATION Spec

INVARIANT NeverPanics

CHECK_DEADLOCK FALSE
