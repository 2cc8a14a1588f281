CONSTANTS
  MaxErrors = 3
  MaxLost = 2
  MaxSpare = 1
  Caps = {1}
  NoCap = NoCap

SPECIFICATION FairSpec

PROPERTY PushReturns

CHECK_DEADLOCK FALSE
