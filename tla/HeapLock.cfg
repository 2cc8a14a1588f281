CONSTANTS
  t1 = t1
  t2 = t2
  t3 = t3
  b1 = b1
  b2 = b2
  b3 = b3
  Null = Null
  NoOne = NoOne
  Threads <- Threads3
  Boxes <- Boxes3
SPECIFICATION FairLockSpec
INVARIANTS OneOwner ArmedNeverAllocates
PROPERTIES ImplementsArmedMutex ArmTerminates
