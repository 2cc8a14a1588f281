CONSTANTS
  MaxErrors = 6
  MaxWalked = 5
  MaxLost = 3
  MaxSpare = 1
  Caps = {2, 3}
  NoCap = NoCap

SPECIFICATION WalkSpec
ACTION_CONSTRAINT SmallWalks

INVARIANTS
  NothingLostSilently
  NewestSurvive
  WalkYieldsTree

PROPERTIES
  TryChangeRestores
  CallsReturn

\* A panic ends the program, and a client may have no more errors to report.
CHECK_DEADLOCK FALSE
