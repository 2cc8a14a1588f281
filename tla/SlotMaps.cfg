CONSTANTS
  MaxSlotsLen = 4
  Half = 4
  MaxIssues = 5
  MaxCapacity = 4
  NoValue = NoValue
  v1 = v1
  v2 = v2
  Values <- TwoValues
SPECIFICATION PairSpec
CONSTRAINT Bounded
ACTION_CONSTRAINT Interleaved
INVARIANTS
  FreeChain
  StaleKeysStayInvalid
  ReservedOrDetached
  DisjointKeys
  NoForeignValue
  LiveKeysReadBack
