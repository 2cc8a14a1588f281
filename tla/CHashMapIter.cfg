CONSTANTS
  k1 = k1
  k2 = k2
  k3 = k3
  Keys = {k1, k2, k3}
  NoKey = NoKey
  ShardCount = 2
  ShardOf <- MCShardOf
SPECIFICATION FairSpec
INVARIANTS ItemsStayValid YieldsOnce NothingLost
PROPERTY NextReturns
