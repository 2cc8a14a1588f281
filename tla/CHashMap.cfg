CONSTANTS
  Threads = {t1, t2}
  k1 = k1
  k2 = k2
  k3 = k3
  Keys = {k1, k2, k3}
  Values = {v1}
  NoKey = NoKey
  NoValue = NoValue
  NoOne = NoOne
  ShardCount = 2
  ShardOf <- MCShardOf
  MaxSpare = 1
SPECIFICATION FairSpec
INVARIANTS EntryStaysTrue InsertHasRoom RefsStayValid ScanSandwich
PROPERTIES CallsReturn ImplementsKeyedMap
