CONSTANTS
  Threads = {t1, t2}
  NoOne = NoOne
  Arcs = {a1, a2, a3}
  NoArc = NoArc
  v1 = v1
  v2 = v2
  h1 = h1
  h2 = h2
  h3 = h3
  h4 = h4
  s1 = s1
  Values = {v1, v2}
  Hashes = {h1, h2, h3, h4}
  Hash <- MCHash
  HashOne <- MCHashOne
  Shards = {s1}
  ShardOf <- MCShardOf
  MaxHandles = 2
  MaxSpare = 2

SPECIFICATION Spec
INVARIANT OneCopy
