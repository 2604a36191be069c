SPECIFICATION Spec
CONSTANTS
  t1 = t1
  t2 = t2
  g1 = g1
  g2 = g2
  sw = sw
  Nobody = Nobody
  Tenant = {t1}
  Shard <- ShardT1
  NumShards = 1
  Checker = {g1, g2}
  Sweeper = sw
  LimitSets = {{"bucket", "window"}}
  Emission = 1
  Capacity = 2
  Period = 3
  Count = 3
  MaxKeys = 4
  MaxCost = 2
  MaxNow = 4
SYMMETRY Symmetry
INVARIANTS KeysAccounted ExactUntilOvertaken
