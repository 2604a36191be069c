SPECIFICATION FairSpec
CONSTANTS
  t1 = t1
  t2 = t2
  g1 = g1
  g2 = g2
  sw = sw
  Nobody = Nobody
  Tenant = {t1, t2}
  Shard <- ShardOne
  NumShards = 1
  Checker = {g1, g2}
  Sweeper = sw
  LimitSets = {{"bucket"}, {"window"}}
  Emission = 2
  Capacity = 1
  Period = 2
  Count = 1
  MaxKeys = 1
  MaxCost = 1
  MaxNow = 1
INVARIANTS NoWriteLost BudgetNearlyHolds
 
