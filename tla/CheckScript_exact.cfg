SPECIFICATION ScriptSpec
CONSTANTS
  BucketCount = 2
  BucketPeriod = 5
  Burst = 3
  Period = 5
  Count = 3
  Milli = 3
  MaxCost = 2
  MaxNow = 14
INVARIANTS RateNeverExceeded WindowExact RetryAfterExact
PROPERTY ImplementsQuota
