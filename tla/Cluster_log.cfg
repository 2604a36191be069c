SPECIFICATION FairSpec
CONSTANTS
  n1 = n1
  n2 = n2
  a1 = a1
  a2 = a2
  Id = {n1, n2}
  Addr = {a1, a2}
  MaxVNodes = 1
  Node = {n1, n2}
  File <- FileStale
  VNodes = 1
  Gens = {1, 2}
  MaxStates = 4
  MaxFaults = 1
INVARIANTS EpochIsToken RoutesByNewest 
PROPERTIES SeedNeverOverrides ViewsConverge
