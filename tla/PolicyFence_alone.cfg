SPECIFICATION FairSpec
CONSTANTS
  n1 = n1
  n2 = n2
  r1 = r1
  r2 = r2
  Node = {n1}
  Req = {r1}
  Home <- HomeAlone
  Listeners = {n1}
  Editors = {n1}
  ServeStale = TRUE
  Content = {"closed"}
  MaxVer = 2
  MaxGen = 2
  MaxFaults = 1
PROPERTIES Answered Converges
