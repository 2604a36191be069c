SPECIFICATION Spec
CONSTANTS
  n1 = n1
  n2 = n2
  r1 = r1
  r2 = r2
  Node = {n1, n2}
  Req = {r1, r2}
  Home <- HomeApart
  Listeners = {}
  Editors = {n1}
  ServeStale = FALSE
  Content = {"closed"}
  MaxVer = 2
  MaxGen = 2
  MaxFaults = 0
PROPERTY FencedNeverOutrun
