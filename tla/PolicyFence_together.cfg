SPECIFICATION Spec
CONSTANTS
  n1 = n1
  n2 = n2
  r1 = r1
  r2 = r2
  Node = {n1}
  Req = {r1, r2}
  Home <- HomeTogether
  Listeners = {n1}
  Editors = {n1}
  ServeStale = TRUE
  Content = {"open", "deleted"}
  MaxVer = 2
  MaxGen = 1
  MaxFaults = 0
SYMMETRY Handlers
INVARIANTS StampSound ListenerKeepsFresh
