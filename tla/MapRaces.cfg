SPECIFICATION Spec
CONSTANTS
  c1 = c1
  c2 = c2
  Clients = {c1, c2}
  Bodies <- MCBodies
  Namespaces = {"prod", "stage"}
  MaxVersion = 1
  MaxLooks = 2
  NoList = NoList
  NoRef = NoRef
  NoReplay = NoReplay
INVARIANTS
  MapIsSafe
CHECK_DEADLOCK FALSE
