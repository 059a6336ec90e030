SPECIFICATION Spec
CONSTANTS
  Keys = {k1, k2}
  Values = {v1}
  Capacity = 2
  Nodes = {n1, n2}
  NoEntry = NoEntry
  BadAlloc = BadAlloc
INVARIANTS MapMatchesList
