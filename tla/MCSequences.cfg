SPECIFICATION MCSpec
CONSTANTS
  Values = {v1, v2}
  Moved = Moved
  Raw = Raw
  Blocks = {b1, b2}
  NULL = NULL
  Limit = 5
  SizeMod = 8
  MaxAppends = 6
  Items = {i1, i2}
  Lists = {la, lb}
  Temp = temp
  RingNodes = {r1, r2, r3}
  Allocators = {a1, a2}
  Taken = taken
  ListNodes = {d1, d2, d3, d4}
  None = none
SYMMETRY Symmetry
INVARIANTS Lifetimes AppendIsAmortized NodesIntact
PROPERTIES ImplementsVector ImplementsLists
