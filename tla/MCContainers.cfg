SPECIFICATION MCSpec
CONSTANTS
  Values = {v1, v2}
  Capacity = 3
  NoValue = NoValue
  Keys = {k1, k2, k3, k4}
  Nodes = {n1, n2, n3}
  QueueCapacity = 3
  BadAlloc = BadAlloc
  Items = {i1, i2}
  None = none
  Strings = {s1, s2, s3}
  Blocks = {b1, b2, b3}
  BUFFER_SIZE = 1
  MaxLength = 2
  Pointers = {p1, p2}
  Widgets = {w1, w2, w3}
  NoPointer = nopointer
  Users = {u1, u2}
  Tasks = {1, 2, 3}
  Priorities = {1, 2}
INVARIANTS OnlyStoredEngaged IteratorsValid StorageOwned RunsHighest
PROPERTIES ImplementsFifo ImplementsConflation ImplementsSequences
