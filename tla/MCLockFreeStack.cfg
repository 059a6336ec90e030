SPECIFICATION Spec
CONSTANTS
  Threads = {t1, t2, t3}
  Nodes = {n1, n2}
  NULL = NULL
  Empty = Empty
  Nothing = Nothing
  MaxPushes = 3
  MaxCount = 4
SYMMETRY Symmetry
INVARIANTS NoUseAfterFree ReferencesCounted NoLeak
PROPERTY Linearizable
