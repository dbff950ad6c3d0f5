SPECIFICATION Spec
CONSTANTS
  l1 = l1  l2 = l2  i1 = i1  i2 = i2  w1 = w1  w2 = w2
  NoBox = NoBox  New = New  Gone = Gone
  List = {l1, l2}
  Item = {i1, i2}
  Worker = {w1, w2}
  Box = {b1}
  Data = {d1, d2}
SYMMETRY Same
INVARIANTS Mirrored ImportedOnce
PROPERTIES DeletedListWasEmpty HeldKeepsItems
CHECK_DEADLOCK FALSE
