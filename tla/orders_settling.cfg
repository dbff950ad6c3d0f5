SPECIFICATION Spec
CONSTANTS
  o1 = o1  o2 = o2
  i1 = i1  i2 = i2  i3 = i3
  b1 = b1
  w1 = w1  w2 = w2
  NoBox = NoBox  NoWorker = NoWorker
  Order = {o1, o2}
  Item = {i1, i2, i3}
  Box = {b1}
  Worker = {w1, w2}
  TypeOf <- SettlingTypes
  OrderOf <- LoanOrders
  BoxOf <- LoanBoxes
  WholeBox = {i1, i2}
  Tracked = {i1, i2, i3}
  Legacy = {}
  Workload = {"create", "submitted", "approved", "in_progress", "ready", "deliver", "reopen", "completed", "cancelled", "delete"}
  MaxCount = 2
SYMMETRY Workers
INVARIANTS SettledIsBilled
CHECK_DEADLOCK FALSE
