SPECIFICATION Spec
CONSTANTS
  o1 = o1  o2 = o2
  i1 = i1  i2 = i2  i3 = i3
  b1 = b1
  w1 = w1  w2 = w2
  NoBox = NoBox  NoWorker = NoWorker
  Order = {o1, o2}
  Item = {i1, i2, i3}
  Box = {b1}
  Worker = {w1, w2}
  TypeOf <- ScanTypes
  OrderOf <- ScanOrders
  BoxOf <- ScanBoxes
  WholeBox = {}
  Tracked = {i1, i2, i3}
  Legacy = {o2}
  Workload = {"create", "addItem", "submitted", "approved", "in_progress", "upload", "ready", "quote", "approveQuote", "deliver", "completed", "cancelled", "delete"}
  MaxCount = 2
SYMMETRY Workers
INVARIANTS ScanBilledAsQuoted ApprovedQuoteBacked
