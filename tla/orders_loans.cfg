SPECIFICATION FairSpec
CONSTANTS
  o1 = o1  o2 = o2
  i1 = i1  i2 = i2  i3 = i3
  b1 = b1
  w1 = w1  w2 = w2
  NoBox = NoBox  NoWorker = NoWorker
  Order = {o1, o2}
  Item = {i1, i2}
  Box = {b1}
  Worker = {w1, w2}
  TypeOf <- LoanTypes
  OrderOf <- PairOrders
  BoxOf <- PairBoxes
  WholeBox = {i1, i2}
  Tracked = {i1, i2}
  Legacy = {}
  Workload = {"create", "submitted", "approved", "in_progress", "pick", "ready", "deliver", "return", "completed", "cancelled"}
  MaxCount = 2
INVARIANTS BoxOutIffOnLoan
PROPERTIES RequestsEnd
