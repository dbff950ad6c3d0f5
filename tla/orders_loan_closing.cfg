SPECIFICATION Spec
CONSTANTS
  o1 = o1  o2 = o2
  i1 = i1  i2 = i2  i3 = i3
  b1 = b1
  w1 = w1  w2 = w2
  NoBox = NoBox  NoWorker = NoWorker
  Order = {o1}
  Item = {i1, i2}
  Box = {b1}
  Worker = {w1, w2}
  TypeOf <- OneCheckout
  OrderOf <- OneOrder
  BoxOf <- OneBoxed
  WholeBox = {i1}
  Tracked = {i1}
  Legacy = {}
  Workload = {"create", "submitted", "approved", "in_progress", "pick", "ready", "deliver", "rejected", "reopen", "addItem", "return", "completed", "cancelled", "delete", "boxStatus"}
  MaxCount = 2
SYMMETRY Workers
INVARIANTS ReturnRecordedOnce
PROPERTIES WebhooksFollowStatus ImplementsLedger
