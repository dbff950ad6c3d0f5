SPECIFICATION Spec
CONSTANTS
  b1 = b1  b2 = b2
  f1 = f1  f2 = f2
  u1 = u1  u2 = u2  u3 = u3
  list = list
  NoUser = NoUser  NoBox = NoBox
  Box = {b1, b2}
  Folder = {f1, f2}
  User = {u1, u2, u3}
  Client = {u1, u2, u3}
  Series = {b2}
  HoldTarget = {list}
  Covers <- Covering
  Ordered = {b2}
  ManualStatus = {"active", "lost", "disposed"}
  Movable = {f1}
  Threshold = 2
  CoolingDays = 1
  MaxDay = 2
SYMMETRY Clients
INVARIANTS DisposedAsDecided HeldLeavesDisposal
PROPERTIES NothingHeldIsDestroyed CoolingOffRespected
