SPECIFICATION Spec
CONSTANTS
  b1 = b1  b2 = b2  l1 = l1  l2 = l2  u1 = u1  u2 = u2
  Box = {b1, b2}
  Loc = {l1, l2}
  User = {u1, u2}
  None = None
SYMMETRY Same
INVARIANTS CountersAgree CustodyTells
PROPERTIES ReceiptFirst
CHECK_DEADLOCK FALSE
