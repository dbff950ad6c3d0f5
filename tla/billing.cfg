SPECIFICATION Spec
CONSTANTS
  c = c  b = b  l1 = l1  l2 = l2  u1 = u1  u2 = u2  n1 = n1  n2 = n2
  Charge = {c}
  Box = {b}
  List = {l1, l2}
  Current = l1
  User = {u1, u2}
  LastMonth = 1
  Number = {n1, n2}
  Terms <- MCTerms
  None = None
SYMMETRY Requests
INVARIANTS BilledHasPrice BillAsClosed InvoicedWhole RateKept
CHECK_DEADLOCK FALSE
