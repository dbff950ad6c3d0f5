SPECIFICATION Spec
CONSTANTS
  o1 = o1  o2 = o2  u1 = u1  u2 = u2  t1 = t1  t2 = t2  r1 = r1  r2 = r2  x1 = x1  x2 = x2
  Op = {o1, o2}
  User = {u1, u2}
  Tab = {t1, t2}
  Req = {r1, r2}
  Result = {x1, x2}
  Logins = 2
  None = None
SYMMETRY Same
INVARIANTS NotForgotten RepeatAnswered
PROPERTIES ImplementsExactlyOnce
CHECK_DEADLOCK FALSE
