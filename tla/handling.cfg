SPECIFICATION TimedSpec
CONSTANTS
  Nobody = Nobody
  NoUser = NoUser
  Order = {o1}
  User = {u1, u2}
  Worker = {w1, w2}
  SlaRun = {s1, s2}
  ReturnRun = {r1}
  Asker = {a1, a2}
  LoanTime = 2
  Cooldown = 1
  LastSubmission = 0
  LastTime = 3
  Losses = 1
INVARIANTS EscalatedOnce
PROPERTIES RemindedWhileOut AskedApart EscalationArrives AssignedWhileOpen
CHECK_DEADLOCK FALSE
