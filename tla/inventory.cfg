SPECIFICATION Spec
CONSTANTS
  d1 = d1  d2 = d2  c1 = c1  c2 = c2
  Nobody = Nobody  NoBox = NoBox
  Box = {b1, b2}
  Expected = {b1}
  Here = {b1}
  Device = {d1, d2}
  Handheld = {d1}
  Call = {c1, c2}
  MaxScans = 2
  MaxEvents = 2
SYMMETRY Same
INVARIANTS ScannedOnce QueueAwake
PROPERTIES CompletedIsFinal StagedUntilRecorded
CHECK_DEADLOCK FALSE
