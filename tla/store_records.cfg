SPECIFICATION Spec
CONSTANTS
  None = None  r1 = r1  r2 = r2  r3 = r3  r4 = r4  p1 = p1  p2 = p2
  va = va  vb = vb  d1 = d1  d2 = d2  d3 = d3  d4 = d4  app = app
  RunId = {r1}
  PullRequest = {p1}
  Revision = {va, vb}
  Installation = {app}
  Backend = "sqlite"
  DeliveryId = {d1, d2}
  Document = {1, 2}
  Payload = {1, 2}
  CheckId = {1, 2}
  Events <- MCEventsTwo
  Transitions <- MCTransitions
  MaxClock = 1
  MaxVersion = 4
  MaxAttempts = 2
SYMMETRY MCSymmetry
INVARIANTS CurrentReadable
PROPERTIES RecordsWriteOnce
CHECK_DEADLOCK FALSE
