SPECIFICATION Spec
CONSTANTS
  None = None  r1 = r1  r2 = r2  r3 = r3  r4 = r4  p1 = p1  p2 = p2
  va = va  vb = vb  d1 = d1  d2 = d2  d3 = d3  d4 = d4  app = app
  RunId = {r1, r2, r3, r4}
  PullRequest = {p1}
  Revision = {va, vb}
  Installation = {app}
  Backend = "firestore"
  DeliveryId = {d1, d2, d3, d4}
  Document = {}
  Payload = {}
  CheckId = {}
  Events <- MCEventsFour
  Transitions <- MCTransitionsFew
  MaxClock = 0
  MaxVersion = 5
  MaxAttempts = 0
SYMMETRY MCSymmetry
INVARIANTS TypeOK PointersAgree CurrentIsNewest SupersessionWellFounded
PROPERTIES OutcomeWriteOnce SupersededIsFinal ImplementsNewestHead
CHECK_DEADLOCK FALSE
