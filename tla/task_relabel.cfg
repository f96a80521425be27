SPECIFICATION PipelineSpec
CONSTANTS
  None = None  r1 = r1  r2 = r2  p1 = p1  va = va  vb = vb  d1 = d1  d2 = d2
  app = app  w1 = w1  w2 = w2  c1 = c1  c2 = c2  c3 = c3
  RunId = {r1}
  PullRequest = {p1}
  Revision = {va, vb}
  Installation = {app}
  Backend = "firestore"
  DeliveryId = {d1, d2}
  Document <- MCDocuments
  Payload <- MCPayloads
  CheckId = {c1, c2}
  Events <- Relabel
  Transitions <- RequestedTransitions
  MaxClock = 0
  MaxVersion = 30
  MaxAttempts = 5
  Worker = {w1}
  MaxDeliveries = 3
  MaxFaults <- NoFaults
  MaxCandidates = 2
SYMMETRY MCSymmetry
INVARIANTS NoFailureWithoutFault
CHECK_DEADLOCK FALSE
