SPECIFICATION Spec
CONSTANTS
  None = None  Empty = Empty  Mixed = Mixed
  c1 = c1  c2 = c2  d1 = d1  d2 = d2  m1 = m1  m2 = m2
  Preparers = {p1}
  Runners = {x1, x2}
  Scorers = {x1, x2}
  Manifests = {m1, m2}
  Sealed = m1
  MaxEdits = 1
  MaxStops = 1
  Documents = {d1, d2}
  DocumentOf <- MCDocumentOf
  LabelOf <- MCLabelOf
  CasesOf <- MCCasesOf
  Outcomes <- MCOutcomes
  Decisions <- MCDecisions
  MaxRepairs = 1
SYMMETRY Alike
INVARIANTS EvaluationTypeOK InferredOnce JournalAgrees ScoredIsComplete SupportIsEarned
CHECK_DEADLOCK FALSE
