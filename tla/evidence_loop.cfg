SPECIFICATION Spec
CONSTANTS
  None = None  a = a  b = b  reformatted = reformatted  forbidden = forbidden
  Source = {a, b, reformatted, forbidden}
  Valid = {a, b, reformatted}
  Fingerprint <- MCFingerprint
  Outcomes <- MCOutcomes
  Decisions <- AllDecisions
  MaxModelCalls = 3
  MaxRepairs = 2
  MaxTries = 2
INVARIANTS LoopTypeOK VerdictGrounded ReportsValid AttemptsAccounted CandidateBudget
CHECK_DEADLOCK FALSE
