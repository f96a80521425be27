------------------------------ MODULE Verdict ------------------------------
(***************************************************************************)
(* What PatchProof may conclude from one candidate test: the mechanical    *)
(* classification of a BASE/HEAD pair (evidence.py) and the limits it puts *)
(* on the semantic decision (_validate_semantic_decision).                 *)
(***************************************************************************)
MechanicalStatus == {"DISCRIMINATING", "NON_DISCRIMINATING", "INVALID_TEST",
                     "ENVIRONMENTAL", "UNCAUGHT_EXCEPTION_ON_ONE_REVISION",
                     "COUNTERFACTUAL_NOT_APPLICABLE"}
ClaimOutcome     == {"CLAIM_SUPPORTED_FOR_SCENARIO",
                     "CLAIM_NOT_SUPPORTED_FOR_SCENARIO",
                     "POTENTIAL_REGRESSION", "INSUFFICIENT_EVIDENCE"}
DifferentialPattern == {"BASE_ASSERTION_FAILED_HEAD_PASSED",
                        "BASE_PASSED_HEAD_ASSERTION_FAILED", "BOTH_PASSED",
                        "BOTH_ASSERTION_FAILED", "NOT_COMPARABLE"}

OrdinaryStatus == {"PASSED", "ASSERTION_FAILED"}
InvalidTestStatus == {"INVALID_ARTIFACT", "NOT_COLLECTED",
                      "MULTIPLE_TESTS_COLLECTED", "SKIPPED", "XFAILED", "XPASSED"}
EnvironmentalStatus == {"COLLECTION_ERROR", "TEST_ERROR", "TIMED_OUT",
                        "ENVIRONMENT_SETUP_FAILED", "PROCESS_ERROR"}
TestExecutionStatus == OrdinaryStatus \cup InvalidTestStatus \cup EnvironmentalStatus

(* The observations of one challenge: the status on each revision, whether *)
(* both declare the artifact's node id and digest, and whether both saw    *)
(* its bytes unchanged before and after.                                   *)
ChallengeResult == [base: TestExecutionStatus, head: TestExecutionStatus,
                    declared: BOOLEAN, unchanged: BOOLEAN]

Assessment(status, pattern) == [mechanical |-> status, pattern |-> pattern]

OneSidedException(c) ==
  \/ c.base = "TEST_ERROR" /\ c.head \in OrdinaryStatus
  \/ c.head = "TEST_ERROR" /\ c.base \in OrdinaryStatus

(* The pattern of two ordinary outcomes. *)
PatternOf(c) ==
  IF c.base = c.head
  THEN IF c.base = "PASSED" THEN "BOTH_PASSED" ELSE "BOTH_ASSERTION_FAILED"
  ELSE IF c.head = "PASSED" THEN "BASE_ASSERTION_FAILED_HEAD_PASSED"
       ELSE "BASE_PASSED_HEAD_ASSERTION_FAILED"

(* MechanicalEvidenceClassifier.classify: the tests in their order. *)
Classify(c) ==
  LET statuses == {c.base, c.head}
      Not(status) == Assessment(status, "NOT_COMPARABLE")
  IN  IF ~c.declared THEN Not("INVALID_TEST")
      ELSE IF statuses \cap InvalidTestStatus # {} THEN Not("INVALID_TEST")
      ELSE IF OneSidedException(c) THEN Not("UNCAUGHT_EXCEPTION_ON_ONE_REVISION")
      ELSE IF statuses \cap EnvironmentalStatus # {} THEN Not("ENVIRONMENTAL")
      ELSE IF ~c.unchanged THEN Not("INVALID_TEST")
      ELSE Assessment(IF c.base = c.head THEN "NON_DISCRIMINATING"
                      ELSE "DISCRIMINATING", PatternOf(c))

(* _candidate_environment_failure *)
SetupFailed(c) == "ENVIRONMENT_SETUP_FAILED" \in {c.base, c.head}

(* A semantic decision as the model returns it. *)
Decision == [outcome: ClaimOutcome, related: BOOLEAN]

(* _validate_semantic_decision: a decision it refuses fails the run. *)
AllowedUnrelated(pattern, decision) ==       \* variant: relation not required
  decision.outcome \in
    {"INSUFFICIENT_EVIDENCE"}
      \cup (IF pattern = "BASE_ASSERTION_FAILED_HEAD_PASSED"
            THEN {"CLAIM_SUPPORTED_FOR_SCENARIO"} ELSE {})
      \cup (IF pattern = "BASE_PASSED_HEAD_ASSERTION_FAILED"
            THEN {"POTENTIAL_REGRESSION"} ELSE {})
DecisionAllowed(pattern, decision) ==
  \/ decision.outcome = "INSUFFICIENT_EVIDENCE"
  \/ /\ pattern = "BASE_ASSERTION_FAILED_HEAD_PASSED"
     /\ decision.outcome = "CLAIM_SUPPORTED_FOR_SCENARIO"
     /\ decision.related
  \/ /\ pattern = "BASE_PASSED_HEAD_ASSERTION_FAILED"
     /\ decision.outcome = "POTENTIAL_REGRESSION"
     /\ decision.related
=============================================================================
