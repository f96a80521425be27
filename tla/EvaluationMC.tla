---------------------------- MODULE EvaluationMC ----------------------------
(* Small instance of Evaluation for TLC. *)
EXTENDS Evaluation, TLC

CONSTANTS c1, c2, d1, d2, m1, m2

(* Two manifests.  They declare other cases, hence other documents, and    *)
(* give another hidden label to the case they share.                       *)
MCCasesOf    == (d1 :> <<c1>>) @@ (d2 :> <<c1, c2>>)
MCDocumentOf == (m1 :> d1) @@ (m2 :> d2)
MCLabelOf    == (m1 :> (c1 :> "NEGATIVE_CONTROL"))
             @@ (m2 :> ((c1 :> "POSITIVE") @@ (c2 :> "NEGATIVE_CONTROL")))

Ran(base, head) == [base |-> base, head |-> head, declared |-> TRUE, unchanged |-> TRUE]
MCOutcomes == {Ran("ASSERTION_FAILED", "PASSED"), Ran("PASSED", "PASSED")}

Says(outcome, related) == [outcome |-> outcome, related |-> related]
MCDecisions == {Says("CLAIM_SUPPORTED_FOR_SCENARIO", TRUE),
                Says("CLAIM_SUPPORTED_FOR_SCENARIO", FALSE)}

Alike == Permutations(Runners)
=============================================================================
