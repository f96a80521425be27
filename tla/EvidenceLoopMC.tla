--------------------------- MODULE EvidenceLoopMC ---------------------------
(* Small instances of EvidenceLoop for TLC. *)
EXTENDS EvidenceLoop, TLC

CONSTANTS a, b, reformatted, forbidden

(* Two behaviors, one of them in two formattings, and a source that the    *)
(* validator rejects.                                                      *)
MCFingerprint == (a :> 1) @@ (reformatted :> 1) @@ (b :> 2) @@ (forbidden :> 3)

Ran(base, head) == [base |-> base, head |-> head, declared |-> TRUE, unchanged |-> TRUE]

(* One challenge of each kind the loop tells apart. *)
MCOutcomes ==
  {Ran("ASSERTION_FAILED", "PASSED"), Ran("PASSED", "ASSERTION_FAILED"),
   Ran("PASSED", "PASSED"), Ran("TEST_ERROR", "PASSED"),
   Ran("PASSED", "ENVIRONMENT_SETUP_FAILED"),
   [Ran("ASSERTION_FAILED", "PASSED") EXCEPT !.unchanged = FALSE],
   [Ran("ASSERTION_FAILED", "PASSED") EXCEPT !.declared = FALSE]}

AllDecisions == Decision
=============================================================================
