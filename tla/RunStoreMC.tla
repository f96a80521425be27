----------------------------- MODULE RunStoreMC -----------------------------
(* Small instances of RunStore for TLC. *)
EXTENDS RunStore, TLC

CONSTANTS r1, r2, r3, r4, p1, p2, va, vb, d1, d2, d3, d4, app

(* Every event of the given pull requests, revisions and timestamps, under *)
(* any delivery id.                                                        *)
AllEvents(times, installations) ==
  [delivery: DeliveryId, pr: PullRequest, revision: Revision,
   head_updated_at: times, installation: installations]

MCEventsFour  == AllEvents(1 .. 3, {None})
MCEventsTwo   == AllEvents(1 .. 2, {None, app})

Move(lifecycle)   == [NoChange EXCEPT !.lifecycle = lifecycle]
Advance(phase)    == [NoChange EXCEPT !.phase = phase]
Publish(state)    == [NoChange EXCEPT !.publication = state]
Complete(status, outcome) ==
  [lifecycle |-> "TERMINAL", phase |-> "PUBLICATION",
   terminal_reason |-> "COMPLETED", mechanical |-> status, outcome |-> outcome,
   publication |-> "PENDING"]

(* The transitions the workflow, the publisher and the task processor ask  *)
(* for (evidence_workflow.py, github_checks.py, cloud_control.py).         *)
MCTransitions ==
  {Move("QUEUED"), Move("RUNNING"), Advance("CLAIM"), Advance("ASSESSMENT"),
   Publish("PENDING"), Publish("PUBLISHED"), Publish("RETRYABLE_FAILURE"),
   Publish("NOT_APPLICABLE"),
   Complete("DISCRIMINATING", "CLAIM_SUPPORTED_FOR_SCENARIO"),
   Complete("ENVIRONMENTAL", "INSUFFICIENT_EVIDENCE")}

(* Enough transitions to have runs superseded while open and when done,    *)
(* and to ask a superseded one to publish.                                 *)
MCTransitionsFew ==
  {Move("QUEUED"), Complete("ENVIRONMENTAL", "INSUFFICIENT_EVIDENCE"),
   Publish("PUBLISHED")}

MCSymmetry == Permutations(RunId) \cup Permutations(DeliveryId)
                \cup Permutations(Revision)
=============================================================================
