------------------------------ MODULE Workflow ------------------------------
(***************************************************************************)
(* The durable run record and the deterministic rules for changing it      *)
(* (workflow.py).  A run has six state dimensions that move independently: *)
(* lifecycle, phase, terminal reason, mechanical evidence status, claim    *)
(* outcome and publication state; a seventh, the revision state, is        *)
(* changed only by accepting another pull-request event.                   *)
(*                                                                         *)
(* Titles, bodies, event actions and the repository's spelling carry no    *)
(* control and are left out; a revision is the (BASE, HEAD) pair of SHAs.  *)
(***************************************************************************)
EXTENDS Integers, FiniteSets, Verdict

CONSTANTS
  None,           \* Python's None for every optional field
  RunId,          \* the UUIDs uuid4() can return
  PullRequest,    \* (repository, pr_number) pairs
  Revision,       \* (base_sha, head_sha) pairs
  Installation    \* GitHub App installation identities

Lifecycle   == {"ACCEPTED", "QUEUED", "RUNNING", "TERMINAL"}
Reason      == {"COMPLETED", "FAILED", "SUPERSEDED", "CANCELLED"}
Publication == {"NOT_STARTED", "PENDING", "PUBLISHED", "RETRYABLE_FAILURE",
                "TERMINAL_FAILURE", "NOT_APPLICABLE"}

(* RunPhase in the order of the enumeration, which _PHASE_ORDER turns into *)
(* the order the phase may move in.                                        *)
PhaseOrder == [CONTEXT |-> 0, CLAIM |-> 1, TEST_GENERATION |-> 2,
               BASE_EXECUTION |-> 3, HEAD_EXECUTION |-> 4, ASSESSMENT |-> 5,
               PUBLICATION |-> 6]
Phase      == DOMAIN PhaseOrder

(* None is told apart from every proper value of an optional field. *)
ASSUME NoneAssumption ==
  None \notin RunId \cup Installation \cup Lifecycle \cup Phase \cup Reason
             \cup MechanicalStatus \cup ClaimOutcome \cup Publication

LifecycleMoves ==
  [ACCEPTED |-> {"ACCEPTED", "QUEUED", "TERMINAL"},
   QUEUED   |-> {"QUEUED", "RUNNING", "TERMINAL"},
   RUNNING  |-> {"RUNNING", "TERMINAL"},
   TERMINAL |-> {"TERMINAL"}]

PublicationMoves ==
  [NOT_STARTED       |-> {"NOT_STARTED", "PENDING"},
   PENDING           |-> {"PENDING", "PUBLISHED", "RETRYABLE_FAILURE",
                          "TERMINAL_FAILURE", "NOT_APPLICABLE"},
   RETRYABLE_FAILURE |-> {"RETRYABLE_FAILURE", "PENDING", "PUBLISHED",
                          "TERMINAL_FAILURE"},
   PUBLISHED         |-> {"PUBLISHED"},
   TERMINAL_FAILURE  |-> {"TERMINAL_FAILURE"},
   NOT_APPLICABLE    |-> {"NOT_APPLICABLE"}]
-----------------------------------------------------------------------------
VerificationRun ==
  [pr: PullRequest, revision: Revision, head_updated_at: Nat,
   installation: Installation \cup {None},
   lifecycle: Lifecycle, phase: Phase, terminal_reason: Reason \cup {None},
   mechanical: MechanicalStatus \cup {None}, outcome: ClaimOutcome \cup {None},
   publication: Publication,
   revision_state: {"CURRENT", "SUPERSEDED"}, superseded_by: RunId \cup {None},
   created_at: Nat, updated_at: Nat, version: Nat \ {0}]

(* validate_dimensions: pydantic runs it whenever a stored row or document *)
(* is read back, so a stored run that fails it can no longer be read.      *)
ValidDimensions(run) ==
  /\ (run.lifecycle = "TERMINAL") <=> (run.terminal_reason # None)
  /\ (run.revision_state = "CURRENT") <=> (run.superseded_by = None)
  /\ run.updated_at >= run.created_at

(* A PullRequestEvent, after its validators. *)
PullRequestEvent(DeliveryId) ==
  [delivery: DeliveryId, pr: PullRequest, revision: Revision,
   head_updated_at: Nat, installation: Installation \cup {None}]

(* RunTransition: the dimensions a caller asks to change, None elsewhere. *)
RunTransition ==
  [lifecycle: Lifecycle \cup {None}, phase: Phase \cup {None},
   terminal_reason: Reason \cup {None},
   mechanical: MechanicalStatus \cup {None}, outcome: ClaimOutcome \cup {None},
   publication: Publication \cup {None}]

NoChange ==
  [lifecycle |-> None, phase |-> None, terminal_reason |-> None,
   mechanical |-> None, outcome |-> None, publication |-> None]

(* Python's "requested or current". *)
Or(requested, current) == IF requested # None THEN requested ELSE current

(* The run apply_run_transition builds before it is validated. *)
Requested(run, t, now) ==
  [run EXCEPT !.lifecycle       = Or(t.lifecycle, run.lifecycle),
              !.phase           = Or(t.phase, run.phase),
              !.terminal_reason = Or(t.terminal_reason, run.terminal_reason),
              !.mechanical      = Or(t.mechanical, run.mechanical),
              !.outcome         = Or(t.outcome, run.outcome),
              !.publication     = Or(t.publication, run.publication),
              !.updated_at      = now,
              !.version         = run.version + 1]

(* "superseded runs cannot resume or publish" *)
RevisionOpenAlways(run) == TRUE   \* variant: the guard forgotten
RevisionOpen(run)       == run.revision_state # "SUPERSEDED"

(* The guards of apply_run_transition, in their order; when one fails the  *)
(* code raises InvalidRunTransition and nothing is stored.                 *)
TransitionAllowed(run, t, now) ==
  LET next == Requested(run, t, now)
  IN  /\ now >= run.updated_at
      /\ RevisionOpen(run)
      /\ next.lifecycle \in LifecycleMoves[run.lifecycle]
      /\ PhaseOrder[next.phase] >= PhaseOrder[run.phase]
      /\ next.publication \in PublicationMoves[run.publication]
      /\ (next.lifecycle = "TERMINAL") <=> (next.terminal_reason # None)
      /\ run.terminal_reason # None => next.terminal_reason = run.terminal_reason
      /\ run.mechanical # None => next.mechanical = run.mechanical
      /\ run.outcome # None => next.outcome = run.outcome
      /\ \/ next.lifecycle # run.lifecycle
         \/ next.phase # run.phase
         \/ next.terminal_reason # run.terminal_reason
         \/ next.mechanical # run.mechanical
         \/ next.outcome # run.outcome
         \/ next.publication # run.publication
      /\ ValidDimensions(next)

(* apply_run_transition for a transition it allows. *)
ApplyRunTransition(run, t, now) == Requested(run, t, now)
=============================================================================
