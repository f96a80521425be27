------------------------------ MODULE LiveCase ------------------------------
(***************************************************************************)
(* One case of a live evaluation (hard_mode.py: _run_live_case,            *)
(* _run_ready_live_case, _bounded_candidate_challenges): readiness of the  *)
(* pair, claim, the candidates with their repairs, the semantic            *)
(* assessment.  Every way out is a terminal status of the case's result.   *)
(*                                                                         *)
(* A harness process infers one case at a time; live[r] is what process r  *)
(* knows of the case in hand.                                              *)
(***************************************************************************)
EXTENDS Integers, Verdict

CONSTANTS
  None,
  Runners,       \* places for processes that infer cases
  Outcomes,      \* challenges that can be observed
  Decisions,     \* semantic decisions that can be returned
  MaxRepairs     \* _MAX_REPAIRS

VARIABLE live

Abstentions   == {"CLAIM_INSUFFICIENT_EVIDENCE", "CLAIM_COUNTERFACTUAL_NOT_APPLICABLE"}
ClaimErrors   == {"CLAIM_INVALID_OUTPUT", "CLAIM_INVOCATION_ERROR"}
TerminalStatus ==
  ClaimOutcome \cup MechanicalStatus \cup Abstentions \cup ClaimErrors
    \cup {"ENVIRONMENT_NOT_READY", "MODEL_INVOCATION_ERROR",
          "HARNESS_OR_IMPLEMENTATION_ERROR"}

(* The fields of a result that decide its score: pattern is the one of its *)
(* last evaluation, related what the assessor said of it.                  *)
Result == [terminal: TerminalStatus, outcome: ClaimOutcome \cup {None},
           mechanical: MechanicalStatus \cup {None},
           pattern: DifferentialPattern \cup {None}, related: BOOLEAN]

ASSUME LiveCaseAssumption ==
  /\ Outcomes \subseteq ChallengeResult /\ Decisions \subseteq Decision
  /\ None \notin ClaimOutcome \cup MechanicalStatus \cup DifferentialPattern
  /\ None \notin ChallengeResult \cup Result
  /\ MaxRepairs \in Nat

(* The case in hand: attempts recorded so far, the pattern of the last     *)
(* evaluation, and the challenge of the current attempt if it was run.     *)
Idle == [stage |-> "idle", attempts |-> 0, pattern |-> None, challenge |-> None,
         result |-> None]
Live == [stage: {"idle", "open", "claim", "generate", "execute", "assess", "finished"},
         attempts: 0 .. MaxRepairs + 1, pattern: DifferentialPattern \cup {None},
         challenge: ChallengeResult \cup {None}, result: Result \cup {None}]

Moves(r, stage)  == live[r].stage = stage
Goes(r, k)       == live' = [live EXCEPT ![r] = k]
Begin(r)         == Goes(r, [Idle EXCEPT !.stage = "open"])

(* _finish_case: the result of k as it stands. *)
Finished(k, terminal, outcome, mechanical, related) ==
  [Idle EXCEPT !.stage = "finished",
               !.result = [terminal |-> terminal, outcome |-> outcome,
                           mechanical |-> mechanical, pattern |-> k.pattern,
                           related |-> related]]
-----------------------------------------------------------------------------
(* session.prepare_environment, for plans that install dependencies. *)
Readiness(r) ==
  /\ Moves(r, "open")
  /\ \/ Goes(r, [live[r] EXCEPT !.stage = "claim"])
     \/ Goes(r, Finished(live[r], "ENVIRONMENT_NOT_READY", "INSUFFICIENT_EVIDENCE",
                         "ENVIRONMENTAL", FALSE))

(* The claim investigator: a claim, an abstention, or a failure. *)
SelectClaim(r) ==
  /\ Moves(r, "claim")
  /\ \/ Goes(r, [live[r] EXCEPT !.stage = "generate"])
     \/ \E terminal \in Abstentions :
          Goes(r, Finished(live[r], terminal, "INSUFFICIENT_EVIDENCE", None, FALSE))
     \/ \E terminal \in ClaimErrors :
          Goes(r, Finished(live[r], terminal, None, None, FALSE))

(* A model call of the generator or the assessor fails for good. *)
ModelFails(r) ==
  /\ live[r].stage \in {"generate", "assess"}
  /\ Goes(r, Finished(live[r], "MODEL_INVOCATION_ERROR", None, None, FALSE))

(* After an attempt that decides nothing: a repair with challenge = None,  *)
(* or the result of the last attempt.                                      *)
Undecided(k) ==
  IF k.attempts <= MaxRepairs
  THEN [k EXCEPT !.stage = "generate", !.challenge = None]
  ELSE LET status == IF k.challenge = None THEN "INVALID_TEST"
                     ELSE Classify(k.challenge).mechanical
       IN  Finished(k, status, "INSUFFICIENT_EVIDENCE", status, FALSE)

(* generate_initial or repair: an attempt that validation rejects is       *)
(* recorded and not executed.                                              *)
Generate(r) ==
  /\ Moves(r, "generate")
  /\ LET k == [live[r] EXCEPT !.attempts = @ + 1]
     IN  Goes(r, [live[r] EXCEPT !.stage = "execute"]) \/ Goes(r, Undecided(k))

(* session.run, then the attempt and its evaluation are recorded. *)
Execute(r) ==
  /\ Moves(r, "execute")
  /\ \E c \in Outcomes :
       LET k == [live[r] EXCEPT !.attempts = @ + 1, !.challenge = c,
                                !.pattern = Classify(c).pattern]
       IN  Goes(r, IF Classify(c).mechanical = "DISCRIMINATING"
                   THEN [k EXCEPT !.stage = "assess"] ELSE Undecided(k))

(* The assessor's decision ends the case, if it is one that the pattern    *)
(* allows; a decision that is refused raises (CaseRaises).                 *)
Assess(r) ==
  /\ Moves(r, "assess")
  /\ \E d \in Decisions :
       /\ DecisionAllowed(live[r].pattern, d)
       /\ Goes(r, Finished(live[r], d.outcome, d.outcome,
                           Classify(live[r].challenge).mechanical, d.related))

(* Any exception: the repository, its exclusions or its context differ     *)
(* from PREPARE, Git, the session, a refused decision.  The result is      *)
(* replaced, so that nothing the case had recorded is kept.                *)
CaseRaises(r) ==
  /\ live[r].stage \notin {"idle", "finished"}
  /\ Goes(r, Finished(Idle, "HARNESS_OR_IMPLEMENTATION_ERROR", None, None, FALSE))

InferStep(r) ==
  \/ Readiness(r) \/ SelectClaim(r) \/ Generate(r) \/ Execute(r) \/ Assess(r)
  \/ ModelFails(r) \/ CaseRaises(r)
=============================================================================
