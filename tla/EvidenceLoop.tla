---------------------------- MODULE EvidenceLoop ----------------------------
(***************************************************************************)
(* What EvidenceWorkflow.execute computes between its store calls: claim   *)
(* selection, environment readiness, the bounded candidate generator       *)
(* (test_generation.py), the BASE/HEAD challenges, the semantic assessment *)
(* and the report.  Every model call goes through BoundedRetryingModel     *)
(* (model_reliability.py), which repeats a transient failure once.         *)
(*                                                                         *)
(* Models and tests answer anything: a model call returns any source or an *)
(* unusable response, a challenge any pair of outcomes.  Two sources that  *)
(* differ only in formatting have one behavior fingerprint.                *)
(***************************************************************************)
EXTENDS Integers, Sequences, Verdict

CONSTANTS
  None,
  Source,         \* test sources a model can return
  Valid,          \* those that CandidateTestValidator accepts
  Fingerprint,    \* source -> behavior fingerprint
  Outcomes,       \* challenges that can be observed
  Decisions,      \* semantic decisions that can be returned
  MaxModelCalls,  \* _MAX_CANDIDATE_MODEL_CALLS
  MaxRepairs,     \* _MAX_REPAIRS
  MaxTries        \* attempts of one logical provider call

ASSUME LoopAssumption ==
  /\ Valid \subseteq Source
  /\ Outcomes \subseteq ChallengeResult /\ Decisions \subseteq Decision
  /\ None \notin Source \cup ChallengeResult \cup Decision
  /\ \A s \in Source : s \in DOMAIN Fingerprint /\ Fingerprint[s] # None
  /\ MaxRepairs \in Nat /\ MaxTries \in Nat \ {0}
  /\ MaxModelCalls = MaxRepairs + 1

VARIABLES
  pc,             \* "claim", "ready", "generate", "execute", "assess", ...
  attempts,       \* the generator's _attempts
  modelCalls,     \* its _model_calls
  repairs,        \* its _repair_count
  tries,          \* provider attempts of the current logical call
  providerCalls,  \* provider attempts of the run
  challenge,      \* the workflow's current challenge, or None
  evaluations,    \* the executed candidates, in order
  report          \* the evidence report, or None

generator == <<attempts, modelCalls, repairs>>
provider  == <<tries, providerCalls>>
outcome   == <<challenge, evaluations, report>>
vars      == <<pc, generator, provider, outcome>>

Attempt == [status: {"VALIDATED", "REJECTED", "INVALID_MODEL_OUTPUT"},
            source: Source \cup {None},      \* of its proposal, if it has one
            fingerprint: {Fingerprint[s] : s \in Source} \cup {None}]

(* The fields of EvidenceReport that depend on each other. *)
Report == [mechanical: MechanicalStatus, outcome: ClaimOutcome,
           pattern: DifferentialPattern, executed: ChallengeResult \cup {None},
           semantic: Decision \cup {None},
           reason: {"CLAIM", "ENVIRONMENT", "MECHANICAL", "ALL_REJECTED"}]

LoopTypeOK ==
  /\ pc \in {"claim", "ready", "generate", "execute", "assess", "next", "done",
             "failed"}
  /\ attempts \in Seq(Attempt)
  /\ modelCalls \in Nat /\ repairs \in Nat
  /\ tries \in 0 .. MaxTries - 1 /\ providerCalls \in 0 .. MaxTries * (MaxModelCalls + 2)
  /\ challenge \in ChallengeResult \cup {None}
  /\ evaluations \in Seq([sequence: Nat, challenge: ChallengeResult])
  /\ report \in Report \cup {None}
-----------------------------------------------------------------------------
Init ==
  /\ pc = "claim"
  /\ attempts = <<>> /\ modelCalls = 0 /\ repairs = 0
  /\ tries = 0 /\ providerCalls = 0
  /\ challenge = None /\ evaluations = <<>> /\ report = None

(* BoundedRetryingModel.invoke: pcs that are logical model calls, the      *)
(* provider attempt that answers, one that fails transiently and is        *)
(* repeated, and a failure that is raised.                                 *)
ModelPc  == {"claim", "generate", "assess"}
IsRepair == attempts # <<>>

(* repair counts itself, _invoke the model call, both before the call. *)
Counted  == /\ repairs' = IF IsRepair THEN repairs + 1 ELSE repairs
            /\ modelCalls' = modelCalls + 1
Answered == tries' = 0 /\ providerCalls' = providerCalls + 1

ForeverRetrying == TRUE                      \* variant: no attempt limit
MayRetry        == tries + 1 < MaxTries

Retry ==
  /\ pc \in ModelPc /\ MayRetry
  /\ tries' = tries + 1 /\ providerCalls' = providerCalls + 1
  /\ UNCHANGED <<pc, generator, outcome>>

ProviderFails ==
  /\ pc \in ModelPc
  /\ Answered /\ pc' = "failed"
  /\ IF pc = "generate" THEN Counted ELSE UNCHANGED <<modelCalls, repairs>>
  /\ UNCHANGED <<attempts, outcome>>

(* Anything else raises: Git, the executor, an input over its budget, an   *)
(* ungrounded claim.                                                       *)
Fail == /\ pc \notin {"done", "failed"}
        /\ pc' = "failed"
        /\ UNCHANGED <<generator, provider, outcome>>

AbstentionReport(c, status, reason) ==
  [mechanical |-> status, outcome |-> "INSUFFICIENT_EVIDENCE",
   pattern |-> IF c = None THEN "NOT_COMPARABLE" ELSE Classify(c).pattern,
   executed |-> c, semantic |-> None, reason |-> reason]

Finish(document) == pc' = "done" /\ report' = document

(* claim_agent.select_claim: a claim, or a reason to abstain. *)
SelectClaim ==
  /\ pc = "claim" /\ Answered
  /\ \/ pc' = "ready" /\ UNCHANGED report
     \/ \E status \in {"COUNTERFACTUAL_NOT_APPLICABLE", "NON_DISCRIMINATING"} :
          Finish(AbstentionReport(None, status, "CLAIM"))
  /\ UNCHANGED <<generator, challenge, evaluations>>

(* session.prepare_environment *)
Prepare ==
  /\ pc = "ready"
  /\ \/ pc' = "generate" /\ UNCHANGED report
     \/ Finish(AbstentionReport(None, "ENVIRONMENTAL", "ENVIRONMENT"))
  /\ UNCHANGED <<generator, provider, challenge, evaluations>>
-----------------------------------------------------------------------------
(* BoundedCandidateTestGenerator *)
LastAttempt == attempts[Len(attempts)]

SameAsPrevious(source) == IsRepair /\ LastAttempt.source = source
NoBehaviorChange(source) ==
  IsRepair /\ LastAttempt.fingerprint = Fingerprint[source]

(* The attempt recorded for a response: None is one that is too large or   *)
(* cannot be parsed.  A repair is compared with the attempt before it.     *)
Validated(response) ==
  CASE response = None ->
         [status |-> "INVALID_MODEL_OUTPUT", source |-> None, fingerprint |-> None]
    [] response # None /\ (SameAsPrevious(response) \/ response \notin Valid) ->
         [status |-> "REJECTED", source |-> response, fingerprint |-> None]
    [] response \in Valid /\ ~SameAsPrevious(response) ->
         [status |-> IF NoBehaviorChange(response) THEN "REJECTED" ELSE "VALIDATED",
          source |-> response, fingerprint |-> Fingerprint[response]]

(* generate_initial runs once; repair needs a first attempt and budget.    *)
WithinBudget == IsRepair => repairs < MaxRepairs /\ modelCalls < MaxModelCalls

Generate ==
  /\ pc = "generate" /\ WithinBudget /\ Answered /\ Counted
  /\ \E response \in Source \cup {None} :
       /\ attempts' = Append(attempts, Validated(response))
       /\ pc' = IF Validated(response).status = "VALIDATED" THEN "execute" ELSE "next"
  /\ UNCHANGED outcome

(* CandidateBudgetExceeded *)
BudgetExceeded == pc = "generate" /\ ~WithinBudget
-----------------------------------------------------------------------------
(* session.run of the validated candidate, classified and recorded. *)
Evaluated(c) ==
  Append(evaluations, [sequence |-> Len(attempts), challenge |-> c])

SupportOnly(c) ==                              \* variant: regressions ignored
  Classify(c).pattern = "BASE_ASSERTION_FAILED_HEAD_PASSED"
Conclusive(c) == Classify(c).mechanical = "DISCRIMINATING"

Execute ==
  /\ pc = "execute"
  /\ \E c \in Outcomes :
       /\ challenge' = c
       /\ evaluations' = Evaluated(c)
       /\ IF SetupFailed(c)
          THEN Finish(AbstentionReport(c, "ENVIRONMENTAL", "ENVIRONMENT"))
          ELSE /\ pc' = IF Conclusive(c) THEN "assess" ELSE "next"
               /\ UNCHANGED report
  /\ UNCHANGED <<generator, provider>>

CompletedReport(decision) ==
  [mechanical |-> Classify(challenge).mechanical, outcome |-> decision.outcome,
   pattern |-> Classify(challenge).pattern, executed |-> challenge,
   semantic |-> decision, reason |-> "MECHANICAL"]

(* assessor.assess and _validate_semantic_decision *)
Assess ==
  /\ pc = "assess" /\ Answered
  /\ \E decision \in Decisions :
       IF DecisionAllowed(Classify(challenge).pattern, decision)
       THEN Finish(CompletedReport(decision))
       ELSE pc' = "failed" /\ UNCHANGED report
  /\ UNCHANGED <<generator, challenge, evaluations>>

(* The end of one turn of the loop: another repair, or the abstention. *)
OneTooMany == Len(attempts) > MaxRepairs + 1   \* variant: bound off by one
LastTurn   == Len(attempts) > MaxRepairs
KeptChallenge    == challenge                  \* variant: not reset
ClearedChallenge == None

Turn ==
  /\ pc = "next"
  /\ IF LastTurn
     THEN /\ Finish(IF challenge = None
                    THEN AbstentionReport(None, "INVALID_TEST", "ALL_REJECTED")
                    ELSE AbstentionReport(challenge, Classify(challenge).mechanical,
                                          "MECHANICAL"))
          /\ UNCHANGED challenge
     ELSE /\ pc' = "generate" /\ challenge' = ClearedChallenge /\ UNCHANGED report
  /\ UNCHANGED <<generator, provider, evaluations>>

Next == \/ SelectClaim \/ Prepare \/ Generate \/ Execute \/ Assess \/ Turn
        \/ Retry \/ ProviderFails \/ Fail

Spec == Init /\ [][Next]_vars
-----------------------------------------------------------------------------
(* A supported claim or a potential regression rests on the last executed  *)
(* candidate: identical, unchanged bytes that failed an assertion on one   *)
(* side only, the right one, and an assertion related to the claim.        *)
VerdictGrounded ==
  report # None /\ report.outcome # "INSUFFICIENT_EVIDENCE" =>
    /\ report.outcome # "CLAIM_NOT_SUPPORTED_FOR_SCENARIO"
    /\ report.executed # None /\ report.executed = challenge
    /\ report.executed.declared /\ report.executed.unchanged
    /\ report.semantic # None /\ report.semantic.related
    /\ IF report.outcome = "CLAIM_SUPPORTED_FOR_SCENARIO"
       THEN report.executed.base = "ASSERTION_FAILED" /\ report.executed.head = "PASSED"
       ELSE report.executed.base = "PASSED" /\ report.executed.head = "ASSERTION_FAILED"

(* Every report the workflow builds satisfies validate_evidence_pair, so   *)
(* building it never raises; and a discriminating result is always         *)
(* interpreted, never lost in an abstention.                               *)
ReportsValid ==
  report # None =>
    /\ report.mechanical = "DISCRIMINATING" =>
         report.executed # None /\ report.semantic # None
    /\ (report.pattern \in {"BASE_ASSERTION_FAILED_HEAD_PASSED",
                            "BASE_PASSED_HEAD_ASSERTION_FAILED"}) =>
         report.mechanical = "DISCRIMINATING"

(* The challenge in hand belongs to the last attempt, so that the repair   *)
(* feedback's assertion holds and a report never shows the run of an       *)
(* earlier one; and no executed candidate is lost: the evaluations are the *)
(* validated attempts in order, up to the one being executed.              *)
AttemptsAccounted ==
  LET executed  == {evaluations[i].sequence : i \in 1 .. Len(evaluations)}
      validated == {i \in 1 .. Len(attempts) : attempts[i].status = "VALIDATED"}
      pending   == IF pc = "execute" THEN {Len(attempts)} ELSE {}
  IN  /\ pc # "failed" => executed = validated \ pending
      /\ \A i \in 1 .. Len(evaluations) - 1 :
           evaluations[i].sequence < evaluations[i + 1].sequence
      /\ pc \in {"assess", "next", "done"} /\ attempts # <<>> =>
           /\ (challenge # None) <=> (LastAttempt.status = "VALIDATED")
           /\ challenge # None =>
                challenge = evaluations[Len(evaluations)].challenge

(* One initial candidate and MaxRepairs repairs, however the attempts end, *)
(* and CandidateBudgetExceeded is never reached from the workflow's loop.  *)
CandidateBudget ==
  /\ modelCalls <= MaxModelCalls /\ repairs <= MaxRepairs
  /\ Len(attempts) <= modelCalls
  /\ ~BudgetExceeded
=============================================================================
