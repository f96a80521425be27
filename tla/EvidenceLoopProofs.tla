------------------------- MODULE EvidenceLoopProofs -------------------------
(***************************************************************************)
(* Proofs about Verdict and EvidenceLoop, for every set of sources,        *)
(* outcomes and decisions and every repair budget.                         *)
(***************************************************************************)
EXTENDS EvidenceLoop, TLAPS

(* The classifier calls a pair discriminating exactly when one side passed *)
(* and the other failed an assertion, with the declared, unchanged bytes.  *)
Discriminates(c) ==
  /\ c.declared /\ c.unchanged
  /\ c.base \in OrdinaryStatus /\ c.head \in OrdinaryStatus /\ c.base # c.head

(* The tests of classify, one after the other, come to this: no execution  *)
(* status that means anything but an assertion outcome ever discriminates. *)
THEOREM ClassifierSound ==
  \A c \in ChallengeResult :
    (Classify(c).mechanical = "DISCRIMINATING") <=> Discriminates(c)
BY DEF ChallengeResult, TestExecutionStatus, Classify, Assessment, Discriminates,
       OrdinaryStatus, InvalidTestStatus, EnvironmentalStatus, OneSidedException,
       PatternOf

(* classify reports one of the two differential patterns exactly for the   *)
(* discriminating pairs, and names the side that failed.                   *)
LEMMA PatternSound ==
  ASSUME NEW c \in ChallengeResult
  PROVE  /\ Classify(c).mechanical \in MechanicalStatus
         /\ Classify(c).pattern \in DifferentialPattern
         /\ Classify(c).pattern = "BASE_ASSERTION_FAILED_HEAD_PASSED" =>
              /\ Discriminates(c)
              /\ c.base = "ASSERTION_FAILED" /\ c.head = "PASSED"
         /\ Classify(c).pattern = "BASE_PASSED_HEAD_ASSERTION_FAILED" =>
              /\ Discriminates(c)
              /\ c.base = "PASSED" /\ c.head = "ASSERTION_FAILED"
BY DEF ChallengeResult, TestExecutionStatus, Classify, Assessment, Discriminates,
       OrdinaryStatus, InvalidTestStatus, EnvironmentalStatus, OneSidedException,
       PatternOf, MechanicalStatus, DifferentialPattern

(* A pair whose setup failed never discriminates, so the abstention that   *)
(* _candidate_environment_failure builds hides no evidence.                *)
LEMMA SetupFailureIsInconclusive ==
  ASSUME NEW c \in ChallengeResult, SetupFailed(c)
  PROVE  ~Discriminates(c)
BY DEF SetupFailed, Discriminates, OrdinaryStatus
-----------------------------------------------------------------------------
(* The inductive invariant behind VerdictGrounded and ReportsValid: where  *)
(* the challenge in hand may discriminate, and that a report is final.     *)
VerdictInv ==
  /\ challenge \in ChallengeResult \cup {None}
  /\ pc \in {"claim", "ready", "generate", "execute"} => challenge = None
  /\ pc = "assess" => challenge # None /\ Discriminates(challenge)
  /\ pc = "next" /\ challenge # None => ~Discriminates(challenge)
  /\ report # None => pc = "done"
  /\ VerdictGrounded /\ ReportsValid

LEMMA VerdictInit == Init => VerdictInv
BY DEF Init, VerdictInv, VerdictGrounded, ReportsValid

(* An abstention about an inconclusive challenge is a valid report. *)
LEMMA AbstentionValid ==
  ASSUME NEW c \in ChallengeResult \cup {None}, c # None => ~Discriminates(c),
         NEW status, status # "DISCRIMINATING", NEW reason,
         report' = AbstentionReport(c, status, reason)
  PROVE  VerdictGrounded' /\ ReportsValid'
<1>1. /\ report'.mechanical = status
      /\ report'.outcome = "INSUFFICIENT_EVIDENCE"
      /\ report'.pattern = (IF c = None THEN "NOT_COMPARABLE" ELSE Classify(c).pattern)
  BY DEF AbstentionReport
<1>2. report'.pattern \notin {"BASE_ASSERTION_FAILED_HEAD_PASSED",
                              "BASE_PASSED_HEAD_ASSERTION_FAILED"}
  <2>1. CASE c = None
    BY <2>1, <1>1
  <2>2. CASE c # None
    BY <2>2, <1>1, PatternSound
  <2> QED BY <2>1, <2>2
<1> QED BY <1>1, <1>2 DEF VerdictGrounded, ReportsValid

LEMMA VerdictStep == VerdictInv /\ [Next]_vars => VerdictInv'
<1> SUFFICES ASSUME VerdictInv, [Next]_vars PROVE VerdictInv'
  OBVIOUS
<1> USE LoopAssumption
<1>1. CASE SelectClaim
  <2>1. challenge = None /\ challenge' = None /\ report = None
    BY <1>1 DEF SelectClaim, VerdictInv
  <2>2. CASE pc' = "ready" /\ UNCHANGED report
    BY <2>1, <2>2 DEF VerdictInv, VerdictGrounded, ReportsValid
  <2>3. ASSUME NEW status \in {"COUNTERFACTUAL_NOT_APPLICABLE", "NON_DISCRIMINATING"},
               Finish(AbstentionReport(None, status, "CLAIM"))
        PROVE  VerdictInv'
    <3>1. pc' = "done" /\ report' = AbstentionReport(None, status, "CLAIM")
      BY <2>3 DEF Finish
    <3>2. VerdictGrounded' /\ ReportsValid'
      BY <3>1, AbstentionValid
    <3> QED BY <2>1, <3>1, <3>2 DEF VerdictInv
  <2> QED BY <1>1, <2>2, <2>3 DEF SelectClaim
<1>2. CASE Prepare
  <2>1. challenge = None /\ challenge' = None /\ report = None
    BY <1>2 DEF Prepare, VerdictInv
  <2>2. CASE pc' = "generate" /\ UNCHANGED report
    BY <2>1, <2>2 DEF VerdictInv, VerdictGrounded, ReportsValid
  <2>3. CASE Finish(AbstentionReport(None, "ENVIRONMENTAL", "ENVIRONMENT"))
    <3>1. /\ pc' = "done"
          /\ report' = AbstentionReport(None, "ENVIRONMENTAL", "ENVIRONMENT")
      BY <2>3 DEF Finish
    <3>2. VerdictGrounded' /\ ReportsValid'
      BY <3>1, AbstentionValid
    <3> QED BY <2>1, <3>1, <3>2 DEF VerdictInv
  <2> QED BY <1>2, <2>2, <2>3 DEF Prepare
<1>3. CASE Generate
  <2>1. challenge = None /\ challenge' = None /\ report' = None
        /\ pc' \in {"execute", "next"}
    BY <1>3 DEF Generate, VerdictInv, outcome
  <2> QED BY <2>1 DEF VerdictInv, VerdictGrounded, ReportsValid
<1>4. CASE Execute
  <2>0. report = None
    BY <1>4 DEF Execute, VerdictInv
  <2>1. PICK c \in Outcomes :
          /\ challenge' = c
          /\ IF SetupFailed(c)
             THEN Finish(AbstentionReport(c, "ENVIRONMENTAL", "ENVIRONMENT"))
             ELSE /\ pc' = IF Conclusive(c) THEN "assess" ELSE "next"
                  /\ UNCHANGED report
    BY <1>4 DEF Execute
  <2>2. c \in ChallengeResult /\ c # None
    OBVIOUS
  <2>3. CASE SetupFailed(c)
    <3>1. /\ pc' = "done"
          /\ report' = AbstentionReport(c, "ENVIRONMENTAL", "ENVIRONMENT")
      BY <2>1, <2>3 DEF Finish
    <3>2. ~Discriminates(c)
      BY <2>2, <2>3, SetupFailureIsInconclusive
    <3>3. VerdictGrounded' /\ ReportsValid'
      BY <2>2, <3>1, <3>2, AbstentionValid
    <3> QED BY <2>1, <2>2, <3>1, <3>3 DEF VerdictInv
  <2>4. CASE ~SetupFailed(c)
    <3>1. /\ pc' = IF Discriminates(c) THEN "assess" ELSE "next"
          /\ report' = None
      BY <2>0, <2>1, <2>2, <2>4, ClassifierSound DEF Conclusive
    <3> QED BY <2>1, <2>2, <3>1 DEF VerdictInv, VerdictGrounded, ReportsValid
  <2> QED BY <2>3, <2>4
<1>5. CASE Assess
  <2>1. /\ challenge \in ChallengeResult /\ challenge # None
        /\ Discriminates(challenge) /\ challenge' = challenge /\ report = None
    BY <1>5 DEF Assess, VerdictInv
  <2>2. PICK decision \in Decisions :
          IF DecisionAllowed(Classify(challenge).pattern, decision)
          THEN Finish(CompletedReport(decision))
          ELSE pc' = "failed" /\ UNCHANGED report
    BY <1>5 DEF Assess
  <2>3. decision \in Decision /\ decision # None
    OBVIOUS
  <2>4. CASE ~DecisionAllowed(Classify(challenge).pattern, decision)
    BY <2>1, <2>2, <2>4 DEF VerdictInv, VerdictGrounded, ReportsValid
  <2>5. CASE DecisionAllowed(Classify(challenge).pattern, decision)
    <3>1. pc' = "done" /\ report' = CompletedReport(decision)
      BY <2>2, <2>5 DEF Finish
    <3>2. /\ report'.mechanical = "DISCRIMINATING"
          /\ report'.outcome = decision.outcome
          /\ report'.pattern = Classify(challenge).pattern
          /\ report'.executed = challenge
          /\ report'.semantic = decision
      BY <2>1, <3>1, ClassifierSound DEF CompletedReport
    <3>3. ReportsValid'
      BY <2>1, <2>3, <3>2 DEF ReportsValid
    <3>4. VerdictGrounded'
      BY <2>1, <2>3, <2>5, <3>2, PatternSound
         DEF VerdictGrounded, DecisionAllowed, Discriminates
    <3> QED BY <2>1, <3>1, <3>3, <3>4 DEF VerdictInv
  <2> QED BY <2>4, <2>5
<1>6. CASE Turn
  <2>1. /\ challenge \in ChallengeResult \cup {None}
        /\ challenge # None => ~Discriminates(challenge)
        /\ report = None
    BY <1>6 DEF Turn, VerdictInv
  <2>2. CASE ~LastTurn
    BY <1>6, <2>1, <2>2 DEF Turn, VerdictInv, VerdictGrounded, ReportsValid,
                            ClearedChallenge
  <2>3. CASE LastTurn /\ challenge = None
    <3>1. /\ pc' = "done" /\ challenge' = None
          /\ report' = AbstentionReport(None, "INVALID_TEST", "ALL_REJECTED")
      BY <1>6, <2>3 DEF Turn, Finish
    <3>2. VerdictGrounded' /\ ReportsValid'
      BY <3>1, AbstentionValid
    <3> QED BY <3>1, <3>2 DEF VerdictInv
  <2>4. CASE LastTurn /\ challenge # None
    <3> DEFINE status == Classify(challenge).mechanical
    <3>1. /\ pc' = "done" /\ challenge' = challenge
          /\ report' = AbstentionReport(challenge, status, "MECHANICAL")
      BY <1>6, <2>4 DEF Turn, Finish
    <3>2. status # "DISCRIMINATING"
      BY <2>1, <2>4, ClassifierSound
    <3> HIDE DEF status
    <3>3. VerdictGrounded' /\ ReportsValid'
      BY <2>1, <2>4, <3>1, <3>2, AbstentionValid
    <3> QED BY <2>1, <3>1, <3>3 DEF VerdictInv
  <2> QED BY <2>2, <2>3, <2>4
<1>7. CASE Retry
  BY <1>7 DEF Retry, outcome, VerdictInv, VerdictGrounded, ReportsValid
<1>8. CASE ProviderFails
  BY <1>8 DEF ProviderFails, ModelPc, outcome, VerdictInv, VerdictGrounded, ReportsValid
<1>9. CASE Fail
  BY <1>9 DEF Fail, outcome, VerdictInv, VerdictGrounded, ReportsValid
<1>10. CASE UNCHANGED vars
  BY <1>10 DEF vars, outcome, VerdictInv, VerdictGrounded, ReportsValid
<1> QED BY <1>1, <1>2, <1>3, <1>4, <1>5, <1>6, <1>7, <1>8, <1>9, <1>10 DEF Next

(* Whatever the models answer, execute() reports a supported claim or a    *)
(* potential regression only for a test that failed its assertion on the   *)
(* right side only and that the assessor relates to the claim.             *)
THEOREM VerdictsAreGrounded == Spec => []VerdictGrounded
<1>1. VerdictInv => VerdictGrounded
  BY DEF VerdictInv
<1> QED BY VerdictInit, VerdictStep, <1>1, PTL DEF Spec

(* Every report execute() builds passes validate_evidence_pair, and a      *)
(* discriminating pair is never reported without interpretation.           *)
THEOREM ReportsAreValid == Spec => []ReportsValid
<1>1. VerdictInv => ReportsValid
  BY DEF VerdictInv
<1> QED BY VerdictInit, VerdictStep, <1>1, PTL DEF Spec
-----------------------------------------------------------------------------
(* The inductive invariant behind CandidateBudget: the counters follow the *)
(* number of attempts until the run fails, and the loop's bound keeps that *)
(* number within the generator's budget.                                   *)
BudgetInv ==
  /\ attempts \in Seq(Attempt)
  /\ modelCalls \in Nat /\ repairs \in Nat
  /\ pc # "failed" =>
       /\ modelCalls = Len(attempts)
       /\ repairs = IF attempts = <<>> THEN 0 ELSE Len(attempts) - 1
       /\ Len(attempts) <= MaxModelCalls
       /\ pc \in {"claim", "ready"} => attempts = <<>>
       /\ pc = "generate" => Len(attempts) <= MaxRepairs
  /\ pc = "failed" =>
       /\ Len(attempts) <= modelCalls
       /\ modelCalls <= MaxModelCalls /\ repairs <= MaxRepairs

LEMMA AttemptsTyped ==
  ASSUME NEW response \in Source \cup {None}, attempts \in Seq(Attempt)
  PROVE  Validated(response) \in Attempt
BY LoopAssumption DEF Validated, Attempt

LEMMA BudgetStep == BudgetInv /\ [Next]_vars => BudgetInv'
<1> SUFFICES ASSUME BudgetInv, [Next]_vars PROVE BudgetInv'
  OBVIOUS
<1> USE LoopAssumption
<1>1. CASE SelectClaim
  BY <1>1 DEF SelectClaim, Finish, generator, BudgetInv
<1>2. CASE Prepare
  BY <1>2 DEF Prepare, Finish, generator, BudgetInv
<1>3. CASE Generate
  <2>1. /\ pc = "generate" /\ pc' \in {"execute", "next"}
        /\ repairs' = IF attempts # <<>> THEN repairs + 1 ELSE repairs
        /\ modelCalls' = modelCalls + 1
    BY <1>3 DEF Generate, Counted, IsRepair
  <2>2. PICK response \in Source \cup {None} :
          attempts' = Append(attempts, Validated(response))
    BY <1>3 DEF Generate
  <2>3. Validated(response) \in Attempt
    BY AttemptsTyped DEF BudgetInv
  <2>4. /\ attempts' \in Seq(Attempt) /\ Len(attempts') = Len(attempts) + 1
        /\ attempts' # <<>> /\ Len(attempts) \in Nat
        /\ attempts # <<>> => Len(attempts) > 0
        /\ attempts = <<>> => Len(attempts) = 0
    BY <2>2, <2>3 DEF BudgetInv
  <2> HIDE DEF Attempt
  <2> QED BY <2>1, <2>4 DEF BudgetInv
<1>4. CASE Execute
  BY <1>4 DEF Execute, Finish, generator, BudgetInv
<1>5. CASE Assess
  BY <1>5 DEF Assess, Finish, generator, BudgetInv
<1>6. CASE Turn
  BY <1>6 DEF Turn, LastTurn, Finish, generator, BudgetInv
<1>7. CASE Retry
  BY <1>7 DEF Retry, generator, BudgetInv
<1>8. CASE ProviderFails
  BY <1>8 DEF ProviderFails, Counted, IsRepair, BudgetInv
<1>9. CASE Fail
  BY <1>9 DEF Fail, generator, BudgetInv
<1>10. CASE UNCHANGED vars
  BY <1>10 DEF vars, generator, BudgetInv
<1> QED BY <1>1, <1>2, <1>3, <1>4, <1>5, <1>6, <1>7, <1>8, <1>9, <1>10 DEF Next

(* The generator's budgets hold for every repair bound, and the workflow's *)
(* loop never runs into CandidateBudgetExceeded.                           *)
THEOREM CandidatesAreBounded == Spec => []CandidateBudget
<1>1. Init => BudgetInv
  BY LoopAssumption DEF Init, BudgetInv
<1>2. BudgetInv => CandidateBudget
  BY LoopAssumption DEF BudgetInv, CandidateBudget, BudgetExceeded, WithinBudget, IsRepair
<1> QED BY <1>1, <1>2, BudgetStep, PTL DEF Spec
-----------------------------------------------------------------------------
(* The provider attempts of a run: MaxTries at most for the claim, for each *)
(* candidate and for the assessment (BoundedRetryingModel.invoke).         *)
LogicalCalls == CASE pc = "claim" -> 0
                  [] pc \in {"ready", "generate", "execute", "next", "assess"} ->
                       Len(attempts) + 1
                  [] OTHER -> MaxModelCalls + 2
SpentInv ==
  /\ tries \in 0 .. MaxTries - 1 /\ providerCalls \in Nat
  /\ pc \in {"ready", "execute", "next"} => tries = 0
  /\ pc \in {"done", "failed"} => providerCalls <= MaxTries * LogicalCalls
  /\ pc \notin {"done", "failed"} => providerCalls <= MaxTries * LogicalCalls + tries

LEMMA OneMoreCall ==
  ASSUME NEW m \in Nat, NEW n \in Nat
  PROVE  m * (n + 1) = m * n + m
OBVIOUS

LEMMA MoreCalls ==
  ASSUME NEW m \in Nat, NEW a \in Nat, NEW b \in Nat, a <= b
  PROVE  m * a <= m * b /\ m * a \in Nat /\ m * b \in Nat
OBVIOUS

PcValues == {"claim", "ready", "generate", "execute", "assess", "next", "done", "failed"}

LEMMA SpentStep ==
  ASSUME SpentInv, BudgetInv, BudgetInv', pc \in PcValues, [Next]_vars
  PROVE  SpentInv' /\ pc' \in PcValues
<1> USE LoopAssumption
<1> DEFINE n == Len(attempts)
           spent(k) == MaxTries * k
<1>0. n \in Nat /\ (pc # "failed" => n <= MaxModelCalls) /\ MaxModelCalls \in Nat
      /\ (pc = "generate" => n <= MaxRepairs)
  BY DEF BudgetInv
<1>1. /\ spent(0) = 0 /\ spent(1) = spent(0) + MaxTries
      /\ spent(n + 1) \in Nat /\ spent(n + 2) = spent(n + 1) + MaxTries
      /\ spent(MaxModelCalls + 2) \in Nat
      /\ n <= MaxModelCalls => spent(n + 2) <= spent(MaxModelCalls + 2)
      /\ spent(1) <= spent(MaxModelCalls + 2)
      /\ spent(n + 1) <= spent(n + 2)
  <2>1. spent(0) = 0 /\ spent(0 + 1) = spent(0) + MaxTries
    BY OneMoreCall
  <2>2. spent((n + 1) + 1) = spent(n + 1) + MaxTries
    BY <1>0, OneMoreCall
  <2>3. spent(n + 1) \in Nat /\ spent(n + 1) <= spent(n + 2)
    BY <1>0, MoreCalls
  <2>4. n <= MaxModelCalls => spent(n + 2) <= spent(MaxModelCalls + 2)
    BY <1>0, MoreCalls
  <2>5. spent(1) <= spent(MaxModelCalls + 2) /\ spent(MaxModelCalls + 2) \in Nat
    BY <1>0, MoreCalls
  <2> HIDE DEF spent
  <2>6. 0 + 1 = 1 /\ (n + 1) + 1 = n + 2
    BY <1>0
  <2> QED
    BY <2>1, <2>2, <2>3, <2>4, <2>5, <2>6
<1>2. SpentInv <=>
        /\ tries \in 0 .. MaxTries - 1 /\ providerCalls \in Nat
        /\ pc \in {"ready", "execute", "next"} => tries = 0
        /\ pc \in {"done", "failed"} => providerCalls <= spent(MaxModelCalls + 2)
        /\ pc = "claim" => providerCalls <= spent(0) + tries
        /\ pc \in {"ready", "generate", "execute", "next", "assess"} =>
             providerCalls <= spent(n + 1) + tries
  BY DEF SpentInv, LogicalCalls, PcValues
<1>3. ASSUME pc' \in PcValues
      PROVE  SpentInv' <=>
        /\ tries' \in 0 .. MaxTries - 1 /\ providerCalls' \in Nat
        /\ pc' \in {"ready", "execute", "next"} => tries' = 0
        /\ pc' \in {"done", "failed"} => providerCalls' <= spent(MaxModelCalls + 2)
        /\ pc' = "claim" => providerCalls' <= spent(0) + tries'
        /\ pc' \in {"ready", "generate", "execute", "next", "assess"} =>
             providerCalls' <= spent(Len(attempts') + 1) + tries'
  BY <1>3 DEF SpentInv, LogicalCalls, PcValues
<1>4. pc \in {"claim", "ready"} => n = 0
  BY DEF BudgetInv
<1> HIDE DEF spent
<1>5. CASE SelectClaim
  BY <1>0, <1>1, <1>2, <1>3, <1>4, <1>5 DEF SelectClaim, Answered, Finish, generator, PcValues
<1>6. CASE Prepare
  BY <1>0, <1>1, <1>2, <1>3, <1>4, <1>6 DEF Prepare, Finish, generator, provider, PcValues
<1>7. CASE Generate
  <2>1. Len(attempts') = n + 1
    BY <1>7 DEF Generate, Counted, BudgetInv
  <2>2. pc = "generate" /\ pc' \in {"execute", "next"} /\ Answered
    BY <1>7 DEF Generate
  <2>3. spent(Len(attempts') + 1) = spent(n + 2)
    BY <1>0, <2>1
  <2> QED
    BY <1>0, <1>1, <1>2, <1>3, <2>2, <2>3 DEF Answered, PcValues
<1>8. CASE Execute
  BY <1>0, <1>1, <1>2, <1>3, <1>8 DEF Execute, Finish, generator, provider, PcValues
<1>9. CASE Assess
  BY <1>0, <1>1, <1>2, <1>3, <1>9 DEF Assess, Answered, Finish, generator, PcValues
<1>10. CASE Turn
  BY <1>0, <1>1, <1>2, <1>3, <1>10 DEF Turn, Finish, generator, provider, PcValues
<1>11. CASE Retry
  <2>1. /\ pc \in ModelPc /\ tries + 1 < MaxTries /\ pc' = pc /\ attempts' = attempts
        /\ tries' = tries + 1 /\ providerCalls' = providerCalls + 1
    BY <1>11 DEF Retry, MayRetry, generator
  <2>2. spent(0) \in Nat /\ spent(n + 1) \in Nat /\ tries \in Nat /\ tries' \in 0 .. MaxTries - 1
    BY <1>1, <1>2, <2>1
  <2> QED
    BY <1>2, <1>3, <2>1, <2>2 DEF ModelPc, PcValues
<1>12. CASE ProviderFails
  BY <1>0, <1>1, <1>2, <1>3, <1>4, <1>12 DEF ProviderFails, Answered, ModelPc, PcValues
<1>13. CASE Fail
  BY <1>0, <1>1, <1>2, <1>3, <1>4, <1>13 DEF Fail, generator, provider, PcValues
<1>14. CASE UNCHANGED vars
  BY <1>2, <1>3, <1>14 DEF vars, generator, provider
<1> QED
  BY <1>5, <1>6, <1>7, <1>8, <1>9, <1>10, <1>11, <1>12, <1>13, <1>14 DEF Next

-----------------------------------------------------------------------------
(* What Validated and Evaluated append, entry by entry. *)
EvaluationsInv ==
  /\ attempts \in Seq(Attempt)
  /\ evaluations \in Seq([sequence : Nat, challenge : ChallengeResult])
  /\ pc \in {"claim", "ready"} => attempts = <<>>
  /\ pc = "execute" => attempts # <<>> /\ LastAttempt.status = "VALIDATED"
  /\ pc \in {"claim", "ready", "generate"} => challenge = None
  /\ AttemptsAccounted

Executed  == {evaluations[i].sequence : i \in 1 .. Len(evaluations)}
ValidatedAt == {i \in 1 .. Len(attempts) : attempts[i].status = "VALIDATED"}

LEMMA AppendAttempt ==
  ASSUME attempts \in Seq(Attempt), NEW a \in Attempt, attempts' = Append(attempts, a)
  PROVE  /\ attempts' \in Seq(Attempt) /\ attempts' # <<>>
         /\ Len(attempts') = Len(attempts) + 1 /\ Len(attempts) \in Nat
         /\ LastAttempt' = a
         /\ a.status = "VALIDATED" => ValidatedAt' = ValidatedAt \cup {Len(attempts')}
         /\ a.status # "VALIDATED" => ValidatedAt' = ValidatedAt
         /\ Len(attempts') \notin ValidatedAt
<1>1. /\ attempts' \in Seq(Attempt) /\ attempts' # <<>>
      /\ Len(attempts') = Len(attempts) + 1 /\ Len(attempts) \in Nat
      /\ attempts'[Len(attempts')] = a
      /\ \A i \in 1 .. Len(attempts) : attempts'[i] = attempts[i]
  OBVIOUS
<1> HIDE DEF Attempt
<1> QED
  BY <1>1 DEF LastAttempt, ValidatedAt

LEMMA AppendEvaluation ==
  ASSUME NEW c \in ChallengeResult, NEW n \in Nat,
         evaluations \in Seq([sequence : Nat, challenge : ChallengeResult]),
         evaluations' = Append(evaluations, [sequence |-> n, challenge |-> c])
  PROVE  /\ evaluations' \in Seq([sequence : Nat, challenge : ChallengeResult])
         /\ Len(evaluations') = Len(evaluations) + 1 /\ Len(evaluations) \in Nat
         /\ evaluations'[Len(evaluations')] = [sequence |-> n, challenge |-> c]
         /\ \A i \in 1 .. Len(evaluations) : evaluations'[i] = evaluations[i]
         /\ Executed' = Executed \cup {n}
<1> DEFINE Entry == [sequence : Nat, challenge : ChallengeResult]
           e == [sequence |-> n, challenge |-> c]
<1>1. e \in Entry /\ e.sequence = n
  OBVIOUS
<1> HIDE DEF Entry, e
<1>2. /\ evaluations' \in Seq(Entry)
      /\ Len(evaluations') = Len(evaluations) + 1 /\ Len(evaluations) \in Nat
      /\ evaluations'[Len(evaluations')] = e
      /\ \A i \in 1 .. Len(evaluations) : evaluations'[i] = evaluations[i]
  <2>1. evaluations \in Seq(Entry) /\ evaluations' = Append(evaluations, e)
    BY DEF Entry, e
  <2> QED
    BY <1>1, <2>1
<1>3. Executed' = Executed \cup {n}
  BY <1>1, <1>2 DEF Executed
<1> QED
  BY <1>2, <1>3 DEF Entry, e

(* The three conjuncts of AttemptsAccounted. *)
NothingLost == pc # "failed" =>
  Executed = ValidatedAt \ (IF pc = "execute" THEN {Len(attempts)} ELSE {})
InOrder == \A i \in 1 .. Len(evaluations) - 1 :
             evaluations[i].sequence < evaluations[i + 1].sequence
InHand == pc \in {"assess", "next", "done"} /\ attempts # <<>> =>
            /\ (challenge # None) <=> (LastAttempt.status = "VALIDATED")
            /\ challenge # None => challenge = evaluations[Len(evaluations)].challenge

LEMMA Accounted == AttemptsAccounted <=> NothingLost /\ InOrder /\ InHand
BY DEF AttemptsAccounted, NothingLost, InOrder, InHand, Executed, ValidatedAt

(* Steps that leave the attempts and the evaluations alone. *)
LEMMA AccountsKept ==
  ASSUME EvaluationsInv, UNCHANGED <<attempts, challenge, evaluations>>,
         \/ pc' = "failed"
         \/ pc = "claim" /\ pc' \in {"claim", "ready", "done"}
         \/ pc = "ready" /\ pc' \in {"generate", "done"}
         \/ pc' = pc
         \/ pc \in {"assess", "next"} /\ pc' = "done"
  PROVE  EvaluationsInv'
<1>1. LastAttempt' = LastAttempt /\ ValidatedAt' = ValidatedAt /\ Executed' = Executed
  BY DEF LastAttempt, ValidatedAt, Executed
<1>2. NothingLost /\ InOrder /\ InHand
  BY Accounted DEF EvaluationsInv
<1>3. pc = "claim" \/ pc = "ready" => attempts' = <<>>
  BY DEF EvaluationsInv
<1>4. NothingLost'
  BY <1>1, <1>2 DEF NothingLost
<1>5. InOrder'
  BY <1>2 DEF InOrder
<1>6. InHand'
  BY <1>1, <1>2, <1>3 DEF InHand
<1>7. AttemptsAccounted'
  BY <1>4, <1>5, <1>6 DEF AttemptsAccounted, NothingLost, InOrder, InHand, Executed, ValidatedAt
<1> HIDE DEF Attempt
<1> QED
  BY <1>1, <1>3, <1>7 DEF EvaluationsInv

LEMMA EvaluationsStep == EvaluationsInv /\ [Next]_vars => EvaluationsInv'
<1> SUFFICES ASSUME EvaluationsInv, [Next]_vars PROVE EvaluationsInv'
  OBVIOUS
<1> USE LoopAssumption
<1>0. NothingLost /\ InOrder /\ InHand
  BY Accounted DEF EvaluationsInv
<1>1. CASE Generate
  <2>1. PICK response \in Source \cup {None} :
          /\ attempts' = Append(attempts, Validated(response))
          /\ pc' = IF Validated(response).status = "VALIDATED" THEN "execute" ELSE "next"
    BY <1>1 DEF Generate
  <2> DEFINE a == Validated(response)
  <2>2. a \in Attempt
    BY <2>1, AttemptsTyped DEF EvaluationsInv
  <2>3. pc = "generate" /\ challenge = None
        /\ UNCHANGED <<challenge, evaluations>>
    BY <1>1 DEF Generate, outcome, EvaluationsInv
  <2> HIDE DEF a
  <2>4. /\ attempts' \in Seq(Attempt) /\ attempts' # <<>>
        /\ Len(attempts') = Len(attempts) + 1 /\ Len(attempts) \in Nat
        /\ LastAttempt' = a
        /\ a.status = "VALIDATED" => ValidatedAt' = ValidatedAt \cup {Len(attempts')}
        /\ a.status # "VALIDATED" => ValidatedAt' = ValidatedAt
    <3>1. attempts' = Append(attempts, a)
      BY <2>1 DEF a
    <3> QED
      BY <2>2, <3>1, AppendAttempt DEF EvaluationsInv
  <2>5. Len(attempts') \notin ValidatedAt
    BY <2>4 DEF ValidatedAt
  <2>6. Executed' = Executed /\ Executed = ValidatedAt
    BY <1>0, <2>3 DEF NothingLost, Executed
  <2>7. pc' = IF a.status = "VALIDATED" THEN "execute" ELSE "next"
    BY <2>1 DEF a
  <2>8. NothingLost'
    BY <2>4, <2>5, <2>6, <2>7 DEF NothingLost
  <2>9. InOrder' /\ InHand'
    BY <1>0, <2>3, <2>4, <2>7 DEF InOrder, InHand
  <2>10. AttemptsAccounted'
    BY <2>8, <2>9 DEF AttemptsAccounted, NothingLost, InOrder, InHand, Executed, ValidatedAt
  <2> HIDE DEF Attempt
  <2> QED
    BY <2>3, <2>4, <2>7, <2>10 DEF EvaluationsInv
<1>2. CASE Execute
  <2>1. PICK c \in Outcomes :
          /\ challenge' = c /\ evaluations' = Evaluated(c)
          /\ pc' \in {"done", "assess", "next"}
    BY <1>2 DEF Execute, Finish
  <2>2. /\ pc = "execute" /\ attempts' = attempts /\ attempts # <<>>
        /\ LastAttempt.status = "VALIDATED" /\ Len(attempts) \in Nat
        /\ c \in ChallengeResult /\ c # None
    BY <1>2, <2>1 DEF Execute, generator, EvaluationsInv
  <2>3. /\ evaluations' \in Seq([sequence : Nat, challenge : ChallengeResult])
        /\ Len(evaluations') = Len(evaluations) + 1 /\ Len(evaluations) \in Nat
        /\ evaluations'[Len(evaluations')] = [sequence |-> Len(attempts), challenge |-> c]
        /\ \A i \in 1 .. Len(evaluations) : evaluations'[i] = evaluations[i]
        /\ Executed' = Executed \cup {Len(attempts)}
    BY <2>1, <2>2, AppendEvaluation DEF EvaluationsInv, Evaluated
  <2>4. LastAttempt' = LastAttempt /\ ValidatedAt' = ValidatedAt
        /\ Len(attempts) \in ValidatedAt
    <3>1. Len(attempts) \in 1 .. Len(attempts)
      BY <2>2 DEF EvaluationsInv
    <3> QED
      BY <2>2, <3>1 DEF LastAttempt, ValidatedAt
  <2>5. NothingLost'
    BY <1>0, <2>1, <2>2, <2>3, <2>4 DEF NothingLost
  <2>6. \A i \in 1 .. Len(evaluations) : evaluations[i].sequence < Len(attempts)
    <3>1. \A i \in 1 .. Len(evaluations) :
            evaluations[i].sequence \in ValidatedAt \ {Len(attempts)}
      BY <1>0, <2>2 DEF NothingLost, Executed
    <3> QED
      BY <2>2, <3>1 DEF ValidatedAt
  <2>7. InOrder'
    <3>1. SUFFICES ASSUME NEW i \in 1 .. Len(evaluations)
                   PROVE  evaluations'[i].sequence < evaluations'[i + 1].sequence
      BY <2>3 DEF InOrder
    <3>2. CASE i = Len(evaluations)
      <4>1. evaluations'[i].sequence < Len(attempts)
        BY <2>3, <2>6
      <4>2. evaluations'[i + 1].sequence = Len(attempts)
        BY <2>3, <3>2
      <4> QED
        BY <4>1, <4>2
    <3>3. CASE i # Len(evaluations)
      <4>1. i \in 1 .. Len(evaluations) - 1 /\ i + 1 \in 1 .. Len(evaluations)
        BY <2>3, <3>3
      <4>2. evaluations[i].sequence < evaluations[i + 1].sequence
        BY <1>0, <4>1 DEF InOrder
      <4> QED
        BY <2>3, <4>1, <4>2
    <3> QED
      BY <3>2, <3>3
  <2>8. InHand'
    BY <2>1, <2>2, <2>3, <2>4 DEF InHand
  <2>9. AttemptsAccounted'
    BY <2>5, <2>7, <2>8 DEF AttemptsAccounted, NothingLost, InOrder, InHand, Executed, ValidatedAt
  <2> HIDE DEF Attempt
  <2> QED
    BY <2>1, <2>2, <2>3, <2>9 DEF EvaluationsInv
<1>3. CASE Turn
  <2>1. pc = "next" /\ UNCHANGED <<attempts, evaluations>>
    BY <1>3 DEF Turn, generator
  <2>2. CASE pc' = "done" /\ challenge' = challenge
    BY <2>1, <2>2, AccountsKept
  <2>3. CASE pc' = "generate" /\ challenge' = None
    <3>1. LastAttempt' = LastAttempt /\ ValidatedAt' = ValidatedAt /\ Executed' = Executed
      BY <2>1 DEF LastAttempt, ValidatedAt, Executed
    <3>2. NothingLost' /\ InOrder' /\ InHand'
      BY <1>0, <2>1, <2>3, <3>1 DEF NothingLost, InOrder, InHand
    <3>3. AttemptsAccounted'
      BY <3>2 DEF AttemptsAccounted, NothingLost, InOrder, InHand, Executed, ValidatedAt
    <3> HIDE DEF Attempt
    <3> QED
      BY <2>1, <2>3, <3>3 DEF EvaluationsInv
  <2> QED
    BY <1>3, <2>2, <2>3 DEF Turn, Finish, ClearedChallenge
<1>4. CASE SelectClaim
  BY <1>4, AccountsKept DEF SelectClaim, Finish, generator
<1>5. CASE Prepare
  BY <1>5, AccountsKept DEF Prepare, Finish, generator
<1>6. CASE Assess
  BY <1>6, AccountsKept DEF Assess, Finish, generator
<1>7. CASE Retry
  BY <1>7, AccountsKept DEF Retry, generator, outcome
<1>8. CASE ProviderFails
  BY <1>8, AccountsKept DEF ProviderFails, outcome
<1>9. CASE Fail
  BY <1>9, AccountsKept DEF Fail, generator, outcome
<1>10. CASE UNCHANGED vars
  BY <1>10, AccountsKept DEF vars, generator, outcome
<1> QED
  BY <1>1, <1>2, <1>3, <1>4, <1>5, <1>6, <1>7, <1>8, <1>9, <1>10 DEF Next

(* Every validated candidate is executed once, in order, and the challenge *)
(* in hand is that of the last attempt (EvidenceWorkflow.execute).         *)
THEOREM CandidatesAreAccounted == Spec => []AttemptsAccounted
<1>1. Init => EvaluationsInv
  <2> SUFFICES ASSUME Init PROVE EvaluationsInv
    OBVIOUS
  <2>1. Executed = {} /\ ValidatedAt = {}
    BY DEF Init, Executed, ValidatedAt
  <2>2. NothingLost /\ InOrder /\ InHand
    BY <2>1 DEF Init, NothingLost, InOrder, InHand
  <2> HIDE DEF Attempt
  <2> QED
    BY <2>2, Accounted DEF Init, EvaluationsInv
<1>2. EvaluationsInv => AttemptsAccounted
  BY DEF EvaluationsInv
<1> QED
  BY <1>1, <1>2, EvaluationsStep, PTL DEF Spec

-----------------------------------------------------------------------------
(* Together with the invariants above, the types of the loop. *)
LoopInv ==
  /\ pc \in PcValues /\ SpentInv /\ BudgetInv /\ EvaluationsInv /\ VerdictInv
  /\ report \in Report \cup {None}

LEMMA AbstentionTyped ==
  ASSUME NEW c \in ChallengeResult \cup {None}, NEW status \in MechanicalStatus,
         NEW reason \in {"CLAIM", "ENVIRONMENT", "MECHANICAL", "ALL_REJECTED"}
  PROVE  AbstentionReport(c, status, reason) \in Report
<1>1. (IF c = None THEN "NOT_COMPARABLE" ELSE Classify(c).pattern) \in DifferentialPattern
  <2>1. CASE c = None
    BY <2>1 DEF DifferentialPattern
  <2>2. CASE c # None
    BY <2>2, PatternSound
  <2> QED
    BY <2>1, <2>2
<1> QED
  BY <1>1 DEF AbstentionReport, Report, ClaimOutcome

LEMMA ReportStep ==
  ASSUME VerdictInv, report \in Report \cup {None}, [Next]_vars
  PROVE  report' \in Report \cup {None}
<1> USE LoopAssumption
<1>0. challenge \in ChallengeResult \cup {None}
  BY DEF VerdictInv
<1>1. CASE SelectClaim
  BY <1>1, AbstentionTyped DEF SelectClaim, Finish, MechanicalStatus
<1>2. CASE Prepare
  BY <1>2, AbstentionTyped DEF Prepare, Finish, MechanicalStatus
<1>3. CASE Execute
  <2>1. PICK c \in Outcomes :
          \/ report' = AbstentionReport(c, "ENVIRONMENTAL", "ENVIRONMENT")
          \/ UNCHANGED report
    BY <1>3 DEF Execute, Finish
  <2>2. c \in ChallengeResult \cup {None} /\ "ENVIRONMENTAL" \in MechanicalStatus
    BY <2>1 DEF MechanicalStatus
  <2>3. AbstentionReport(c, "ENVIRONMENTAL", "ENVIRONMENT") \in Report
    BY <2>2, AbstentionTyped
  <2> QED
    BY <2>1, <2>3
<1>4. CASE Assess
  <2>1. PICK decision \in Decisions :
          report' = CompletedReport(decision) \/ UNCHANGED report
    BY <1>4 DEF Assess, Finish
  <2>2. challenge \in ChallengeResult /\ decision \in Decision
    BY <1>4, <2>1 DEF Assess, VerdictInv
  <2>3. CompletedReport(decision) \in Report
    BY <2>2, PatternSound DEF CompletedReport, Report, Decision
  <2> QED
    BY <2>1, <2>3
<1>5. CASE Turn
  <2>1. CASE challenge = None
    BY <1>5, <2>1, AbstentionTyped DEF Turn, Finish, MechanicalStatus
  <2>2. CASE challenge # None
    <3>1. Classify(challenge).mechanical \in MechanicalStatus
      BY <1>0, <2>2, PatternSound
    <3>2. AbstentionReport(challenge, Classify(challenge).mechanical, "MECHANICAL")
            \in Report
      BY <1>0, <3>1, AbstentionTyped
    <3> QED
      BY <1>5, <2>2, <3>2 DEF Turn, Finish
  <2> QED
    BY <2>1, <2>2
<1>6. CASE Generate \/ Retry \/ ProviderFails \/ Fail \/ UNCHANGED vars
  BY <1>6 DEF Generate, Retry, ProviderFails, Fail, vars, outcome
<1> QED
  BY <1>1, <1>2, <1>3, <1>4, <1>5, <1>6 DEF Next

LEMMA LoopInvStep == LoopInv /\ [Next]_vars => LoopInv'
<1> SUFFICES ASSUME LoopInv, [Next]_vars PROVE LoopInv'
  OBVIOUS
<1>1. BudgetInv' /\ EvaluationsInv' /\ VerdictInv'
  BY BudgetStep, EvaluationsStep, VerdictStep DEF LoopInv
<1>2. SpentInv' /\ pc' \in PcValues
  BY <1>1, SpentStep DEF LoopInv
<1>3. report' \in Report \cup {None}
  BY ReportStep DEF LoopInv
<1> QED
  BY <1>1, <1>2, <1>3 DEF LoopInv

(* The types of the loop, with the bound on provider attempts of a run:    *)
(* MaxTries for each of the claim, the candidates and the assessment.      *)
THEOREM LoopTypeCorrect == Spec => []LoopTypeOK
<1>1. Init => LoopInv
  <2> SUFFICES ASSUME Init PROVE LoopInv
    OBVIOUS
  <2>1. BudgetInv
    BY LoopAssumption DEF Init, BudgetInv
  <2>2. EvaluationsInv
    BY DEF Init, EvaluationsInv, AttemptsAccounted
  <2>3. SpentInv
    BY LoopAssumption DEF Init, SpentInv, LogicalCalls
  <2> QED
    BY <2>1, <2>2, <2>3, VerdictInit DEF Init, LoopInv, PcValues
<1>2. LoopInv => LoopTypeOK
  <2> SUFFICES ASSUME LoopInv PROVE LoopTypeOK
    OBVIOUS
  <2> USE LoopAssumption
  <2>1. providerCalls \in 0 .. MaxTries * (MaxModelCalls + 2)
    <3> DEFINE spent(k) == MaxTries * k
    <3>1. Len(attempts) \in Nat /\ (pc # "failed" => Len(attempts) <= MaxModelCalls)
          /\ MaxModelCalls \in Nat
      BY DEF LoopInv, BudgetInv
    <3>2. /\ spent(0) = 0 /\ spent(1) = spent(0) + MaxTries
          /\ spent(MaxModelCalls + 2) \in Nat
          /\ spent(1) <= spent(MaxModelCalls + 2)
      <4>1. spent(0) = 0 /\ spent(0 + 1) = spent(0) + MaxTries
        BY OneMoreCall
      <4>2. spent(1) <= spent(MaxModelCalls + 2) /\ spent(MaxModelCalls + 2) \in Nat
        BY <3>1, MoreCalls
      <4> HIDE DEF spent
      <4> QED
        BY <4>1, <4>2
    <3>3. ASSUME Len(attempts) <= MaxModelCalls
          PROVE  spent(Len(attempts) + 1) + MaxTries <= spent(MaxModelCalls + 2)
      <4>1. spent((Len(attempts) + 1) + 1) = spent(Len(attempts) + 1) + MaxTries
        BY <3>1, OneMoreCall
      <4>2. spent((Len(attempts) + 1) + 1) <= spent(MaxModelCalls + 2)
        BY <3>1, <3>3, MoreCalls
      <4> HIDE DEF spent
      <4> QED
        BY <4>1, <4>2
    <3>4. /\ tries \in 0 .. MaxTries - 1 /\ providerCalls \in Nat
          /\ pc \in {"done", "failed"} => providerCalls <= spent(MaxModelCalls + 2)
          /\ pc = "claim" => providerCalls <= spent(0) + tries
          /\ pc \in {"ready", "generate", "execute", "next", "assess"} =>
               providerCalls <= spent(Len(attempts) + 1) + tries
      BY DEF LoopInv, SpentInv, LogicalCalls, PcValues
    <3>5. pc \in PcValues /\ spent(Len(attempts) + 1) \in Nat
      BY <3>1, MoreCalls DEF LoopInv
    <3> HIDE DEF spent
    <3>6. providerCalls <= spent(MaxModelCalls + 2)
      BY <3>1, <3>2, <3>3, <3>4, <3>5 DEF PcValues
    <3> QED
      BY <3>2, <3>4, <3>6 DEF spent
  <2>2. pc \in PcValues /\ tries \in 0 .. MaxTries - 1
        /\ challenge \in ChallengeResult \cup {None} /\ report \in Report \cup {None}
    BY DEF LoopInv, SpentInv, VerdictInv
  <2>3. /\ attempts \in Seq(Attempt) /\ modelCalls \in Nat /\ repairs \in Nat
        /\ evaluations \in Seq([sequence : Nat, challenge : ChallengeResult])
    BY DEF LoopInv, BudgetInv, EvaluationsInv
  <2> QED
    BY <2>1, <2>2, <2>3 DEF LoopTypeOK, PcValues
<1> QED
  BY <1>1, <1>2, LoopInvStep, PTL DEF Spec
=============================================================================
