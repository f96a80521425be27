-------------------------- MODULE EvaluationProofs --------------------------
(***************************************************************************)
(* Theorems about Evaluation, for every number of processes, manifests,    *)
(* documents and cases, and wherever a process stops.                      *)
(*                                                                         *)
(* RUN creates its journal exclusively and nothing ever empties it, so     *)
(* that one runner at most is past that point in the life of a directory.  *)
(* Only that runner writes the journal, the raw results and the inference  *)
(* counts: EvalInv says what they are at each point it can have reached,   *)
(* and what of it stays true when it has stopped.                          *)
(*                                                                         *)
(* PREPAREs and SCOREs may write one temporary file at a time.  FilesInv   *)
(* says that whatever is in a file and can be read was written by one of   *)
(* them as a whole; WriteInv that with one SCORE at a time the temporary   *)
(* files of the scores are never anything else when they are put in place. *)
(***************************************************************************)
EXTENDS Evaluation, FiniteSetTheorems, TLAPS

(* The points of RUN after the journal was created, and those of them at   *)
(* which the case in hand is recorded.                                     *)
Underway == {"started", "next", "infer", "recorded", "pace", "pacing", "last",
             "completed"}
After    == {"recorded", "last", "completed"}
InRun(r) == phase[r].pc \in Underway
-----------------------------------------------------------------------------
(* A result supports the claim only if it earned it, and has no outcome    *)
(* exactly when the case could not be evaluated.                           *)
Unevaluated == {"CLAIM_INVALID_OUTPUT", "CLAIM_INVOCATION_ERROR",
                "MODEL_INVOCATION_ERROR", "HARNESS_OR_IMPLEMENTATION_ERROR"}
ResultSound(result) ==
  /\ result.outcome = "CLAIM_SUPPORTED_FOR_SCENARIO" =>
       /\ result.pattern = "BASE_ASSERTION_FAILED_HEAD_PASSED"
       /\ result.related /\ result.mechanical = "DISCRIMINATING"
  /\ result.outcome = None <=> result.terminal \in Unevaluated

(* What is known of the case in hand. *)
LiveSound(k) ==
  /\ k.stage = "assess" =>
       /\ k.challenge # None
       /\ Classify(k.challenge).mechanical = "DISCRIMINATING"
       /\ k.pattern = Classify(k.challenge).pattern
  /\ k.stage = "finished" => k.result # None /\ ResultSound(k.result)
  /\ k.stage \in {"generate", "execute"} => k.attempts <= MaxRepairs
  /\ k.stage \in {"open", "claim"} => k.attempts = 0
  /\ k.stage \in {"open", "claim", "generate", "execute"} => k.challenge = None
LiveInv(r) == LiveSound(live[r]) /\ (live[r].stage # "idle" => phase[r].pc = "infer")

(* The raw results x are a prefix of the cases of their document. *)
RawSound(x) ==
  /\ x.ran = x.document
  /\ Len(x.cases) <= Len(CasesOf[x.document])
  /\ \A i \in DOMAIN x.cases : /\ x.cases[i].case = CasesOf[x.document][i]
                               /\ ResultSound(x.cases[i].result)
  /\ x.completed => Len(x.cases) = Len(CasesOf[x.document])

(* The scored results x are those of the raw results on disk. *)
Labelled == {"labelled", "scored", "revealed", "summary"}
Checked  == {"read", "hashed"} \cup Labelled
ScoredSound(x) ==
  /\ x.document = raw.document /\ x.ran = raw.document
  /\ Len(x.cases) = Len(CasesOf[raw.document])
  /\ \A i \in DOMAIN x.cases :
       /\ x.cases[i].case = CasesOf[raw.document][i]
       /\ x.cases[i].classification = ClassifyResult(x.cases[i].label, x.cases[i].result)
       /\ ResultSound(x.cases[i].result)

Finalized == raw # None /\ raw.completed

(* What a process holds at the point it has reached. *)
PlaceInv(p) ==
  LET k == phase[p]
  IN  /\ k.pc = "new" => k = Fresh
      /\ p \in Preparers =>
           /\ k.pc \in {"new", "derived", "built", "public", "written", "metadata"}
           /\ k.pc # "new" => k.document # None
           /\ k.pc \notin {"new", "derived"} => k.manifest # None
      /\ p \notin Preparers => k.pc \in {"new", "reading", "loaded"} \cup Underway \cup Checked
      /\ k.pc \in Underway => p \in Runners
      /\ k.pc \in Checked => p \in Scorers
      /\ p \notin Preparers /\ k.pc # "new" => k.document # None
      /\ p \notin Preparers /\ k.pc \notin {"new", "reading"} =>
           k.metadata # None /\ k.metadata.document = k.document
      /\ k.pc \in {"reading", "loaded", "started"} => k.index = 1
      /\ k.pc \in Underway =>
           /\ k.raw # None /\ RawSound(k.raw)
           /\ k.raw.document = k.document /\ ~k.raw.completed
           /\ Len(k.raw.cases) = IF k.pc \in After THEN k.index ELSE k.index - 1
      /\ k.pc \in {"last", "completed"} => k.index = Len(CasesOf[k.document])
      /\ k.pc \in Checked => Finalized /\ k.raw = raw /\ raw.document = k.document
      /\ k.pc \in Labelled => k.scored # None /\ ScoredSound(k.scored)

(* One run at most, and what it has on disk. *)
OnDisk(r) == CASE phase[r].pc = "started"   -> None
               [] phase[r].pc = "completed" -> [phase[r].raw EXCEPT !.completed = TRUE]
               [] OTHER                     -> phase[r].raw
RunInv ==
  /\ \A q, r \in Runners : InRun(q) /\ InRun(r) => q = r
  /\ \A r \in Runners : InRun(r) => journal # <<>> /\ raw = OnDisk(r)
  /\ raw # None => journal # <<>> /\ RawSound(raw)

(* The cases whose inference has begun. *)
Begun(r) == IF \/ phase[r].pc \in After
               \/ phase[r].pc = "infer" /\ live[r].stage # "idle"
            THEN phase[r].index ELSE phase[r].index - 1
BegunCases(r) == {Declared(r)[j] : j \in 1 .. Begun(r)}
InferredInv ==
  /\ InferredOnce
  /\ journal = <<>> => \A c \in Cases : inferred[c] = 0
  /\ \A r \in Runners : InRun(r) =>
       \A c \in Cases : inferred[c] = IF c \in BegunCases(r) THEN 1 ELSE 0
  /\ Finalized => \A c \in Range(CasesOf[raw.document]) : inferred[c] = 1

JournalInv ==
  /\ JournalAgrees
  /\ \A r \in Runners : InRun(r) =>
       /\ Cardinality(Entries("CASE_COMPLETED")) =
            IF phase[r].pc \in {"last", "completed"}
            THEN phase[r].index ELSE phase[r].index - 1
       /\ phase[r].pc = "infer" =>
            \E i \in Entries("CASE_STARTED") : journal[i].case = InHand(r)
       /\ Entries("RUN_COMPLETED") = {}

(* What may be in a file, or in its temporary file. *)
Fits(target, x) ==
  \/ x \in Spoilt \cup {None}
  \/ /\ target = "public" => x \in Documents
     /\ target = "metadata" => x \in Metadata
     /\ target = "scored" => x \in Scored /\ Finalized /\ ScoredSound(x)
     /\ target = "summary" =>
          /\ x \in [Category -> Nat] /\ Finalized
          /\ Total(x) = Len(CasesOf[raw.document])
FilesInv ==
  /\ DOMAIN temp = Targets /\ \A t \in Targets : Fits(t, temp[t])
  /\ Fits("public", public) /\ Fits("metadata", metadata)
  /\ Fits("scored", scored) /\ Fits("summary", summary)

(* One SCORE at a time, and what then is in its files. *)
OneScore == \A s, t \in Scorers : s = t
WriteInv ==
  /\ \A p \in Processes : handle[p] # "closed" => Writing(p)
  /\ OneScore =>
       /\ ScoresAreWhole
       /\ \A p \in Scorers :
            /\ handle[p] \in {"closed", "temp"}
            /\ handle[p] = "temp" => temp[Target(p)] = Empty
            /\ phase[p].pc \in {"scored", "summary"} => temp[phase[p].pc] \notin Spoilt

EvalInv ==
  /\ EvaluationTypeOK
  /\ \A r \in Runners : LiveInv(r)
  /\ \A p \in Processes : PlaceInv(p)
  /\ RunInv /\ InferredInv /\ JournalInv /\ FilesInv /\ WriteInv
-----------------------------------------------------------------------------
(* One case: InferStep keeps what is known of the case in hand. *)
LEMMA ClassifyTyped ==
  ASSUME NEW c \in ChallengeResult
  PROVE  /\ Classify(c).mechanical \in MechanicalStatus
         /\ Classify(c).pattern \in DifferentialPattern
BY DEF ChallengeResult, TestExecutionStatus, Classify, Assessment, OrdinaryStatus,
       InvalidTestStatus, EnvironmentalStatus, OneSidedException, PatternOf,
       MechanicalStatus, DifferentialPattern

LEMMA FinishedTyped ==
  ASSUME NEW k, k.pattern \in DifferentialPattern \cup {None},
         NEW terminal \in TerminalStatus, NEW outcome \in ClaimOutcome \cup {None},
         NEW mechanical \in MechanicalStatus \cup {None}, NEW related \in BOOLEAN,
         outcome = "CLAIM_SUPPORTED_FOR_SCENARIO" =>
           /\ k.pattern = "BASE_ASSERTION_FAILED_HEAD_PASSED"
           /\ related /\ mechanical = "DISCRIMINATING",
         outcome = None <=> terminal \in Unevaluated
  PROVE  LET f == Finished(k, terminal, outcome, mechanical, related)
         IN  f \in Live /\ f.stage = "finished" /\ LiveSound(f)
<1> DEFINE result == [terminal |-> terminal, outcome |-> outcome,
                      mechanical |-> mechanical, pattern |-> k.pattern,
                      related |-> related]
           f == Finished(k, terminal, outcome, mechanical, related)
<1>1. result \in Result /\ ResultSound(result)
  BY DEF Result, ResultSound
<1>2. result # None
  BY <1>1, LiveCaseAssumption
<1>0. f = [Idle EXCEPT !.stage = "finished", !.result = result]
  BY DEF Finished
<1> HIDE DEF result, f
<1>3. f = [stage |-> "finished", attempts |-> 0, pattern |-> None, challenge |-> None,
           result |-> result]
  BY <1>0 DEF Idle
<1>4. f \in Live
  BY <1>1, <1>3, LiveCaseAssumption DEF Live
<1>5. LiveSound(f) /\ f.stage = "finished"
  BY <1>1, <1>2, <1>3 DEF LiveSound
<1> QED
  BY <1>4, <1>5 DEF f

LEMMA UndecidedTyped ==
  ASSUME NEW k \in Live, k.challenge # None =>
           Classify(k.challenge).mechanical # "DISCRIMINATING"
  PROVE  /\ Undecided(k) \in Live /\ Undecided(k).stage # "idle"
         /\ LiveSound(Undecided(k))
<1>1. CASE k.attempts <= MaxRepairs
  <2>1. Undecided(k) = [k EXCEPT !.stage = "generate", !.challenge = None]
    BY <1>1 DEF Undecided
  <2> QED
    BY <1>1, <2>1 DEF Live, LiveSound
<1>2. CASE ~(k.attempts <= MaxRepairs)
  <2> DEFINE status == IF k.challenge = None THEN "INVALID_TEST"
                       ELSE Classify(k.challenge).mechanical
  <2>1. Undecided(k) = Finished(k, status, "INSUFFICIENT_EVIDENCE", status, FALSE)
    BY <1>2 DEF Undecided
  <2>2. k.challenge \in ChallengeResult \cup {None}
        /\ k.pattern \in DifferentialPattern \cup {None}
    BY DEF Live
  <2>3. status \in MechanicalStatus
    BY <2>2, ClassifyTyped DEF MechanicalStatus
  <2>4. status \in TerminalStatus /\ status \notin Unevaluated
    BY <2>3 DEF TerminalStatus, MechanicalStatus, Unevaluated
  <2>5. "INSUFFICIENT_EVIDENCE" \in ClaimOutcome /\ "INSUFFICIENT_EVIDENCE" # None
    BY LiveCaseAssumption DEF ClaimOutcome
  <2> HIDE DEF status
  <2> QED
    BY <2>1, <2>2, <2>3, <2>4, <2>5, FinishedTyped
<1> QED
  BY <1>1, <1>2

LEMMA InferKeeps ==
  ASSUME NEW r \in Runners, live \in [Runners -> Live], LiveSound(live[r]), InferStep(r)
  PROVE  \E k \in Live : /\ live' = [live EXCEPT ![r] = k]
                         /\ k.stage # "idle" /\ live[r].stage # "idle" /\ LiveSound(k)
<1> DEFINE k0 == live[r]
<1> USE LiveCaseAssumption
<1>0. /\ k0 \in Live /\ k0.pattern \in DifferentialPattern \cup {None}
      /\ LiveSound(k0) /\ live[r] = k0
  BY DEF Live
<1>1. {"INSUFFICIENT_EVIDENCE"} \subseteq ClaimOutcome /\ "INSUFFICIENT_EVIDENCE" # None
      /\ "ENVIRONMENTAL" \in MechanicalStatus
      /\ {"ENVIRONMENT_NOT_READY", "MODEL_INVOCATION_ERROR",
          "HARNESS_OR_IMPLEMENTATION_ERROR"} \cup Abstentions \cup ClaimErrors
           \subseteq TerminalStatus
  BY DEF ClaimOutcome, MechanicalStatus, TerminalStatus
<1> HIDE DEF k0
<1>2. CASE Readiness(r)
  <2>1. CASE Goes(r, [k0 EXCEPT !.stage = "claim"]) /\ k0.stage = "open"
    <3>1. /\ [k0 EXCEPT !.stage = "claim"] \in Live
          /\ LiveSound([k0 EXCEPT !.stage = "claim"])
          /\ [k0 EXCEPT !.stage = "claim"].stage # "idle"
      BY <1>0, <2>1 DEF Live, LiveSound
    <3> QED
      BY <1>0, <2>1, <3>1 DEF Goes
  <2>2. CASE Goes(r, Finished(k0, "ENVIRONMENT_NOT_READY", "INSUFFICIENT_EVIDENCE",
                              "ENVIRONMENTAL", FALSE)) /\ k0.stage = "open"
    BY <1>0, <1>1, <2>2, FinishedTyped DEF Goes, Unevaluated
  <2> QED
    BY <1>0, <1>2, <2>1, <2>2 DEF Readiness, Moves
<1>3. CASE SelectClaim(r)
  <2>1. CASE Goes(r, [k0 EXCEPT !.stage = "generate"]) /\ k0.stage = "claim"
    <3>1. /\ [k0 EXCEPT !.stage = "generate"] \in Live
          /\ LiveSound([k0 EXCEPT !.stage = "generate"])
          /\ [k0 EXCEPT !.stage = "generate"].stage # "idle"
      BY <1>0, <2>1 DEF Live, LiveSound
    <3> QED
      BY <1>0, <2>1, <3>1 DEF Goes
  <2>2. ASSUME NEW terminal \in Abstentions, k0.stage = "claim",
               Goes(r, Finished(k0, terminal, "INSUFFICIENT_EVIDENCE", None, FALSE))
        PROVE  \E k \in Live : /\ live' = [live EXCEPT ![r] = k] /\ k.stage # "idle"
                               /\ LiveSound(k)
    <3>1. terminal \notin Unevaluated /\ terminal \in TerminalStatus
      BY <1>1, <2>2 DEF Abstentions, Unevaluated
    <3> QED
      BY <1>0, <1>1, <2>2, <3>1, FinishedTyped DEF Goes
  <2>3. ASSUME NEW terminal \in ClaimErrors, k0.stage = "claim",
               Goes(r, Finished(k0, terminal, None, None, FALSE))
        PROVE  \E k \in Live : /\ live' = [live EXCEPT ![r] = k] /\ k.stage # "idle"
                               /\ LiveSound(k)
    <3>1. terminal \in Unevaluated /\ terminal \in TerminalStatus
          /\ None # "CLAIM_SUPPORTED_FOR_SCENARIO"
      BY <1>1, <2>3 DEF ClaimErrors, Unevaluated, ClaimOutcome
    <3> QED
      BY <1>0, <2>3, <3>1, FinishedTyped DEF Goes
  <2> QED
    BY <1>0, <1>3, <2>1, <2>2, <2>3 DEF SelectClaim, Moves
<1>4. CASE ModelFails(r)
  <2>1. "MODEL_INVOCATION_ERROR" \in Unevaluated /\ None # "CLAIM_SUPPORTED_FOR_SCENARIO"
    BY DEF Unevaluated, ClaimOutcome
  <2>2. Goes(r, Finished(k0, "MODEL_INVOCATION_ERROR", None, None, FALSE))
        /\ k0.stage # "idle"
    BY <1>0, <1>4 DEF ModelFails
  <2> QED
    BY <1>0, <1>1, <2>1, <2>2, FinishedTyped DEF Goes
<1>5. CASE CaseRaises(r)
  <2>1. "HARNESS_OR_IMPLEMENTATION_ERROR" \in Unevaluated
        /\ None # "CLAIM_SUPPORTED_FOR_SCENARIO" /\ Idle.pattern = None
    BY DEF Unevaluated, ClaimOutcome, Idle
  <2>2. Goes(r, Finished(Idle, "HARNESS_OR_IMPLEMENTATION_ERROR", None, None, FALSE))
        /\ k0.stage # "idle"
    BY <1>0, <1>5 DEF CaseRaises
  <2> QED
    BY <1>0, <1>1, <2>1, <2>2, FinishedTyped DEF Goes
<1>6. CASE Generate(r)
  <2>1. k0.stage = "generate" /\ k0.attempts <= MaxRepairs
    BY <1>0, <1>6 DEF Generate, Moves, LiveSound
  <2>2. CASE Goes(r, [k0 EXCEPT !.stage = "execute"])
    <3>1. /\ [k0 EXCEPT !.stage = "execute"] \in Live
          /\ LiveSound([k0 EXCEPT !.stage = "execute"])
          /\ [k0 EXCEPT !.stage = "execute"].stage # "idle"
      BY <1>0, <2>1 DEF Live, LiveSound
    <3> QED
      BY <1>0, <2>1, <2>2, <3>1 DEF Goes
  <2>3. CASE Goes(r, Undecided([k0 EXCEPT !.attempts = @ + 1]))
    <3>1. PICK k : k = [k0 EXCEPT !.attempts = @ + 1]
      OBVIOUS
    <3>2. k \in Live /\ k.challenge = None
      BY <1>0, <2>1, <3>1 DEF Live, LiveSound
    <3> QED
      BY <1>0, <2>1, <2>3, <3>1, <3>2, UndecidedTyped DEF Goes
  <2> QED
    BY <1>0, <1>6, <2>2, <2>3 DEF Generate
<1>7. CASE Execute(r)
  <2>1. k0.stage = "execute" /\ k0.attempts <= MaxRepairs
    BY <1>0, <1>7 DEF Execute, Moves, LiveSound
  <2>2. PICK c \in Outcomes :
          LET k == [k0 EXCEPT !.attempts = @ + 1, !.challenge = c,
                              !.pattern = Classify(c).pattern]
          IN  Goes(r, IF Classify(c).mechanical = "DISCRIMINATING"
                      THEN [k EXCEPT !.stage = "assess"] ELSE Undecided(k))
    BY <1>0, <1>7 DEF Execute
  <2>3. c \in ChallengeResult /\ c # None /\ Classify(c).pattern \in DifferentialPattern
    BY ClassifyTyped
  <2> DEFINE k == [k0 EXCEPT !.attempts = @ + 1, !.challenge = c,
                             !.pattern = Classify(c).pattern]
  <2>4. k \in Live /\ k.challenge = c /\ k.pattern = Classify(c).pattern
    <3> DEFINE pattern == Classify(c).pattern
    <3>1. pattern \in DifferentialPattern
      BY <2>3
    <3> HIDE DEF pattern
    <3>2. k = [k0 EXCEPT !.attempts = @ + 1, !.challenge = c, !.pattern = pattern]
      BY DEF pattern
    <3> HIDE DEF k
    <3>4. /\ k0.attempts + 1 \in 0 .. MaxRepairs + 1
          /\ c \in ChallengeResult \cup {None} /\ pattern \in DifferentialPattern \cup {None}
      BY <1>0, <2>1, <2>3, <3>1 DEF Live
    <3> DEFINE attempts == k0.attempts + 1
    <3>5. k = [k0 EXCEPT !.attempts = attempts, !.challenge = c, !.pattern = pattern]
          /\ attempts \in 0 .. MaxRepairs + 1
      BY <3>2, <3>4
    <3> HIDE DEF attempts
    <3>3. k \in Live /\ k.challenge = c /\ k.pattern = pattern
      BY <1>0, <3>4, <3>5 DEF Live
    <3> QED
      BY <3>3 DEF pattern
  <2>5. Goes(r, IF Classify(c).mechanical = "DISCRIMINATING"
                THEN [k EXCEPT !.stage = "assess"] ELSE Undecided(k))
    BY <2>2
  <2> HIDE DEF k
  <2>6. CASE Classify(c).mechanical = "DISCRIMINATING"
    <3> DEFINE j == [k EXCEPT !.stage = "assess"]
    <3>1. j \in Live /\ j.stage = "assess" /\ j.challenge = c
          /\ j.pattern = Classify(c).pattern
      BY <2>4 DEF Live
    <3> HIDE DEF j
    <3>2. LiveSound(j)
      BY <2>3, <2>6, <3>1 DEF LiveSound
    <3>3. Goes(r, j)
      BY <2>5, <2>6 DEF j
    <3> QED
      BY <1>0, <2>1, <3>1, <3>2, <3>3 DEF Goes
  <2>7. CASE Classify(c).mechanical # "DISCRIMINATING"
    <3>1. Undecided(k) \in Live /\ Undecided(k).stage # "idle" /\ LiveSound(Undecided(k))
      BY <2>4, <2>7, UndecidedTyped
    <3> QED
      BY <1>0, <2>1, <2>5, <2>7, <3>1 DEF Goes
  <2> QED
    BY <2>6, <2>7
<1>8. CASE Assess(r)
  <2>1. PICK d \in Decisions :
          /\ DecisionAllowed(k0.pattern, d)
          /\ Goes(r, Finished(k0, d.outcome, d.outcome,
                              Classify(k0.challenge).mechanical, d.related))
    BY <1>0, <1>8 DEF Assess
  <2>2. k0.stage = "assess" /\ Classify(k0.challenge).mechanical = "DISCRIMINATING"
    BY <1>0, <1>8 DEF Assess, Moves, LiveSound
  <2>3. /\ d.outcome \in ClaimOutcome /\ d.related \in BOOLEAN
        /\ d.outcome \in TerminalStatus /\ d.outcome # None
        /\ d.outcome \notin Unevaluated
    BY <2>1 DEF Decision, TerminalStatus, ClaimOutcome, Unevaluated
  <2>4. d.outcome = "CLAIM_SUPPORTED_FOR_SCENARIO" =>
          k0.pattern = "BASE_ASSERTION_FAILED_HEAD_PASSED" /\ d.related
    BY <2>1 DEF DecisionAllowed
  <2>5. "DISCRIMINATING" \in MechanicalStatus
    BY DEF MechanicalStatus
  <2> DEFINE f == Finished(k0, d.outcome, d.outcome, "DISCRIMINATING", d.related)
  <2>6. f \in Live /\ f.stage = "finished" /\ LiveSound(f)
    BY <1>0, <2>3, <2>4, <2>5, FinishedTyped
  <2>7. Goes(r, f)
    BY <2>1, <2>2
  <2> HIDE DEF f
  <2> QED
    BY <1>0, <2>2, <2>6, <2>7 DEF Goes
<1> QED
  BY <1>2, <1>3, <1>4, <1>5, <1>6, <1>7, <1>8 DEF InferStep
-----------------------------------------------------------------------------
(* Documents and the frames of a step. *)
LEMMA CasesTyped ==
  ASSUME NEW d \in Documents
  PROVE  /\ CasesOf[d] \in Seq(Cases) /\ Len(CasesOf[d]) \in Nat \ {0}
         /\ DOMAIN CasesOf[d] = 1 .. Len(CasesOf[d])
         /\ \A i \in 1 .. Len(CasesOf[d]) : CasesOf[d][i] \in Cases
         /\ \A i, j \in 1 .. Len(CasesOf[d]) : CasesOf[d][i] = CasesOf[d][j] => i = j
<1>1. CasesOf[d] \in Seq(Range(CasesOf[d])) /\ CasesOf[d] # <<>>
      /\ IsInjective(CasesOf[d])
  BY EvaluationAssumption
<1>2. Range(CasesOf[d]) \subseteq Cases
  BY DEF Cases
<1>3. /\ Len(CasesOf[d]) \in Nat \ {0}
      /\ DOMAIN CasesOf[d] = 1 .. Len(CasesOf[d])
      /\ \A i \in 1 .. Len(CasesOf[d]) : CasesOf[d][i] \in Range(CasesOf[d])
  BY <1>1
<1>4. CasesOf[d] \in Seq(Cases)
  BY <1>1, <1>2
<1> QED
  BY <1>1, <1>2, <1>3, <1>4 DEF IsInjective

LEMMA Becoming ==
  ASSUME phase \in [Processes -> Place], NEW p \in Processes, NEW s \in Place,
         Becomes(p, s)
  PROVE  /\ phase' \in [Processes -> Place] /\ phase'[p] = s
         /\ \A q \in Processes \ {p} : phase'[q] = phase[q]
BY DEF Becomes

LEMMA FreshTyped == Fresh \in Place /\ Fresh.pc = "new" /\ Fresh.document = None
BY DEF Fresh, Place

(* What a process holds does not depend on the steps of the others. *)
LEMMA PlaceKept ==
  ASSUME NEW q \in Processes, PlaceInv(q), phase'[q] = phase[q], Finalized => raw' = raw
  PROVE  PlaceInv(q)'
<1>1. CASE phase[q].pc \in Checked
  <2>1. Finalized /\ raw' = raw
    BY <1>1 DEF PlaceInv
  <2> QED
    BY <2>1 DEF PlaceInv, Finalized, ScoredSound
<1>2. CASE phase[q].pc \notin Checked
  BY <1>2 DEF PlaceInv, Checked
<1> QED
  BY <1>1, <1>2

LEMMA JournalGrows ==
  ASSUME journal \in Seq(Event), NEW e \in Event, journal' = Append(journal, e)
  PROVE  /\ journal' \in Seq(Event) /\ journal' # <<>> /\ Len(journal) \in Nat
         /\ \A kind : Entries(kind)' =
              Entries(kind) \cup (IF e.event = kind THEN {Len(journal) + 1} ELSE {})
         /\ \A i \in DOMAIN journal : journal'[i] = journal[i] /\ UpTo(i)' = UpTo(i)
         /\ \A i : i = Len(journal) + 1 =>
              journal'[i] = e /\ UpTo(i)' = Entries(e.event)'
<1>1. /\ journal' \in Seq(Event) /\ journal' # <<>>
      /\ Len(journal) \in Nat /\ Len(journal') = Len(journal) + 1
      /\ DOMAIN journal = 1 .. Len(journal) /\ DOMAIN journal' = 1 .. Len(journal) + 1
      /\ \A i \in 1 .. Len(journal) : journal'[i] = journal[i]
      /\ journal'[Len(journal) + 1] = e
  OBVIOUS
<1>2. ASSUME NEW kind
      PROVE  Entries(kind)' =
               Entries(kind) \cup (IF e.event = kind THEN {Len(journal) + 1} ELSE {})
  BY <1>1 DEF Entries
<1>3. ASSUME NEW i \in DOMAIN journal
      PROVE  journal'[i] = journal[i] /\ UpTo(i)' = UpTo(i)
  <2>1. journal'[i] = journal[i] /\ i < Len(journal) + 1
    BY <1>1
  <2>2. PICK kind : kind = journal[i].event
    OBVIOUS
  <2>3. Entries(kind)' = Entries(kind) \/ Entries(kind)' = Entries(kind) \cup {Len(journal) + 1}
    BY <1>2
  <2>4. UpTo(i) = {k \in Entries(kind) : k <= i} /\ UpTo(i)' = {k \in Entries(kind)' : k <= i}
    BY <2>1, <2>2 DEF UpTo
  <2> QED
    BY <1>1, <2>1, <2>3, <2>4
<1>4. ASSUME NEW i, i = Len(journal) + 1
      PROVE  journal'[i] = e /\ UpTo(i)' = Entries(e.event)'
  <2>1. journal'[i] = e
    BY <1>1, <1>4
  <2>2. UpTo(i)' = {k \in Entries(e.event)' : k <= i}
    BY <2>1 DEF UpTo
  <2>3. \A k \in Entries(e.event)' : k \in 1 .. i
    BY <1>1, <1>4 DEF Entries
  <2>4. \A k \in Entries(e.event)' : k <= i
    BY <1>1, <1>4, <2>3
  <2> QED
    BY <2>1, <2>2, <2>4
<1> QED
  BY <1>1, <1>2, <1>3, <1>4

LEMMA EntriesFinite ==
  ASSUME journal \in Seq(Event), NEW kind
  PROVE  IsFiniteSet(Entries(kind)) /\ Cardinality(Entries(kind)) \in Nat
         /\ Entries(kind) \subseteq 1 .. Len(journal)
<1>1. Entries(kind) \subseteq 1 .. Len(journal) /\ Len(journal) \in Nat
  BY DEF Entries
<1>2. IsFiniteSet(1 .. Len(journal))
  BY <1>1, FS_Interval
<1> QED
  BY <1>1, <1>2, FS_Subset, FS_CardinalityType

(* The rank of an entry lies between one and the number of its kind. *)
LEMMA Rank ==
  ASSUME journal \in Seq(Event), NEW kind, NEW i \in Entries(kind)
  PROVE  Cardinality(UpTo(i)) \in 1 .. Cardinality(Entries(kind))
<1>1. UpTo(i) \subseteq Entries(kind) /\ i \in UpTo(i)
  BY EntriesFinite DEF UpTo, Entries
<1>2. /\ IsFiniteSet(UpTo(i)) /\ Cardinality(UpTo(i)) <= Cardinality(Entries(kind))
      /\ Cardinality(UpTo(i)) \in Nat
  BY <1>1, EntriesFinite, FS_Subset, FS_CardinalityType
<1>3. Cardinality(UpTo(i)) # 0
  BY <1>1, <1>2, FS_EmptySet
<1> QED
  BY <1>2, <1>3, EntriesFinite

(* What the typing says of one process. *)
LEMMA PlaceTyped ==
  ASSUME EvalInv, NEW p \in Processes
  PROVE  /\ phase[p] \in Place /\ PlaceInv(p)
         /\ phase[p].document # None =>
              /\ phase[p].document \in Documents
              /\ phase[p].index \in DOMAIN CasesOf[phase[p].document]
  <1>1. phase[p] \in Place /\ PlaceInv(p)
    BY DEF EvalInv, EvaluationTypeOK
  <1> QED
    BY <1>1 DEF Place, EvalInv, EvaluationTypeOK

(* Where a process can be, by its phase. *)
LEMMA PlaceRange ==
  ASSUME EvalInv, NEW p \in Processes
  PROVE  /\ p \in Preparers =>
              /\ p \notin Runners \cup Scorers
              /\ phase[p].pc \in {"new", "derived", "built", "public", "written",
                                  "metadata"}
         /\ p \notin Preparers =>
              phase[p].pc \in {"new", "reading", "loaded"} \cup Underway \cup Checked
         /\ phase[p].pc \in Underway => p \in Runners
         /\ phase[p].pc \in Checked => p \in Scorers
<1>1. PlaceInv(p)
  BY DEF EvalInv
<1> QED
  BY <1>1, EvaluationAssumption DEF PlaceInv

(* Who is in _atomic_write, and with which target. *)
LEMMA WriterFacts ==
  ASSUME EvalInv, NEW p \in Processes, Writing(p) \/ phase[p].pc \in Targets
  PROVE  /\ phase[p] \in Place /\ PlaceInv(p) /\ phase[p].pc \notin Underway
         /\ p \in Runners => live[p].stage = "idle"
         /\ phase[p].document # None /\ phase[p].index \in DOMAIN CasesOf[phase[p].document]
         /\ \/ /\ p \in Preparers /\ p \notin Scorers
               /\ Writing(p) => Target(p) \in {"public", "metadata"}
               /\ ~Writing(p) => phase[p].pc \in {"public", "metadata"}
            \/ /\ p \in Scorers /\ p \notin Preparers
               /\ Writing(p) => Target(p) \in {"scored", "summary"}
               /\ ~Writing(p) => phase[p].pc \in {"scored", "summary"}
<1>1. /\ phase[p].pc \in {"built", "written", "labelled", "revealed"} \cup Targets
      /\ Writing(p) <=> phase[p].pc \in {"built", "written", "labelled", "revealed"}
  BY DEF Writing, WrittenAt, Targets
<1>2. phase[p].pc \notin Underway /\ (p \in Runners => live[p].stage = "idle")
  BY <1>1 DEF Targets, Underway, EvalInv, LiveInv
<1>3. phase[p] \in Place /\ PlaceInv(p) /\ phase[p].pc # "new"
  BY <1>1, PlaceTyped DEF Targets
<1>4. phase[p].document # None
  BY <1>2, <1>3, <1>1 DEF PlaceInv
<1>5. CASE p \in Preparers
  <2>1. phase[p].pc \in {"built", "written", "public", "metadata"} /\ p \notin Scorers
    BY <1>1, <1>5, PlaceRange DEF Targets
  <2> QED
    BY <1>1, <1>2, <1>3, <1>4, <1>5, <2>1, PlaceTyped DEF Target, WrittenAt
<1>6. CASE p \notin Preparers
  <2>1. phase[p].pc \in {"labelled", "revealed", "scored", "summary"} /\ p \in Scorers
    BY <1>1, <1>2, <1>6, PlaceRange DEF Targets, Checked, Labelled
  <2> QED
    BY <1>1, <1>2, <1>3, <1>4, <1>6, <2>1, PlaceTyped DEF Target, WrittenAt
<1> QED
  BY <1>5, <1>6
-----------------------------------------------------------------------------
(* Files. *)
LEMMA FilesTyped ==
  ASSUME FilesInv
  PROVE  /\ public \in Bytes(Documents) /\ metadata \in Bytes(Metadata)
         /\ scored \in Bytes(Scored) /\ summary \in Bytes([Category -> Nat])
         /\ DOMAIN temp = Targets
         /\ temp.public \in Bytes(Documents) /\ temp.metadata \in Bytes(Metadata)
         /\ temp.scored \in Bytes(Scored) /\ temp.summary \in Bytes([Category -> Nat])
<1>1. {"public", "metadata", "scored", "summary"} \subseteq Targets
  BY DEF Targets
<1>2. /\ Fits("public", temp.public) /\ Fits("metadata", temp.metadata)
      /\ Fits("scored", temp.scored) /\ Fits("summary", temp.summary)
  BY <1>1 DEF FilesInv
<1> QED
  BY <1>2 DEF FilesInv, Fits, Bytes

(* A step changes files only to what fits them. *)
LEMMA FilesStep ==
  ASSUME FilesInv, Finalized => raw' = raw, DOMAIN temp' = Targets,
         \A t \in Targets : temp'[t] = temp[t] \/ Fits(t, temp'[t]),
         public' = public \/ Fits("public", public'),
         metadata' = metadata \/ Fits("metadata", metadata'),
         scored' = scored \/ Fits("scored", scored'),
         summary' = summary \/ Fits("summary", summary')
  PROVE  FilesInv'
<1>1. \A t, x : Fits(t, x) =>
        \/ x \in Spoilt \cup {None}
        \/ /\ t = "public" => x \in Documents
           /\ t = "metadata" => x \in Metadata
           /\ t = "scored" => x \in Scored /\ Finalized' /\ ScoredSound(x)'
           /\ t = "summary" =>
                /\ x \in [Category -> Nat] /\ Finalized'
                /\ Total(x) = Len(CasesOf[raw'.document])
  BY DEF Fits, Finalized, ScoredSound
<1>2. \A t \in Targets : Fits(t, temp'[t])
  BY DEF FilesInv
<1>3. /\ Fits("public", public') /\ Fits("metadata", metadata')
      /\ Fits("scored", scored') /\ Fits("summary", summary')
  BY DEF FilesInv
<1>4. \A t \in Targets : Fits(t, temp[t])'
  <2>1. /\ Fits("public", temp'["public"]) /\ Fits("metadata", temp'["metadata"])
        /\ Fits("scored", temp'["scored"]) /\ Fits("summary", temp'["summary"])
    BY <1>2 DEF Targets
  <2>2. Fits("public", temp["public"])' /\ Fits("metadata", temp["metadata"])'
    BY <1>1, <2>1 DEF Fits
  <2>3. Fits("scored", temp["scored"])'
    <3>1. \/ temp'["scored"] \in Spoilt \cup {None}
          \/ temp'["scored"] \in Scored /\ Finalized /\ ScoredSound(temp'["scored"])
      BY <2>1 DEF Fits
    <3>2. Finalized => Finalized' /\ raw' = raw
      BY DEF Finalized
    <3> DEFINE x == temp["scored"]
    <3>3. \/ x' \in Spoilt \cup {None}
          \/ x' \in Scored /\ Finalized' /\ ScoredSound(x)'
      BY <3>1, <3>2 DEF ScoredSound
    <3> HIDE DEF x
    <3>4. Fits("scored", x)'
      BY <3>3 DEF Fits
    <3> QED
      BY <3>4 DEF x
  <2>4. Fits("summary", temp["summary"])'
    BY <1>1, <2>1 DEF Fits, Total
  <2>5. \A t \in Targets : t = "public" \/ t = "metadata" \/ t = "scored" \/ t = "summary"
    BY DEF Targets
  <2> QED
    BY <2>2, <2>3, <2>4, <2>5
<1>5. Fits("public", public)' /\ Fits("metadata", metadata)'
  BY <1>1, <1>3 DEF Fits
<1>6. Fits("scored", scored)'
  BY <1>1, <1>3 DEF Fits, ScoredSound
<1>7. Fits("summary", summary)'
  BY <1>1, <1>3 DEF Fits, Total
<1> QED
  BY <1>4, <1>5, <1>6, <1>7 DEF FilesInv

LEMMA PutFits ==
  ASSUME NEW target \in Targets, NEW x, Fits(target, x), Put(target, x)
  PROVE  /\ public' = public \/ Fits("public", public')
         /\ metadata' = metadata \/ Fits("metadata", metadata')
         /\ scored' = scored \/ Fits("scored", scored')
         /\ summary' = summary \/ Fits("summary", summary')
BY DEF Put
-----------------------------------------------------------------------------
(* A step of a process that is not in a run, or that ends there; and one   *)
(* that leaves the files alone as well.                                    *)
LEMMA OutsideStep ==
  ASSUME EvalInv, NEW p \in Processes, NEW s \in Place, Becomes(p, s),
         s.pc \notin Underway, PlaceInv(p)',
         s.document # None => s.index \in DOMAIN CasesOf[s.document],
         UNCHANGED <<sealed, results, inferred>>, stops' \in 0 .. MaxStops,
         FilesInv', WriteInv', handle' \in [Processes -> Handle],
         live' \in [Runners -> Live], \A r \in Runners \ {p} : live'[r] = live[r],
         p \in Runners => live'[p].stage = "idle"
  PROVE  EvalInv'
<1>1. /\ phase' \in [Processes -> Place] /\ phase'[p] = s
      /\ \A q \in Processes \ {p} : phase'[q] = phase[q]
  BY Becoming DEF EvalInv, EvaluationTypeOK
<1>2. EvaluationTypeOK'
  <2>1. (FilesInv => /\ public \in Bytes(Documents) /\ metadata \in Bytes(Metadata)
         /\ scored \in Bytes(Scored) /\ summary \in Bytes([Category -> Nat])
         /\ DOMAIN temp = Targets
         /\ temp.public \in Bytes(Documents) /\ temp.metadata \in Bytes(Metadata)
         /\ temp.scored \in Bytes(Scored) /\ temp.summary \in Bytes([Category -> Nat]))'
    BY FilesTyped, PTL
  <2> QED
    BY <1>1, <2>1 DEF EvalInv, EvaluationTypeOK, sealed, results
<1>3. ASSUME NEW r \in Runners
      PROVE  LiveInv(r)'
  BY <1>1, <1>3 DEF EvalInv, LiveInv, LiveSound, Processes
<1>4. raw' = raw /\ journal' = journal
      /\ inferred' = inferred
  BY DEF results
<1>5. \A q \in Processes : PlaceInv(q)'
  BY <1>1, <1>4, PlaceKept DEF EvalInv
<1>6. \A r \in Runners : InRun(r)' =>
        /\ r # p /\ InRun(r) /\ phase'[r] = phase[r] /\ live'[r] = live[r]
  BY <1>1 DEF InRun, Processes
<1>7. RunInv'
  BY <1>4, <1>6 DEF EvalInv, RunInv, RawSound, OnDisk
<1>8. \A r \in Runners : InRun(r)' => BegunCases(r)' = BegunCases(r)
  BY <1>6 DEF BegunCases, Begun, Declared
<1>9. InferredInv'
  BY <1>4, <1>6, <1>8 DEF EvalInv, InferredInv, InferredOnce, Finalized
<1>10. JournalInv'
  BY <1>4, <1>6
     DEF EvalInv, JournalInv, JournalAgrees, Entries, UpTo, InHand, Declared
<1> QED
  BY <1>2, <1>3, <1>5, <1>7, <1>9, <1>10 DEF EvalInv

LEMMA QuietStep ==
  ASSUME EvalInv, NEW p \in Processes, NEW s \in Place, Becomes(p, s),
         s.pc \notin Underway \cup {"scored", "summary"}, PlaceInv(p)',
         s.document # None => s.index \in DOMAIN CasesOf[s.document],
         UNCHANGED <<sealed, gate, temp, results, scores, inferred>>,
         stops' \in 0 .. MaxStops,
         \/ handle' = [handle EXCEPT ![p] = "closed"]
         \/ ~Writing(p) /\ handle' = handle,
         live' \in [Runners -> Live], \A r \in Runners \ {p} : live'[r] = live[r],
         p \in Runners => live'[p].stage = "idle"
  PROVE  EvalInv'
<1>1. /\ UNCHANGED <<public, metadata, scored, summary, temp, raw>>
      /\ FilesInv /\ WriteInv /\ handle \in [Processes -> Handle]
  BY DEF gate, scores, results, EvalInv, EvaluationTypeOK
<1>2. FilesInv'
  <2>1. DOMAIN temp' = Targets
    BY <1>1 DEF FilesInv
  <2> QED
    BY <1>1, <2>1, FilesStep
<1>3. /\ handle' \in [Processes -> Handle] /\ handle'[p] = "closed"
      /\ \A q \in Processes \ {p} : handle'[q] = handle[q]
  BY <1>1 DEF WriteInv, Handle
<1>4. /\ phase'[p] = s /\ \A q \in Processes \ {p} : phase'[q] = phase[q]
  BY Becoming DEF EvalInv, EvaluationTypeOK
<1>5. WriteInv'
  <2>1. ASSUME NEW q \in Processes, handle'[q] # "closed"
        PROVE  Writing(q)'
    BY <1>1, <1>3, <1>4, <2>1 DEF WriteInv, Writing
  <2>2. ASSUME OneScore, NEW q \in Scorers
        PROVE  /\ handle'[q] \in {"closed", "temp"}
               /\ handle'[q] = "temp" => temp'[Target(q)'] = Empty
               /\ phase'[q].pc \in {"scored", "summary"} => temp'[phase'[q].pc] \notin Spoilt
    BY <1>1, <1>3, <1>4, <2>2 DEF WriteInv, Target, Processes
  <2>3. OneScore => ScoresAreWhole'
    BY <1>1 DEF WriteInv, ScoresAreWhole
  <2> QED
    BY <2>1, <2>2, <2>3 DEF WriteInv, OneScore
<1> QED
  BY <1>2, <1>3, <1>5, OutsideStep

(* A step of the one runner in a run, given what it makes of the disk. *)
LEMMA RunStep ==
  ASSUME EvalInv, NEW r \in Runners, NEW s \in Place, Becomes(r, s),
         s.document \in Documents => s.index \in DOMAIN CasesOf[s.document],
         InRun(r) \/ phase[r].pc = "loaded", InRun(r)' \/ s.pc = "new",
         \A q \in Runners \ {r} : ~InRun(q),
         UNCHANGED <<sealed, stops, gate, writes, scores>>,
         journal' \in Seq(Event), raw' \in Raw \cup {None}, inferred' \in [Cases -> Nat],
         live' \in [Runners -> Live], \A q \in Runners \ {r} : live'[q] = live[q],
         LiveInv(r)', PlaceInv(r)', Finalized => raw' = raw, journal' # <<>>,
         InRun(r)' => raw' = OnDisk(r)', raw' # None => RawSound(raw'),
         InferredOnce',
         InRun(r)' => \A c \in Cases : inferred'[c] = IF c \in BegunCases(r)' THEN 1 ELSE 0,
         Finalized' => \A c \in Range(CasesOf[raw'.document]) : inferred'[c] = 1,
         JournalAgrees',
         InRun(r)' =>
           /\ Cardinality(Entries("CASE_COMPLETED"))' =
                IF phase'[r].pc \in {"last", "completed"}
                THEN phase'[r].index ELSE phase'[r].index - 1
           /\ phase'[r].pc = "infer" =>
                \E i \in Entries("CASE_STARTED")' : journal'[i].case = InHand(r)'
           /\ Entries("RUN_COMPLETED")' = {}
  PROVE  EvalInv'
<1>1. /\ phase' \in [Processes -> Place] /\ phase'[r] = s /\ r \in Processes
      /\ \A q \in Processes \ {r} : phase'[q] = phase[q]
  BY Becoming DEF EvalInv, EvaluationTypeOK, Processes
<1>2. s.document \in Documents \cup {None}
  BY DEF Place
<1>3. EvaluationTypeOK'
  BY <1>1, <1>2 DEF EvalInv, EvaluationTypeOK, sealed, gate, scores, writes
<1>4. ASSUME NEW q \in Runners
      PROVE  LiveInv(q)'
  BY <1>1, <1>4 DEF EvalInv, LiveInv, LiveSound, Processes
<1>5. \A q \in Processes : PlaceInv(q)'
  BY <1>1, PlaceKept DEF EvalInv
<1>6. \A q \in Runners : InRun(q)' => q = r
  BY <1>1 DEF InRun, Processes
<1>7. RunInv'
  BY <1>6 DEF RunInv
<1>8. InferredInv'
  BY <1>6 DEF InferredInv
<1>9. JournalInv'
  BY <1>6 DEF JournalInv
<1>10. FilesInv'
  <2>1. FilesInv /\ UNCHANGED <<public, metadata, scored, summary, temp>>
    BY DEF EvalInv, gate, scores, writes
  <2>2. DOMAIN temp' = Targets
    BY <2>1 DEF FilesInv
  <2> QED
    BY <2>1, <2>2, FilesStep
<1>11. WriteInv'
  <2>1. ~Writing(r) /\ phase'[r].pc \notin {"scored", "summary"}
    BY <1>1 DEF Writing, WrittenAt, InRun, Underway
  <2>2. /\ WriteInv /\ handle' = handle /\ temp' = temp
        /\ scored' = scored /\ summary' = summary
    BY DEF EvalInv, writes, scores
  <2>3. handle[r] = "closed"
    BY <1>1, <2>1, <2>2 DEF WriteInv
  <2>4. \A q \in Processes : handle'[q] # "closed" => Writing(q)'
    BY <1>1, <2>2, <2>3 DEF WriteInv, Writing
  <2>5. ASSUME OneScore, NEW q \in Scorers
        PROVE  /\ handle'[q] \in {"closed", "temp"}
               /\ handle'[q] = "temp" => temp'[Target(q)'] = Empty
               /\ phase'[q].pc \in {"scored", "summary"} => temp'[phase'[q].pc] \notin Spoilt
    <3>1. CASE q = r
      BY <2>1, <2>2, <2>3, <3>1
    <3>2. CASE q # r
      BY <1>1, <2>2, <2>5, <3>2 DEF WriteInv, Target, Processes
    <3> QED
      BY <3>1, <3>2
  <2> QED
    BY <2>2, <2>4, <2>5 DEF WriteInv, OneScore, ScoresAreWhole
<1> QED
  BY <1>3, <1>4, <1>5, <1>7, <1>8, <1>9, <1>10, <1>11 DEF EvalInv
-----------------------------------------------------------------------------
LEMMA EditKeeps == ASSUME EvalInv, EditManifest \/ UNCHANGED vars PROVE EvalInv'
<1>1. /\ UNCHANGED <<stops, gate, writes, results, scores, phase, live, inferred>>
      /\ manifest' \in Manifests /\ edits' \in 0 .. MaxEdits
  <2>1. CASE EditManifest
    BY <2>1, EvaluationAssumption DEF EditManifest, EvalInv, EvaluationTypeOK
  <2>2. CASE UNCHANGED vars
    BY <2>2 DEF vars, sealed, EvalInv, EvaluationTypeOK
  <2> QED
    BY <2>1, <2>2
<1>2. EvaluationTypeOK'
  BY <1>1 DEF EvalInv, EvaluationTypeOK, gate, results, scores, writes
<1>3. /\ UNCHANGED <<phase, raw, journal, scored, summary, inferred, live>>
      /\ UNCHANGED <<public, metadata, temp, handle>>
  BY <1>1 DEF results, scores, gate, writes
<1>4. \A p \in Processes : PlaceInv(p)'
  BY <1>3, PlaceKept DEF EvalInv
<1>5. \A r \in Runners : LiveInv(r)'
  BY <1>3 DEF EvalInv, LiveInv, LiveSound
<1>6. RunInv' /\ InferredInv'
  BY <1>3 DEF EvalInv, RunInv, RawSound, OnDisk, InRun, InferredInv, InferredOnce,
              BegunCases, Begun, Declared, Finalized
<1>7. JournalInv'
  BY <1>3 DEF EvalInv, JournalInv, JournalAgrees, Entries, UpTo, InHand, Declared,
              InRun
<1>8. FilesInv'
  BY <1>3 DEF EvalInv, FilesInv, Fits, ScoredSound, Finalized
<1>9. WriteInv'
  BY <1>3 DEF EvalInv, WriteInv, Writing, Target, OneScore, ScoresAreWhole
<1> QED
  BY <1>2, <1>4, <1>5, <1>6, <1>7, <1>8, <1>9 DEF EvalInv

LEMMA StopKeeps ==
  ASSUME EvalInv, NEW p \in Processes, Stops(p) \/ ReplaceFails(p)
  PROVE  EvalInv'
<1>1. /\ Becomes(p, Fresh) /\ UNCHANGED <<sealed, gate, temp, results, scores, inferred>>
      /\ stops' \in 0 .. MaxStops
  BY EvaluationAssumption
     DEF Stops, ReplaceFails, Cut, gate, scores, writes, EvalInv, EvaluationTypeOK
<1>2. phase'[p] = Fresh
  BY <1>1, Becoming, FreshTyped DEF EvalInv, EvaluationTypeOK
<1>3. PlaceInv(p)'
  BY <1>2 DEF PlaceInv, Fresh, Underway, Checked, Labelled
<1>4. Idle \in Live /\ Idle.stage = "idle"
  BY LiveCaseAssumption DEF Idle, Live
<1>5. /\ live' \in [Runners -> Live] /\ \A r \in Runners \ {p} : live'[r] = live[r]
      /\ p \in Runners => live'[p].stage = "idle"
  <2>1. CASE Stops(p)
    BY <1>4, <2>1 DEF Stops, EvalInv, EvaluationTypeOK
  <2>2. CASE ReplaceFails(p)
    <3>1. live' = live /\ phase[p].pc \in Targets
      BY <2>2 DEF ReplaceFails
    <3> QED
      BY <3>1, WriterFacts DEF EvalInv, EvaluationTypeOK
  <2> QED
    BY <2>1, <2>2
<1>6. \/ handle' = [handle EXCEPT ![p] = "closed"]
      \/ ~Writing(p) /\ handle' = handle
  BY DEF Stops, ReplaceFails, Writing, WrittenAt, Targets, writes
<1>7. Fresh.pc \notin Underway \cup {"scored", "summary"}
  BY FreshTyped DEF Underway
<1> QED
  BY <1>1, <1>3, <1>5, <1>6, <1>7, FreshTyped, QuietStep

(* The reads of PREPARE, and of RUN and SCORE before their work. *)
LEMMA LoadKeeps ==
  ASSUME EvalInv, NEW p \in Processes,
         \/ LoadManifest(p) \/ HashManifest(p) \/ ReadPublic(p) \/ ReadMetadata(p)
         \/ ReadRaw(p) \/ CheckManifest(p)
  PROVE  EvalInv'
<1>1. /\ phase[p].pc \in {"new", "derived", "reading", "loaded", "read"}
      /\ UNCHANGED <<sealed, stops, gate, writes, results, scores, live, inferred>>
  BY DEF LoadManifest, HashManifest, ReadPublic, ReadMetadata, ReadRaw, CheckManifest, At
<1>2. phase[p] \in Place /\ PlaceInv(p)
  BY PlaceTyped
<1>3. /\ live' \in [Runners -> Live] /\ (\A r \in Runners \ {p} : live'[r] = live[r])
      /\ phase \in [Processes -> Place]
      /\ p \in Runners => live'[p].stage = "idle"
  BY <1>1 DEF EvalInv, EvaluationTypeOK, LiveInv
<1>4. /\ stops' \in 0 .. MaxStops /\ manifest \in Manifests
      /\ metadata \in Bytes(Metadata) /\ raw' = raw /\ raw \in Raw \cup {None}
      /\ UNCHANGED <<gate, temp, scores>>
      /\ ~Writing(p) /\ handle' = handle
  BY <1>1 DEF EvalInv, EvaluationTypeOK, results, writes, Writing, WrittenAt
<1>5. ASSUME NEW s \in Place, Becomes(p, s), s.pc \in {"derived", "built", "reading",
                                                      "loaded", "read", "hashed"},
             phase'[p] = s => PlaceInv(p)',
             s.document # None => s.index \in DOMAIN CasesOf[s.document]
      PROVE  EvalInv'
  <2>1. PlaceInv(p)'
    BY <1>3, <1>5, Becoming
  <2>2. s.pc \notin Underway \cup {"scored", "summary"}
    BY <1>5 DEF Underway
  <2> QED
    BY <1>1, <1>3, <1>4, <1>5, <2>1, <2>2, QuietStep
<1>6. CASE LoadManifest(p)
  <2> DEFINE s == [phase[p] EXCEPT !.pc = "derived", !.document = DocumentOf[manifest]]
  <2>1. p \in Preparers /\ phase[p] = Fresh /\ DocumentOf[manifest] \in Documents
    BY <1>2, <1>4, <1>6, EvaluationAssumption DEF LoadManifest, At, PlaceInv
  <2>2. /\ s \in Place /\ s.pc = "derived" /\ s.document \in Documents /\ s.index = 1
    <3>1. phase[p].index = 1
      BY <2>1 DEF Fresh
    <3>2. PICK d \in Documents : d = DocumentOf[manifest]
      BY <2>1
    <3>3. s = [phase[p] EXCEPT !.pc = "derived", !.document = d]
      BY <3>2
    <3> QED
      BY <1>2, <3>1, <3>2, <3>3 DEF Place
  <2>3. Becomes(p, s)
    BY <1>6 DEF LoadManifest
  <2> HIDE DEF s
  <2>4. s.document # None /\ s.index \in DOMAIN CasesOf[s.document]
    BY <2>2, CasesTyped, EvaluationAssumption
  <2>5. phase'[p] = s => PlaceInv(p)'
    BY <2>1, <2>2, <2>4, EvaluationAssumption DEF PlaceInv, Underway, Checked, Labelled
  <2> QED
    BY <1>5, <2>2, <2>3, <2>4, <2>5
<1>7. CASE HashManifest(p)
  <2> DEFINE s == [phase[p] EXCEPT !.pc = "built", !.manifest = manifest]
  <2>1. /\ p \in Preparers /\ phase[p].pc = "derived" /\ phase[p].document # None
        /\ phase[p].index \in DOMAIN CasesOf[phase[p].document]
    BY <1>2, <1>7, PlaceTyped DEF HashManifest, At, PlaceInv
  <2>2. /\ s \in Place /\ s.pc = "built" /\ s.document = phase[p].document
        /\ s.index = phase[p].index /\ s.manifest \in Manifests
    BY <1>2, <1>4 DEF Place
  <2>3. Becomes(p, s)
    BY <1>7 DEF HashManifest
  <2> HIDE DEF s
  <2>5. phase'[p] = s => PlaceInv(p)'
    BY <2>1, <2>2, EvaluationAssumption DEF PlaceInv, Underway, Checked, Labelled
  <2> QED
    BY <1>5, <2>1, <2>2, <2>3, <2>5
<1>8. CASE ReadPublic(p)
  <2> DEFINE s == [phase[p] EXCEPT !.pc = "reading", !.document = public]
  <2>1. /\ phase[p].index = 1 /\ public \in Documents
        /\ p \in Runners \cup Scorers /\ p \notin Preparers
    BY <1>2, <1>8, EvaluationAssumption DEF ReadPublic, At, PlaceInv, Fresh
  <2>2. /\ s \in Place /\ s.pc = "reading" /\ s.document = public /\ s.index = 1
    BY <1>2, <2>1 DEF Place
  <2>3. Becomes(p, s)
    BY <1>8 DEF ReadPublic
  <2> HIDE DEF s
  <2>5. phase'[p] = s => PlaceInv(p)'
    BY <2>1, <2>2, EvaluationAssumption DEF PlaceInv, Underway, Checked, Labelled
  <2>6. s.index \in DOMAIN CasesOf[s.document]
    BY <2>1, <2>2, CasesTyped
  <2> QED
    BY <1>5, <2>2, <2>3, <2>5, <2>6
<1>9. CASE ReadMetadata(p)
  <2> DEFINE s == [phase[p] EXCEPT !.pc = "loaded", !.metadata = metadata]
  <2>1. /\ phase[p].pc = "reading" /\ p \in Runners \cup Scorers /\ p \notin Preparers
        /\ metadata \in Metadata /\ metadata.document = phase[p].document
    BY <1>9, EvaluationAssumption DEF ReadMetadata, Matches, At
  <2>2. /\ phase[p].index = 1 /\ phase[p].document # None /\ metadata # None
        /\ phase[p].index \in DOMAIN CasesOf[phase[p].document]
    BY <1>2, <2>1, PlaceTyped, EvaluationAssumption DEF PlaceInv
  <2>3. /\ s \in Place /\ s.pc = "loaded" /\ s.document = phase[p].document
        /\ s.index = phase[p].index /\ s.metadata = metadata
    BY <1>2, <2>1 DEF Place
  <2>4. Becomes(p, s)
    BY <1>9 DEF ReadMetadata
  <2> HIDE DEF s
  <2>5. phase'[p] = s => PlaceInv(p)'
    BY <2>1, <2>2, <2>3 DEF PlaceInv, Underway, Checked, Labelled
  <2> QED
    BY <1>5, <2>2, <2>3, <2>4, <2>5
<1>10. CASE ReadRaw(p)
  <2> DEFINE s == [phase[p] EXCEPT !.pc = "read", !.raw = raw]
  <2>1. /\ phase[p].pc = "loaded" /\ phase[p].document # None /\ p \in Scorers
        /\ phase[p].metadata # None /\ phase[p].metadata.document = phase[p].document
        /\ phase[p].index \in DOMAIN CasesOf[phase[p].document]
        /\ p \notin Preparers
    BY <1>2, <1>10, PlaceTyped, EvaluationAssumption DEF ReadRaw, At, PlaceInv
  <2>2. /\ raw # None /\ raw.completed /\ raw.document = phase[p].metadata.document
    BY <1>10 DEF ReadRaw, Scorable
  <2>3. /\ s \in Place /\ s.pc = "read" /\ s.document = phase[p].document
        /\ s.index = phase[p].index /\ s.metadata = phase[p].metadata /\ s.raw = raw
    BY <1>2, <1>4 DEF Place
  <2>4. Becomes(p, s)
    BY <1>10 DEF ReadRaw
  <2> HIDE DEF s
  <2>6. phase'[p] = s => PlaceInv(p)'
    BY <1>4, <2>1, <2>2, <2>3 DEF PlaceInv, Underway, Checked, Labelled, Finalized
  <2> QED
    BY <1>5, <2>1, <2>3, <2>4, <2>6
<1>11. CASE CheckManifest(p)
  <2> DEFINE s == [phase[p] EXCEPT !.pc = "hashed"]
  <2>1. /\ phase[p].pc = "read" /\ phase[p].document # None /\ p \in Scorers
        /\ phase[p].metadata # None /\ phase[p].metadata.document = phase[p].document
        /\ phase[p].index \in DOMAIN CasesOf[phase[p].document]
        /\ Finalized /\ phase[p].raw = raw /\ raw.document = phase[p].document
        /\ p \notin Preparers
    BY <1>2, <1>11, PlaceTyped, EvaluationAssumption
       DEF CheckManifest, At, PlaceInv, Checked
  <2>2. /\ s \in Place /\ s.pc = "hashed" /\ s.document = phase[p].document
        /\ s.index = phase[p].index /\ s.metadata = phase[p].metadata /\ s.raw = raw
    BY <1>2, <2>1 DEF Place
  <2>3. Becomes(p, s)
    BY <1>11 DEF CheckManifest, Goto
  <2> HIDE DEF s
  <2>4. phase'[p] = s => PlaceInv(p)'
    BY <1>4, <2>1, <2>2 DEF PlaceInv, Underway, Checked, Labelled, Finalized
  <2> QED
    BY <1>5, <2>1, <2>2, <2>3, <2>4
<1> QED
  BY <1>6, <1>7, <1>8, <1>9, <1>10, <1>11
-----------------------------------------------------------------------------
(* RUN *)
LEMMA RunnerFacts ==
  ASSUME EvalInv, NEW r \in Runners, InRun(r)
  PROVE  /\ r \in Processes /\ r \notin Preparers
         /\ \A q \in Runners \ {r} : ~InRun(q)
         /\ phase[r] \in Place /\ PlaceInv(r) /\ LiveInv(r) /\ live[r] \in Live
         /\ phase[r].document \in Documents
         /\ phase[r].index \in 1 .. Len(Declared(r)) /\ Len(Declared(r)) \in Nat
         /\ DOMAIN Declared(r) = 1 .. Len(Declared(r))
         /\ InHand(r) \in Cases
         /\ phase[r].raw \in Raw
         /\ journal # <<>> /\ raw = OnDisk(r)
         /\ phase[r].pc # "infer" => live[r].stage = "idle"
<1>1. /\ r \in Processes /\ r \notin Preparers
  BY EvaluationAssumption DEF Processes
<1>2. phase[r] \in Place /\ PlaceInv(r) /\ LiveInv(r) /\ live[r] \in Live
  BY <1>1, PlaceTyped DEF EvalInv, EvaluationTypeOK
<1>3. /\ \A q \in Runners \ {r} : ~InRun(q)
      /\ journal # <<>> /\ raw = OnDisk(r)
  BY DEF EvalInv, RunInv
<1>4. phase[r].document # None /\ phase[r].raw # None
  BY <1>1, <1>2 DEF PlaceInv, InRun, Underway
<1>5. phase[r].document \in Documents
      /\ phase[r].index \in DOMAIN CasesOf[phase[r].document]
  BY <1>1, <1>4, PlaceTyped
<1>6. phase[r].raw \in Raw
  BY <1>2, <1>4 DEF Place
<1>7. phase[r].pc # "infer" => live[r].stage = "idle"
  BY <1>2 DEF LiveInv
<1> QED
  BY <1>1, <1>2, <1>3, <1>5, <1>6, <1>7, CasesTyped DEF Declared, InHand

LEMMA RunnerHolds ==
  ASSUME EvalInv, NEW r \in Runners, InRun(r)
  PROVE  LET k == phase[r]
         IN  /\ k.document # None /\ k.metadata # None /\ k.metadata.document = k.document
             /\ k.raw # None /\ RawSound(k.raw)
             /\ k.raw.document = k.document /\ ~k.raw.completed
             /\ Len(k.raw.cases) = IF k.pc \in After THEN k.index ELSE k.index - 1
             /\ k.pc \in {"last", "completed"} => k.index = Len(Declared(r))
             /\ k.pc = "started" => k.index = 1
<1>1. PlaceInv(r) /\ r \notin Preparers /\ phase[r].pc \in Underway
  BY RunnerFacts DEF InRun
<1>2. phase[r].pc \notin {"new", "reading"}
  BY <1>1 DEF Underway
<1> QED
  BY <1>1, <1>2 DEF PlaceInv, Declared

LEMMA RunnerPlace ==
  ASSUME NEW r \in Runners, r \notin Preparers,
         NEW s, phase'[r] = s, s.pc \in Underway,
         s.document # None, s.metadata # None, s.metadata.document = s.document,
         s.pc = "started" => s.index = 1,
         s.raw # None, RawSound(s.raw), s.raw.document = s.document, ~s.raw.completed,
         Len(s.raw.cases) = IF s.pc \in After THEN s.index ELSE s.index - 1,
         s.pc \in {"last", "completed"} => s.index = Len(CasesOf[s.document])
  PROVE  PlaceInv(r)' /\ InRun(r)'
BY DEF PlaceInv, Underway, Checked, Labelled, InRun

(* An entry that is not the end of a case or of the run. *)
LEMMA OtherEvent ==
  ASSUME journal \in Seq(Event), JournalAgrees, NEW e \in Event,
         journal' = Append(journal, e),
         e.event \notin {"CASE_COMPLETED", "RUN_COMPLETED"}, UNCHANGED <<raw, inferred>>
  PROVE  /\ JournalAgrees'
         /\ Entries("CASE_COMPLETED")' = Entries("CASE_COMPLETED")
         /\ Entries("RUN_COMPLETED")' = Entries("RUN_COMPLETED")
<1>1. /\ Entries("CASE_COMPLETED")' = Entries("CASE_COMPLETED")
      /\ Entries("RUN_COMPLETED")' = Entries("RUN_COMPLETED")
      /\ Entries("CASE_STARTED") \subseteq Entries("CASE_STARTED")'
      /\ \A i \in DOMAIN journal : journal'[i] = journal[i] /\ UpTo(i)' = UpTo(i)
  <2>1. /\ \A kind : Entries(kind)' =
             Entries(kind) \cup (IF e.event = kind THEN {Len(journal) + 1} ELSE {})
        /\ \A i \in DOMAIN journal : journal'[i] = journal[i] /\ UpTo(i)' = UpTo(i)
    BY JournalGrows
  <2>2. Entries("CASE_COMPLETED")' = Entries("CASE_COMPLETED") \cup {}
    BY <2>1
  <2>3. Entries("RUN_COMPLETED")' = Entries("RUN_COMPLETED") \cup {}
    BY <2>1
  <2>4. Entries("CASE_STARTED") \subseteq Entries("CASE_STARTED")'
    BY <2>1
  <2> QED
    BY <2>1, <2>2, <2>3, <2>4
<1>2. \A kind : \A i \in Entries(kind) : i \in DOMAIN journal
  BY DEF Entries
<1>3. \A c \in Cases : inferred'[c] > 0 =>
        \E i \in Entries("CASE_STARTED")' : journal'[i].case = c
  BY <1>1, <1>2 DEF JournalAgrees
<1> DEFINE recorded == IF raw = None THEN <<>> ELSE raw.cases
           completed == Cardinality(Entries("CASE_COMPLETED"))
<1>4. Len(recorded) \in {completed, completed + 1}
  BY DEF JournalAgrees
<1>5. \A i \in Entries("CASE_COMPLETED") :
        journal[i].case = recorded[Cardinality(UpTo(i))].case
  BY DEF JournalAgrees
<1>6. Entries("RUN_COMPLETED") # {} => raw # None /\ raw.completed
  BY DEF JournalAgrees
<1>7. recorded' = recorded /\ completed' = completed
  BY <1>1
<1>8. \A i \in Entries("CASE_COMPLETED")' :
        journal'[i].case = recorded'[Cardinality(UpTo(i)')].case
  BY <1>1, <1>2, <1>5, <1>7
<1>9. (Entries("RUN_COMPLETED") # {} => raw # None /\ raw.completed)'
  BY <1>1, <1>6
<1>10. (Len(recorded) \in {completed, completed + 1})'
  BY <1>4, <1>7
<1> QED
  BY <1>1, <1>3, <1>8, <1>9, <1>10 DEF JournalAgrees

(* The same place with another program counter. *)
LEMMA GotoTyped ==
  ASSUME NEW k \in Place, NEW pc \in {"started", "next", "infer", "recorded", "pace",
                                      "pacing", "last", "completed"},
         NEW s, s = [k EXCEPT !.pc = pc]
  PROVE  /\ s \in Place /\ s.pc = pc /\ s.document = k.document /\ s.index = k.index
         /\ s.metadata = k.metadata /\ s.raw = k.raw
BY DEF Place

LEMMA JournalKeeps ==
  ASSUME EvalInv, NEW r \in Runners,
         PaceStarted(r) \/ PaceCompleted(r) \/ StartCase(r)
  PROVE  EvalInv'
<1>1. PICK kind \in {"PACING_STARTED", "PACING_COMPLETED", "CASE_STARTED"},
           pc \in {"pacing", "next", "infer"} :
        /\ phase[r].pc \in {"pace", "pacing", "next"}
        /\ kind = "CASE_STARTED" <=> pc = "infer"
        /\ Append1(kind, InHand(r)) /\ Goto(r, pc)
        /\ UNCHANGED <<sealed, stops, gate, writes, raw, scores, live, inferred>>
  BY DEF PaceStarted, PaceCompleted, StartCase, At
<1>2. InRun(r) /\ phase[r].pc \notin After /\ phase[r].pc \notin {"infer", "started"}
  BY <1>1 DEF InRun, Underway, After
<1>3. PICK c \in Cases : c = InHand(r)
  BY <1>2, RunnerFacts
<1>4. PICK e \in Event : e = [event |-> kind, case |-> c]
  BY <1>1 DEF Event
<1>5. /\ journal' = Append(journal, e) /\ journal \in Seq(Event)
      /\ e.event \notin {"CASE_COMPLETED", "RUN_COMPLETED"} /\ JournalAgrees
  BY <1>1, <1>3, <1>4 DEF Append1, EvalInv, EvaluationTypeOK, JournalInv
<1>6. raw' = raw /\ inferred' = inferred /\ live' = live
  BY <1>1
<1>7. /\ JournalAgrees' /\ journal' \in Seq(Event) /\ journal' # <<>>
      /\ Entries("CASE_COMPLETED")' = Entries("CASE_COMPLETED")
      /\ Entries("RUN_COMPLETED")' = Entries("RUN_COMPLETED")
  BY <1>5, <1>6, OtherEvent, JournalGrows
<1> DEFINE s == [phase[r] EXCEPT !.pc = pc]
<1>8. /\ s \in Place /\ s.pc = pc /\ s.document = phase[r].document
      /\ s.index = phase[r].index /\ s.metadata = phase[r].metadata /\ s.raw = phase[r].raw
      /\ Becomes(r, s)
  <2>1. phase[r] \in Place
    BY <1>2, RunnerFacts
  <2>2. Becomes(r, s) /\ s = [phase[r] EXCEPT !.pc = pc]
    BY <1>1 DEF Goto
  <2> HIDE DEF s
  <2> QED
    BY <1>1, <2>1, <2>2, GotoTyped
<1> HIDE DEF s
<1>9. phase'[r] = s /\ r \in Processes /\ r \in Runners /\ r \notin Preparers
  BY <1>2, <1>8, RunnerFacts, Becoming DEF EvalInv, EvaluationTypeOK
<1>10. PlaceInv(r)'
  <2>1. pc \in Underway /\ pc \notin After /\ pc \notin {"started", "last", "completed"}
    BY <1>1 DEF Underway, After
  <2> QED
    BY <1>2, <1>8, <1>9, <2>1, RunnerHolds, RunnerPlace
<1>11. live[r].stage = "idle" /\ LiveInv(r)'
  BY <1>2, <1>6, RunnerFacts DEF LiveInv, LiveSound
<1>12. InRun(r)' /\ raw' = OnDisk(r)'
  BY <1>1, <1>2, <1>6, <1>8, <1>9, RunnerFacts DEF InRun, OnDisk, Underway, After
<1>13. BegunCases(r)' = BegunCases(r)
  BY <1>1, <1>2, <1>6, <1>8, <1>9, <1>11 DEF BegunCases, Begun, Declared, After
<1>14. /\ InferredOnce' /\ (Finalized' => \A d \in Range(CasesOf[raw'.document]) : inferred'[d] = 1)
       /\ \A d \in Cases : inferred'[d] = IF d \in BegunCases(r)' THEN 1 ELSE 0
       /\ raw' # None => RawSound(raw')
  BY <1>2, <1>6, <1>13 DEF EvalInv, InferredInv, InferredOnce, Finalized, RunInv
<1>15. /\ Cardinality(Entries("CASE_COMPLETED"))' = phase'[r].index - 1
       /\ Entries("RUN_COMPLETED")' = {}
  BY <1>1, <1>2, <1>7, <1>8, <1>9 DEF EvalInv, JournalInv
<1>16. phase'[r].pc = "infer" =>
         \E i \in Entries("CASE_STARTED")' : journal'[i].case = InHand(r)'
  <2>1. InHand(r)' = c
    BY <1>3, <1>8, <1>9 DEF InHand, Declared
  <2>2. SUFFICES ASSUME pc = "infer"
                 PROVE  \E i \in Entries("CASE_STARTED")' : journal'[i].case = c
    BY <1>8, <1>9, <2>1
  <2>3. PICK i : i = Len(journal) + 1
    OBVIOUS
  <2>4. i \in Entries("CASE_STARTED")' /\ journal'[i] = e
    BY <1>1, <1>4, <1>5, <2>2, <2>3, JournalGrows
  <2> QED
    BY <1>4, <2>4
<1>17. /\ raw' \in Raw \cup {None} /\ inferred' \in [Cases -> Nat]
       /\ live' \in [Runners -> Live] /\ \A q \in Runners \ {r} : live'[q] = live[q]
  BY <1>6 DEF EvalInv, EvaluationTypeOK
<1>18. /\ s.document \in Documents => s.index \in DOMAIN CasesOf[s.document]
       /\ phase'[r].pc \notin {"last", "completed"}
  BY <1>2, <1>8, <1>9, RunnerFacts DEF Declared
<1>19. UNCHANGED <<sealed, stops, gate, writes, scores>> /\ \A q \in Runners \ {r} : ~InRun(q)
  BY <1>1, <1>2, RunnerFacts
<1> QED
  BY <1>2, <1>6, <1>7, <1>8, <1>10, <1>11, <1>12, <1>14, <1>15, <1>16, <1>17, <1>18, <1>19, RunStep

(* Of the processes that loaded the document, the first to create the      *)
(* journal starts the run; nothing was inferred before.                    *)
LEMMA StartKeeps == ASSUME EvalInv, NEW r \in Processes, StartRun(r) PROVE EvalInv'
<1>1. /\ r \in Runners /\ r \notin Preparers
      /\ phase[r].pc = "loaded" /\ journal = <<>>
      /\ UNCHANGED <<sealed, stops, gate, writes, raw, scores, live, inferred>>
  BY EvaluationAssumption DEF StartRun, At, JournalIsNew
<1>2. raw = None /\ \A q \in Runners : ~InRun(q)
  BY <1>1 DEF EvalInv, RunInv
<1>3. /\ phase[r] \in Place /\ PlaceInv(r) /\ phase[r].document \in Documents
      /\ phase[r].metadata \in Metadata /\ phase[r].metadata.document = phase[r].document
      /\ phase[r].index = 1 /\ phase[r].document # None /\ phase[r].metadata # None
      /\ phase[r].index \in DOMAIN CasesOf[phase[r].document]
  BY <1>1, PlaceTyped DEF PlaceInv, Place
<1>4. PICK x : x = [document |-> phase[r].metadata.document, ran |-> phase[r].document,
                    completed |-> FALSE, cases |-> <<>>]
  OBVIOUS
<1>5. /\ x \in Raw /\ RawSound(x) /\ x # None /\ x.document = phase[r].document
      /\ ~x.completed /\ Len(x.cases) = 0 /\ x.cases = <<>>
  <2>1. x \in Raw
    BY <1>3, <1>4 DEF Raw
  <2>2. x # None
    BY <2>1, EvaluationAssumption
  <2> QED
    BY <1>3, <1>4, <2>1, <2>2, CasesTyped DEF RawSound
<1> DEFINE s == [phase[r] EXCEPT !.pc = "started", !.raw = x]
<1>6. /\ s \in Place /\ s.pc = "started" /\ s.document = phase[r].document
      /\ s.index = 1 /\ s.metadata = phase[r].metadata /\ s.raw = x
  BY <1>3, <1>5 DEF Place
<1>7. Becomes(r, s)
  BY <1>4 DEF StartRun
<1> HIDE DEF s
<1>8. phase'[r] = s
  BY <1>6, <1>7, Becoming DEF EvalInv, EvaluationTypeOK
<1>9. PlaceInv(r)' /\ InRun(r)'
  <2>1. "started" \in Underway /\ "started" \notin After
    BY DEF Underway, After
  <2> QED
    BY <1>1, <1>3, <1>5, <1>6, <1>8, <2>1, RunnerPlace
<1>10. PICK e \in Event : e = [event |-> "RUN_STARTED", case |-> None]
  BY DEF Event
<1>11. /\ journal \in Seq(Event) /\ JournalAgrees /\ journal' = Append(journal, e)
       /\ e.event = "RUN_STARTED"
  BY <1>10 DEF StartRun, Append1, EvalInv, EvaluationTypeOK, JournalInv
<1>12. /\ JournalAgrees' /\ journal' \in Seq(Event) /\ journal' # <<>>
       /\ Entries("CASE_COMPLETED")' = Entries("CASE_COMPLETED")
       /\ Entries("RUN_COMPLETED")' = Entries("RUN_COMPLETED")
  BY <1>1, <1>11, OtherEvent, JournalGrows
<1>13. Entries("CASE_COMPLETED") = {} /\ Entries("RUN_COMPLETED") = {}
  BY <1>1 DEF Entries
<1>14. LiveInv(r)' /\ live[r].stage = "idle"
  BY <1>1 DEF EvalInv, LiveInv, LiveSound
<1>15. /\ raw' = OnDisk(r)' /\ raw' = None
  BY <1>1, <1>2, <1>6, <1>8 DEF OnDisk
<1>16. BegunCases(r)' = {}
  BY <1>6, <1>8, <1>9 DEF BegunCases, Begun, After
<1>17. /\ InferredOnce' /\ \A c \in Cases : inferred'[c] = 0
  BY <1>1 DEF EvalInv, InferredInv, InferredOnce
<1>18. /\ raw' \in Raw \cup {None} /\ inferred' \in [Cases -> Nat]
       /\ live' \in [Runners -> Live] /\ \A q \in Runners \ {r} : live'[q] = live[q]
  BY <1>1 DEF EvalInv, EvaluationTypeOK
<1>19. Cardinality(Entries("CASE_COMPLETED"))' = phase'[r].index - 1
  <2>1. Entries("CASE_COMPLETED")' = {}
    BY <1>12, <1>13
  <2>2. Cardinality(Entries("CASE_COMPLETED")') = 0
    BY <2>1, FS_EmptySet
  <2> QED
    BY <1>6, <1>8, <2>2
<1>20. ~Finalized /\ ~Finalized'
  BY <1>2, <1>15 DEF Finalized
<1>21. phase'[r].pc = "started" /\ s.index \in DOMAIN CasesOf[s.document]
  BY <1>3, <1>6, <1>8
<1> QED
  BY <1>1, <1>2, <1>6, <1>7, <1>9, <1>12, <1>13, <1>14, <1>15, <1>16, <1>17, <1>18,
     <1>19, <1>20, <1>21, RunStep

LEMMA WriteRawKeeps == ASSUME EvalInv, NEW r \in Processes, WriteRaw(r) PROVE EvalInv'
<1>1. /\ r \in Runners /\ phase[r].pc = "started" /\ raw' = phase[r].raw
      /\ UNCHANGED <<sealed, stops, gate, writes, journal, scores, live, inferred>>
  BY DEF WriteRaw, At
<1>2. InRun(r)
  BY <1>1 DEF InRun, Underway
<1> DEFINE s == [phase[r] EXCEPT !.pc = "next"]
<1>3. s = [phase[r] EXCEPT !.pc = "next"] /\ Becomes(r, s)
  BY DEF WriteRaw, Goto
<1> HIDE DEF s
<1>4. /\ s \in Place /\ s.pc = "next" /\ s.document = phase[r].document
      /\ s.index = phase[r].index /\ s.metadata = phase[r].metadata /\ s.raw = phase[r].raw
  BY <1>1, <1>2, <1>3, RunnerFacts, GotoTyped
<1>5. phase'[r] = s
  BY <1>1, <1>2, <1>3, <1>4, Becoming, RunnerFacts DEF EvalInv, EvaluationTypeOK
<1>6. phase[r].pc \notin After /\ "next" \in Underway /\ "next" \notin After
  BY <1>1 DEF After, Underway
<1>7. PlaceInv(r)' /\ InRun(r)'
  BY <1>1, <1>2, <1>4, <1>5, <1>6, RunnerFacts, RunnerHolds, RunnerPlace
<1>8. /\ raw = None /\ raw' # None /\ RawSound(raw') /\ ~raw'.completed
      /\ Len(raw'.cases) = 0 /\ raw' \in Raw
  BY <1>1, <1>2, <1>6, RunnerFacts, RunnerHolds DEF OnDisk
<1>9. raw' = OnDisk(r)'
  BY <1>1, <1>4, <1>5 DEF OnDisk
<1>10. LiveInv(r)' /\ live[r].stage = "idle"
  BY <1>1, <1>2, RunnerFacts DEF LiveInv, LiveSound
<1>11. BegunCases(r)' = BegunCases(r)
  BY <1>1, <1>4, <1>5, <1>10 DEF BegunCases, Begun, Declared, After
<1>12. /\ InferredOnce' /\ ~Finalized /\ ~Finalized'
       /\ \A d \in Cases : inferred'[d] = IF d \in BegunCases(r)' THEN 1 ELSE 0
  BY <1>1, <1>2, <1>8, <1>11 DEF EvalInv, InferredInv, InferredOnce, Finalized
<1>13. /\ journal \in Seq(Event) /\ journal # <<>> /\ JournalAgrees
       /\ Cardinality(Entries("CASE_COMPLETED")) = 0 /\ Entries("RUN_COMPLETED") = {}
  <2>1. phase[r].index = 1 /\ journal # <<>>
    BY <1>1, <1>2, RunnerHolds, RunnerFacts
  <2> QED
    BY <1>1, <1>2, <2>1 DEF EvalInv, EvaluationTypeOK, JournalInv
<1>14. Entries("CASE_COMPLETED") = {}
  BY <1>13, EntriesFinite, FS_EmptySet
<1>15. \A kind : Entries(kind)' = Entries(kind)
  BY <1>1 DEF Entries
<1>16. JournalAgrees'
  BY <1>1, <1>8, <1>13, <1>14, <1>15 DEF JournalAgrees
<1>17. /\ raw' \in Raw \cup {None} /\ inferred' \in [Cases -> Nat]
       /\ live' \in [Runners -> Live] /\ \A q \in Runners \ {r} : live'[q] = live[q]
       /\ journal' \in Seq(Event) /\ journal' # <<>>
  BY <1>1, <1>8, <1>13 DEF EvalInv, EvaluationTypeOK
<1>18. /\ Cardinality(Entries("CASE_COMPLETED"))' = phase'[r].index - 1
       /\ Entries("RUN_COMPLETED")' = {} /\ phase'[r].pc = "next"
  BY <1>1, <1>2, <1>4, <1>5, <1>13, <1>15, RunnerHolds
<1>19. /\ s.document \in Documents => s.index \in DOMAIN CasesOf[s.document]
       /\ \A q \in Runners \ {r} : ~InRun(q)
  BY <1>1, <1>2, <1>4, RunnerFacts DEF Declared
<1> QED
  BY <1>1, <1>2, <1>3, <1>4, <1>7, <1>8, <1>9, <1>10, <1>12, <1>16, <1>17, <1>18, <1>19, RunStep

(* The inference of the case in hand: it was never begun before, because a *)
(* document names each of its cases once.                                  *)
LEMMA InferenceKeeps ==
  ASSUME EvalInv, NEW r \in Processes, BeginInference(r) \/ Infer(r)
  PROVE  EvalInv'
<1>1. /\ r \in Runners /\ phase[r].pc = "infer"
      /\ UNCHANGED <<sealed, stops, gate, writes, results, scores, phase>>
  BY DEF BeginInference, Infer, At
<1>2. InRun(r) /\ phase[r].pc \notin After
  BY <1>1 DEF InRun, Underway, After
<1>3. live \in [Runners -> Live] /\ LiveSound(live[r]) /\ phase \in [Processes -> Place]
      /\ inferred \in [Cases -> Nat]
  BY <1>1 DEF EvalInv, EvaluationTypeOK, LiveInv
<1>4. \E k \in Live : live' = [live EXCEPT ![r] = k] /\ k.stage # "idle" /\ LiveSound(k)
  <2>1. CASE BeginInference(r)
    <3> DEFINE k == [Idle EXCEPT !.stage = "open"]
    <3>1. k = [stage |-> "open", attempts |-> 0, pattern |-> None, challenge |-> None,
               result |-> None]
      BY DEF Idle
    <3>2. live' = [live EXCEPT ![r] = k]
      BY <2>1 DEF BeginInference, Begin, Goes
    <3> HIDE DEF k
    <3>3. k \in Live /\ k.stage # "idle" /\ LiveSound(k)
      BY <3>1, LiveCaseAssumption DEF Live, LiveSound
    <3> QED
      BY <3>2, <3>3
  <2>2. CASE Infer(r)
    BY <1>1, <1>3, <2>2, InferKeeps DEF Infer
  <2> QED
    BY <2>1, <2>2
<1>5. /\ live' \in [Runners -> Live] /\ live'[r].stage # "idle" /\ LiveSound(live'[r])
      /\ \A q \in Runners \ {r} : live'[q] = live[q]
  BY <1>1, <1>3, <1>4
<1>6. Becomes(r, phase[r]) /\ phase' = phase
  BY <1>1, <1>3 DEF Becomes
<1>7. raw' = raw /\ journal' = journal
  BY <1>1 DEF results
<1>8. LiveInv(r)'
  BY <1>1, <1>5, <1>6 DEF LiveInv, LiveSound
<1>9. PlaceInv(r)' /\ InRun(r)' /\ raw' = OnDisk(r)'
  <2>1. PlaceInv(r)'
    BY <1>1, <1>2, <1>6, <1>7, PlaceKept, RunnerFacts
  <2> QED
    BY <1>1, <1>2, <1>6, <1>7, <2>1, RunnerFacts DEF InRun, OnDisk
<1>0. PICK d \in Documents : d = phase[r].document
  BY <1>1, <1>2, RunnerFacts
<1>10. PICK n \in 1 .. Len(CasesOf[d]) : n = phase[r].index
  BY <1>0, <1>1, <1>2, RunnerFacts DEF Declared
<1>11. /\ BegunCases(r)' = {CasesOf[d][j] : j \in 1 .. n}
       /\ InHand(r) = CasesOf[d][n] /\ InHand(r)' = CasesOf[d][n]
  <2>1. Begun(r)' = n /\ Declared(r)' = CasesOf[d]
    BY <1>1, <1>5, <1>6, <1>0, <1>10 DEF Begun, Declared
  <2> QED
    BY <1>0, <1>6, <1>10, <2>1 DEF BegunCases, InHand, Declared
<1>12. ~Finalized /\ ~Finalized' /\ raw \in Raw \cup {None}
       /\ (raw' # None => RawSound(raw'))
  BY <1>1, <1>2, <1>7, RunnerFacts, RunnerHolds
     DEF Finalized, OnDisk, EvalInv, EvaluationTypeOK, RunInv
<1>13. /\ inferred' \in [Cases -> Nat]
       /\ \A c \in Cases : inferred'[c] = IF c \in BegunCases(r)' THEN 1 ELSE 0
       /\ \A c \in Cases : inferred'[c] > 0 =>
            inferred[c] > 0 \/ c = InHand(r)
  <2>1. \A c \in Cases : inferred[c] = IF c \in BegunCases(r) THEN 1 ELSE 0
    BY <1>1, <1>2 DEF EvalInv, InferredInv
  <2>2. CASE Infer(r)
    <3>1. inferred' = inferred /\ live[r].stage # "idle"
      BY <2>2 DEF Infer, InferStep, Readiness, SelectClaim, Generate, Execute, Assess,
                  ModelFails, CaseRaises, Moves
    <3>2. BegunCases(r)' = BegunCases(r)
      BY <1>1, <1>5, <1>6, <3>1 DEF BegunCases, Begun, Declared
    <3> QED
      BY <1>3, <2>1, <3>1, <3>2
  <2>3. CASE BeginInference(r)
    <3>1. inferred' = [inferred EXCEPT ![InHand(r)] = @ + 1] /\ live[r].stage = "idle"
      BY <2>3 DEF BeginInference, Moves
    <3>2. BegunCases(r) = {CasesOf[d][j] : j \in 1 .. n - 1}
      <4>1. Begun(r) = n - 1 /\ Declared(r) = CasesOf[d]
        BY <1>1, <1>2, <1>0, <1>10, <3>1 DEF Begun, Declared
      <4> QED
        BY <4>1 DEF BegunCases
    <3>3. \A c : c \in BegunCases(r)' <=> c \in BegunCases(r) \/ c = InHand(r)
      <4>1. \A j : j \in 1 .. n <=> j \in 1 .. n - 1 \/ j = n
        BY <1>0, <1>10
      <4> QED
        BY <1>11, <3>2, <4>1
    <3>4. InHand(r) \notin BegunCases(r) /\ InHand(r) \in Cases
      <4>1. \A j \in 1 .. n - 1 : CasesOf[d][j] # CasesOf[d][n]
        <5>1. \A i, j \in 1 .. Len(CasesOf[d]) : CasesOf[d][i] = CasesOf[d][j] => i = j
          BY CasesTyped
        <5>2. Len(CasesOf[d]) \in Nat
          BY CasesTyped
        <5> QED
          BY <1>0, <1>10, <5>1, <5>2
      <4> QED
        BY <1>1, <1>2, <1>11, <3>2, <4>1, RunnerFacts
    <3>5. PICK h \in Cases : h = InHand(r)
      BY <3>4
    <3>6. \A c \in Cases : inferred'[c] = IF c = h THEN inferred[c] + 1 ELSE inferred[c]
      BY <1>3, <3>1, <3>5
    <3>7. inferred' \in [Cases -> Nat]
      BY <1>3, <3>1, <3>5
    <3> QED
      BY <2>1, <3>3, <3>4, <3>5, <3>6, <3>7
  <2> QED
    BY <2>2, <2>3
<1>14. InferredOnce'
  BY <1>13 DEF InferredOnce
<1>15. /\ \A c \in Cases : inferred[c] > 0 =>
            \E i \in Entries("CASE_STARTED") : journal[i].case = c
       /\ \E i \in Entries("CASE_STARTED") : journal[i].case = InHand(r)
       /\ JournalAgrees
  BY <1>1, <1>2 DEF EvalInv, JournalInv, JournalAgrees
<1>16. \A kind : Entries(kind)' = Entries(kind)
  BY <1>7 DEF Entries
<1>17. JournalAgrees'
  <2>1. \A c \in Cases : inferred'[c] > 0 =>
          \E i \in Entries("CASE_STARTED")' : journal'[i].case = c
    BY <1>7, <1>13, <1>15, <1>16
  <2> QED
    BY <1>7, <1>15, <1>16, <2>1 DEF JournalAgrees, UpTo, Entries
<1>18. /\ Cardinality(Entries("CASE_COMPLETED"))' = phase'[r].index - 1
       /\ Entries("RUN_COMPLETED")' = {}
       /\ \E i \in Entries("CASE_STARTED")' : journal'[i].case = InHand(r)'
       /\ phase'[r].pc = "infer"
  BY <1>1, <1>2, <1>6, <1>7, <1>11, <1>15, <1>16 DEF EvalInv, JournalInv
<1>19. /\ phase[r] \in Place /\ phase[r].index \in DOMAIN CasesOf[phase[r].document]
       /\ \A q \in Runners \ {r} : ~InRun(q)
       /\ journal' \in Seq(Event) /\ journal' # <<>>
  BY <1>1, <1>2, <1>7, RunnerFacts DEF Declared, EvalInv, EvaluationTypeOK
<1>20. Finalized' => \A c \in Range(CasesOf[raw'.document]) : inferred'[c] = 1
  BY <1>12
<1> QED
  BY <1>1, <1>2, <1>5, <1>6, <1>7, <1>8, <1>9, <1>12, <1>13, <1>14, <1>17, <1>18, <1>19,
     <1>20, RunStep

LEMMA AppendCase ==
  ASSUME NEW x \in Raw, RawSound(x), ~x.completed,
         NEW e \in [case: Cases, result: Result], ResultSound(e.result),
         Len(x.cases) < Len(CasesOf[x.document]),
         e.case = CasesOf[x.document][Len(x.cases) + 1],
         NEW y, y = [x EXCEPT !.cases = Append(@, e)]
  PROVE  /\ y \in Raw /\ RawSound(y) /\ y.document = x.document /\ ~y.completed
         /\ Len(x.cases) \in Nat /\ Len(y.cases) = Len(x.cases) + 1
         /\ \A i \in 1 .. Len(x.cases) : y.cases[i] = x.cases[i]
<1>1. /\ x.cases \in Seq([case: Cases, result: Result]) /\ x.document \in Documents
      /\ x.ran \in Documents
  BY DEF Raw
<1>2. PICK z : z = Append(x.cases, e)
  OBVIOUS
<1>3. /\ z \in Seq([case: Cases, result: Result]) /\ Len(z) = Len(x.cases) + 1
      /\ \A i \in 1 .. Len(x.cases) : z[i] = x.cases[i]
      /\ z[Len(x.cases) + 1] = e
      /\ DOMAIN x.cases = 1 .. Len(x.cases) /\ DOMAIN z = 1 .. Len(x.cases) + 1
      /\ Len(x.cases) \in Nat
  BY <1>1, <1>2
<1>4. y = [x EXCEPT !.cases = z]
  BY <1>2
<1>5. /\ y \in Raw /\ y.cases = z /\ y.document = x.document /\ y.ran = x.ran
      /\ y.completed = x.completed
  BY <1>3, <1>4 DEF Raw
<1>6. \A i \in DOMAIN z : /\ z[i].case = CasesOf[x.document][i]
                          /\ ResultSound(z[i].result)
  <2>1. \A i \in 1 .. Len(x.cases) : /\ x.cases[i].case = CasesOf[x.document][i]
                                     /\ ResultSound(x.cases[i].result)
    BY <1>3 DEF RawSound
  <2>2. \A i \in DOMAIN z : i \in 1 .. Len(x.cases) \/ i = Len(x.cases) + 1
    BY <1>3
  <2> QED
    BY <1>3, <2>1, <2>2
<1>7. Len(z) <= Len(CasesOf[x.document])
  BY <1>1, <1>3, CasesTyped
<1>8. RawSound(y)
  BY <1>5, <1>6, <1>7 DEF RawSound
<1> QED
  BY <1>3, <1>5, <1>8

(* The result is on disk before the journal says that the case completed:  *)
(* the results it already speaks of stay where they are.                   *)
LEMMA RecordKeeps == ASSUME EvalInv, NEW r \in Processes, RecordResult(r) PROVE EvalInv'
<1>1. /\ r \in Runners /\ phase[r].pc = "infer" /\ live[r].stage = "finished"
      /\ UNCHANGED <<sealed, stops, gate, writes, journal, scores, inferred>>
  BY DEF RecordResult, At, Moves
<1>2. InRun(r) /\ phase[r].pc \notin After
  BY <1>1 DEF InRun, Underway, After
<1>0. PICK d \in Documents : d = phase[r].document
  BY <1>1, <1>2, RunnerFacts
<1>3. PICK n \in 1 .. Len(CasesOf[d]) : n = phase[r].index
  BY <1>0, <1>1, <1>2, RunnerFacts DEF Declared
<1>4. PICK o \in Raw : o = phase[r].raw
  BY <1>1, <1>2, RunnerFacts
<1>5. /\ o # None /\ RawSound(o) /\ o.document = d /\ ~o.completed
      /\ Len(o.cases) = n - 1 /\ raw = o
  BY <1>0, <1>1, <1>2, <1>3, <1>4, RunnerFacts, RunnerHolds DEF OnDisk
<1>6. live[r].result \in Result /\ ResultSound(live[r].result)
  BY <1>1, <1>2, RunnerFacts DEF LiveInv, LiveSound, Live
<1>7. PICK e \in [case: Cases, result: Result] :
        e = [case |-> InHand(r), result |-> live[r].result]
  BY <1>1, <1>2, <1>6, RunnerFacts
<1>8. PICK x : x = [o EXCEPT !.cases = Append(@, e)]
  OBVIOUS
<1>9. /\ x \in Raw /\ RawSound(x) /\ x.document = d /\ ~x.completed /\ x # None
      /\ Len(x.cases) = n
      /\ \A i \in 1 .. n - 1 : x.cases[i] = o.cases[i]
  <2>1. Len(CasesOf[d]) \in Nat
    BY CasesTyped
  <2>2. e.case = CasesOf[d][n] /\ ResultSound(e.result)
    BY <1>0, <1>3, <1>6, <1>7 DEF InHand, Declared
  <2>3. Len(o.cases) < Len(CasesOf[d]) /\ Len(o.cases) + 1 = n
    BY <1>3, <1>5, <2>1
  <2>4. /\ x \in Raw /\ RawSound(x) /\ x.document = d /\ ~x.completed
        /\ Len(x.cases) = Len(o.cases) + 1
        /\ \A i \in 1 .. Len(o.cases) : x.cases[i] = o.cases[i]
    BY <1>5, <1>8, <2>2, <2>3, AppendCase
  <2>5. x # None
    BY <2>4, EvaluationAssumption
  <2> QED
    BY <1>5, <2>3, <2>4, <2>5
<1>10. With(r) = x
  BY <1>4, <1>7, <1>8 DEF With
<1> DEFINE s == [phase[r] EXCEPT !.pc = "recorded", !.raw = x]
<1>11. raw' = x /\ Becomes(r, s) /\ live' = [live EXCEPT ![r] = Idle]
  BY <1>10 DEF RecordResult, Goes
<1>12. /\ s \in Place /\ s.pc = "recorded" /\ s.document = d /\ s.index = n
       /\ s.metadata = phase[r].metadata /\ s.raw = x
  <2>1. phase[r] \in Place
    BY <1>1, <1>2, RunnerFacts
  <2> QED
    BY <1>0, <1>3, <1>9, <2>1 DEF Place
<1> HIDE DEF s
<1>13. phase'[r] = s
  BY <1>11, <1>12, Becoming DEF EvalInv, EvaluationTypeOK
<1>14. "recorded" \in Underway /\ "recorded" \in After
  BY DEF Underway, After
<1>15. PlaceInv(r)' /\ InRun(r)'
  BY <1>0, <1>1, <1>2, <1>9, <1>12, <1>13, <1>14, RunnerFacts, RunnerHolds, RunnerPlace
<1>16. raw' = OnDisk(r)'
  BY <1>11, <1>12, <1>13 DEF OnDisk
<1>17. /\ live' \in [Runners -> Live] /\ live'[r] = Idle
       /\ \A q \in Runners \ {r} : live'[q] = live[q]
  <2>1. Idle \in Live
    BY LiveCaseAssumption DEF Idle, Live
  <2> QED
    BY <1>1, <1>11, <2>1 DEF EvalInv, EvaluationTypeOK
<1>18. LiveInv(r)'
  BY <1>17 DEF LiveInv, LiveSound, Idle
<1>19. BegunCases(r)' = BegunCases(r)
  <2>1. Begun(r)' = n /\ Begun(r) = n
    BY <1>1, <1>3, <1>12, <1>13, <1>14 DEF Begun
  <2>2. Declared(r)' = CasesOf[d] /\ Declared(r) = CasesOf[d]
    BY <1>0, <1>12, <1>13 DEF Declared
  <2> QED
    BY <2>1, <2>2 DEF BegunCases
<1>20. /\ InferredOnce' /\ ~Finalized /\ ~Finalized'
       /\ \A c \in Cases : inferred'[c] = IF c \in BegunCases(r)' THEN 1 ELSE 0
  BY <1>1, <1>2, <1>5, <1>9, <1>11, <1>19 DEF EvalInv, InferredInv, InferredOnce, Finalized
<1>21. /\ journal \in Seq(Event) /\ journal # <<>> /\ JournalAgrees /\ journal' = journal
       /\ Cardinality(Entries("CASE_COMPLETED")) = n - 1 /\ Entries("RUN_COMPLETED") = {}
  BY <1>1, <1>2, <1>3, RunnerFacts DEF EvalInv, EvaluationTypeOK, JournalInv
<1>22. \A kind : Entries(kind)' = Entries(kind)
  BY <1>21 DEF Entries
<1>23. JournalAgrees'
  <2>1. \A c \in Cases : inferred'[c] > 0 =>
          \E i \in Entries("CASE_STARTED")' : journal'[i].case = c
    BY <1>1, <1>21, <1>22 DEF JournalAgrees
  <2>2. \A i \in Entries("CASE_COMPLETED") :
          journal[i].case = x.cases[Cardinality(UpTo(i))].case
    <3>1. ASSUME NEW i \in Entries("CASE_COMPLETED")
          PROVE  journal[i].case = x.cases[Cardinality(UpTo(i))].case
      <4>1. journal[i].case = o.cases[Cardinality(UpTo(i))].case
        BY <1>5, <1>21, <3>1 DEF JournalAgrees
      <4>2. Cardinality(UpTo(i)) \in 1 .. n - 1
        BY <1>21, <3>1, Rank
      <4> QED
        BY <1>9, <4>1, <4>2
    <3> QED
      BY <3>1
  <2>3. \A i : UpTo(i)' = UpTo(i)
    BY <1>21 DEF UpTo, Entries
  <2>4. \A i \in Entries("CASE_COMPLETED")' :
          journal'[i].case = raw'.cases[Cardinality(UpTo(i)')].case
    BY <1>11, <1>21, <1>22, <2>2, <2>3
  <2>5. Len(raw'.cases) = Cardinality(Entries("CASE_COMPLETED")') + 1
    BY <1>9, <1>11, <1>21, <1>22
  <2> QED
    BY <1>9, <1>11, <1>21, <1>22, <2>1, <2>4, <2>5 DEF JournalAgrees
<1>24. /\ Cardinality(Entries("CASE_COMPLETED"))' = phase'[r].index - 1
       /\ Entries("RUN_COMPLETED")' = {} /\ phase'[r].pc = "recorded"
  BY <1>12, <1>13, <1>21, <1>22
<1>25. /\ s.document \in Documents => s.index \in DOMAIN CasesOf[s.document]
       /\ \A q \in Runners \ {r} : ~InRun(q)
       /\ inferred' \in [Cases -> Nat]
       /\ journal' \in Seq(Event) /\ journal' # <<>> /\ raw' \in Raw \cup {None}
       /\ RawSound(raw')
  BY <1>1, <1>2, <1>3, <1>9, <1>11, <1>12, <1>21, RunnerFacts, CasesTyped
     DEF EvalInv, EvaluationTypeOK
<1> QED
  BY <1>1, <1>2, <1>11, <1>12, <1>15, <1>16, <1>17, <1>18, <1>20, <1>23, <1>24, <1>25, RunStep

(* CASE_COMPLETED of the case in hand is the entry about its result, the   *)
(* last one recorded.                                                      *)
LEMMA CompleteCaseKeeps ==
  ASSUME EvalInv, NEW r \in Processes, CompleteCase(r)
  PROVE  EvalInv'
<1>1. /\ r \in Runners /\ phase[r].pc = "recorded"
      /\ UNCHANGED <<sealed, stops, gate, writes, raw, scores, live, inferred>>
  BY DEF CompleteCase, At
<1>2. InRun(r) /\ phase[r].pc \in After
  BY <1>1 DEF InRun, Underway, After
<1>0. PICK d \in Documents : d = phase[r].document
  BY <1>1, <1>2, RunnerFacts
<1>3. PICK n \in 1 .. Len(CasesOf[d]) : n = phase[r].index
  BY <1>0, <1>1, <1>2, RunnerFacts DEF Declared
<1>4. PICK o \in Raw : o = phase[r].raw
  BY <1>1, <1>2, RunnerFacts
<1>5. /\ o # None /\ RawSound(o) /\ o.document = d /\ ~o.completed
      /\ Len(o.cases) = n /\ raw = o /\ raw' = o
  BY <1>0, <1>1, <1>2, <1>3, <1>4, RunnerFacts, RunnerHolds DEF OnDisk
<1>6. Len(CasesOf[d]) \in Nat /\ n \in Nat \ {0} /\ Declared(r) = CasesOf[d]
  BY <1>0, <1>3, CasesTyped DEF Declared
<1>7. PICK s \in Place : /\ Becomes(r, s) /\ s.document = d
                         /\ s.metadata = phase[r].metadata /\ s.raw = o
                         /\ \/ s.pc = "pace" /\ s.index = n + 1 /\ n < Len(CasesOf[d])
                            \/ s.pc = "last" /\ s.index = n /\ n = Len(CasesOf[d])
  <2>1. phase[r] \in Place
    BY <1>1, <1>2, RunnerFacts
  <2>2. CASE More(r)
    <3> DEFINE s == [phase[r] EXCEPT !.pc = "pace", !.index = @ + 1]
    <3>1. Becomes(r, s)
      BY <2>2 DEF CompleteCase
    <3>2. s \in Place /\ s.document = d /\ s.metadata = phase[r].metadata /\ s.raw = o
          /\ s.pc = "pace" /\ s.index = n + 1
      <4> DEFINE m == n + 1
      <4>1. s = [phase[r] EXCEPT !.pc = "pace", !.index = m] /\ m \in Nat \ {0}
        BY <1>3, <1>6
      <4> HIDE DEF m, s
      <4>2. s \in Place /\ s.document = d /\ s.metadata = phase[r].metadata /\ s.raw = o
            /\ s.pc = "pace" /\ s.index = m
        BY <1>0, <1>4, <2>1, <4>1 DEF Place
      <4> QED
        BY <4>2 DEF m
    <3>3. n < Len(CasesOf[d])
      BY <1>3, <1>6, <2>2 DEF More
    <3> QED
      BY <3>1, <3>2, <3>3
  <2>3. CASE ~More(r)
    <3> DEFINE s == [phase[r] EXCEPT !.pc = "last"]
    <3>1. Becomes(r, s)
      BY <2>3 DEF CompleteCase, Goto
    <3>2. s \in Place /\ s.document = d /\ s.metadata = phase[r].metadata /\ s.raw = o
          /\ s.pc = "last" /\ s.index = n
      BY <1>0, <1>3, <1>4, <2>1, GotoTyped
    <3>3. n = Len(CasesOf[d])
      BY <1>3, <1>6, <2>3 DEF More
    <3> QED
      BY <3>1, <3>2, <3>3
  <2> QED
    BY <2>2, <2>3
<1>8. phase'[r] = s
  BY <1>7, Becoming DEF EvalInv, EvaluationTypeOK
<1>9. PlaceInv(r)' /\ InRun(r)'
  <2>1. s.pc \in Underway /\ s.pc # "started"
    BY <1>7 DEF Underway
  <2>2. Len(s.raw.cases) = IF s.pc \in After THEN s.index ELSE s.index - 1
    <3>1. "pace" \notin After /\ "last" \in After
      BY DEF After
    <3> QED
      BY <1>5, <1>6, <1>7, <3>1
  <2>3. phase[r].document # None /\ phase[r].metadata # None
        /\ phase[r].metadata.document = d
    BY <1>0, <1>1, <1>2, RunnerHolds
  <2>4. s.pc \in {"last", "completed"} => s.index = Len(CasesOf[s.document])
    BY <1>7
  <2> QED
    BY <1>0, <1>1, <1>2, <1>5, <1>7, <1>8, <2>1, <2>2, <2>3, <2>4, RunnerFacts, RunnerPlace
<1>10. raw' = OnDisk(r)'
  BY <1>5, <1>7, <1>8 DEF OnDisk
<1>11. LiveInv(r)' /\ live[r].stage = "idle"
  BY <1>1, <1>2, RunnerFacts DEF LiveInv, LiveSound
<1>12. BegunCases(r)' = BegunCases(r)
  <2>1. Begun(r) = n
    BY <1>2, <1>3 DEF Begun
  <2>2. Begun(r)' = n
    BY <1>6, <1>7, <1>8 DEF Begun, After
  <2>3. Declared(r)' = CasesOf[d]
    BY <1>7, <1>8 DEF Declared
  <2> QED
    BY <1>6, <2>1, <2>2, <2>3 DEF BegunCases
<1>13. /\ InferredOnce' /\ ~Finalized /\ ~Finalized'
       /\ \A c \in Cases : inferred'[c] = IF c \in BegunCases(r)' THEN 1 ELSE 0
  BY <1>1, <1>2, <1>5, <1>12 DEF EvalInv, InferredInv, InferredOnce, Finalized
<1>14. PICK e \in Event : e = [event |-> "CASE_COMPLETED", case |-> InHand(r)]
  BY <1>1, <1>2, RunnerFacts DEF Event
<1>15. /\ journal \in Seq(Event) /\ JournalAgrees /\ journal' = Append(journal, e)
       /\ e.event = "CASE_COMPLETED" /\ e.case = CasesOf[d][n]
       /\ Cardinality(Entries("CASE_COMPLETED")) = n - 1 /\ Entries("RUN_COMPLETED") = {}
  BY <1>1, <1>2, <1>3, <1>6, <1>14
     DEF CompleteCase, Append1, EvalInv, EvaluationTypeOK, JournalInv, InHand
<1>16. PICK new : new = Len(journal) + 1
  OBVIOUS
<1>17. /\ journal' \in Seq(Event) /\ journal' # <<>>
       /\ Entries("CASE_COMPLETED")' = Entries("CASE_COMPLETED") \cup {new}
       /\ Entries("RUN_COMPLETED")' = {}
       /\ Entries("CASE_STARTED")' = Entries("CASE_STARTED")
       /\ \A i \in DOMAIN journal : journal'[i] = journal[i] /\ UpTo(i)' = UpTo(i)
       /\ journal'[new] = e /\ UpTo(new)' = Entries("CASE_COMPLETED")'
  <2>1. \A kind : Entries(kind)' =
          Entries(kind) \cup (IF e.event = kind THEN {new} ELSE {})
    BY <1>15, <1>16, JournalGrows
  <2>2. Entries("CASE_COMPLETED")' = Entries("CASE_COMPLETED") \cup {new}
        /\ Entries("RUN_COMPLETED")' = Entries("RUN_COMPLETED") \cup {}
        /\ Entries("CASE_STARTED")' = Entries("CASE_STARTED") \cup {}
    BY <1>15, <2>1
  <2>3. journal'[new] = e /\ UpTo(new)' = Entries(e.event)'
    BY <1>15, <1>16, JournalGrows
  <2> QED
    BY <1>15, <2>2, <2>3, JournalGrows
<1>18. Cardinality(Entries("CASE_COMPLETED")') = n
  <2>1. IsFiniteSet(Entries("CASE_COMPLETED")) /\ new \notin Entries("CASE_COMPLETED")
    <3>1. /\ IsFiniteSet(Entries("CASE_COMPLETED"))
          /\ Entries("CASE_COMPLETED") \subseteq 1 .. Len(journal)
      BY <1>15, EntriesFinite
    <3>2. Len(journal) \in Nat
      BY <1>15
    <3> QED
      BY <1>16, <3>1, <3>2
  <2>2. Cardinality(Entries("CASE_COMPLETED") \cup {new}) =
          Cardinality(Entries("CASE_COMPLETED")) + 1
    BY <2>1, FS_AddElement
  <2>3. Cardinality(Entries("CASE_COMPLETED")') =
          Cardinality(Entries("CASE_COMPLETED") \cup {new})
    BY <1>17
  <2>4. Cardinality(Entries("CASE_COMPLETED")') = n - 1 + 1
    BY <1>15, <2>2, <2>3
  <2> QED
    BY <1>6, <2>4
<1>19. JournalAgrees'
  <2>1. \A i \in Entries("CASE_STARTED") : i \in DOMAIN journal
    BY DEF Entries
  <2>2. \A c \in Cases : inferred'[c] > 0 =>
          \E i \in Entries("CASE_STARTED")' : journal'[i].case = c
    BY <1>1, <1>15, <1>17, <2>1 DEF JournalAgrees
  <2>3. \A i \in Entries("CASE_COMPLETED")' :
          journal'[i].case = o.cases[Cardinality(UpTo(i)')].case
    <3>1. \A i \in Entries("CASE_COMPLETED") : /\ i \in DOMAIN journal
            /\ journal[i].case = o.cases[Cardinality(UpTo(i))].case
      BY <1>5, <1>15 DEF JournalAgrees, Entries
    <3>2. \A i \in Entries("CASE_COMPLETED") :
            journal'[i].case = o.cases[Cardinality(UpTo(i)')].case
      BY <1>17, <3>1
    <3>3. DOMAIN o.cases = 1 .. n
      BY <1>5 DEF Raw
    <3>4. o.cases[n].case = CasesOf[d][n]
      BY <1>5, <1>6, <3>3 DEF RawSound
    <3>5. journal'[new].case = o.cases[Cardinality(UpTo(new)')].case
      BY <1>15, <1>17, <1>18, <3>4
    <3> QED
      BY <1>17, <3>2, <3>5
  <2>4. Len(raw'.cases) = Cardinality(Entries("CASE_COMPLETED")')
    BY <1>5, <1>18
  <2> QED
    BY <1>5, <1>17, <2>2, <2>3, <2>4 DEF JournalAgrees
<1>20. /\ Cardinality(Entries("CASE_COMPLETED"))' =
            IF phase'[r].pc \in {"last", "completed"}
            THEN phase'[r].index ELSE phase'[r].index - 1
       /\ Entries("RUN_COMPLETED")' = {} /\ phase'[r].pc # "infer"
  BY <1>6, <1>7, <1>8, <1>17, <1>18
<1>21. /\ s.index \in DOMAIN CasesOf[s.document]
       /\ \A q \in Runners \ {r} : ~InRun(q)
       /\ inferred' \in [Cases -> Nat] /\ live' \in [Runners -> Live]
       /\ \A q \in Runners \ {r} : live'[q] = live[q]
       /\ raw' \in Raw \cup {None} /\ RawSound(raw')
  <2>1. s.index \in DOMAIN CasesOf[s.document]
    BY <1>6, <1>7, CasesTyped
  <2> QED
    BY <1>1, <1>2, <1>5, <2>1, RunnerFacts DEF EvalInv, EvaluationTypeOK
<1> QED
  BY <1>1, <1>2, <1>7, <1>9, <1>10, <1>11, <1>13, <1>17, <1>19, <1>20, <1>21, RunStep

(* The results are complete when every case of the document was inferred. *)
LEMMA CompleteRawKeeps ==
  ASSUME EvalInv, NEW r \in Processes, CompleteRaw(r)
  PROVE  EvalInv'
<1>1. /\ r \in Runners /\ phase[r].pc = "last"
      /\ raw' = [phase[r].raw EXCEPT !.completed = TRUE]
      /\ UNCHANGED <<sealed, stops, gate, writes, journal, scores, live, inferred>>
  BY DEF CompleteRaw, At
<1>2. InRun(r) /\ phase[r].pc \in After
  BY <1>1 DEF InRun, Underway, After
<1>0. PICK d \in Documents : d = phase[r].document
  BY <1>1, <1>2, RunnerFacts
<1>3. PICK n \in 1 .. Len(CasesOf[d]) : n = phase[r].index
  BY <1>0, <1>1, <1>2, RunnerFacts DEF Declared
<1>4. PICK o \in Raw : o = phase[r].raw
  BY <1>1, <1>2, RunnerFacts
<1>5. /\ o # None /\ RawSound(o) /\ o.document = d /\ ~o.completed
      /\ Len(o.cases) = n /\ raw = o /\ n = Len(CasesOf[d])
  BY <1>0, <1>1, <1>2, <1>3, <1>4, RunnerFacts, RunnerHolds DEF OnDisk, Declared
<1>6. PICK x : x = [o EXCEPT !.completed = TRUE]
  OBVIOUS
<1>7. /\ x \in Raw /\ x.cases = o.cases /\ x.document = d /\ x.ran = o.ran
      /\ x.completed /\ raw' = x
  BY <1>1, <1>4, <1>5, <1>6 DEF Raw
<1>8. RawSound(x) /\ x # None
  <2>1. RawSound(x)
    BY <1>5, <1>7 DEF RawSound
  <2> QED
    BY <1>7, <2>1, EvaluationAssumption
<1> DEFINE s == [phase[r] EXCEPT !.pc = "completed"]
<1>9. s = [phase[r] EXCEPT !.pc = "completed"] /\ Becomes(r, s)
  BY DEF CompleteRaw, Goto
<1> HIDE DEF s
<1>10. /\ s \in Place /\ s.pc = "completed" /\ s.document = d
       /\ s.index = n /\ s.metadata = phase[r].metadata /\ s.raw = o
  BY <1>0, <1>1, <1>2, <1>3, <1>4, <1>9, RunnerFacts, GotoTyped
<1>11. phase'[r] = s
  BY <1>9, <1>10, Becoming DEF EvalInv, EvaluationTypeOK
<1>12. "completed" \in Underway /\ "completed" \in After
  BY DEF Underway, After
<1>13. PlaceInv(r)' /\ InRun(r)'
  BY <1>0, <1>1, <1>2, <1>5, <1>10, <1>11, <1>12, RunnerFacts, RunnerHolds, RunnerPlace
<1>14. raw' = OnDisk(r)'
  BY <1>6, <1>7, <1>10, <1>11 DEF OnDisk
<1>15. LiveInv(r)' /\ live[r].stage = "idle"
  BY <1>1, <1>2, RunnerFacts DEF LiveInv, LiveSound
<1>16. BegunCases(r)' = BegunCases(r) /\ BegunCases(r) = {CasesOf[d][j] : j \in 1 .. n}
  <2>1. Begun(r) = n /\ Begun(r)' = n
    BY <1>2, <1>3, <1>10, <1>11, <1>12 DEF Begun
  <2>2. Declared(r)' = CasesOf[d] /\ Declared(r) = CasesOf[d]
    BY <1>0, <1>10, <1>11 DEF Declared
  <2> QED
    BY <2>1, <2>2 DEF BegunCases
<1>17. /\ InferredOnce' /\ ~Finalized
       /\ \A c \in Cases : inferred'[c] = IF c \in BegunCases(r)' THEN 1 ELSE 0
  BY <1>1, <1>2, <1>5, <1>16 DEF EvalInv, InferredInv, InferredOnce, Finalized
<1>18. Finalized' => \A c \in Range(CasesOf[raw'.document]) : inferred'[c] = 1
  <2>1. Range(CasesOf[d]) \subseteq BegunCases(r)' /\ Range(CasesOf[d]) \subseteq Cases
    BY <1>5, <1>16, CasesTyped DEF Range, Cases
  <2> QED
    BY <1>7, <1>17, <2>1
<1>19. /\ journal \in Seq(Event) /\ journal # <<>> /\ JournalAgrees /\ journal' = journal
       /\ Cardinality(Entries("CASE_COMPLETED")) = n /\ Entries("RUN_COMPLETED") = {}
  BY <1>1, <1>2, <1>3, RunnerFacts DEF EvalInv, EvaluationTypeOK, JournalInv
<1>20. \A kind : Entries(kind)' = Entries(kind)
  BY <1>19 DEF Entries
<1>21. JournalAgrees'
  <2>1. \A i : UpTo(i)' = UpTo(i)
    BY <1>19, <1>20 DEF UpTo, Entries
  <2>2. /\ \A c \in Cases : inferred[c] > 0 =>
             \E i \in Entries("CASE_STARTED") : journal[i].case = c
        /\ \A i \in Entries("CASE_COMPLETED") :
             journal[i].case = o.cases[Cardinality(UpTo(i))].case
    BY <1>5, <1>19 DEF JournalAgrees
  <2>3. \A c \in Cases : inferred'[c] > 0 =>
          \E i \in Entries("CASE_STARTED")' : journal'[i].case = c
    BY <1>1, <1>19, <1>20, <2>2
  <2>4. \A i \in Entries("CASE_COMPLETED")' :
          journal'[i].case = raw'.cases[Cardinality(UpTo(i)')].case
    BY <1>7, <1>19, <1>20, <2>1, <2>2
  <2>5. Len(raw'.cases) = Cardinality(Entries("CASE_COMPLETED")')
    BY <1>5, <1>7, <1>19, <1>20
  <2> QED
    BY <1>7, <1>8, <1>19, <1>20, <2>3, <2>4, <2>5 DEF JournalAgrees
<1>22. /\ Cardinality(Entries("CASE_COMPLETED"))' = phase'[r].index
       /\ Entries("RUN_COMPLETED")' = {} /\ phase'[r].pc = "completed"
  BY <1>10, <1>11, <1>19, <1>20
<1>23. /\ s.index \in DOMAIN CasesOf[s.document]
       /\ \A q \in Runners \ {r} : ~InRun(q)
       /\ inferred' \in [Cases -> Nat] /\ live' \in [Runners -> Live]
       /\ \A q \in Runners \ {r} : live'[q] = live[q]
       /\ raw' \in Raw \cup {None} /\ RawSound(raw')
       /\ journal' \in Seq(Event) /\ journal' # <<>>
  <2>1. s.index \in DOMAIN CasesOf[s.document]
    BY <1>10, CasesTyped
  <2> QED
    BY <1>1, <1>2, <1>7, <1>8, <1>19, <2>1, RunnerFacts DEF EvalInv, EvaluationTypeOK
<1> QED
  BY <1>1, <1>2, <1>9, <1>10, <1>13, <1>14, <1>15, <1>17, <1>18, <1>21, <1>22, <1>23, RunStep

LEMMA CompleteRunKeeps ==
  ASSUME EvalInv, NEW r \in Processes, CompleteRun(r)
  PROVE  EvalInv'
<1>1. /\ r \in Runners /\ phase[r].pc = "completed"
      /\ UNCHANGED <<sealed, stops, gate, writes, raw, scores, live, inferred>> /\ Becomes(r, Fresh)
  BY DEF CompleteRun, At
<1>2. InRun(r)
  BY <1>1 DEF InRun, Underway
<1>3. phase'[r] = Fresh
  BY <1>1, Becoming, FreshTyped DEF EvalInv, EvaluationTypeOK
<1>4. PlaceInv(r)' /\ ~InRun(r)'
  BY <1>3 DEF PlaceInv, Fresh, Underway, Checked, Labelled, InRun
<1>5. PICK o \in Raw : o = phase[r].raw
  BY <1>1, <1>2, RunnerFacts
<1>6. raw \in Raw /\ raw # None /\ raw.completed /\ RawSound(raw)
  <2>1. raw = [o EXCEPT !.completed = TRUE]
    BY <1>1, <1>2, <1>5, RunnerFacts DEF OnDisk
  <2>2. raw \in Raw /\ raw.completed
    BY <1>5, <2>1 DEF Raw
  <2>3. raw # None
    BY <2>2, EvaluationAssumption
  <2> QED
    BY <2>2, <2>3 DEF EvalInv, RunInv
<1>7. PICK e \in Event : e = [event |-> "RUN_COMPLETED", case |-> None]
  BY DEF Event
<1>8. /\ journal \in Seq(Event) /\ JournalAgrees /\ journal' = Append(journal, e)
      /\ e.event = "RUN_COMPLETED"
  BY <1>7 DEF CompleteRun, Append1, EvalInv, EvaluationTypeOK, JournalInv
<1>9. /\ journal' \in Seq(Event) /\ journal' # <<>>
      /\ Entries("CASE_COMPLETED")' = Entries("CASE_COMPLETED")
      /\ Entries("CASE_STARTED")' = Entries("CASE_STARTED")
      /\ \A i \in DOMAIN journal : journal'[i] = journal[i] /\ UpTo(i)' = UpTo(i)
  <2>1. \A kind : Entries(kind)' =
          Entries(kind) \cup (IF e.event = kind THEN {Len(journal) + 1} ELSE {})
    BY <1>8, JournalGrows
  <2>2. Entries("CASE_COMPLETED")' = Entries("CASE_COMPLETED") \cup {}
        /\ Entries("CASE_STARTED")' = Entries("CASE_STARTED") \cup {}
    BY <1>8, <2>1
  <2> QED
    BY <1>8, <2>2, JournalGrows
<1>10. JournalAgrees'
  <2>1. \A kind : \A i \in Entries(kind) : i \in DOMAIN journal
    BY DEF Entries
  <2>2. \A c \in Cases : inferred'[c] > 0 =>
          \E i \in Entries("CASE_STARTED")' : journal'[i].case = c
    BY <1>1, <1>8, <1>9, <2>1 DEF JournalAgrees
  <2>3. \A i \in Entries("CASE_COMPLETED") :
          journal[i].case = raw.cases[Cardinality(UpTo(i))].case
    BY <1>6, <1>8 DEF JournalAgrees
  <2>4. \A i \in Entries("CASE_COMPLETED")' :
          journal'[i].case = raw'.cases[Cardinality(UpTo(i)')].case
    BY <1>1, <1>9, <2>1, <2>3
  <2>5. Len(raw.cases) \in {Cardinality(Entries("CASE_COMPLETED")),
                            Cardinality(Entries("CASE_COMPLETED")) + 1}
    BY <1>6, <1>8 DEF JournalAgrees
  <2>6. Len(raw'.cases) \in {Cardinality(Entries("CASE_COMPLETED")'),
                             Cardinality(Entries("CASE_COMPLETED")') + 1}
    BY <1>1, <1>9, <2>5
  <2> QED
    BY <1>1, <1>6, <2>2, <2>4, <2>6 DEF JournalAgrees
<1>11. LiveInv(r)'
  BY <1>1, <1>2, RunnerFacts DEF LiveInv, LiveSound
<1>12. /\ InferredOnce' /\ (Finalized' => \A c \in Range(CasesOf[raw'.document]) : inferred'[c] = 1)
       /\ \A q \in Runners \ {r} : ~InRun(q)
  BY <1>1, <1>2, RunnerFacts DEF EvalInv, InferredInv, InferredOnce, Finalized
<1>13. /\ inferred' \in [Cases -> Nat] /\ live' \in [Runners -> Live]
       /\ \A q \in Runners \ {r} : live'[q] = live[q]
       /\ raw' \in Raw \cup {None} /\ RawSound(raw')
  BY <1>1, <1>6 DEF EvalInv, EvaluationTypeOK
<1>14. Fresh.document \notin Documents
  BY FreshTyped, EvaluationAssumption
<1> QED
  BY <1>1, <1>2, <1>4, <1>9, <1>10, <1>11, <1>12, <1>13, <1>14, FreshTyped, RunStep
-----------------------------------------------------------------------------
(* SCORE *)
LEMMA Classified ==
  ASSUME NEW label \in Labels, NEW result \in Result
  PROVE  /\ ClassifyResult(label, result) \in Category
         /\ ClassifyResult(label, result) \in {"SUPPORTED_POSITIVE", "MISSED_POSITIVE"} =>
              label = "POSITIVE"
         /\ ClassifyResult(label, result) \in {"EXPECTED_ABSTENTION", "INCORRECT_SUPPORT"} =>
              label = "NEGATIVE_CONTROL"
         /\ ClassifyResult(label, result) \in {"SUPPORTED_POSITIVE", "INCORRECT_SUPPORT"} =>
              result.outcome = "CLAIM_SUPPORTED_FOR_SCENARIO"
         /\ ClassifyResult(label, result) \in {"INVALID_PROVIDER_MODEL",
              "INVALID_CLAIM_OUTPUT", "INVALID_HARNESS"} <=> result.terminal \in Unevaluated
         /\ ClassifyResult(label, result) = "INVALID_ENVIRONMENT" <=>
              result.terminal = "ENVIRONMENT_NOT_READY"
<1> DEFINE invalid == InvalidClassification(result.terminal)
<1>1. /\ invalid \in {"INVALID_ENVIRONMENT", "INVALID_PROVIDER_MODEL", "INVALID_CLAIM_OUTPUT",
                      "INVALID_HARNESS", None}
      /\ None \notin Category
      /\ invalid \in {"INVALID_PROVIDER_MODEL", "INVALID_CLAIM_OUTPUT",
                      "INVALID_HARNESS"} <=> result.terminal \in Unevaluated
      /\ invalid = "INVALID_ENVIRONMENT" <=> result.terminal = "ENVIRONMENT_NOT_READY"
  BY EvaluationAssumption DEF InvalidClassification, Unevaluated, Category
<1>2. ClassifyResult(label, result) =
        IF invalid # None THEN invalid
        ELSE IF label = "NEGATIVE_CONTROL"
             THEN IF result.outcome = "CLAIM_SUPPORTED_FOR_SCENARIO"
                  THEN "INCORRECT_SUPPORT" ELSE "EXPECTED_ABSTENTION"
             ELSE IF result.outcome = "CLAIM_SUPPORTED_FOR_SCENARIO"
                  THEN "SUPPORTED_POSITIVE" ELSE "MISSED_POSITIVE"
  BY DEF ClassifyResult
<1> HIDE DEF invalid
<1> QED
  BY <1>1, <1>2 DEF Category, Labels

(* Every case is counted once. *)
LEMMA Apart ==
  ASSUME NEW S, IsFiniteSet(S), NEW T, IsFiniteSet(T), S \cap T = {}
  PROVE  IsFiniteSet(S \cup T) /\ Cardinality(S \cup T) = Cardinality(S) + Cardinality(T)
<1>1. Cardinality(S \cap T) = 0
  BY FS_EmptySet
<1>2. Cardinality(S \cup T) = Cardinality(S) + Cardinality(T) - Cardinality(S \cap T)
      /\ IsFiniteSet(S \cup T)
  BY FS_Union
<1>3. Cardinality(S) \in Nat /\ Cardinality(T) \in Nat
  BY FS_CardinalityType
<1> QED
  BY <1>1, <1>2, <1>3

LEMMA CountedOnce ==
  ASSUME NEW n \in Nat, NEW of \in [1 .. n -> Category], NEW counts,
         \A c \in Category : counts[c] = Cardinality({i \in 1 .. n : of[i] = c})
  PROVE  Total(counts) = n /\ \A c \in Category : counts[c] \in Nat
<1> DEFINE S(c) == {i \in 1 .. n : of[i] = c}
<1>1. \A c : IsFiniteSet(S(c)) /\ Cardinality(S(c)) \in Nat
  <2>1. IsFiniteSet(1 .. n)
    BY FS_Interval
  <2> QED
    BY <2>1, FS_Subset, FS_CardinalityType
<1>2. \A c \in Category : counts[c] = Cardinality(S(c))
  OBVIOUS
<1>3. \A c, e : c # e => S(c) \cap S(e) = {}
  OBVIOUS
<1>4. 1 .. n = S("SUPPORTED_POSITIVE") \cup S("MISSED_POSITIVE")
                 \cup S("EXPECTED_ABSTENTION") \cup S("INCORRECT_SUPPORT")
                 \cup S("INVALID_ENVIRONMENT") \cup S("INVALID_PROVIDER_MODEL")
                 \cup S("INVALID_CLAIM_OUTPUT") \cup S("INVALID_HARNESS")
  BY DEF Category
<1>5. Cardinality(1 .. n) = n
  BY FS_Interval
<1> HIDE DEF S
<1> DEFINE A == S("SUPPORTED_POSITIVE")   B == S("MISSED_POSITIVE")
           C == S("EXPECTED_ABSTENTION")  D == S("INCORRECT_SUPPORT")
           E == S("INVALID_ENVIRONMENT")  F == S("INVALID_PROVIDER_MODEL")
           G == S("INVALID_CLAIM_OUTPUT") H == S("INVALID_HARNESS")
<1>6. /\ A \cap B = {} /\ (A \cup B) \cap C = {} /\ (A \cup B \cup C) \cap D = {}
      /\ (A \cup B \cup C \cup D) \cap E = {}
      /\ (A \cup B \cup C \cup D \cup E) \cap F = {}
      /\ (A \cup B \cup C \cup D \cup E \cup F) \cap G = {}
      /\ (A \cup B \cup C \cup D \cup E \cup F \cup G) \cap H = {}
  <2>1. A \cap B = {}
    BY <1>3
  <2>2. A \cap C = {} /\ B \cap C = {}
    BY <1>3
  <2>3. A \cap D = {} /\ B \cap D = {} /\ C \cap D = {}
    BY <1>3
  <2>4. A \cap E = {} /\ B \cap E = {} /\ C \cap E = {} /\ D \cap E = {}
    BY <1>3
  <2>5. A \cap F = {} /\ B \cap F = {} /\ C \cap F = {} /\ D \cap F = {} /\ E \cap F = {}
    BY <1>3
  <2>6. A \cap G = {} /\ B \cap G = {} /\ C \cap G = {} /\ D \cap G = {} /\ E \cap G = {}
        /\ F \cap G = {}
    BY <1>3
  <2>7. A \cap H = {} /\ B \cap H = {} /\ C \cap H = {} /\ D \cap H = {} /\ E \cap H = {}
        /\ F \cap H = {} /\ G \cap H = {}
    BY <1>3
  <2> HIDE DEF A, B, C, D, E, F, G, H
  <2> QED
    BY <2>1, <2>2, <2>3, <2>4, <2>5, <2>6, <2>7
<1>7. /\ IsFiniteSet(A) /\ IsFiniteSet(B) /\ IsFiniteSet(C) /\ IsFiniteSet(D)
      /\ IsFiniteSet(E) /\ IsFiniteSet(F) /\ IsFiniteSet(G) /\ IsFiniteSet(H)
  BY <1>1
<1>8. /\ Cardinality(A) \in Nat /\ Cardinality(B) \in Nat /\ Cardinality(C) \in Nat
      /\ Cardinality(D) \in Nat /\ Cardinality(E) \in Nat /\ Cardinality(F) \in Nat
      /\ Cardinality(G) \in Nat /\ Cardinality(H) \in Nat
  BY <1>1
<1>9. /\ counts.SUPPORTED_POSITIVE = Cardinality(A)
      /\ counts.MISSED_POSITIVE = Cardinality(B)
      /\ counts.EXPECTED_ABSTENTION = Cardinality(C)
      /\ counts.INCORRECT_SUPPORT = Cardinality(D)
      /\ counts.INVALID_ENVIRONMENT = Cardinality(E)
      /\ counts.INVALID_PROVIDER_MODEL = Cardinality(F)
      /\ counts.INVALID_CLAIM_OUTPUT = Cardinality(G)
      /\ counts.INVALID_HARNESS = Cardinality(H)
  BY <1>2 DEF Category
<1>10. 1 .. n = A \cup B \cup C \cup D \cup E \cup F \cup G \cup H
  BY <1>4
<1> HIDE DEF A, B, C, D, E, F, G, H
<1>11. IsFiniteSet(A \cup B) /\ Cardinality(A \cup B) = Cardinality(A) + Cardinality(B)
  BY <1>6, <1>7, Apart
<1>12. IsFiniteSet(A \cup B \cup C)
       /\ Cardinality(A \cup B \cup C) = Cardinality(A \cup B) + Cardinality(C)
  BY <1>6, <1>7, <1>11, Apart
<1>13. IsFiniteSet(A \cup B \cup C \cup D)
       /\ Cardinality(A \cup B \cup C \cup D) = Cardinality(A \cup B \cup C) + Cardinality(D)
  BY <1>6, <1>7, <1>12, Apart
<1>14. IsFiniteSet(A \cup B \cup C \cup D \cup E)
       /\ Cardinality(A \cup B \cup C \cup D \cup E)
            = Cardinality(A \cup B \cup C \cup D) + Cardinality(E)
  BY <1>6, <1>7, <1>13, Apart
<1>15. IsFiniteSet(A \cup B \cup C \cup D \cup E \cup F)
       /\ Cardinality(A \cup B \cup C \cup D \cup E \cup F)
            = Cardinality(A \cup B \cup C \cup D \cup E) + Cardinality(F)
  BY <1>6, <1>7, <1>14, Apart
<1>16. IsFiniteSet(A \cup B \cup C \cup D \cup E \cup F \cup G)
       /\ Cardinality(A \cup B \cup C \cup D \cup E \cup F \cup G)
            = Cardinality(A \cup B \cup C \cup D \cup E \cup F) + Cardinality(G)
  BY <1>6, <1>7, <1>15, Apart
<1>17. Cardinality(A \cup B \cup C \cup D \cup E \cup F \cup G \cup H)
         = Cardinality(A \cup B \cup C \cup D \cup E \cup F \cup G) + Cardinality(H)
  BY <1>6, <1>7, <1>16, Apart
<1>18. Cardinality(A \cup B \cup C \cup D \cup E \cup F \cup G \cup H) = n
  BY <1>5, <1>10
<1>19. Total(counts) = Cardinality(A) + Cardinality(B) + Cardinality(C) + Cardinality(D)
         + Cardinality(E) + Cardinality(F) + Cardinality(G) + Cardinality(H)
  BY <1>9 DEF Total
<1> HIDE DEF S
<1>20. \A c \in Category : counts[c] \in Nat
  BY <1>1, <1>2
<1> QED
  BY <1>8, <1>11, <1>12, <1>13, <1>14, <1>15, <1>16, <1>17, <1>18, <1>19, <1>20

(* Each case of the document is scored with its own result and label. *)
LEMMA ReadLabelsKeeps ==
  ASSUME EvalInv, NEW p \in Processes, ReadLabels(p)
  PROVE  EvalInv'
<1>1. /\ p \in Scorers /\ phase[p].pc = "hashed" /\ p \notin Preparers
      /\ UNCHANGED <<sealed, stops, gate, writes, results, scores, live, inferred>>
  BY EvaluationAssumption DEF ReadLabels, At
<1>2. /\ phase[p] \in Place /\ PlaceInv(p)
      /\ phase[p].document # None /\ phase[p].document \in Documents
      /\ phase[p].index \in DOMAIN CasesOf[phase[p].document]
  BY <1>1, PlaceTyped DEF PlaceInv
<1>3. PICK d \in Documents : d = phase[p].document
  BY <1>2
<1>4. /\ Finalized /\ phase[p].raw = raw /\ raw.document = d /\ raw # None
      /\ phase[p].metadata # None /\ phase[p].metadata.document = d
      /\ Identities(raw.cases) = DOMAIN LabelOf[manifest]
  BY <1>1, <1>2, <1>3 DEF PlaceInv, Finalized, Checked, ReadLabels
<1>5. PICK m \in Manifests : m = manifest
  BY DEF EvalInv, EvaluationTypeOK
<1>24. PICK recorded \in Manifests : recorded = phase[p].metadata.manifest
  BY <1>2, <1>4 DEF Place, Metadata
<1>6. PICK x \in Raw : x = raw
  BY <1>4 DEF EvalInv, EvaluationTypeOK
<1>7. PICK n \in Nat : n = Len(CasesOf[d]) /\ DOMAIN CasesOf[d] = 1 .. n
  BY CasesTyped
<1>8. /\ x.cases \in Seq([case: Cases, result: Result]) /\ x.ran = d
      /\ DOMAIN x.cases = 1 .. n
      /\ \A i \in 1 .. n : x.cases[i].case = CasesOf[d][i] /\ ResultSound(x.cases[i].result)
  <2>1. RawSound(x) /\ x.completed
    BY <1>4, <1>6 DEF EvalInv, RunInv, Finalized
  <2>2. x.cases \in Seq([case: Cases, result: Result])
    BY DEF Raw
  <2>3. Len(x.cases) = n
    BY <1>4, <1>6, <1>7, <2>1 DEF RawSound
  <2> QED
    BY <1>4, <1>6, <2>1, <2>2, <2>3 DEF RawSound
<1>9. /\ \A i \in 1 .. n : LabelOf[m][CasesOf[d][i]] \in Labels
  <2>1. LabelOf[m] \in [DOMAIN LabelOf[m] -> Labels]
    BY EvaluationAssumption
  <2>2. \A i \in 1 .. n : CasesOf[d][i] \in DOMAIN LabelOf[m]
    BY <1>4, <1>5, <1>6, <1>8 DEF Identities
  <2> QED
    BY <2>1, <2>2
<1>10. \A i \in 1 .. n : /\ ResultIn(x.cases, CasesOf[d][i]) \in Result
                         /\ ResultSound(ResultIn(x.cases, CasesOf[d][i]))
  <2>1. SUFFICES ASSUME NEW i \in 1 .. n
                 PROVE  /\ ResultIn(x.cases, CasesOf[d][i]) \in Result
                        /\ ResultSound(ResultIn(x.cases, CasesOf[d][i]))
    OBVIOUS
  <2> DEFINE j == CHOOSE j \in DOMAIN x.cases : x.cases[j].case = CasesOf[d][i]
  <2>2. j \in DOMAIN x.cases
    BY <1>8
  <2>3. ResultIn(x.cases, CasesOf[d][i]) = x.cases[j].result
    BY DEF ResultIn
  <2> HIDE DEF j
  <2>4. x.cases[j] \in [case: Cases, result: Result] /\ ResultSound(x.cases[j].result)
    <3> DEFINE Recorded == [case: Cases, result: Result]
    <3>1. x.cases \in Seq(Recorded)
      BY <1>8
    <3> HIDE DEF Recorded
    <3>3. x.cases[j] \in Recorded
      BY <2>2, <3>1
    <3> USE DEF Recorded
    <3>4. j \in 1 .. n
      BY <1>8, <2>2
    <3>5. ResultSound(x.cases[j].result)
      BY <1>8, <3>4
    <3> QED
      BY <3>3, <3>5
  <2> QED
    BY <2>3, <2>4
<1> DEFINE Score(c) == [case |-> c, label |-> LabelOf[m][c],
                        result |-> ResultIn(x.cases, c),
                        classification |-> ClassifyResult(LabelOf[m][c], ResultIn(x.cases, c))]
           all == [i \in 1 .. n |-> Score(CasesOf[d][i])]
           document == [document |-> d, manifest |-> recorded, ran |-> d, cases |-> all]
           s == [phase[p] EXCEPT !.pc = "labelled", !.scored = document]
<1>11. Becomes(p, s)
  <2>1. /\ Declared(p) = CasesOf[d] /\ phase[p].raw.cases = x.cases
        /\ phase[p].raw.ran = d /\ phase[p].metadata.document = d
        /\ phase[p].metadata.manifest = recorded /\ manifest = m
        /\ DOMAIN CasesOf[d] = 1 .. n
    BY <1>3, <1>4, <1>5, <1>6, <1>7, <1>8, <1>24 DEF Declared
  <2>2. \A c : Score(c) = [case |-> c, label |-> LabelOf[m][c],
                           result |-> ResultIn(phase[p].raw.cases, c),
                           classification |->
                             ClassifyResult(LabelOf[m][c], ResultIn(phase[p].raw.cases, c))]
    BY <2>1
  <2> QED
    BY <2>1 DEF ReadLabels
<1>12. /\ all \in Seq(ScoredCase) /\ Len(all) = n /\ DOMAIN all = 1 .. n
       /\ \A i \in 1 .. n :
            /\ all[i].case = CasesOf[d][i]
            /\ all[i].classification = ClassifyResult(all[i].label, all[i].result)
            /\ ResultSound(all[i].result)
  <2>1. \A i \in 1 .. n : Score(CasesOf[d][i]) \in ScoredCase
    <3>1. SUFFICES ASSUME NEW i \in 1 .. n PROVE Score(CasesOf[d][i]) \in ScoredCase
      OBVIOUS
    <3>2. PICK c \in Cases : c = CasesOf[d][i]
      BY <1>7, CasesTyped
    <3>3. PICK label \in Labels : label = LabelOf[m][c]
      BY <1>9, <3>2
    <3>4. PICK result \in Result : result = ResultIn(x.cases, c)
      BY <1>10, <3>2
    <3>5. ClassifyResult(label, result) \in Category
      BY Classified
    <3> QED
      BY <3>2, <3>3, <3>4, <3>5 DEF ScoredCase
  <2>2. all \in [1 .. n -> ScoredCase]
    BY <2>1
  <2>3. all \in Seq(ScoredCase) /\ Len(all) = n /\ DOMAIN all = 1 .. n
    BY <2>2
  <2> QED
    BY <1>10, <2>3
<1> HIDE DEF all
<1>13. document \in Scored
  BY <1>12 DEF Scored
<1>14. ScoredSound(document)' /\ ScoredSound(document)
  <2>1. raw' = raw
    BY <1>1 DEF results
  <2> QED
    BY <1>4, <1>7, <1>12, <2>1 DEF ScoredSound
<1>15. document # None
  BY <1>13, EvaluationAssumption
<1> HIDE DEF document
<1>19. /\ s \in Place /\ s.pc = "labelled" /\ s.document = d /\ s.index = phase[p].index
       /\ s.metadata = phase[p].metadata /\ s.raw = raw /\ s.scored = document
  BY <1>2, <1>3, <1>4, <1>13 DEF Place
<1>16. PICK t \in Place :
         /\ t = s /\ t.pc = "labelled" /\ t.document = d /\ t.index = phase[p].index
         /\ t.metadata = phase[p].metadata /\ t.raw = raw /\ t.scored = document
  BY <1>19
<1> HIDE DEF s
<1>17. phase'[p] = t /\ Becomes(p, t)
  BY <1>11, <1>16, Becoming DEF EvalInv, EvaluationTypeOK
<1>18. raw' = raw /\ Finalized'
  BY <1>1, <1>4 DEF results, Finalized
<1>20. PlaceInv(p)'
  <2>1. t.pc \notin Underway
    BY <1>16 DEF Underway
  <2>2. ScoredSound(t.scored)'
    BY <1>14, <1>16 DEF ScoredSound
  <2> QED
    BY <1>1, <1>2, <1>3, <1>4, <1>15, <1>16, <1>17, <1>18, <2>1, <2>2
       DEF PlaceInv, Checked, Labelled
<1>21. /\ live' \in [Runners -> Live] /\ \A q \in Runners \ {p} : live'[q] = live[q]
       /\ stops' \in 0 .. MaxStops /\ UNCHANGED <<gate, temp, scores>>
       /\ ~Writing(p) /\ handle' = handle /\ (p \in Runners => live'[p].stage = "idle")
  BY <1>1 DEF EvalInv, EvaluationTypeOK, LiveInv, writes, Writing, WrittenAt
<1>22. /\ t.pc \notin Underway \cup {"scored", "summary"}
       /\ t.index \in DOMAIN CasesOf[t.document]
  BY <1>2, <1>3, <1>16 DEF Underway
<1> QED
  BY <1>1, <1>16, <1>17, <1>20, <1>21, <1>22, QuietStep

(* A summary counts what its process scored, each case once. *)
LEMMA SummaryFits ==
  ASSUME EvalInv, NEW p \in Processes, phase[p].pc = "revealed"
  PROVE  LET counts == ScoreSummary(phase[p].scored.cases)
         IN  counts \in [Category -> Nat] /\ Fits("summary", counts)
<1>2. /\ phase[p] \in Place /\ Finalized /\ phase[p].scored # None
      /\ ScoredSound(phase[p].scored)
  BY PlaceTyped DEF PlaceInv, Checked, Labelled
<1>3. PICK x \in Scored : x = phase[p].scored
  BY <1>2 DEF Place
<1>4. /\ x.cases \in Seq(ScoredCase) /\ Len(x.cases) = Len(CasesOf[raw.document])
      /\ \A i \in DOMAIN x.cases :
           x.cases[i].classification = ClassifyResult(x.cases[i].label, x.cases[i].result)
  BY <1>2, <1>3 DEF ScoredSound, Scored
<1>5. PICK n \in Nat : n = Len(x.cases) /\ DOMAIN x.cases = 1 .. n
  BY <1>4
<1> DEFINE of == [i \in 1 .. n |-> x.cases[i].classification]
           counts == ScoreSummary(x.cases)
<1>6. \A i \in 1 .. n : /\ x.cases[i].classification \in Category
                        /\ \A c \in DOMAIN Sided :
                             x.cases[i].classification = c => x.cases[i].label = Sided[c]
  <2>1. SUFFICES ASSUME NEW i \in 1 .. n
                 PROVE  /\ x.cases[i].classification \in Category
                        /\ \A c \in DOMAIN Sided :
                             x.cases[i].classification = c => x.cases[i].label = Sided[c]
    OBVIOUS
  <2>2. PICK e \in ScoredCase : e = x.cases[i]
    BY <1>4, <1>5
  <2>3. /\ e.label \in Labels /\ e.result \in Result
        /\ e.classification = ClassifyResult(e.label, e.result)
        /\ e.classification \in Category
    BY <1>4, <1>5, <2>2 DEF ScoredCase
  <2>4. /\ e.classification \in {"SUPPORTED_POSITIVE", "MISSED_POSITIVE"} =>
             e.label = "POSITIVE"
        /\ e.classification \in {"EXPECTED_ABSTENTION", "INCORRECT_SUPPORT"} =>
             e.label = "NEGATIVE_CONTROL"
    BY <2>3, Classified
  <2>5. \A c \in DOMAIN Sided :
          \/ c \in {"SUPPORTED_POSITIVE", "MISSED_POSITIVE"} /\ Sided[c] = "POSITIVE"
          \/ /\ c \in {"EXPECTED_ABSTENTION", "INCORRECT_SUPPORT"}
             /\ Sided[c] = "NEGATIVE_CONTROL"
    BY DEF Sided
  <2> QED
    BY <2>2, <2>3, <2>4, <2>5
<1>7. of \in [1 .. n -> Category]
  BY <1>6
<1>8. counts = [c \in Category |->
         Cardinality({i \in 1 .. n : /\ x.cases[i].classification = c
                                     /\ c \in DOMAIN Sided => x.cases[i].label = Sided[c]})]
  BY <1>5 DEF ScoreSummary
<1>9. \A c \in Category : counts[c] = Cardinality({i \in 1 .. n : of[i] = c})
  <2>1. SUFFICES ASSUME NEW c \in Category
                 PROVE  counts[c] = Cardinality({i \in 1 .. n : of[i] = c})
    OBVIOUS
  <2>2. {i \in 1 .. n : /\ x.cases[i].classification = c
                        /\ c \in DOMAIN Sided => x.cases[i].label = Sided[c]}
          = {i \in 1 .. n : of[i] = c}
    BY <1>6
  <2> HIDE DEF counts, of
  <2> QED
    BY <1>8, <2>2
<1> HIDE DEF of
<1>10. DOMAIN counts = Category /\ counts = [c \in Category |-> counts[c]]
  BY <1>8
<1> HIDE DEF counts
<1>11. Total(counts) = n /\ \A c \in Category : counts[c] \in Nat
  BY <1>7, <1>9, CountedOnce
<1>12. counts \in [Category -> Nat]
  BY <1>10, <1>11
<1> QED
  BY <1>2, <1>3, <1>4, <1>5, <1>11, <1>12 DEF Fits, counts
-----------------------------------------------------------------------------
(* Which of the processes write, and have something open, is theirs alone. *)
LEMMA OpenKeeps == ASSUME EvalInv, NEW p \in Processes, OpenTemp(p) PROVE EvalInv'
<1>1. /\ Writing(p) /\ handle[p] = "closed" /\ temp' = [temp EXCEPT ![Target(p)] = Empty]
      /\ handle' = [handle EXCEPT ![p] = "temp"]
      /\ UNCHANGED <<sealed, stops, gate, results, scores, phase, live, inferred>>
  BY DEF OpenTemp
<1>2. /\ UNCHANGED <<public, metadata, scored, summary, raw>>
      /\ EvaluationTypeOK /\ FilesInv /\ WriteInv /\ PlaceInv(p)
  BY <1>1 DEF gate, scores, results, EvalInv
<1>3. /\ Target(p) \in Targets /\ phase[p].pc \notin Targets
      /\ p \in Runners => live[p].stage = "idle"
  BY <1>1, WriterFacts DEF Targets, Writing, WrittenAt
<1>4. FilesInv'
  <2>1. /\ DOMAIN temp' = Targets
        /\ \A t \in Targets : temp'[t] = temp[t] \/ Fits(t, temp'[t])
    BY <1>1, <1>2, <1>3 DEF FilesInv, Fits, Spoilt
  <2> QED
    BY <1>2, <2>1, FilesStep
<1>5. /\ handle \in [Processes -> Handle] /\ handle' \in [Processes -> Handle]
      /\ handle'[p] = "temp" /\ \A q \in Processes \ {p} : handle'[q] = handle[q]
  BY <1>1, <1>2 DEF EvaluationTypeOK, Handle
<1>6. WriteInv'
  <2>1. \A q \in Processes : handle'[q] # "closed" => Writing(q)'
    BY <1>1, <1>2, <1>5 DEF WriteInv, Writing
  <2>2. ASSUME OneScore, NEW q \in Scorers
        PROVE  /\ handle'[q] \in {"closed", "temp"}
               /\ handle'[q] = "temp" => temp'[Target(q)'] = Empty
               /\ phase'[q].pc \in {"scored", "summary"} => temp'[phase'[q].pc] \notin Spoilt
    <3>0. q \in Processes /\ DOMAIN temp = Targets
      BY <1>2 DEF Processes, FilesInv
    <3>1. CASE q = p
      BY <1>1, <1>3, <1>5, <3>0, <3>1 DEF Target, Targets
    <3>2. CASE q # p
      <4>1. p \in Preparers /\ Target(p) \in {"public", "metadata"}
        BY <1>1, <2>2, <3>2, WriterFacts DEF OneScore
      <4>2. handle[q] = "temp" => Target(q) \in {"scored", "summary"}
        BY <1>2, <2>2, <3>0, WriterFacts, EvaluationAssumption DEF WriteInv
      <4>3. Target(q)' = Target(q) /\ phase'[q] = phase[q] /\ handle'[q] = handle[q]
        BY <1>1, <1>5, <3>0, <3>2 DEF Target
      <4> QED
        BY <1>1, <1>2, <2>2, <3>0, <4>1, <4>2, <4>3 DEF WriteInv, Targets
    <3> QED
      BY <3>1, <3>2
  <2>3. OneScore => ScoresAreWhole'
    BY <1>2 DEF WriteInv, ScoresAreWhole
  <2> QED
    BY <2>1, <2>2, <2>3 DEF WriteInv, OneScore
<1>7. PICK s \in Place : s = phase[p]
  BY <1>2 DEF EvaluationTypeOK
<1>8. Becomes(p, s) /\ s.pc \notin Underway
  BY <1>1, <1>2, <1>7 DEF Becomes, EvaluationTypeOK, Writing, WrittenAt, Underway
<1>9. PlaceInv(p)'
  BY <1>1, <1>2, PlaceKept
<1>10. s.document # None => s.index \in DOMAIN CasesOf[s.document]
  BY <1>7, PlaceTyped
<1> QED
  BY <1>1, <1>2, <1>3, <1>4, <1>5, <1>6, <1>7, <1>8, <1>9, <1>10, OutsideStep
     DEF EvaluationTypeOK

(* A process overwrites what it has open, and closes it. *)
LEMMA OverwriteKeeps ==
  ASSUME EvalInv, NEW p \in Processes, Writing(p), handle[p] # "closed",
         NEW x, Fits(Target(p), x), Overwrite(p, x), Finalized => raw' = raw,
         handle' = [handle EXCEPT ![p] = "closed"], NEW s \in Place, Becomes(p, s),
         s.pc \in {"scored", "summary"} =>
           s.pc = Target(p) /\ (OneScore => x \notin Spoilt)
  PROVE  FilesInv' /\ WriteInv' /\ handle' \in [Processes -> Handle]
<1>1. /\ EvaluationTypeOK /\ FilesInv /\ WriteInv /\ DOMAIN temp = Targets
  BY DEF EvalInv, FilesInv
<1>2. /\ Target(p) \in Targets
      /\ \/ p \in Preparers /\ Target(p) \in {"public", "metadata"}
         \/ p \in Scorers /\ Target(p) \in {"scored", "summary"}
  BY WriterFacts DEF Targets
<1>3. /\ handle \in [Processes -> Handle] /\ handle' \in [Processes -> Handle]
      /\ handle'[p] = "closed" /\ \A q \in Processes \ {p} : handle'[q] = handle[q]
  BY <1>1 DEF EvaluationTypeOK, Handle
<1>4. phase'[p] = s /\ \A q \in Processes \ {p} : phase'[q] = phase[q]
  BY <1>1, Becoming DEF EvaluationTypeOK
<1>5. /\ DOMAIN temp' = Targets /\ temp'[Target(p)] \in {x, temp[Target(p)]}
      /\ \A t \in Targets \ {Target(p)} : temp'[t] = temp[t]
      /\ handle[p] = "temp" => temp'[Target(p)] = x
  BY <1>1, <1>2 DEF Overwrite
<1>6. \/ Put(Target(p), x)
      \/ UNCHANGED <<public, metadata, scored, summary>>
  BY DEF Overwrite, gate, scores
<1>7. FilesInv'
  <2>1. /\ public' = public \/ Fits("public", public')
        /\ metadata' = metadata \/ Fits("metadata", metadata')
        /\ scored' = scored \/ Fits("scored", scored')
        /\ summary' = summary \/ Fits("summary", summary')
    BY <1>2, <1>6, PutFits
  <2>2. \A t \in Targets : temp'[t] = temp[t] \/ Fits(t, temp'[t])
    BY <1>2, <1>5
  <2> QED
    BY <1>1, <1>5, <2>1, <2>2, FilesStep
<1>8. WriteInv'
  <2>1. \A q \in Processes : handle'[q] # "closed" => Writing(q)'
    BY <1>1, <1>3, <1>4 DEF WriteInv, Writing
  <2>2. ASSUME OneScore, NEW q \in Scorers
        PROVE  /\ handle'[q] \in {"closed", "temp"}
               /\ handle'[q] = "temp" => temp'[Target(q)'] = Empty
               /\ phase'[q].pc \in {"scored", "summary"} => temp'[phase'[q].pc] \notin Spoilt
    <3>0. q \in Processes
      BY DEF Processes
    <3>1. CASE q = p
      <4>1. handle[p] = "temp"
        BY <1>1, <2>2, <3>1 DEF WriteInv
      <4> QED
        BY <1>3, <1>4, <1>5, <2>2, <3>1, <4>1
    <3>2. CASE q # p
      <4>1. Target(p) \in {"public", "metadata"}
        BY <1>2, <2>2, <3>2 DEF OneScore
      <4>2. handle[q] = "temp" => Target(q) \in {"scored", "summary"}
        BY <1>1, <2>2, <3>0, WriterFacts, EvaluationAssumption DEF WriteInv
      <4>3. Target(q)' = Target(q) /\ phase'[q] = phase[q] /\ handle'[q] = handle[q]
        BY <1>3, <1>4, <3>0, <3>2 DEF Target
      <4> QED
        BY <1>1, <1>5, <2>2, <3>0, <4>1, <4>2, <4>3 DEF WriteInv, Targets
    <3> QED
      BY <3>1, <3>2
  <2>3. ASSUME OneScore PROVE ScoresAreWhole'
    <3>1. CASE UNCHANGED <<scored, summary>>
      BY <1>1, <2>3, <3>1 DEF WriteInv, ScoresAreWhole
    <3>2. CASE p \in Preparers /\ Target(p) \in {"public", "metadata"}
      <4>1. UNCHANGED <<scored, summary>>
        BY <1>6, <3>2 DEF Put
      <4> QED
        BY <3>1, <4>1
    <3>3. CASE p \in Scorers
      <4>1. handle[p] = "temp"
        BY <1>1, <2>3, <3>3 DEF WriteInv
      <4>2. UNCHANGED <<scored, summary>>
        BY <4>1 DEF Overwrite, scores
      <4> QED
        BY <3>1, <4>2
    <3> QED
      BY <1>2, <3>2, <3>3
  <2> QED
    BY <2>1, <2>2, <2>3 DEF WriteInv, OneScore
<1> QED
  BY <1>3, <1>7, <1>8

LEMMA WriteFailsKeeps == ASSUME EvalInv, NEW p \in Processes, WriteFails(p) PROVE EvalInv'
<1>1. /\ Writing(p) /\ handle[p] # "closed" /\ Overwrite(p, Mixed) /\ Becomes(p, Fresh)
      /\ handle' = [handle EXCEPT ![p] = "closed"]
      /\ UNCHANGED <<sealed, results, live, inferred>> /\ stops' \in 0 .. MaxStops
      /\ Fits(Target(p), Mixed)
  BY EvaluationAssumption DEF WriteFails, Cut, EvalInv, EvaluationTypeOK, Fits, Spoilt
<1>2. FilesInv' /\ WriteInv' /\ handle' \in [Processes -> Handle]
  BY <1>1, FreshTyped, OverwriteKeeps DEF results
<1>3. phase'[p] = Fresh
  BY <1>1, Becoming, FreshTyped DEF EvalInv, EvaluationTypeOK
<1>4. PlaceInv(p)'
  BY <1>3 DEF PlaceInv, Fresh, Underway, Checked, Labelled
<1>5. /\ live' \in [Runners -> Live] /\ (\A r \in Runners \ {p} : live'[r] = live[r])
      /\ p \in Runners => live'[p].stage = "idle"
  BY <1>1, WriterFacts DEF EvalInv, EvaluationTypeOK
<1>6. Fresh.pc \notin Underway
  BY FreshTyped DEF Underway
<1> QED
  BY <1>1, <1>2, <1>4, <1>5, <1>6, FreshTyped, OutsideStep

(* What each process fills its file with is what may be in it. *)
LEMMA FillKeeps ==
  ASSUME EvalInv, NEW p \in Processes,
         FillPublic(p) \/ FillMetadata(p) \/ FillScored(p) \/ FillSummary(p)
  PROVE  EvalInv'
<1>1. PICK x : /\ Fill(p, x)
               /\ \/ phase[p].pc = "built" /\ x = phase[p].document
                  \/ /\ phase[p].pc = "written"
                     /\ x = [document |-> phase[p].document, manifest |-> phase[p].manifest]
                  \/ phase[p].pc = "labelled" /\ x = phase[p].scored
                  \/ phase[p].pc = "revealed" /\ x = ScoreSummary(phase[p].scored.cases)
  BY DEF FillPublic, FillMetadata, FillScored, FillSummary, At
<1>2. /\ Writing(p) /\ handle[p] # "closed"
      /\ handle' = [handle EXCEPT ![p] = "closed"] /\ Goto(p, Target(p))
      /\ UNCHANGED <<sealed, stops, results, live, inferred>> /\ raw' = raw
  BY <1>1 DEF Fill, results
<1>3. /\ phase[p] \in Place /\ PlaceInv(p) /\ (p \in Runners => live[p].stage = "idle")
      /\ phase[p].document # None /\ phase[p].index \in DOMAIN CasesOf[phase[p].document]
      /\ phase[p].document \in Documents
  BY <1>2, WriterFacts, PlaceTyped
<1>4. Fits(Target(p), x) /\ (phase[p].pc \in {"labelled", "revealed"} => x \notin Spoilt)
  <2>1. CASE phase[p].pc = "built"
    BY <1>1, <1>3, <2>1 DEF Target, WrittenAt, Fits
  <2>2. CASE phase[p].pc = "written"
    <3>1. p \in Preparers
      BY <2>2, PlaceRange DEF Checked, Labelled, Processes, Underway
    <3>2. phase[p].manifest \in Manifests
      BY <1>3, <2>2, <3>1 DEF PlaceInv, Place
    <3> QED
      BY <1>1, <1>3, <2>2, <3>2 DEF Target, WrittenAt, Fits, Metadata
  <2>3. CASE phase[p].pc = "labelled"
    <3>1. x # None /\ ScoredSound(x) /\ Finalized /\ x \in Scored
      BY <1>1, <1>3, <2>3 DEF PlaceInv, Labelled, Checked, Place
    <3> QED
      BY <2>3, <3>1, EvaluationAssumption DEF Target, WrittenAt, Fits
  <2>4. CASE phase[p].pc = "revealed"
    <3>1. x \in [Category -> Nat] /\ Fits("summary", x)
      BY <1>1, <2>4, SummaryFits
    <3> QED
      BY <2>4, <3>1, EvaluationAssumption DEF Target, WrittenAt
  <2> QED
    BY <1>1, <2>1, <2>2, <2>3, <2>4
<1> DEFINE s == [phase[p] EXCEPT !.pc = Target(p)]
<1>5. /\ phase[p].pc \in {"built", "written", "labelled", "revealed"}
      /\ Target(p) = CASE phase[p].pc = "built"    -> "public"
                       [] phase[p].pc = "written"  -> "metadata"
                       [] phase[p].pc = "labelled" -> "scored"
                       [] phase[p].pc = "revealed" -> "summary"
  BY <1>1 DEF Target, WrittenAt
<1>6. /\ s \in Place /\ s.pc = Target(p) /\ s.document = phase[p].document
      /\ s.index = phase[p].index /\ s.manifest = phase[p].manifest
      /\ s.metadata = phase[p].metadata /\ s.raw = phase[p].raw
      /\ s.scored = phase[p].scored
  BY <1>3, <1>5 DEF Place
<1>7. Becomes(p, s)
  BY <1>2 DEF Goto
<1> HIDE DEF s
<1>8. phase'[p] = s
  BY <1>6, <1>7, Becoming DEF EvalInv, EvaluationTypeOK
<1>9. PICK y \in {x, Mixed} : Overwrite(p, y) /\ (y = x \/ Opened(p) # Empty)
  BY <1>1 DEF Fill
<1>10. s.pc \in {"scored", "summary"} =>
         s.pc = Target(p) /\ (OneScore => y \notin Spoilt)
  <2>1. ASSUME s.pc \in {"scored", "summary"}, OneScore, y # x
        PROVE  FALSE
    <3>1. p \in Scorers /\ handle[p] = "temp"
      <4>1. p \in Scorers
        BY <1>2, <1>6, <2>1, WriterFacts
      <4> QED
        BY <1>2, <2>1, <4>1 DEF EvalInv, WriteInv
    <3>2. Opened(p) = Empty
      BY <2>1, <3>1 DEF EvalInv, WriteInv, Opened
    <3> QED
      BY <1>9, <2>1, <3>2
  <2>2. s.pc \in {"scored", "summary"} => x \notin Spoilt
    BY <1>4, <1>5, <1>6
  <2> QED
    BY <1>6, <1>9, <2>1, <2>2
<1>11. FilesInv' /\ WriteInv' /\ handle' \in [Processes -> Handle]
  <2>1. Fits(Target(p), y)
    BY <1>4, <1>9 DEF Fits, Spoilt
  <2> QED
    BY <1>2, <1>6, <1>7, <1>9, <1>10, <2>1, OverwriteKeeps
<1>12. PlaceInv(p)'
  BY <1>2, <1>3, <1>5, <1>6, <1>8
     DEF PlaceInv, Underway, Checked, Labelled, Finalized, ScoredSound
<1>13. live' \in [Runners -> Live] /\ (\A r \in Runners \ {p} : live'[r] = live[r])
       /\ s.pc \notin Underway /\ stops' \in 0 .. MaxStops
  BY <1>2, <1>5, <1>6 DEF EvalInv, EvaluationTypeOK, Underway
<1> QED
  BY <1>2, <1>3, <1>6, <1>7, <1>11, <1>12, <1>13, OutsideStep

LEMMA ReplaceKeeps ==
  ASSUME EvalInv, NEW p \in Processes,
         WritePublic(p) \/ WriteMetadata(p) \/ WriteScored(p) \/ WriteSummary(p)
  PROVE  EvalInv'
<1>1. PICK target \in Targets : Replace(p, target) /\ phase[p].pc = target
  BY DEF WritePublic, WriteMetadata, WriteScored, WriteSummary, Replace, Targets, At
<1>2. /\ Put(target, temp[target]) /\ temp' = [temp EXCEPT ![target] = None]
      /\ UNCHANGED <<sealed, stops, results, live, inferred>> /\ raw' = raw
  BY <1>1 DEF Replace, results
<1>3. /\ phase[p] \in Place /\ PlaceInv(p) /\ (p \in Runners => live[p].stage = "idle")
      /\ phase[p].document # None /\ phase[p].index \in DOMAIN CasesOf[phase[p].document]
  BY <1>1, WriterFacts
<1>4. EvaluationTypeOK /\ FilesInv /\ WriteInv /\ DOMAIN temp = Targets
  BY DEF EvalInv, FilesInv
<1>5. \A q \in Processes :
        handle'[q] = IF Writing(q) /\ Target(q) = target /\ handle[q] # "closed"
                     THEN IF handle[q] = "temp" THEN "file" ELSE "lost"
                     ELSE handle[q]
  BY <1>1 DEF Replace
<1>6. handle' \in [Processes -> Handle]
  <2>1. handle \in [Processes -> Handle]
    BY <1>4 DEF EvaluationTypeOK
  <2>2. \A q \in Processes : handle'[q] \in Handle
    BY <1>5, <2>1 DEF Handle
  <2>3. handle' = [q \in Processes |-> handle'[q]]
    BY <1>1 DEF Replace
  <2> QED
    BY <2>2, <2>3
<1>7. PICK s \in Place :
        /\ Becomes(p, s)
        /\ \/ /\ target \in {"public", "scored"}
              /\ s = [phase[p] EXCEPT !.pc = IF target = "public" THEN "written"
                                             ELSE "revealed"]
           \/ target \in {"metadata", "summary"} /\ s = Fresh
  <2>1. CASE target = "public"
    <3>1. [phase[p] EXCEPT !.pc = "written"] \in Place
      BY <1>3 DEF Place
    <3>2. Goto(p, "written")
      BY <1>1, <2>1 DEF WritePublic, WriteMetadata, WriteScored, WriteSummary, Replace, At
    <3> QED
      BY <2>1, <3>1, <3>2 DEF Goto
  <2>2. CASE target = "scored"
    <3>1. [phase[p] EXCEPT !.pc = "revealed"] \in Place
      BY <1>3 DEF Place
    <3>2. Goto(p, "revealed")
      BY <1>1, <2>2 DEF WritePublic, WriteMetadata, WriteScored, WriteSummary, Replace, At
    <3> QED
      BY <2>2, <3>1, <3>2 DEF Goto
  <2>3. CASE target \in {"metadata", "summary"}
    BY <1>1, <2>3, FreshTyped
       DEF WritePublic, WriteMetadata, WriteScored, WriteSummary, Replace, At
  <2> QED
    BY <2>1, <2>2, <2>3 DEF Targets
<1>8. phase'[p] = s /\ \A q \in Processes \ {p} : phase'[q] = phase[q]
  BY <1>4, <1>7, Becoming DEF EvaluationTypeOK
<1>9. /\ s.pc \in {"written", "revealed", "new"}
      /\ s.document # None => s.index \in DOMAIN CasesOf[s.document]
  BY <1>3, <1>7, FreshTyped DEF Place
<1>10. FilesInv'
  <2>1. Fits(target, temp[target])
    BY <1>4 DEF FilesInv
  <2>2. /\ DOMAIN temp' = Targets
        /\ \A t \in Targets : temp'[t] = temp[t] \/ Fits(t, temp'[t])
    BY <1>2, <1>4 DEF Fits
  <2> QED
    BY <1>2, <1>4, <2>1, <2>2, PutFits, FilesStep
<1>11. WriteInv'
  <2>0. ~Writing(p) /\ handle[p] = "closed" /\ handle'[p] = "closed"
    BY <1>1, <1>4, <1>5 DEF Writing, WrittenAt, Targets, WriteInv
  <2>1. \A q \in Processes : handle'[q] # "closed" => Writing(q)'
    BY <1>4, <1>5, <1>8, <2>0 DEF WriteInv, Writing
  <2>2. \/ p \in Preparers /\ p \notin Scorers /\ target \in {"public", "metadata"}
        \/ p \in Scorers /\ target \in {"scored", "summary"}
    BY <1>1, <2>0, WriterFacts
  <2>3. ASSUME OneScore, NEW q \in Scorers
        PROVE  /\ handle'[q] \in {"closed", "temp"}
               /\ handle'[q] = "temp" => temp'[Target(q)'] = Empty
               /\ phase'[q].pc \in {"scored", "summary"} => temp'[phase'[q].pc] \notin Spoilt
    <3>0. q \in Processes
      BY DEF Processes
    <3>1. CASE q = p
      BY <1>8, <1>9, <2>0, <3>1
    <3>2. CASE q # p
      <4>1. target \in {"public", "metadata"}
        BY <2>2, <2>3, <3>2 DEF OneScore
      <4>2. handle[q] # "closed" => Writing(q) /\ Target(q) \in {"scored", "summary"}
        BY <1>4, <2>3, <3>0, WriterFacts, EvaluationAssumption DEF WriteInv
      <4>3. Target(q)' = Target(q) /\ phase'[q] = phase[q] /\ handle'[q] = handle[q]
        BY <1>5, <1>8, <3>0, <3>2, <4>1, <4>2 DEF Target
      <4> QED
        BY <1>2, <1>4, <2>3, <3>0, <4>1, <4>2, <4>3 DEF WriteInv, Targets
    <3> QED
      BY <3>1, <3>2
  <2>4. ASSUME OneScore PROVE ScoresAreWhole'
    <3>1. scored \notin Spoilt /\ summary \notin Spoilt
      BY <1>4, <2>4 DEF WriteInv, ScoresAreWhole
    <3>2. p \in Scorers => temp[target] \notin Spoilt
      BY <1>1, <1>4, <2>2, <2>4, EvaluationAssumption DEF WriteInv
    <3> QED
      BY <1>2, <2>2, <3>1, <3>2 DEF Put, ScoresAreWhole
  <2> QED
    BY <2>1, <2>3, <2>4 DEF WriteInv, OneScore
<1>12. PlaceInv(p)'
  <2>1. CASE s = Fresh
    BY <1>8, <2>1 DEF PlaceInv, Fresh, Underway, Checked, Labelled
  <2>2. CASE target = "public" /\ s = [phase[p] EXCEPT !.pc = "written"]
    <3>0. p \in Preparers
      BY <1>1, <2>2, PlaceRange DEF Checked, Labelled, Underway
    <3>1. /\ s.pc = "written" /\ s.document = phase[p].document
          /\ s.manifest = phase[p].manifest /\ p \in Preparers
      BY <1>3, <2>2, <3>0 DEF Place
    <3> QED
      BY <1>1, <1>3, <1>8, <2>2, <3>1, PlaceRange
         DEF PlaceInv, Underway, Checked, Labelled
  <2>3. CASE target = "scored" /\ s = [phase[p] EXCEPT !.pc = "revealed"]
    <3>0. p \in Scorers /\ p \notin Preparers
      BY <1>1, <2>3, PlaceRange DEF Checked, Labelled
    <3>1. /\ s.pc = "revealed" /\ s.document = phase[p].document
          /\ s.metadata = phase[p].metadata /\ s.raw = phase[p].raw
          /\ s.scored = phase[p].scored /\ p \in Scorers /\ p \notin Preparers
      BY <1>3, <2>3, <3>0 DEF Place
    <3> QED
      BY <1>1, <1>2, <1>3, <1>8, <2>3, <3>1
         DEF PlaceInv, Underway, Checked, Labelled, Finalized, ScoredSound
  <2> QED
    BY <1>7, <2>1, <2>2, <2>3
<1>13. live' \in [Runners -> Live] /\ (\A r \in Runners \ {p} : live'[r] = live[r])
       /\ s.pc \notin Underway /\ stops' \in 0 .. MaxStops
  BY <1>2, <1>4, <1>9 DEF EvaluationTypeOK, Underway
<1> QED
  BY <1>2, <1>3, <1>6, <1>7, <1>9, <1>10, <1>11, <1>12, <1>13, OutsideStep
-----------------------------------------------------------------------------
LEMMA EvalInit == Init => EvalInv
<1> SUFFICES ASSUME Init PROVE EvalInv
  OBVIOUS
<1>1. Fresh \in Place /\ Idle \in Live
  BY FreshTyped, LiveCaseAssumption DEF Idle, Live
<1>2. \A p \in Processes : phase[p] = Fresh
  BY DEF Init
<1>3. EvaluationTypeOK
  BY <1>1, <1>2, FreshTyped, EvaluationAssumption
     DEF Init, EvaluationTypeOK, Bytes, Handle, Targets
<1>4. \A r \in Runners : LiveInv(r)
  BY DEF Init, LiveInv, LiveSound, Idle
<1>5. \A p \in Processes : PlaceInv(p)
  BY <1>2 DEF PlaceInv, Fresh, Underway, Checked, Labelled
<1>6. \A r \in Runners : ~InRun(r)
  BY <1>2 DEF InRun, Fresh, Underway, Processes
<1>7. RunInv
  BY <1>6 DEF Init, RunInv
<1>8. InferredInv
  BY <1>6 DEF Init, InferredInv, InferredOnce, Finalized
<1>9. JournalInv
  <2>1. \A kind : Entries(kind) = {}
    BY DEF Init, Entries
  <2>2. Cardinality({}) = 0
    BY FS_EmptySet
  <2>3. Cardinality(Entries("CASE_COMPLETED")) = 0
    BY <2>1, <2>2
  <2>4. JournalAgrees
    BY <2>1, <2>3 DEF Init, JournalAgrees
  <2> QED
    BY <1>6, <2>4 DEF JournalInv
<1>10. FilesInv
  BY DEF Init, FilesInv, Fits
<1>11. WriteInv
  <2>1. None \notin Spoilt
    BY EvaluationAssumption
  <2>2. \A p \in Processes : handle[p] = "closed" /\ phase[p].pc = "new"
    BY <1>2, FreshTyped DEF Init
  <2> QED
    BY <2>1, <2>2 DEF Init, WriteInv, ScoresAreWhole, Processes
<1> QED
  BY <1>3, <1>4, <1>5, <1>7, <1>8, <1>9, <1>10, <1>11 DEF EvalInv

LEMMA EvalNext == EvalInv /\ [Next]_vars => EvalInv'
<1> SUFFICES ASSUME EvalInv, [Next]_vars PROVE EvalInv'
  OBVIOUS
<1>1. CASE EditManifest \/ UNCHANGED vars
  BY <1>1, EditKeeps
<1>2. ASSUME NEW p \in Processes,
             \/ Stops(p) \/ ReplaceFails(p) \/ LoadManifest(p) \/ HashManifest(p)
             \/ ReadPublic(p) \/ ReadMetadata(p) \/ ReadRaw(p) \/ CheckManifest(p)
             \/ ReadLabels(p)
      PROVE  EvalInv'
  BY <1>2, StopKeeps, LoadKeeps, ReadLabelsKeeps
<1>3. ASSUME NEW p \in Processes, PaceStarted(p) \/ PaceCompleted(p) \/ StartCase(p)
      PROVE  EvalInv'
  <2>1. p \in Runners
    BY <1>3 DEF PaceStarted, PaceCompleted, StartCase
  <2> QED
    BY <1>3, <2>1, JournalKeeps
<1>4. ASSUME NEW p \in Processes,
             \/ StartRun(p) \/ WriteRaw(p) \/ BeginInference(p) \/ Infer(p)
             \/ RecordResult(p) \/ CompleteCase(p) \/ CompleteRaw(p) \/ CompleteRun(p)
      PROVE  EvalInv'
  BY <1>4, StartKeeps, WriteRawKeeps, InferenceKeeps, RecordKeeps, CompleteCaseKeeps,
     CompleteRawKeeps, CompleteRunKeeps
<1>5. ASSUME NEW p \in Processes,
             \/ OpenTemp(p) \/ WriteFails(p)
             \/ FillPublic(p) \/ FillMetadata(p) \/ FillScored(p) \/ FillSummary(p)
             \/ WritePublic(p) \/ WriteMetadata(p) \/ WriteScored(p) \/ WriteSummary(p)
      PROVE  EvalInv'
  BY <1>5, OpenKeeps, WriteFailsKeeps, FillKeeps, ReplaceKeeps
<1> QED
  BY <1>1, <1>2, <1>3, <1>4, <1>5 DEF Next

THEOREM EvalInvariant == Spec => []EvalInv
BY EvalInit, EvalNext, PTL DEF Spec
-----------------------------------------------------------------------------
(* What the files and the processes hold keeps its type, and no process    *)
(* has a case in hand that its document does not list.                     *)
THEOREM EvaluationTypeCorrect == Spec => []EvaluationTypeOK
<1>1. EvalInv => EvaluationTypeOK
  BY DEF EvalInv
<1> QED
  BY <1>1, EvalInvariant, PTL

(* "Run the sealed public cases exactly once": for any number of RUNs,     *)
(* each started at any moment and stopped anywhere.                        *)
THEOREM NoCaseInferredTwice == Spec => []InferredOnce
<1>1. EvalInv => InferredOnce
  BY DEF EvalInv, InferredInv
<1> QED
  BY <1>1, EvalInvariant, PTL

(* Wherever RUN stops, its journal and its raw results tell one story.     *)
THEOREM JournalIsAccurate == Spec => []JournalAgrees
<1>1. EvalInv => JournalAgrees
  BY DEF EvalInv, JournalInv
<1> QED
  BY <1>1, EvalInvariant, PTL

(* What can be read of the scored document is the whole run of the         *)
(* document it names, and what can be read of the summary counts each of   *)
(* its cases in one category, also when PREPAREs, RUNs and SCOREs overlap, *)
(* fill one temporary file together and replace files in between.          *)
THEOREM ScoresAreComplete == Spec => []ScoredIsComplete
<1>1. ASSUME EvalInv PROVE ScoredIsComplete
  <2>1. Fits("scored", scored) /\ Fits("summary", summary)
    BY <1>1 DEF EvalInv, FilesInv
  <2>2. summary \notin Spoilt \cup {None} => Total(summary) = Len(CasesOf[raw.document])
    BY <2>1 DEF Fits
  <2> SUFFICES ASSUME scored \notin Spoilt \cup {None} PROVE ScoredIsComplete
    BY <2>2 DEF ScoredIsComplete
  <2>3. /\ Finalized /\ ScoredSound(scored) /\ scored \in Scored /\ raw \in Raw
    BY <1>1, <2>1 DEF EvalInv, EvaluationTypeOK, Finalized, Fits
  <2>4. PICK d \in Documents : d = raw.document
    BY <2>3 DEF Raw
  <2>5. PICK all \in Seq(ScoredCase) : all = scored.cases
    BY <2>3 DEF Scored
  <2>6. PICK n \in Nat : n = Len(CasesOf[d]) /\ DOMAIN CasesOf[d] = 1 .. n
    BY CasesTyped
  <2>7. /\ scored.document = d /\ scored.ran = d /\ Len(all) = n /\ DOMAIN all = 1 .. n
        /\ \A i \in 1 .. n : all[i].case = CasesOf[d][i]
    BY <2>3, <2>4, <2>5, <2>6 DEF ScoredSound
  <2>8. CasesOf[d] = [i \in 1 .. n |-> CasesOf[d][i]]
    BY <2>6, CasesTyped
  <2>9. [i \in DOMAIN all |-> all[i].case] = CasesOf[d]
    BY <2>7, <2>8
  <2>10. \A i \in 1 .. n : inferred[all[i].case] = 1
    <3>1. \A c \in Range(CasesOf[d]) : inferred[c] = 1
      BY <1>1, <2>3, <2>4 DEF EvalInv, InferredInv
    <3>2. \A i \in 1 .. n : CasesOf[d][i] \in Range(CasesOf[d])
      BY <2>6 DEF Range
    <3> QED
      BY <2>7, <3>1, <3>2
  <2> QED
    BY <2>2, <2>4, <2>5, <2>6, <2>7, <2>9, <2>10 DEF ScoredIsComplete
<1> QED
  BY <1>1, EvalInvariant, PTL

(* Where SCOREs come one after the other, none leaves scores or a summary  *)
(* that are cut short or mixed, whatever write fails and wherever one is   *)
(* killed.  (Two at a time may: they share the temporary file.)            *)
THEOREM ScoresStayWhole == ASSUME OneScore PROVE Spec => []ScoresAreWhole
<1>1. OneScore
  OBVIOUS
<1>2. ASSUME EvalInv PROVE ScoresAreWhole
  BY <1>1, <1>2 DEF EvalInv, WriteInv
<1> QED
  BY <1>2, EvalInvariant, PTL

(* No score credits a support that was not earned; a case without an       *)
(* outcome, or whose environment did not become ready, counts on neither   *)
(* side.  A case whose candidates failed for their environment after that  *)
(* has an outcome and counts: the theorem says nothing else of it.         *)
THEOREM SupportsAreEarned == Spec => []SupportIsEarned
<1>1. ASSUME EvalInv PROVE SupportIsEarned
  <2>1. SUFFICES ASSUME scored \notin Spoilt \cup {None}, NEW i \in DOMAIN scored.cases,
                        NEW e, e = scored.cases[i]
                 PROVE  /\ e.classification \in {"SUPPORTED_POSITIVE", "INCORRECT_SUPPORT"} =>
                             /\ e.result.pattern = "BASE_ASSERTION_FAILED_HEAD_PASSED"
                             /\ e.result.related /\ e.result.mechanical = "DISCRIMINATING"
                        /\ e.result.outcome = None <=>
                             e.classification \in {"INVALID_PROVIDER_MODEL",
                               "INVALID_CLAIM_OUTPUT", "INVALID_HARNESS"}
                        /\ e.result.terminal = "ENVIRONMENT_NOT_READY" <=>
                             e.classification = "INVALID_ENVIRONMENT"
    BY DEF SupportIsEarned
  <2>2. ScoredSound(scored) /\ scored.cases \in Seq(ScoredCase)
    BY <1>1, <2>1 DEF EvalInv, FilesInv, Fits, Scored
  <2>3. e \in ScoredCase
    <3> HIDE DEF ScoredCase
    <3> QED
      BY <2>1, <2>2
  <2>4. /\ e.label \in Labels /\ e.result \in Result /\ ResultSound(e.result)
        /\ e.classification = ClassifyResult(e.label, e.result)
    BY <2>1, <2>2, <2>3 DEF ScoredSound, ScoredCase
  <2>5. /\ e.classification \in {"SUPPORTED_POSITIVE", "INCORRECT_SUPPORT"} =>
             e.result.outcome = "CLAIM_SUPPORTED_FOR_SCENARIO"
        /\ e.classification \in {"INVALID_PROVIDER_MODEL", "INVALID_CLAIM_OUTPUT",
             "INVALID_HARNESS"} <=> e.result.terminal \in Unevaluated
        /\ e.classification = "INVALID_ENVIRONMENT" <=>
             e.result.terminal = "ENVIRONMENT_NOT_READY"
    BY <2>4, Classified
  <2> QED
    BY <2>4, <2>5 DEF ResultSound
<1> QED
  BY <1>1, EvalInvariant, PTL
=============================================================================
