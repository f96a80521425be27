---------------------------- MODULE TaskPipeline ----------------------------
(***************************************************************************)
(* One pull-request event from webhook to GitHub Check: the intake routes  *)
(* (control_plane.py, cloud_control.py), the Cloud Tasks queue             *)
(* (cloud_tasks.py), the task route and processor (cloud_control.py), the  *)
(* worker boundary (reliable_worker.py), the store calls of the evidence   *)
(* workflow (evidence_workflow.py) and the publisher (github_checks.py),   *)
(* composed with the durable store of RunStore.                            *)
(*                                                                         *)
(* A worker is one HTTP request being served by POST /tasks/verify.  Its   *)
(* steps are its store calls and remote calls: between two of them any     *)
(* other request may run, the instance may die, or the queue may give up   *)
(* waiting and deliver the task again while the old request goes on.       *)
(*                                                                         *)
(* What models, Git and the private executor compute is a nondeterministic *)
(* choice here; module EvidenceLoop has the detail.  The wall clock stands *)
(* still (RunStore explores it), so every stored run can be read back.     *)
(***************************************************************************)
EXTENDS RunStore

CONSTANTS
  Worker,         \* requests that can be in progress at the same time
  MaxDeliveries,  \* the queue's max-attempts
  MaxFaults,      \* bound on the faults of each kind
  MaxCandidates   \* _MAX_CANDIDATE_MODEL_CALLS

(* A request or its instance dies; the queue's deadline passes; a provider,*)
(* Git, the executor or the store raises; a task is not created; a request *)
(* is served by a deployment whose allowlist lacks the repository.         *)
FaultKind == {"crash", "deadline", "exception", "dispatch", "delisting"}

ASSUME PipelineAssumption ==
  /\ None \notin Worker
  /\ MaxDeliveries \in Nat \ {0} /\ MaxCandidates \in Nat \ {0}
  /\ MaxFaults \in [FaultKind -> Nat]

(* An evidence report, by what the pipeline reads from it.  Timestamps and *)
(* token counts make the reports of two executions different documents.    *)
Report == [mechanical: MechanicalStatus, outcome: ClaimOutcome, by: Worker]

Conclusion(outcome) ==
  CASE outcome = "CLAIM_SUPPORTED_FOR_SCENARIO" -> "success"
    [] outcome = "POTENTIAL_REGRESSION" -> "failure"
    [] OTHER -> "neutral"

(* format_github_check: a function of the stored report; the text carries  *)
(* the digest of the document.                                             *)
FormatGithubCheck(r, report) ==
  [external_id |-> r, conclusion |-> Conclusion(report.outcome),
   evidence |-> report]

VARIABLES
  intake,         \* runs whose intake request is between accept and dispatch
  tasks,          \* run id -> task of the queue
  workers,        \* worker -> local state of its request
  checks,         \* GitHub: check id -> payload
  faults          \* fault kind -> number of faults so far

store     == vars
pipeline  == <<intake, tasks, workers, checks, faults>>
allVars   == <<store, pipeline>>

Task == [state: {"queued", "leased", "acknowledged", "dropped"},
         attempts: 0 .. MaxDeliveries, by: Worker \cup {None},
         refused: BOOLEAN]      \* history: the answer was that of Refused

(* Program counters, by the code that handles an exception raised there.   *)
ExecutePc == {"execute", "replay", "load", "queue", "start", "claim", "select",
              "generate", "recheck", "base", "challenge", "head", "assess",
              "judge", "save", "latest", "complete"}
ProcessPc == {"process", "lookup", "publish", "begin", "reload", "reopen",
              "find", "upsert", "remember", "reread", "settle",
              "error_record", "error_reread", "error_settle",
              "finish", "not_applicable"}
HandlerPc == {"worker_failed", "worker_fail_run", "task_failed", "task_fail_run"}

Local == [pc: {"idle"} \cup ExecutePc \cup ProcessPc \cup HandlerPc,
          run: RunId \cup {None},
          seen: VerificationRun \cup {None},   \* the last get_run result
          app: BOOLEAN,                        \* installation_id was present
          attempt: 0 .. MaxCandidates,
          report: Report \cup {None},
          check: CheckId \cup {None},
          error: {"none", "retryable", "terminal"}]

Idle == [pc |-> "idle", run |-> None, seen |-> None, app |-> FALSE,
         attempt |-> 0, report |-> None, check |-> None, error |-> "none"]

PipelineTypeOK ==
  /\ TypeOK
  /\ intake \subseteq DOMAIN runs
  /\ Partial(tasks, RunId, Task)
  /\ workers \in [Worker -> Local]
  /\ Partial(checks, CheckId, Payload)
  /\ faults \in [FaultKind -> Nat]
-----------------------------------------------------------------------------
PipelineInit ==
  /\ Init
  /\ intake = {} /\ tasks = <<>> /\ checks = <<>>
  /\ faults = [kind \in FaultKind |-> 0]
  /\ workers = [w \in Worker |-> Idle]

Fault(kind) == /\ faults[kind] < MaxFaults[kind]
               /\ faults' = [faults EXCEPT ![kind] = @ + 1]

(* github_webhook and analyze: accept the event, then dispatch if the run  *)
(* the transaction returned is current and open.                           *)
Dispatchable(run) == run.revision_state = "CURRENT" /\ run.lifecycle # "TERMINAL"

Receive(e) ==
  /\ AcceptPullRequest(e, clock)
  /\ LET r == deliveries'[e.delivery]
     IN  intake' = IF Dispatchable(runs'[r]) THEN intake \cup {r} ELSE intake
  /\ UNCHANGED <<tasks, workers, checks, faults>>

(* CloudTasksRunDispatcher.dispatch: the task name is the run id, and      *)
(* AlreadyExists counts as success.                                        *)
Dispatch(r) ==
  /\ r \in intake
  /\ intake' = intake \ {r}
  /\ tasks' = IF r \in DOMAIN tasks THEN tasks
              ELSE Put(tasks, r, [state |-> "queued", attempts |-> 0, by |-> None,
                             refused |-> FALSE])
  /\ UNCHANGED <<store, workers, checks, faults>>

(* create_task fails (503) or the instance dies before it. *)
DispatchLost(r) ==
  /\ r \in intake /\ Fault("dispatch")
  /\ intake' = intake \ {r}
  /\ UNCHANGED <<store, tasks, workers, checks>>

(* The queue sends the task to the task route. *)
Deliver(r, w) ==
  /\ r \in DOMAIN tasks /\ tasks[r].state = "queued"
  /\ workers[w].pc = "idle"
  /\ tasks' = [tasks EXCEPT ![r].state = "leased", ![r].attempts = @ + 1,
                            ![r].by = w]
  /\ workers' = [workers EXCEPT ![w] = [Idle EXCEPT !.pc = "process", !.run = r]]
  /\ UNCHANGED <<store, intake, checks, faults>>

(* A failed delivery is repeated until max-attempts, then dropped. *)
Returned(task) ==
  [task EXCEPT !.by = None,
               !.state = IF task.attempts < MaxDeliveries THEN "queued"
                         ELSE "dropped"]

(* The response of w reaches the queue only while w holds the lease. *)
Holds(w) == /\ workers[w].run \in DOMAIN tasks
            /\ tasks[workers[w].run].state = "leased"
            /\ tasks[workers[w].run].by = w
Respond(w, ok) ==
  /\ tasks' = IF ~Holds(w) THEN tasks
              ELSE [tasks EXCEPT ![workers[w].run] =
                      IF ok THEN [@ EXCEPT !.state = "acknowledged", !.by = None]
                      ELSE Returned(@)]
  /\ workers' = [workers EXCEPT ![w] = Idle]

(* The instance serving w dies. *)
Crash(w) ==
  /\ workers[w].pc # "idle" /\ Fault("crash")
  /\ Respond(w, FALSE)
  /\ UNCHANGED <<store, intake, checks>>

(* dispatch_deadline passes: the queue stops waiting, the request goes on. *)
Deadline(r) ==
  /\ r \in DOMAIN tasks /\ tasks[r].state = "leased" /\ Fault("deadline")
  /\ tasks' = [tasks EXCEPT ![r] = Returned(@)]
  /\ UNCHANGED <<store, intake, workers, checks>>
-----------------------------------------------------------------------------
(* Steps of a request. *)
At(w, pc)        == workers[w].pc = pc
Seen(w)          == workers[w].seen
Stored(w)        == runs[workers[w].run]
Set(w, local)    == workers' = [workers EXCEPT ![w] = local]
Goto(w, pc)      == Set(w, [workers[w] EXCEPT !.pc = pc])
Reload(w, pc)    == Set(w, [workers[w] EXCEPT !.pc = pc, !.seen = Stored(w)])
Silent           == UNCHANGED <<store, intake, tasks, checks, faults>>

(* Where an exception raised at pc is handled. *)
Handler(pc) == IF pc \in ExecutePc THEN "worker_failed" ELSE "task_failed"
Throw(w)    == Goto(w, Handler(workers[w].pc))

(* A provider, Git, the executor or the store fails at w's next call. *)
Raise(w) ==
  /\ workers[w].pc \in ExecutePc \cup ProcessPc /\ Fault("exception")
  /\ Throw(w)
  /\ UNCHANGED <<store, intake, tasks, checks>>

(* self._transition(run, t): the returned run replaces the local one; a    *)
(* ConcurrentRunUpdateError or InvalidRunTransition is thrown.             *)
Accepts(r, expected, t) ==
  runs[r].version = expected /\ TransitionAllowed(runs[r], t, clock)
Transition(w, t, pc) ==
  LET r == workers[w].run
  IN  /\ \/ /\ TransitionRun(r, Seen(w).version, t, clock)
            /\ Set(w, [workers[w] EXCEPT !.pc = pc, !.seen = runs'[r]])
         \/ /\ ~Accepts(r, Seen(w).version, t)
            /\ Throw(w)
            /\ UNCHANGED store
      /\ UNCHANGED <<intake, tasks, checks, faults>>

(* A transition that ends the request with a response. *)
LastTransition(w, t, ok) ==
  LET r == workers[w].run
  IN  /\ \/ /\ TransitionRun(r, Seen(w).version, t, clock)
            /\ Respond(w, ok)
         \/ /\ ~Accepts(r, Seen(w).version, t)
            /\ Throw(w)
            /\ UNCHANGED <<store, tasks>>
      /\ UNCHANGED <<intake, checks, faults>>

MovesTo(lifecycle)  == [NoChange EXCEPT !.lifecycle = lifecycle]
AdvancesTo(phase)   == [NoChange EXCEPT !.phase = phase]
PublishesAs(state)  == [NoChange EXCEPT !.publication = state]
CompletesWith(report) ==
  [lifecycle |-> "TERMINAL", phase |-> "PUBLICATION",
   terminal_reason |-> "COMPLETED", mechanical |-> report.mechanical,
   outcome |-> report.outcome, publication |-> "PENDING"]

(* Every transition a request asks the store for; fail_run makes its own.  *)
RequestedTransitions ==
  {MovesTo(lifecycle) : lifecycle \in {"QUEUED", "RUNNING"}}
    \cup {AdvancesTo(phase) : phase \in {"CLAIM", "TEST_GENERATION", "BASE_EXECUTION",
                                         "HEAD_EXECUTION", "ASSESSMENT"}}
    \cup {CompletesWith(report) : report \in Document}
    \cup {PublishesAs(state) : state \in {"PENDING", "PUBLISHED", "RETRYABLE_FAILURE",
                                          "TERMINAL_FAILURE", "NOT_APPLICABLE"}}

(* What the store is asked to keep here: reports, the checks rendered from *)
(* them and the transitions above.                                         *)
ASSUME DocumentAssumption ==
  /\ Document \subseteq Report /\ None \notin Document
  /\ \A r \in RunId, report \in Document : FormatGithubCheck(r, report) \in Payload
  /\ RequestedTransitions \subseteq Transitions
-----------------------------------------------------------------------------
(* CloudRunTaskProcessor.process. *)
AfterExecution(w) == IF workers[w].app THEN "publish" ELSE "finish"

Process(w) ==
  /\ At(w, "process")
  /\ Set(w, [workers[w] EXCEPT !.pc = "lookup",
                               !.app = Stored(w).installation # None])
  /\ Silent

(* The repository was on the allowlist of the intake but is not on that of *)
(* this deployment: process raises PermissionError before it does anything,*)
(* which verify_task answers with 200 and no fail_run.                     *)
Refused(w) ==
  /\ At(w, "process") /\ Fault("delisting")
  /\ tasks' = IF ~Holds(w) THEN tasks
              ELSE [tasks EXCEPT ![workers[w].run].state = "acknowledged",
                                 ![workers[w].run].by = None,
                                 ![workers[w].run].refused = TRUE]
  /\ Set(w, Idle)
  /\ UNCHANGED <<store, intake, checks>>

(* Stored evidence goes straight to publication; otherwise the repository  *)
(* is fetched and the workflow is built.                                   *)
Lookup(w) ==
  /\ At(w, "lookup")
  /\ Goto(w, IF workers[w].run \in DOMAIN evidence THEN AfterExecution(w)
             ELSE "execute")
  /\ Silent

(* EvidenceWorkflow.execute *)
Execute(w) ==
  /\ At(w, "execute")
  /\ Goto(w, IF workers[w].run \in DOMAIN evidence THEN "replay" ELSE "load")
  /\ Silent

(* Evidence appeared since process looked: finish that run, if it is open. *)
Replay(w) ==
  /\ At(w, "replay")
  /\ Set(w, [workers[w] EXCEPT
               !.pc = IF Dispatchable(Stored(w)) THEN "save" ELSE AfterExecution(w),
               !.report = evidence[workers[w].run]])
  /\ Silent

Load(w) ==
  /\ At(w, "load")
  /\ IF Dispatchable(Stored(w)) THEN Reload(w, "queue") ELSE Throw(w)
  /\ Silent

Skip(w, pc) == Goto(w, pc) /\ Silent

Queue(w) ==
  /\ At(w, "queue")
  /\ IF Seen(w).lifecycle = "ACCEPTED" THEN Transition(w, MovesTo("QUEUED"), "start")
     ELSE Skip(w, "start")

Start(w) ==
  /\ At(w, "start")
  /\ IF Seen(w).lifecycle = "QUEUED" THEN Transition(w, MovesTo("RUNNING"), "claim")
     ELSE Skip(w, "claim")

ClaimResuming(w) ==      \* variant: a repeated delivery resumes the phase
  /\ At(w, "claim")
  /\ IF Seen(w).phase = "CONTEXT" THEN Transition(w, AdvancesTo("CLAIM"), "select")
     ELSE Skip(w, "select")
Claim(w) == At(w, "claim") /\ Transition(w, AdvancesTo("CLAIM"), "select")

(* The claim is selected and the environments prepared: without a claim or *)
(* an environment the report abstains.                                     *)
Abstain(w, report) ==
  /\ At(w, "select")
  /\ report.by = w /\ report.outcome = "INSUFFICIENT_EVIDENCE"
  /\ report.mechanical \in {"COUNTERFACTUAL_NOT_APPLICABLE", "NON_DISCRIMINATING",
                            "ENVIRONMENTAL"}
  /\ Set(w, [workers[w] EXCEPT !.pc = "save", !.report = report])
  /\ Silent
Select(w) == At(w, "select") /\ Transition(w, AdvancesTo("TEST_GENERATION"), "generate")

(* The next candidate passes the validator or is rejected; when the last   *)
(* one was rejected the report says INVALID_TEST.                          *)
Generate(w) ==
  /\ At(w, "generate")
  /\ workers[w].attempt < MaxCandidates
  /\ \E pc \in {"recheck", "generate"} :
       Set(w, [workers[w] EXCEPT !.pc = pc, !.attempt = @ + 1])
  /\ Silent

Exhaust(w, report) ==
  /\ At(w, "generate")
  /\ workers[w].attempt = MaxCandidates
  /\ report.by = w /\ report.outcome = "INSUFFICIENT_EVIDENCE"
  /\ report.mechanical = "INVALID_TEST"
  /\ Set(w, [workers[w] EXCEPT !.pc = "save", !.report = report])
  /\ Silent

(* A validated candidate is run only for a current revision ... *)
Recheck(w) ==
  /\ At(w, "recheck")
  /\ IF Stored(w).revision_state = "CURRENT" THEN Goto(w, "base") ELSE Throw(w)
  /\ Silent

BaseAlways(w) ==         \* variant: repairs announce BASE execution again
  At(w, "base") /\ Transition(w, AdvancesTo("BASE_EXECUTION"), "challenge")
Base(w) ==
  /\ At(w, "base")
  /\ IF Seen(w).phase = "TEST_GENERATION"
     THEN Transition(w, AdvancesTo("BASE_EXECUTION"), "challenge")
     ELSE Skip(w, "challenge")

(* ... and the executor's answer is used only if it is still current. *)
Challenge(w) ==
  /\ At(w, "challenge")
  /\ IF Stored(w).revision_state = "CURRENT" THEN Goto(w, "head") ELSE Throw(w)
  /\ Silent

Head(w) ==
  /\ At(w, "head")
  /\ IF Seen(w).phase = "BASE_EXECUTION"
     THEN Transition(w, AdvancesTo("HEAD_EXECUTION"), "assess")
     ELSE Skip(w, "assess")

Assess(w) ==
  /\ At(w, "assess")
  /\ IF Seen(w).phase # "ASSESSMENT"
     THEN Transition(w, AdvancesTo("ASSESSMENT"), "judge")
     ELSE Skip(w, "judge")

(* The challenge is conclusive (the setup failed, or BASE and HEAD differ  *)
(* and the assessor decides) or was the last; or the candidate is repaired.*)
Judge(w, report) ==
  /\ At(w, "judge")
  /\ report.by = w
  /\ \/ workers[w].attempt = MaxCandidates
     \/ report.mechanical \in {"DISCRIMINATING", "ENVIRONMENTAL"}
  /\ report.mechanical # "DISCRIMINATING" => report.outcome = "INSUFFICIENT_EVIDENCE"
  /\ Set(w, [workers[w] EXCEPT !.pc = "save", !.report = report])
  /\ Silent
Repair(w) ==
  /\ At(w, "judge") /\ workers[w].attempt < MaxCandidates
  /\ Goto(w, "generate")
  /\ Silent

(* _persist_terminal *)
SaveLater(w) ==          \* variant: the document is not yet written
  At(w, "save") /\ Goto(w, "latest") /\ Silent
Save(w) ==
  LET r == workers[w].run  report == workers[w].report
  IN  /\ At(w, "save")
      /\ \/ SaveEvidence(r, report) /\ Goto(w, "latest")
         \/ ~EvidenceAccepts(r, report) /\ Throw(w) /\ UNCHANGED store
      /\ UNCHANGED <<intake, tasks, checks, faults>>

Latest(w) == At(w, "latest") /\ Reload(w, "complete") /\ Silent

Complete(w) ==
  At(w, "complete") /\ Transition(w, CompletesWith(workers[w].report), AfterExecution(w))
-----------------------------------------------------------------------------
(* ReliableEvidenceWorker.run and verify_task: an exception fails a run    *)
(* that is current and open.  EvidenceWorkerError is answered with 200; a  *)
(* second exception in the worker's handler reaches verify_task's.         *)
NeverFails(run)  == FALSE            \* variant: the exception is swallowed
MustFail(run)    == Dispatchable(run)

WorkerFailed(w) ==
  /\ At(w, "worker_failed")
  /\ IF MustFail(Stored(w)) THEN Goto(w, "worker_fail_run") /\ UNCHANGED tasks
     ELSE Respond(w, TRUE)
  /\ UNCHANGED <<store, intake, checks, faults>>

TaskFailed(w) ==
  /\ At(w, "task_failed")
  /\ IF MustFail(Stored(w)) THEN Goto(w, "task_fail_run") /\ UNCHANGED tasks
     ELSE Respond(w, TRUE)
  /\ UNCHANGED <<store, intake, checks, faults>>

FailAccepted(r) == \/ r \in DOMAIN failures
                   \/ TransitionAllowed(runs[r], FailTransition, clock)

(* fail_run; when it raises, the worker's handler falls through to the     *)
(* route's, and the route answers 500.                                     *)
FailingRun(w) ==
  LET r == workers[w].run
  IN  /\ workers[w].pc \in {"worker_fail_run", "task_fail_run"}
      /\ \/ /\ FailRun(r, clock) \/ (r \in DOMAIN failures /\ UNCHANGED store)
            /\ Respond(w, TRUE)
         \/ /\ ~FailAccepted(r) /\ UNCHANGED store
            /\ IF At(w, "worker_fail_run")
               THEN Goto(w, "task_failed") /\ UNCHANGED tasks
               ELSE Respond(w, FALSE)
      /\ UNCHANGED <<intake, checks, faults>>
-----------------------------------------------------------------------------
(* GitHubCheckPublisher.publish.  Its guards read the run and its report.  *)
Unguarded(r)   == r \in DOMAIN evidence      \* variant: the run is not examined
Publishable(r) == /\ runs[r].revision_state = "CURRENT"
                  /\ runs[r].terminal_reason = "COMPLETED"
                  /\ r \in DOMAIN evidence
PayloadOf(r)   == FormatGithubCheck(r, evidence[r])

Publish(w) ==
  LET r == workers[w].run
      published == runs[r].publication = "PUBLISHED"
      consistent == /\ r \in DOMAIN publications
                    /\ publications[r].payload = PayloadOf(r)
  IN  /\ At(w, "publish")
      /\ IF Publishable(r) /\ published /\ consistent
         THEN Respond(w, TRUE)
         ELSE /\ IF /\ Publishable(r) /\ ~published
                    /\ runs[r].publication # "TERMINAL_FAILURE"
                 THEN Goto(w, "begin") ELSE Throw(w)
              /\ UNCHANGED tasks
      /\ UNCHANGED <<store, intake, checks, faults>>

Begin(w) ==
  LET r == workers[w].run
  IN  /\ At(w, "begin")
      /\ \/ /\ BeginPublication(r, PayloadOf(r))
            /\ Set(w, [workers[w] EXCEPT !.pc = "reload",
                                         !.check = publications'[r].check])
         \/ /\ r \in DOMAIN publications /\ publications[r].payload # PayloadOf(r)
            /\ Throw(w) /\ UNCHANGED store
      /\ UNCHANGED <<intake, tasks, checks, faults>>

ReloadRun(w) ==
  /\ At(w, "reload")
  /\ Reload(w, IF Stored(w).publication = "RETRYABLE_FAILURE" THEN "reopen" ELSE "find")
  /\ Silent

Reopen(w) == At(w, "reopen") /\ Transition(w, PublishesAs("PENDING"), "find")

Errors(w, kind) == Set(w, [workers[w] EXCEPT !.pc = "error_record", !.error = kind])

(* upsert_completed up to its second request: a missing installation id,   *)
(* a known check, one found by external_id, or none.                       *)
ChecksOf(r)     == {c \in DOMAIN checks : checks[c].external_id = r}
NoneFound(r)    == {}                        \* variant: the listing is ignored
FindExisting(r) == ChecksOf(r)
Find(w) ==
  LET found == FindExisting(workers[w].run)
      Continue(c) == Set(w, [workers[w] EXCEPT !.pc = "upsert", !.check = c])
  IN  /\ At(w, "find")
      /\ IF Seen(w).installation = None THEN Errors(w, "terminal")
         ELSE IF workers[w].check # None THEN Goto(w, "upsert")
         ELSE IF found = {} THEN Continue(None)
         ELSE \E c \in found : Continue(c)
      /\ Silent

(* PATCH the check or POST a new one. *)
Upsert(w) ==
  LET known == workers[w].check
      id    == IF known = None THEN CheckId \ DOMAIN checks ELSE {known}
  IN  /\ At(w, "upsert")
      /\ \E c \in id :
           /\ checks' = Put(checks, c, PayloadOf(workers[w].run))
           /\ \/ Set(w, [workers[w] EXCEPT !.pc = "remember", !.check = c])
              \/ Errors(w, "retryable")      \* applied, but the answer is lost
      /\ UNCHANGED <<store, intake, tasks, faults>>

(* Either request, or the token request before them, fails. *)
RequestFails(w) ==
  /\ At(w, "find") \/ At(w, "upsert")
  /\ \E kind \in {"retryable", "terminal"} : Errors(w, kind)
  /\ Silent

RememberNot(w) == At(w, "remember") /\ Goto(w, "reread") /\ Silent  \* variant
Remember(w) ==
  LET r == workers[w].run
  IN  /\ At(w, "remember")
      /\ \/ SetCheckRunId(r, workers[w].check) /\ Goto(w, "reread")
         \/ /\ publications[r].check \notin {None, workers[w].check}
            /\ Throw(w) /\ UNCHANGED store
      /\ UNCHANGED <<intake, tasks, checks, faults>>

Reread(w) == At(w, "reread") /\ Reload(w, "settle") /\ Silent
Settle(w) == At(w, "settle") /\ LastTransition(w, PublishesAs("PUBLISHED"), TRUE)

(* The two except clauses: record the error, mark the run, re-raise.       *)
(* GitHubCheckRetryableError is answered with 503, the other with 200.     *)
ErrorRecord(w) ==
  /\ At(w, "error_record")
  /\ RecordPublicationError(workers[w].run)
  /\ Goto(w, "error_reread")
  /\ UNCHANGED <<intake, tasks, checks, faults>>
ErrorReread(w) == At(w, "error_reread") /\ Reload(w, "error_settle") /\ Silent

AlwaysAnswers(error) == TRUE                 \* variant: 200 also for a retry
AnswersOk(error)     == error = "terminal"
ErrorSettle(w) ==
  LET error == workers[w].error
      state == IF error = "retryable" THEN "RETRYABLE_FAILURE" ELSE "TERMINAL_FAILURE"
  IN  At(w, "error_settle") /\ LastTransition(w, PublishesAs(state), AnswersOk(error))

(* _finish_without_github_check *)
Finish(w) ==
  /\ At(w, "finish")
  /\ IF Stored(w).publication = "PENDING"
     THEN Reload(w, "not_applicable") /\ UNCHANGED tasks
     ELSE Respond(w, TRUE)
  /\ UNCHANGED <<store, intake, checks, faults>>
NotApplicable(w) ==
  At(w, "not_applicable") /\ LastTransition(w, PublishesAs("NOT_APPLICABLE"), TRUE)
-----------------------------------------------------------------------------
Reporting(w) == \E report \in Document :
                  Abstain(w, report) \/ Exhaust(w, report) \/ Judge(w, report)

WorkflowStep(w) ==
  \/ Process(w) \/ Lookup(w) \/ Execute(w) \/ Replay(w) \/ Load(w)
  \/ Queue(w) \/ Start(w) \/ Claim(w) \/ Select(w)
  \/ Generate(w) \/ Recheck(w) \/ Base(w) \/ Challenge(w) \/ Head(w)
  \/ Assess(w) \/ Repair(w) \/ Reporting(w) \/ Save(w) \/ Latest(w) \/ Complete(w)

PublisherStep(w) ==
  \/ Publish(w) \/ Begin(w) \/ ReloadRun(w) \/ Reopen(w) \/ Find(w) \/ Upsert(w)
  \/ RequestFails(w) \/ Remember(w) \/ Reread(w) \/ Settle(w)
  \/ ErrorRecord(w) \/ ErrorReread(w) \/ ErrorSettle(w)
  \/ Finish(w) \/ NotApplicable(w)

HandlerStep(w) == WorkerFailed(w) \/ TaskFailed(w) \/ FailingRun(w)

RequestStep(w) == WorkflowStep(w) \/ PublisherStep(w) \/ HandlerStep(w)

Failure ==
  \/ \E r \in RunId : DispatchLost(r) \/ Deadline(r)
  \/ \E w \in Worker : Crash(w) \/ Raise(w) \/ Refused(w)

PipelineNext ==
  \/ \E e \in Events : Receive(e)
  \/ \E r \in RunId : Dispatch(r) \/ \E w \in Worker : Deliver(r, w)
  \/ \E w \in Worker : RequestStep(w)
  \/ Failure

PipelineSpec == PipelineInit /\ [][PipelineNext]_allVars

(* Cloud Run keeps serving a request it has started, and the queue keeps   *)
(* delivering its tasks; nothing forces an event to arrive or a fault.     *)
FairPipelineSpec ==
  /\ PipelineSpec
  /\ \A w \in Worker : WF_allVars(RequestStep(w))
  /\ \A r \in RunId : WF_allVars(Dispatch(r))
  /\ \A r \in RunId : WF_allVars(\E w \in Worker : Deliver(r, w))
-----------------------------------------------------------------------------
(* A completed run carries the verdict of its stored report: crashes,      *)
(* overlapping deliveries and replays never separate the two.              *)
CompletedHasEvidence ==
  \A r \in DOMAIN runs : runs[r].terminal_reason = "COMPLETED" =>
    /\ r \in DOMAIN evidence
    /\ runs[r].mechanical = evidence[r].mechanical
    /\ runs[r].outcome = evidence[r].outcome

(* Every check on GitHub belongs to a completed run and shows its stored   *)
(* evidence, whichever request wrote it last.                              *)
ChecksShowEvidence ==
  \A c \in DOMAIN checks :
    LET r == checks[c].external_id
    IN  /\ runs[r].terminal_reason = "COMPLETED"
        /\ checks[c] = PayloadOf(r)

(* A run marked PUBLISHED has its check identity recorded, and that check  *)
(* is on GitHub.                                                           *)
PublishedIsRemote ==
  \A r \in DOMAIN runs : runs[r].publication = "PUBLISHED" =>
    /\ r \in DOMAIN publications
    /\ publications[r].check \in ChecksOf(r)

(* Models and tests run once per run, however often its task is delivered: *)
(* a request gets past CLAIM only by the transition that takes the run out *)
(* of CONTEXT, and no run returns to CONTEXT, also when the request that   *)
(* took it out has died since.                                             *)
PastClaim == {"select", "generate", "recheck", "base", "challenge", "head",
              "assess", "judge"}
Executing(r) == {w \in Worker : workers[w].run = r /\ workers[w].pc \in PastClaim}
ExecutedOnce ==
  [][\A r \in DOMAIN runs :
       /\ ~(Executing(r)' \subseteq Executing(r)) =>
            runs[r].phase = "CONTEXT" /\ runs'[r].phase # "CONTEXT"
       /\ runs[r].phase # "CONTEXT" => runs'[r].phase # "CONTEXT"]_allVars

(* "could also leave a run in RUNNING" is what the fail-closed boundary is *)
(* for: when the queue has its 200, the run is terminal.  There are two    *)
(* exceptions.  A run whose repository has left the allowlist is refused   *)
(* with 200 and stays open.  A run accepted by the product API has no      *)
(* installation id: when a request stops after save_evidence, the next one *)
(* takes the stored report for a finished run and                          *)
(* _finish_without_github_check does nothing.                              *)
AppOnly == \A e \in Events : e.installation # None
AcknowledgedIsTerminal ==
  \A r \in DOMAIN tasks : tasks[r].state = "acknowledged" =>
    \/ runs[r].lifecycle = "TERMINAL"
    \/ tasks[r].refused
    \/ r \in DOMAIN evidence /\ ~AppOnly

(* "... or create it exactly once" (upsert_completed): retries after lost  *)
(* answers and crashes never leave a run with two checks.                  *)
OneCheckPerRun == \A r \in DOMAIN runs : Cardinality(ChecksOf(r)) <= 1

(* "Mark publication retryable; retry only stored evidence publication":   *)
(* the task of a current completed run is not acknowledged before its      *)
(* publication is settled, unless its repository has left the allowlist.   *)
PublicationSettled ==
  \A r \in DOMAIN tasks :
    /\ tasks[r].state = "acknowledged" /\ ~tasks[r].refused
    /\ runs[r].revision_state = "CURRENT"
    /\ runs[r].terminal_reason = "COMPLETED"
    => runs[r].publication \in {"PUBLISHED", "TERMINAL_FAILURE", "NOT_APPLICABLE"}

(* "Reuse the current occurrence": as long as nothing goes wrong, no run   *)
(* fails, whatever events arrive while it is being verified.               *)
NoFailureWithoutFault == (\A kind \in FaultKind : faults[kind] = 0) => failures = <<>>

(* "executing again reconciles state from the stored result": a run whose  *)
(* evidence is stored is not failed.                                       *)
EvidenceIsNotFailed ==
  [][\A r \in DOMAIN evidence : r \in DOMAIN failures' => r \in DOMAIN failures]_allVars

(* A dispatched run becomes terminal unless the queue ran out of attempts  *)
(* or a delivery found its repository off the allowlist.                   *)
DispatchedTerminates ==
  \A r \in RunId :
    r \in DOMAIN tasks ~> /\ r \in DOMAIN tasks
                          /\ \/ runs[r].lifecycle = "TERMINAL"
                             \/ tasks[r].state = "dropped"
                             \/ tasks[r].refused
=============================================================================
