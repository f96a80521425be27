------------------------- MODULE TaskPipelineProofs -------------------------
(***************************************************************************)
(* Theorems about TaskPipeline, for every number of requests, faults,      *)
(* deliveries and candidates, and for every set of events and reports.     *)
(*                                                                         *)
(* One inductive invariant, PipelineInv, carries them all.  It says, for   *)
(* each request, what must hold of the stored records at the point it has  *)
(* reached (LocalInv); those facts survive the steps of the other requests *)
(* because the store only grows (Grows).                                   *)
(***************************************************************************)
EXTENDS TaskPipeline, RunStoreProofs

(* The points between the publisher's guards and its response. *)
Publishing == {"begin", "reload", "reopen", "find", "upsert", "remember",
               "reread", "settle", "error_record", "error_reread", "error_settle"}

Completed(r) == runs[r].terminal_reason = "COMPLETED"

(* When a request may answer 200 although it published nothing. *)
Decided(r) == \/ runs[r].lifecycle = "TERMINAL"
              \/ r \in DOMAIN evidence /\ ~AppOnly

(* What a request knows about the records at the point it has reached.     *)
LocalInv(w) ==
  LET k == workers[w]
      r == workers[w].run
  IN  k.pc # "idle" =>
        /\ r \in DOMAIN runs
        /\ k.report \in Document \cup {None}
        /\ k.pc \in {"save", "latest", "complete"} => k.report \in Document
        /\ k.pc = "replay" => r \in DOMAIN evidence
        /\ k.pc \in {"latest", "complete"} =>
             r \in DOMAIN evidence /\ evidence[r] = k.report
        /\ k.pc \in PastClaim => runs[r].phase # "CONTEXT"
        /\ k.pc \in {"process", "lookup", "publish"} \cup ExecutePc => k.check = None
        /\ k.pc \in Publishing => Completed(r)
        /\ k.pc \in Publishing \ {"begin"} => r \in DOMAIN publications
        /\ k.pc \in Publishing /\ k.check # None => k.check \in ChecksOf(r)
        /\ k.pc = "remember" => k.check # None
        /\ k.pc \in {"reread", "settle"} => publications[r].check \in ChecksOf(r)
        /\ k.pc \in {"finish", "not_applicable"} => Decided(r)
        /\ k.pc \in {"lookup"} \cup ExecutePc /\ AppOnly => k.app

(* Rules that relate the dimensions of one stored run. *)
RunRules(r) ==
  /\ (runs[r].lifecycle = "TERMINAL") <=> (runs[r].terminal_reason # None)
  /\ runs[r].revision_state = "SUPERSEDED" => runs[r].lifecycle = "TERMINAL"
  /\ AppOnly => runs[r].installation # None

RunsInv == \A r \in DOMAIN runs : RunRules(r)

FailuresInv == \A r \in DOMAIN failures :
                 r \in DOMAIN runs /\ runs[r].lifecycle = "TERMINAL"

(* A recorded check identity is that of a check on GitHub, and every check *)
(* there belongs to a stored run with evidence.                            *)
ChecksInv ==
  /\ \A r \in DOMAIN publications :
       publications[r].check # None => publications[r].check \in ChecksOf(r)
  /\ \A c \in DOMAIN checks :
       /\ checks[c].external_id \in DOMAIN runs
       /\ checks[c].external_id \in DOMAIN evidence

TasksInv == \A r \in DOMAIN tasks :
              /\ r \in DOMAIN runs
              /\ tasks[r].state = "queued" => tasks[r].attempts < MaxDeliveries

(* At most one of the requests holding a run is past its CLAIM transition. *)
SingleExecutor ==
  \A v, w \in Worker :
    workers[v].run = workers[w].run /\ {workers[v].pc, workers[w].pc} \subseteq PastClaim
      => v = w

PipelineInv ==
  /\ PointerInv /\ PipelineTypeOK
  /\ RunsInv /\ FailuresInv /\ ChecksInv /\ TasksInv
  /\ \A w \in Worker : LocalInv(w)
  /\ CompletedHasEvidence /\ ChecksShowEvidence /\ PublishedIsRemote
  /\ SingleExecutor /\ AcknowledgedIsTerminal
-----------------------------------------------------------------------------
(* How the records may change: they only grow. *)
RunGrows(r) ==
  /\ r \in DOMAIN runs'
  /\ WriteOnce(runs[r].terminal_reason, runs'[r].terminal_reason)
  /\ WriteOnce(runs[r].mechanical, runs'[r].mechanical)
  /\ WriteOnce(runs[r].outcome, runs'[r].outcome)
  /\ runs[r].lifecycle = "TERMINAL" => runs'[r].lifecycle = "TERMINAL"
  /\ runs[r].phase # "CONTEXT" => runs'[r].phase # "CONTEXT"

ChecksGrow == \A c \in DOMAIN checks :
                /\ c \in DOMAIN checks'
                /\ checks'[c].external_id = checks[c].external_id

Grows == /\ \A r \in DOMAIN runs : RunGrows(r)
         /\ RecordsKept
         /\ ChecksGrow

LEMMA StoreGrows ==
  ASSUME PointerInv, [Next]_vars
  PROVE  (\A r \in DOMAIN runs : RunGrows(r)) /\ RecordsKept
<1>1. RecordsKept
  BY RecordLimits DEF PointerInv
<1>2. \A r \in DOMAIN runs : RunGrows(r)
  BY RunChanges, RunChangeLimits DEF RunGrows
<1> QED
  BY <1>1, <1>2

(* What a request knows stays true while it waits: the steps of the others *)
(* only add to the records it relies on.                                   *)
LEMMA WaitingKeepsLocal ==
  ASSUME PipelineTypeOK, Grows, NEW w \in Worker, LocalInv(w),
         workers'[w] = workers[w]
  PROVE  LocalInv(w)'
<1> DEFINE r == workers[w].run
<1>1. SUFFICES ASSUME workers[w].pc # "idle" PROVE LocalInv(w)'
  BY DEF LocalInv
<1>2. r \in DOMAIN runs
  BY <1>1 DEF LocalInv
<1>3. /\ r \in DOMAIN runs'
      /\ r \in DOMAIN evidence => r \in DOMAIN evidence' /\ evidence'[r] = evidence[r]
      /\ r \in DOMAIN publications => r \in DOMAIN publications'
      /\ runs[r].phase # "CONTEXT" => runs'[r].phase # "CONTEXT"
  BY <1>2 DEF Grows, RunGrows, RecordsKept
<1>4. Completed(r) => Completed(r)'
  BY <1>2, NoneAssumption DEF Completed, Grows, RunGrows, WriteOnce, Reason
<1>5. Decided(r) => Decided(r)'
  BY <1>2, <1>3 DEF Decided, Grows, RunGrows
<1>6. \A c \in ChecksOf(r) : c \in ChecksOf(r)'
  BY DEF ChecksOf, Grows, ChecksGrow
<1>7. r \in DOMAIN publications /\ publications[r].check \in ChecksOf(r) =>
        publications'[r].check \in ChecksOf(r)'
  <2>1. None \notin DOMAIN checks
    BY StoreAssumption DEF PipelineTypeOK, Partial
  <2> QED
    BY <1>6, <2>1 DEF ChecksOf, Grows, RecordsKept, WriteOnce
<1> QED
  BY <1>1, <1>3, <1>4, <1>5, <1>6, <1>7 DEF LocalInv, Publishing
-----------------------------------------------------------------------------
(* The store calls of the requests are steps of RunStore.                  *)

(* What a request asks the store for is what the store is asked for.       *)
LEMMA AskedTransitions ==
  /\ \A lifecycle \in {"QUEUED", "RUNNING"} : MovesTo(lifecycle) \in Transitions
  /\ \A phase \in {"CLAIM", "TEST_GENERATION", "BASE_EXECUTION",
                    "HEAD_EXECUTION", "ASSESSMENT"} : AdvancesTo(phase) \in Transitions
  /\ \A report \in Document : CompletesWith(report) \in Transitions
  /\ \A state \in {"PENDING", "PUBLISHED", "RETRYABLE_FAILURE", "TERMINAL_FAILURE",
                    "NOT_APPLICABLE"} : PublishesAs(state) \in Transitions
  BY DocumentAssumption DEF RequestedTransitions

LEMMA TransitionIsStoreStep ==
  ASSUME TypeOK, NEW r \in RunId, NEW v, NEW t \in Transitions,
         TransitionRun(r, v, t, clock)
  PROVE  Next
<1>1. r \in DOMAIN runs /\ runs[r].version \in Nat \ {0}
  BY DEF TypeOK, Partial, TransitionRun, Readable, VerificationRun
<1>2. v \in 1 .. MaxVersion /\ clock \in 0 .. clock
  BY <1>1, StoreAssumption DEF TransitionRun, TypeOK
<1> QED
  BY <1>2 DEF Next

(* The transitions of a request, by what they ask for. *)
LEMMA RequestTransitions ==
  ASSUME PipelineInv, NEW w \in Worker, NEW t \in Transitions, workers[w].pc # "idle"
  PROVE  /\ \A pc : Transition(w, t, pc) => [Next]_vars
         /\ \A ok : LastTransition(w, t, ok) => [Next]_vars
<1>1. TypeOK /\ workers[w].run \in RunId
  BY DEF PipelineInv, PipelineTypeOK, LocalInv, TypeOK, Partial
<1>2. TransitionRun(workers[w].run, Seen(w).version, t, clock) => Next
  BY <1>1, TransitionIsStoreStep
<1> QED
  BY <1>2 DEF Transition, LastTransition, store

LEMMA AcceptIsStoreStep ==
  ASSUME TypeOK, NEW e \in Events, AcceptPullRequest(e, clock)
  PROVE  Next
<1>1. clock \in 0 .. clock
  BY DEF TypeOK
<1> QED
  BY <1>1 DEF Next

LEMMA StoreStep ==
  ASSUME PipelineInv, [PipelineNext]_allVars
  PROVE  [Next]_vars
<1>0. /\ TypeOK
      /\ \A w \in Worker : workers[w].pc # "idle" =>
           /\ workers[w].run \in DOMAIN runs /\ workers[w].run \in RunId
  BY DEF PipelineInv, PipelineTypeOK, LocalInv, TypeOK, Partial
<1>1. CASE UNCHANGED allVars
  BY <1>1 DEF allVars, store
<1>2. ASSUME NEW e \in Events, Receive(e)
      PROVE  [Next]_vars
  BY <1>0, <1>2, AcceptIsStoreStep DEF Receive
<1>3. ASSUME NEW r \in RunId, \/ Dispatch(r) \/ DispatchLost(r) \/ Deadline(r)
                              \/ \E w \in Worker : Deliver(r, w)
      PROVE  [Next]_vars
  BY <1>3 DEF Dispatch, DispatchLost, Deadline, Deliver, store
<1>4. ASSUME NEW w \in Worker, Crash(w) \/ Raise(w) \/ Refused(w)
      PROVE  [Next]_vars
  BY <1>4 DEF Crash, Raise, Refused, store
<1>5. ASSUME NEW w \in Worker, WorkflowStep(w)
      PROVE  [Next]_vars
  <2>1. CASE \/ Process(w) \/ Lookup(w) \/ Execute(w) \/ Replay(w) \/ Load(w)
             \/ Generate(w) \/ Recheck(w) \/ Challenge(w) \/ Repair(w)
             \/ Reporting(w) \/ Latest(w)
    BY <2>1 DEF Process, Lookup, Execute, Replay, Load, Generate, Recheck, Challenge,
                Repair, Reporting, Abstain, Exhaust, Judge, Latest, Silent, store
  <2>2. CASE \/ Queue(w) \/ Start(w) \/ Claim(w) \/ Select(w) \/ Base(w) \/ Head(w)
             \/ Assess(w)
    <3>1. \/ UNCHANGED store
          \/ \E t \in Transitions, pc \in ExecutePc :
               workers[w].pc # "idle" /\ Transition(w, t, pc)
      BY <2>2, AskedTransitions
         DEF Queue, Start, Claim, Select, Base, Head, Assess, Skip, Silent, At, ExecutePc
    <3> QED
      BY <3>1, RequestTransitions DEF store
  <2>3. CASE Save(w)
    <3>1. workers[w].run \in RunId /\ workers[w].report \in Document
      BY <1>0, <2>3 DEF Save, At, PipelineInv, LocalInv
    <3>2. \/ UNCHANGED store
          \/ SaveEvidence(workers[w].run, workers[w].report)
      BY <2>3 DEF Save
    <3> QED
      BY <3>1, <3>2 DEF Next, store
  <2>4. CASE Complete(w)
    <3>1. workers[w].pc # "idle" /\ workers[w].report \in Document
      BY <2>4 DEF Complete, At, PipelineInv, LocalInv
    <3> QED
      BY <2>4, <3>1, AskedTransitions, RequestTransitions DEF Complete
  <2> QED
    BY <1>5, <2>1, <2>2, <2>3, <2>4 DEF WorkflowStep
<1>6. ASSUME NEW w \in Worker, PublisherStep(w)
      PROVE  [Next]_vars
  <2>1. CASE \/ Publish(w) \/ ReloadRun(w) \/ Find(w) \/ Upsert(w) \/ RequestFails(w)
             \/ Reread(w) \/ ErrorReread(w) \/ Finish(w)
    BY <2>1 DEF Publish, ReloadRun, Find, Upsert, RequestFails, Reread, ErrorReread,
                Finish, Silent, store
  <2>2. CASE \/ Reopen(w) \/ Settle(w) \/ ErrorSettle(w) \/ NotApplicable(w)
    <3>1. \/ \E t \in Transitions : workers[w].pc # "idle" /\ Transition(w, t, "find")
          \/ \E t \in Transitions, ok \in BOOLEAN :
               workers[w].pc # "idle" /\ LastTransition(w, t, ok)
      BY <2>2, AskedTransitions
         DEF Reopen, Settle, ErrorSettle, NotApplicable, At, AnswersOk
    <3> QED
      BY <3>1, RequestTransitions
  <2>3. CASE Begin(w)
    <3> DEFINE r == workers[w].run
    <3>1. r \in RunId /\ r \in DOMAIN evidence /\ evidence[r] \in Document
      <4>1. Completed(r) /\ r \in DOMAIN runs
        BY <2>3 DEF Begin, At, PipelineInv, LocalInv, Publishing
      <4> QED
        BY <1>0, <4>1 DEF PipelineInv, CompletedHasEvidence, Completed, TypeOK, Partial
    <3>2. PayloadOf(r) \in Payload
      BY <3>1, DocumentAssumption DEF PayloadOf
    <3>3. BeginPublication(r, PayloadOf(r)) \/ UNCHANGED store
      BY <2>3 DEF Begin
    <3> QED
      BY <3>1, <3>2, <3>3 DEF Next, store
  <2>4. CASE Remember(w)
    <3>1. workers[w].run \in RunId /\ workers[w].check \in CheckId
      BY <1>0, <2>4
         DEF Remember, At, PipelineInv, LocalInv, PipelineTypeOK, Local
    <3>2. SetCheckRunId(workers[w].run, workers[w].check) \/ UNCHANGED store
      BY <2>4 DEF Remember
    <3> QED
      BY <3>1, <3>2 DEF Next, store
  <2>5. CASE ErrorRecord(w)
    <3>1. workers[w].run \in RunId
      BY <1>0, <2>5 DEF ErrorRecord, At
    <3> QED
      BY <2>5, <3>1 DEF ErrorRecord, Next
  <2> QED
    BY <1>6, <2>1, <2>2, <2>3, <2>4, <2>5 DEF PublisherStep
<1>7. ASSUME NEW w \in Worker, HandlerStep(w)
      PROVE  [Next]_vars
  <2>1. CASE WorkerFailed(w) \/ TaskFailed(w)
    BY <2>1 DEF WorkerFailed, TaskFailed, store
  <2>2. CASE FailingRun(w)
    <3>1. workers[w].run \in RunId /\ clock \in 0 .. clock
      BY <1>0, <2>2 DEF FailingRun, TypeOK
    <3>2. FailRun(workers[w].run, clock) \/ UNCHANGED store
      BY <2>2 DEF FailingRun
    <3> QED
      BY <3>1, <3>2 DEF Next, store
  <2> QED
    BY <1>7, <2>1, <2>2 DEF HandlerStep
<1> QED
  BY <1>1, <1>2, <1>3, <1>4, <1>5, <1>6, <1>7
     DEF PipelineNext, Failure, RequestStep
-----------------------------------------------------------------------------
(* A step of one request, seen through the fields LocalInv speaks of.      *)
Becomes(w, pc, app, report, check) ==
  /\ workers' \in [Worker -> Local]
  /\ \A v \in Worker : v # w => workers'[v] = workers[v]
  /\ workers'[w].pc = pc /\ workers'[w].run = workers[w].run
  /\ workers'[w].app = app /\ workers'[w].report = report
  /\ workers'[w].check = check

Moves(w, pc) ==
  Becomes(w, pc, workers[w].app, workers[w].report, workers[w].check)

Pc == {"idle"} \cup ExecutePc \cup ProcessPc \cup HandlerPc

LEMMA SetFacts ==
  ASSUME workers \in [Worker -> Local], NEW w \in Worker, NEW local \in Local,
         Set(w, local), local.run = workers[w].run
  PROVE  Becomes(w, local.pc, local.app, local.report, local.check)
  BY DEF Set, Becomes

LEMMA GotoFacts ==
  ASSUME workers \in [Worker -> Local], NEW w \in Worker, NEW pc \in Pc, Goto(w, pc)
  PROVE  Moves(w, pc)
<1> DEFINE local == [workers[w] EXCEPT !.pc = pc]
<1>1. /\ local \in Local /\ local.pc = pc /\ local.run = workers[w].run
      /\ local.app = workers[w].app /\ local.report = workers[w].report
      /\ local.check = workers[w].check
  BY DEF Local, Pc
<1>2. Set(w, local)
  BY DEF Goto
<1> HIDE DEF local
<1> QED
  BY <1>1, <1>2, SetFacts DEF Moves

LEMMA ThrowFacts ==
  ASSUME workers \in [Worker -> Local], NEW w \in Worker, Throw(w)
  PROVE  Moves(w, Handler(workers[w].pc))
<1>1. Handler(workers[w].pc) \in Pc
  BY DEF Handler, Pc, HandlerPc
<1> QED
  BY <1>1, GotoFacts DEF Throw

(* get_run replaces the local copy of the run. *)
LEMMA SeenFacts ==
  ASSUME workers \in [Worker -> Local], NEW w \in Worker, NEW pc \in Pc,
         NEW run \in VerificationRun,
         Set(w, [workers[w] EXCEPT !.pc = pc, !.seen = run])
  PROVE  Moves(w, pc)
<1> DEFINE local == [workers[w] EXCEPT !.pc = pc, !.seen = run]
<1>1. local \in Local
  <2>1. /\ [workers[w] EXCEPT !.pc = pc] \in Local
        /\ local = [[workers[w] EXCEPT !.pc = pc] EXCEPT !.seen = run]
    BY DEF Local, Pc
  <2> QED
    BY <2>1 DEF Local
<1>2. /\ local.pc = pc /\ local.run = workers[w].run
      /\ local.app = workers[w].app /\ local.report = workers[w].report
      /\ local.check = workers[w].check
  BY DEF Local
<1>3. Set(w, local)
  OBVIOUS
<1> HIDE DEF local
<1> QED
  BY <1>1, <1>2, <1>3, SetFacts DEF Moves

LEMMA ReloadFacts ==
  ASSUME PipelineTypeOK, NEW w \in Worker, NEW pc \in Pc,
         workers[w].run \in DOMAIN runs, Reload(w, pc)
  PROVE  Moves(w, pc)
<1>1. Stored(w) \in VerificationRun
  BY DEF Stored, PipelineTypeOK, TypeOK, Partial
<1> QED
  BY <1>1, SeenFacts DEF Reload, PipelineTypeOK

LEMMA TransitionFacts ==
  ASSUME PipelineTypeOK, TypeOK', NEW w \in Worker, NEW t, NEW pc \in Pc,
         Transition(w, t, pc)
  PROVE  \/ /\ TransitionRun(workers[w].run, Seen(w).version, t, clock)
            /\ Moves(w, pc)
         \/ UNCHANGED store /\ Moves(w, Handler(workers[w].pc))
<1> DEFINE r == workers[w].run
<1>1. CASE /\ TransitionRun(r, Seen(w).version, t, clock)
           /\ Set(w, [workers[w] EXCEPT !.pc = pc, !.seen = runs'[r]])
  <2>1. r \in DOMAIN runs /\ DOMAIN runs' = DOMAIN runs
    BY <1>1 DEF TransitionRun, Readable
  <2>2. runs'[r] \in VerificationRun
    BY <2>1 DEF TypeOK, Partial
  <2> QED
    BY <1>1, <2>2, SeenFacts DEF PipelineTypeOK
<1>2. CASE Throw(w) /\ UNCHANGED store
  BY <1>2, ThrowFacts DEF PipelineTypeOK
<1> QED
  BY <1>1, <1>2 DEF Transition
-----------------------------------------------------------------------------
(* Only upsert_completed writes to GitHub, and it keeps a check's run.     *)
LEMMA ChecksStep ==
  ASSUME [PipelineNext]_allVars
  PROVE  UNCHANGED checks \/ \E w \in Worker : Upsert(w)
<1>1. ASSUME NEW w \in Worker, NEW t, NEW pc, NEW ok, NEW report,
             \/ Transition(w, t, pc) \/ LastTransition(w, t, ok)
             \/ Abstain(w, report) \/ Exhaust(w, report) \/ Judge(w, report)
             \/ Skip(w, pc)
      PROVE  UNCHANGED checks
  BY <1>1 DEF Transition, LastTransition, Abstain, Exhaust, Judge, Skip, Silent
<1>2. ASSUME NEW w \in Worker, WorkflowStep(w)
      PROVE  UNCHANGED checks
  <2>1. CASE \/ Process(w) \/ Lookup(w) \/ Execute(w) \/ Replay(w) \/ Load(w)
             \/ Generate(w) \/ Recheck(w) \/ Challenge(w) \/ Repair(w)
             \/ Save(w) \/ Latest(w)
    BY <2>1 DEF Process, Lookup, Execute, Replay, Load, Generate, Recheck, Challenge,
                Repair, Save, Latest, Silent
  <2>2. CASE \/ Queue(w) \/ Start(w) \/ Claim(w) \/ Select(w) \/ Base(w) \/ Head(w)
             \/ Assess(w) \/ Complete(w) \/ Reporting(w)
    BY <1>1, <2>2
       DEF Queue, Start, Claim, Select, Base, Head, Assess, Complete, Reporting
  <2> QED
    BY <1>2, <2>1, <2>2 DEF WorkflowStep
<1>3. ASSUME NEW w \in Worker, PublisherStep(w)
      PROVE  UNCHANGED checks \/ Upsert(w)
  <2>1. CASE \/ Publish(w) \/ Begin(w) \/ ReloadRun(w) \/ Find(w) \/ RequestFails(w)
             \/ Remember(w) \/ Reread(w) \/ ErrorRecord(w) \/ ErrorReread(w) \/ Finish(w)
    BY <2>1 DEF Publish, Begin, ReloadRun, Find, RequestFails, Remember, Reread,
                ErrorRecord, ErrorReread, Finish, Silent
  <2>2. CASE \/ Reopen(w) \/ Settle(w) \/ ErrorSettle(w) \/ NotApplicable(w)
    BY <1>1, <2>2 DEF Reopen, Settle, ErrorSettle, NotApplicable
  <2> QED
    BY <1>3, <2>1, <2>2 DEF PublisherStep
<1>4. ASSUME NEW w \in Worker, HandlerStep(w) \/ Crash(w) \/ Raise(w) \/ Refused(w)
      PROVE  UNCHANGED checks
  BY <1>4 DEF HandlerStep, WorkerFailed, TaskFailed, FailingRun, Crash, Raise, Refused
<1>5. ASSUME \/ \E e \in Events : Receive(e)
             \/ \E r \in RunId : \/ Dispatch(r) \/ DispatchLost(r) \/ Deadline(r)
                                 \/ \E w \in Worker : Deliver(r, w)
             \/ UNCHANGED allVars
      PROVE  UNCHANGED checks
  BY <1>5 DEF Receive, Dispatch, DispatchLost, Deadline, Deliver, allVars, pipeline
<1> QED
  BY <1>2, <1>3, <1>4, <1>5 DEF PipelineNext, Failure, RequestStep

LEMMA UpsertFacts ==
  ASSUME PipelineInv, NEW w \in Worker, Upsert(w)
  PROVE  LET r == workers[w].run
         IN  /\ r \in DOMAIN runs /\ Completed(r) /\ r \in DOMAIN evidence
             /\ \E c \in CheckId :
                  /\ checks' = Put(checks, c, PayloadOf(r))
                  /\ c \in DOMAIN checks => checks[c].external_id = r
                  /\ \/ Moves(w, "error_record")
                     \/ Becomes(w, "remember", workers[w].app, workers[w].report, c)
             /\ UNCHANGED <<store, intake, tasks, faults>>
<1> DEFINE r == workers[w].run
<1>1. /\ workers[w].pc = "upsert" /\ workers \in [Worker -> Local]
      /\ workers[w] \in Local
  BY DEF Upsert, At, PipelineInv, PipelineTypeOK
<1>2. /\ r \in DOMAIN runs /\ Completed(r)
      /\ workers[w].check # None => workers[w].check \in ChecksOf(r)
  BY <1>1 DEF PipelineInv, LocalInv, Publishing
<1>3. r \in DOMAIN evidence
  BY <1>2 DEF PipelineInv, CompletedHasEvidence, Completed
<1>4. PICK c \in CheckId :
        /\ checks' = Put(checks, c, PayloadOf(r))
        /\ c \in DOMAIN checks => checks[c].external_id = r
        /\ \/ Set(w, [workers[w] EXCEPT !.pc = "remember", !.check = c])
           \/ Errors(w, "retryable")
  <2>1. DOMAIN checks \subseteq CheckId
    BY DEF PipelineInv, PipelineTypeOK, Partial
  <2> QED
    BY <1>2, <2>1 DEF Upsert, ChecksOf
<1>5. ASSUME Set(w, [workers[w] EXCEPT !.pc = "remember", !.check = c])
      PROVE  Becomes(w, "remember", workers[w].app, workers[w].report, c)
  <2> DEFINE local == [workers[w] EXCEPT !.pc = "remember", !.check = c]
  <2>1. /\ local \in Local /\ local.pc = "remember" /\ local.run = workers[w].run
        /\ local.app = workers[w].app /\ local.report = workers[w].report
        /\ local.check = c
    BY <1>1 DEF Local, ProcessPc
  <2>2. Set(w, local)
    BY <1>5
  <2> HIDE DEF local
  <2> QED
    BY <1>1, <2>1, <2>2, SetFacts
<1>6. ASSUME Errors(w, "retryable")
      PROVE  Moves(w, "error_record")
  <2> DEFINE local == [workers[w] EXCEPT !.pc = "error_record", !.error = "retryable"]
  <2>1. /\ local \in Local /\ local.pc = "error_record" /\ local.run = workers[w].run
        /\ local.app = workers[w].app /\ local.report = workers[w].report
        /\ local.check = workers[w].check
    BY <1>1 DEF Local, ProcessPc
  <2>2. Set(w, local)
    BY <1>6 DEF Errors
  <2> HIDE DEF local
  <2> QED
    BY <1>1, <2>1, <2>2, SetFacts DEF Moves
<1>7. UNCHANGED <<store, intake, tasks, faults>>
  BY DEF Upsert
<1> QED
  BY <1>2, <1>3, <1>4, <1>5, <1>6, <1>7

(* A step of the pipeline is a step of the store, and every record it      *)
(* keeps on GitHub or in the store grows.                                  *)
LEMMA PipelineGrows ==
  ASSUME PipelineInv, [PipelineNext]_allVars
  PROVE  TypeOK' /\ PointerInv' /\ Grows
<1>1. PointerInv /\ TypeOK /\ [Next]_vars
  BY StoreStep DEF PipelineInv, PointerInv
<1>2. ChecksGrow
  <2>1. CASE UNCHANGED checks
    BY <2>1 DEF ChecksGrow
  <2>2. ASSUME NEW w \in Worker, Upsert(w)
        PROVE  ChecksGrow
    <3> DEFINE r == workers[w].run
    <3>1. PICK c \in CheckId :
            /\ checks' = Put(checks, c, PayloadOf(r))
            /\ c \in DOMAIN checks => checks[c].external_id = r
      BY <2>2, UpsertFacts
    <3>2. PayloadOf(r).external_id = r
      BY DEF PayloadOf, FormatGithubCheck
    <3> QED
      BY <3>1, <3>2 DEF ChecksGrow, Put
  <2> QED
    BY <2>1, <2>2, ChecksStep
<1> QED
  BY <1>1, <1>2, TypeKept, PointersKept, StoreGrows DEF Grows

(* What carries over from a step to the next for the run of a request.     *)
Carries(r) ==
  /\ r \in DOMAIN runs'
  /\ r \in DOMAIN evidence => r \in DOMAIN evidence' /\ evidence'[r] = evidence[r]
  /\ r \in DOMAIN publications => r \in DOMAIN publications'
  /\ r \in DOMAIN publications /\ publications[r].check # None =>
       publications'[r].check = publications[r].check
  /\ runs[r].phase # "CONTEXT" => runs'[r].phase # "CONTEXT"
  /\ runs[r].terminal_reason = "COMPLETED" => runs'[r].terminal_reason = "COMPLETED"
  /\ runs[r].lifecycle = "TERMINAL" => runs'[r].lifecycle = "TERMINAL"
  /\ \A c \in DOMAIN checks : /\ c \in DOMAIN checks'
                              /\ checks'[c].external_id = checks[c].external_id

LEMMA RunCarries ==
  ASSUME Grows, NEW r \in DOMAIN runs
  PROVE  Carries(r)
  BY NoneAssumption
     DEF Grows, RunGrows, RecordsKept, ChecksGrow, WriteOnce, Carries, Reason

(* What a step of w owes to the invariant. *)
Progresses(w) ==
  /\ workers' \in [Worker -> Local]
  /\ \A v \in Worker : v # w => workers'[v] = workers[v]
  /\ LocalInv(w)'
  /\ workers'[w].pc \in PastClaim =>
       /\ workers'[w].run = workers[w].run
       /\ workers[w].pc \in PastClaim \/ runs[workers[w].run].phase = "CONTEXT"

(* An exception leaves the request where nothing is assumed of the records.*)
LEMMA ThrowProgresses ==
  ASSUME PipelineInv, Grows, NEW w \in Worker, workers[w].pc # "idle",
         Moves(w, Handler(workers[w].pc))
  PROVE  Progresses(w)
<1>1. Handler(workers[w].pc) \in HandlerPc
  BY DEF Handler, HandlerPc
<1>2. workers[w].run \in DOMAIN runs /\ workers[w].report \in Document \cup {None}
  BY DEF PipelineInv, LocalInv
<1>3. Carries(workers[w].run)
  BY <1>2, RunCarries
<1> QED
  BY <1>1, <1>2, <1>3
     DEF Moves, Becomes, Progresses, LocalInv, Carries, HandlerPc, PastClaim, Publishing,
         ExecutePc
-----------------------------------------------------------------------------
(* Each step of a request establishes what it knows at its next point.     *)

(* Transitions of the workflow up to the judgement: only the one to CLAIM  *)
(* must find the run in another phase, all others follow it.               *)
LEMMA ClaimEnters ==
  ASSUME TypeOK, TypeOK', NEW r \in RunId, NEW v, TransitionRun(r, v, AdvancesTo("CLAIM"), clock)
  PROVE  runs[r].phase = "CONTEXT" /\ runs'[r].phase = "CLAIM"
<1> DEFINE t == AdvancesTo("CLAIM")
<1>1. /\ r \in DOMAIN runs /\ runs[r] \in VerificationRun /\ clock \in Nat
      /\ TransitionAllowed(runs[r], t, clock)
      /\ runs'[r] = Requested(runs[r], t, clock)
  BY DEF TransitionRun, Readable, TypeOK, Partial, ApplyRunTransition
<1>2. /\ t \in RunTransition /\ t.phase = "CLAIM" /\ t.lifecycle = None
      /\ t.terminal_reason = None /\ t.mechanical = None /\ t.outcome = None
      /\ t.publication = None
  BY DEF AdvancesTo, NoChange, RunTransition, Phase, PhaseOrder
<1> HIDE DEF t
<1>3. "CLAIM" # None
  BY NoneAssumption DEF Phase, PhaseOrder
<1>4. LET next == Requested(runs[r], t, clock)
      IN  /\ next.phase = "CLAIM" /\ next.lifecycle = runs[r].lifecycle
          /\ next.terminal_reason = runs[r].terminal_reason
          /\ next.mechanical = runs[r].mechanical /\ next.outcome = runs[r].outcome
          /\ next.publication = runs[r].publication
  BY <1>1, <1>2, <1>3, RequestedFacts DEF Or
<1>5. runs[r].phase \in Phase
  BY <1>1 DEF VerificationRun
<1>6. runs[r].phase # "CLAIM" /\ PhaseOrder["CLAIM"] >= PhaseOrder[runs[r].phase]
  BY <1>1, <1>4 DEF TransitionAllowed
<1> QED
  BY <1>1, <1>4, <1>5, <1>6 DEF PhaseOrder, Phase

(* A request that moves on within the workflow without touching a record   *)
(* of its own.                                                             *)
LEMMA SilentProgress ==
  ASSUME PipelineInv, TypeOK', Grows, NEW w \in Worker,
         \/ Process(w) \/ Lookup(w) \/ Execute(w) \/ Replay(w) \/ Load(w)
         \/ Generate(w) \/ Recheck(w) \/ Challenge(w) \/ Repair(w) \/ Reporting(w)
         \/ Latest(w)
  PROVE  Progresses(w)
<1> DEFINE r == workers[w].run
<1>1. workers \in [Worker -> Local] /\ workers[w] \in Local /\ PipelineTypeOK
  BY DEF PipelineInv, PipelineTypeOK
<1>2. workers[w].pc # "idle"
  BY DEF Process, Lookup, Execute, Replay, Load, Generate, Recheck, Challenge, Repair,
         Reporting, Abstain, Exhaust, Judge, Latest, At
<1>3. /\ r \in DOMAIN runs /\ RunRules(r)
      /\ workers[w].report \in Document \cup {None} /\ workers[w].check = None
  <2>1. workers[w].pc \in {"process", "lookup"} \cup ExecutePc
    BY DEF Process, Lookup, Execute, Replay, Load, Generate, Recheck, Challenge, Repair,
           Reporting, Abstain, Exhaust, Judge, Latest, At, ExecutePc
  <2> QED
    BY <1>2, <2>1 DEF PipelineInv, LocalInv, RunsInv
<1>4. Carries(r)
  BY <1>3, RunCarries
<1>5. LocalInv(w)
  BY DEF PipelineInv
<1>6. CASE Process(w)
  <2> DEFINE app == Stored(w).installation # None
             local == [workers[w] EXCEPT !.pc = "lookup", !.app = app]
  <2>1. app \in BOOLEAN /\ (AppOnly => app = TRUE)
    BY <1>3 DEF Stored, RunRules
  <2> HIDE DEF app
  <2>2. /\ local \in Local /\ local.pc = "lookup" /\ local.run = r
        /\ local.app = app /\ local.report = workers[w].report
        /\ local.check = workers[w].check
    BY <1>1, <2>1 DEF Local, ProcessPc
  <2>3. Set(w, local)
    BY <1>6 DEF Process, app
  <2> HIDE DEF local
  <2>4. Becomes(w, "lookup", app, workers[w].report, workers[w].check)
    BY <1>1, <2>2, <2>3, SetFacts
  <2> QED
    BY <1>3, <1>4, <2>1, <2>4
       DEF Becomes, Progresses, LocalInv, Carries, PastClaim, Publishing
<1>7. CASE Lookup(w)
  <2>1. workers[w].pc = "lookup" /\ (AppOnly => workers[w].app)
    BY <1>5, <1>7 DEF Lookup, At, LocalInv
  <2>2. \/ Moves(w, "execute")
        \/ r \in DOMAIN evidence /\ workers[w].app /\ Moves(w, "publish")
        \/ r \in DOMAIN evidence /\ ~workers[w].app /\ Moves(w, "finish")
    BY <1>1, <1>7, GotoFacts
       DEF Lookup, AfterExecution, Pc, ExecutePc, ProcessPc
  <2> QED
    BY <1>3, <1>4, <2>1, <2>2
       DEF Moves, Becomes, Progresses, LocalInv, Carries, Decided, PastClaim, Publishing
<1>8. CASE Execute(w)
  <2>1. workers[w].pc = "execute" /\ (AppOnly => workers[w].app)
    BY <1>5, <1>8 DEF Execute, At, LocalInv, ExecutePc
  <2>2. \/ r \in DOMAIN evidence /\ Moves(w, "replay")
        \/ Moves(w, "load")
    BY <1>1, <1>8, GotoFacts DEF Execute, Pc, ExecutePc
  <2> QED
    BY <1>3, <1>4, <2>1, <2>2
       DEF Moves, Becomes, Progresses, LocalInv, Carries, PastClaim, Publishing
<1>9. CASE Load(w)
  <2>1. workers[w].pc = "load" /\ (AppOnly => workers[w].app)
    BY <1>5, <1>9 DEF Load, At, LocalInv, ExecutePc
  <2>2. Moves(w, "queue") \/ Moves(w, Handler(workers[w].pc))
    BY <1>1, <1>3, <1>9, ReloadFacts, ThrowFacts DEF Load, Pc, ExecutePc
  <2>3. CASE Moves(w, "queue")
    BY <1>3, <1>4, <2>1, <2>3
       DEF Moves, Becomes, Progresses, LocalInv, Carries, PastClaim, Publishing
  <2> QED
    BY <1>2, <2>2, <2>3, ThrowProgresses
<1>10. CASE Replay(w)
  <2> DEFINE pc == IF Dispatchable(Stored(w)) THEN "save" ELSE AfterExecution(w)
             local == [workers[w] EXCEPT !.pc = pc, !.report = evidence[r]]
  <2>1. workers[w].pc = "replay" /\ r \in DOMAIN evidence
        /\ (AppOnly => workers[w].app)
    BY <1>5, <1>10 DEF Replay, At, LocalInv, ExecutePc
  <2>2. evidence[r] \in Document /\ evidence[r] \in Report
    BY <1>1, <2>1, DocumentAssumption DEF PipelineTypeOK, TypeOK, Partial
  <2>3. \/ pc = "save" \/ pc = "publish"
        \/ pc = "finish" /\ runs[r].lifecycle = "TERMINAL"
    BY <1>1, <1>3
       DEF AfterExecution, Dispatchable, Stored, RunRules, PipelineTypeOK, TypeOK,
           Partial, VerificationRun
  <2> HIDE DEF pc
  <2>4. /\ local \in Local /\ local.pc = pc /\ local.run = r
        /\ local.app = workers[w].app /\ local.report = evidence[r]
        /\ local.check = workers[w].check
    <3>1. pc \in {"idle"} \cup ExecutePc \cup ProcessPc \cup HandlerPc
      BY <2>3 DEF ProcessPc, ExecutePc
    <3> QED
      BY <1>1, <2>2, <3>1 DEF Local
  <2>5. Set(w, local)
    BY <1>10 DEF Replay, pc
  <2> HIDE DEF local
  <2>6. Becomes(w, pc, workers[w].app, evidence[r], workers[w].check)
    BY <1>1, <2>4, <2>5, SetFacts
  <2> QED
    BY <1>3, <1>4, <2>1, <2>2, <2>3, <2>6
       DEF Becomes, Progresses, LocalInv, Carries, Decided, PastClaim, Publishing
<1>11. CASE Generate(w)
  <2>1. /\ workers[w].pc = "generate" /\ (AppOnly => workers[w].app)
        /\ runs[r].phase # "CONTEXT"
    BY <1>5, <1>11 DEF Generate, At, LocalInv, ExecutePc, PastClaim
  <2>2. PICK pc \in {"recheck", "generate"} :
          Set(w, [workers[w] EXCEPT !.pc = pc, !.attempt = @ + 1])
    BY <1>11 DEF Generate
  <2> DEFINE local == [workers[w] EXCEPT !.pc = pc, !.attempt = @ + 1]
  <2>3. workers[w].attempt + 1 \in 0 .. MaxCandidates
    BY <1>1, <1>11, PipelineAssumption DEF Generate, Local
  <2>4. /\ local \in Local /\ local.pc = pc /\ local.run = r
        /\ local.app = workers[w].app /\ local.report = workers[w].report
        /\ local.check = workers[w].check
    BY <1>1, <2>3 DEF Local, ExecutePc
  <2> HIDE DEF local
  <2>5. Moves(w, pc)
    BY <1>1, <2>2, <2>4, SetFacts DEF local, Moves
  <2> QED
    BY <1>3, <1>4, <2>1, <2>5
       DEF Moves, Becomes, Progresses, LocalInv, Carries, PastClaim, Publishing
<1>12. CASE Recheck(w) \/ Challenge(w) \/ Repair(w)
  <2>1. /\ workers[w].pc \in PastClaim /\ (AppOnly => workers[w].app)
        /\ runs[r].phase # "CONTEXT"
    BY <1>5, <1>12 DEF Recheck, Challenge, Repair, At, LocalInv, ExecutePc, PastClaim
  <2>2. \/ \E pc \in {"base", "head", "generate"} : Moves(w, pc)
        \/ Moves(w, Handler(workers[w].pc))
    BY <1>1, <1>12, GotoFacts, ThrowFacts DEF Recheck, Challenge, Repair, Pc, ExecutePc
  <2>3. ASSUME NEW pc \in {"base", "head", "generate"}, Moves(w, pc)
        PROVE  Progresses(w)
    BY <1>3, <1>4, <2>1, <2>3
       DEF Moves, Becomes, Progresses, LocalInv, Carries, PastClaim, Publishing
  <2> QED
    BY <1>2, <2>2, <2>3, ThrowProgresses
<1>13. CASE Reporting(w)
  <2>1. PICK report \in Document :
          Set(w, [workers[w] EXCEPT !.pc = "save", !.report = report])
    BY <1>13 DEF Reporting, Abstain, Exhaust, Judge
  <2> DEFINE local == [workers[w] EXCEPT !.pc = "save", !.report = report]
  <2>2. workers[w].pc \in ExecutePc /\ (AppOnly => workers[w].app)
    <3>1. workers[w].pc \in {"select", "generate", "judge"}
      BY <1>13 DEF Reporting, Abstain, Exhaust, Judge, At
    <3> QED
      BY <1>5, <3>1 DEF LocalInv, ExecutePc
  <2>3. report \in Report
    BY DocumentAssumption
  <2>4. /\ local \in Local /\ local.pc = "save" /\ local.run = r
        /\ local.app = workers[w].app /\ local.report = report
        /\ local.check = workers[w].check
    BY <1>1, <2>3 DEF Local, ExecutePc
  <2> HIDE DEF local
  <2>5. Becomes(w, "save", workers[w].app, report, workers[w].check)
    BY <1>1, <2>1, <2>4, SetFacts DEF local
  <2> QED
    BY <1>3, <1>4, <2>2, <2>5
       DEF Becomes, Progresses, LocalInv, Carries, PastClaim, Publishing
<1>14. CASE Latest(w)
  <2>1. /\ workers[w].pc = "latest" /\ (AppOnly => workers[w].app)
        /\ workers[w].report \in Document
        /\ r \in DOMAIN evidence /\ evidence[r] = workers[w].report
    BY <1>5, <1>14 DEF Latest, At, LocalInv, ExecutePc
  <2>2. Moves(w, "complete")
    BY <1>1, <1>3, <1>14, ReloadFacts DEF Latest, Pc, ExecutePc
  <2> QED
    BY <1>3, <1>4, <2>1, <2>2
       DEF Moves, Becomes, Progresses, LocalInv, Carries, PastClaim, Publishing
<1> QED
  BY <1>6, <1>7, <1>8, <1>9, <1>10, <1>11, <1>12, <1>13, <1>14

(* The transitions of the workflow. *)
LEMMA TransitionProgress ==
  ASSUME PipelineInv, TypeOK', Grows, NEW w \in Worker,
         \/ Queue(w) \/ Start(w) \/ Claim(w) \/ Select(w) \/ Base(w) \/ Head(w)
         \/ Assess(w)
  PROVE  Progresses(w)
<1> DEFINE r == workers[w].run
<1>1. workers \in [Worker -> Local] /\ PipelineTypeOK /\ TypeOK
  BY DEF PipelineInv, PipelineTypeOK
<1>2. /\ workers[w].pc \in {"queue", "start", "claim", "select", "base", "head", "assess"}
      /\ workers[w].pc # "idle"
  BY DEF Queue, Start, Claim, Select, Base, Head, Assess, At
<1>3. /\ r \in DOMAIN runs /\ r \in RunId
      /\ workers[w].report \in Document \cup {None} /\ workers[w].check = None
      /\ (AppOnly => workers[w].app)
      /\ (workers[w].pc \in PastClaim => runs[r].phase # "CONTEXT")
  BY <1>1, <1>2 DEF PipelineInv, LocalInv, ExecutePc, TypeOK, Partial
<1>4. Carries(r)
  BY <1>3, RunCarries
<1>5. ASSUME NEW pc \in Pc, NEW t, Transition(w, t, pc)
      PROVE  \/ Progresses(w)
             \/ TransitionRun(r, Seen(w).version, t, clock) /\ Moves(w, pc)
  BY <1>1, <1>2, <1>5, TransitionFacts, ThrowProgresses
<1>6. CASE Claim(w)
  <2>1. "select" \in Pc
    BY DEF Pc, ExecutePc
  <2>2. CASE /\ TransitionRun(r, Seen(w).version, AdvancesTo("CLAIM"), clock)
             /\ Moves(w, "select")
    <3>1. runs[r].phase = "CONTEXT" /\ runs'[r].phase = "CLAIM"
      BY <1>1, <1>3, <2>2, ClaimEnters
    <3> QED
      BY <1>3, <1>4, <2>2, <3>1
         DEF Moves, Becomes, Progresses, LocalInv, Carries, PastClaim, Publishing
  <2> QED
    BY <1>5, <1>6, <2>1, <2>2 DEF Claim
<1>7. CASE Queue(w) \/ Start(w)
  <2>1. ASSUME NEW pc \in {"start", "claim"}, Moves(w, pc)
        PROVE  Progresses(w)
    BY <1>3, <1>4, <2>1
       DEF Moves, Becomes, Progresses, LocalInv, Carries, PastClaim, Publishing
  <2>2. \E pc \in {"start", "claim"} :
          pc \in Pc /\ (Goto(w, pc) \/ \E t : Transition(w, t, pc))
    BY <1>7 DEF Queue, Start, Skip, Pc, ExecutePc
  <2> QED
    BY <1>1, <1>5, <2>1, <2>2, GotoFacts
<1>8. CASE Select(w) \/ Base(w) \/ Head(w) \/ Assess(w)
  <2>0. workers[w].pc \in PastClaim
    BY <1>8 DEF Select, Base, Head, Assess, At, PastClaim
  <2>1. ASSUME NEW pc \in {"generate", "challenge", "assess", "judge"}, Moves(w, pc)
        PROVE  Progresses(w)
    BY <1>3, <1>4, <2>0, <2>1
       DEF Moves, Becomes, Progresses, LocalInv, Carries, PastClaim, Publishing
  <2>2. \E pc \in {"generate", "challenge", "assess", "judge"} :
          pc \in Pc /\ (Goto(w, pc) \/ \E t : Transition(w, t, pc))
    BY <1>8 DEF Select, Base, Head, Assess, Skip, Pc, ExecutePc
  <2> QED
    BY <1>1, <1>5, <2>1, <2>2, GotoFacts
<1> QED
  BY <1>6, <1>7, <1>8

(* save_evidence and the transition that completes the run. *)
LEMMA SaveProgress ==
  ASSUME PipelineInv, TypeOK', Grows, NEW w \in Worker, Save(w)
  PROVE  Progresses(w)
<1> DEFINE r == workers[w].run
<1>1. workers \in [Worker -> Local]
  BY DEF PipelineInv, PipelineTypeOK
<1>2. workers[w].pc = "save"
  BY DEF Save, At
<1>3. /\ r \in DOMAIN runs /\ workers[w].report \in Document
      /\ workers[w].check = None /\ (AppOnly => workers[w].app)
  BY <1>2 DEF PipelineInv, LocalInv, ExecutePc
<1>4. Carries(r)
  BY <1>3, RunCarries
<1>5. CASE SaveEvidence(r, workers[w].report) /\ Goto(w, "latest")
  <2>1. Moves(w, "latest")
    BY <1>1, <1>5, GotoFacts DEF Pc, ExecutePc
  <2>2. r \in DOMAIN evidence' /\ evidence'[r] = workers[w].report
    BY <1>5 DEF SaveEvidence, Put
  <2> QED
    BY <1>3, <1>4, <2>1, <2>2
       DEF Moves, Becomes, Progresses, LocalInv, Carries, PastClaim, Publishing
<1>6. CASE Throw(w)
  BY <1>1, <1>2, <1>6, ThrowFacts, ThrowProgresses
<1> QED
  BY <1>5, <1>6 DEF Save

LEMMA Completes ==
  ASSUME TypeOK, TypeOK', NEW r \in RunId, NEW v, NEW report \in Document,
         TransitionRun(r, v, CompletesWith(report), clock)
  PROVE  /\ runs'[r].lifecycle = "TERMINAL" /\ runs'[r].terminal_reason = "COMPLETED"
         /\ runs'[r].mechanical = report.mechanical
         /\ runs'[r].outcome = report.outcome
         /\ runs'[r].publication # "PUBLISHED"
<1> DEFINE t == CompletesWith(report)
<1>1. /\ runs[r] \in VerificationRun /\ clock \in Nat
      /\ runs'[r] = Requested(runs[r], t, clock)
  BY DEF TransitionRun, Readable, TypeOK, Partial, ApplyRunTransition
<1>2. t \in RunTransition
  BY AskedTransitions, StoreAssumption
<1>3. /\ report.mechanical \in MechanicalStatus /\ report.outcome \in ClaimOutcome
      /\ t.lifecycle = "TERMINAL" /\ t.terminal_reason = "COMPLETED"
      /\ t.mechanical = report.mechanical /\ t.outcome = report.outcome
      /\ t.publication = "PENDING"
  BY DocumentAssumption DEF CompletesWith, Report
<1> HIDE DEF t
<1> QED
  BY <1>1, <1>2, <1>3, RequestedFacts, NoneAssumption
     DEF Or, Lifecycle, Reason, Publication

LEMMA CompleteProgress ==
  ASSUME PipelineInv, TypeOK', Grows, NEW w \in Worker, Complete(w)
  PROVE  Progresses(w)
<1> DEFINE r == workers[w].run
           t == CompletesWith(workers[w].report)
<1>1. workers \in [Worker -> Local] /\ PipelineTypeOK /\ TypeOK
  BY DEF PipelineInv, PipelineTypeOK
<1>2. workers[w].pc = "complete"
  BY DEF Complete, At
<1>3. /\ r \in DOMAIN runs /\ r \in RunId /\ workers[w].report \in Document
      /\ workers[w].check = None /\ (AppOnly => workers[w].app)
  BY <1>1, <1>2 DEF PipelineInv, LocalInv, ExecutePc, TypeOK, Partial
<1>4. Carries(r)
  BY <1>3, RunCarries
<1>5. AfterExecution(w) \in {"publish", "finish"} /\ AfterExecution(w) \in Pc
  BY DEF AfterExecution, Pc, ProcessPc
<1>6. CASE TransitionRun(r, Seen(w).version, t, clock) /\ Moves(w, AfterExecution(w))
  <2>1. runs'[r].lifecycle = "TERMINAL"
    BY <1>1, <1>3, <1>6, Completes
  <2> QED
    BY <1>3, <1>4, <1>5, <1>6, <2>1
       DEF Moves, Becomes, Progresses, LocalInv, Carries, Decided, PastClaim, Publishing,
           ExecutePc
<1>7. CASE Moves(w, Handler(workers[w].pc))
  BY <1>2, <1>7, ThrowProgresses
<1> QED
  BY <1>1, <1>5, <1>6, <1>7, TransitionFacts DEF Complete
-----------------------------------------------------------------------------
(* The response of a request, and what it does to the task. *)
Responds(w, ok) ==
  /\ workers' \in [Worker -> Local]
  /\ \A v \in Worker : v # w => workers'[v] = workers[v]
  /\ workers'[w].pc = "idle"
  /\ Partial(tasks', RunId, Task) /\ DOMAIN tasks' = DOMAIN tasks
  /\ \A r \in DOMAIN tasks :
       \/ tasks'[r] = tasks[r]
       \/ /\ r = workers[w].run
          /\ tasks'[r].state = "queued" => tasks'[r].attempts < MaxDeliveries
          /\ tasks'[r].state = "acknowledged" => ok \/ tasks'[r].refused

LEMMA IdleLocal == Idle \in Local /\ Idle.pc = "idle"
  BY PipelineAssumption DEF Idle, Local

LEMMA ReturnedFacts ==
  ASSUME NEW task \in Task
  PROVE  /\ Returned(task) \in Task
         /\ Returned(task).state \in {"queued", "dropped"}
         /\ Returned(task).attempts = task.attempts
         /\ Returned(task).state = "queued" => task.attempts < MaxDeliveries
  BY DEF Returned, Task

LEMMA RespondFacts ==
  ASSUME PipelineTypeOK, NEW w \in Worker, NEW ok \in BOOLEAN, Respond(w, ok)
  PROVE  Responds(w, ok)
<1> DEFINE r == workers[w].run
           task == IF ok THEN [tasks[r] EXCEPT !.state = "acknowledged", !.by = None]
                   ELSE Returned(tasks[r])
<1>1. /\ workers' \in [Worker -> Local] /\ workers'[w].pc = "idle"
      /\ \A v \in Worker : v # w => workers'[v] = workers[v]
  BY IdleLocal DEF Respond, PipelineTypeOK
<1>2. CASE ~Holds(w)
  BY <1>1, <1>2 DEF Respond, Responds, PipelineTypeOK
<1>3. CASE Holds(w)
  <2>1. r \in DOMAIN tasks /\ tasks[r] \in Task
    BY <1>3 DEF Holds, PipelineTypeOK, Partial
  <2>2. /\ task \in Task
        /\ task.state = "queued" => task.attempts < MaxDeliveries
        /\ task.state = "acknowledged" => ok
    <3>1. CASE ok
      BY <2>1, <3>1 DEF Task
    <3>2. CASE ~ok
      BY <2>1, <3>2, ReturnedFacts
    <3> QED
      BY <3>1, <3>2
  <2>3. tasks' = [tasks EXCEPT ![r] = task]
    BY <1>3 DEF Respond
  <2> HIDE DEF task
  <2> QED
    BY <1>1, <2>1, <2>2, <2>3, ExceptFacts DEF Responds, PipelineTypeOK
<1> QED
  BY <1>2, <1>3

LEMMA RefusedFacts ==
  ASSUME PipelineTypeOK, NEW w \in Worker, Refused(w)
  PROVE  Responds(w, FALSE) /\ workers[w].pc # "idle"
<1> DEFINE r == workers[w].run
           task == [tasks[r] EXCEPT !.state = "acknowledged", !.by = None, !.refused = TRUE]
<1>1. /\ workers' \in [Worker -> Local] /\ workers'[w].pc = "idle"
      /\ \A v \in Worker : v # w => workers'[v] = workers[v]
      /\ workers[w].pc # "idle"
  BY IdleLocal DEF Refused, Set, At, PipelineTypeOK
<1>2. CASE ~Holds(w)
  BY <1>1, <1>2 DEF Refused, Responds, PipelineTypeOK
<1>3. CASE Holds(w)
  <2>1. r \in DOMAIN tasks /\ tasks[r] \in Task
    BY <1>3 DEF Holds, PipelineTypeOK, Partial
  <2>2. task \in Task /\ task.state = "acknowledged" /\ task.refused
    BY <2>1 DEF Task
  <2>3. tasks' = [tasks EXCEPT ![r] = task]
    BY <1>3 DEF Refused
  <2> HIDE DEF task
  <2>4. /\ Partial(tasks', RunId, Task) /\ DOMAIN tasks' = DOMAIN tasks
        /\ tasks'[r] = task /\ \A k \in DOMAIN tasks : k # r => tasks'[k] = tasks[k]
    BY <2>1, <2>2, <2>3, ExceptFacts DEF PipelineTypeOK
  <2>5. tasks'[r].state = "acknowledged" /\ tasks'[r].refused
    BY <2>2, <2>4
  <2> QED
    BY <1>1, <2>1, <2>4, <2>5 DEF Responds
<1> QED
  BY <1>2, <1>3

LEMMA ResponseProgresses ==
  ASSUME NEW w \in Worker, NEW ok, Responds(w, ok)
  PROVE  Progresses(w)
  BY DEF Responds, Progresses, LocalInv, PastClaim

LEMMA LastTransitionFacts ==
  ASSUME PipelineTypeOK, NEW w \in Worker, NEW t, NEW ok \in BOOLEAN,
         LastTransition(w, t, ok)
  PROVE  \/ /\ TransitionRun(workers[w].run, Seen(w).version, t, clock)
            /\ Responds(w, ok)
         \/ UNCHANGED <<store, tasks>> /\ Moves(w, Handler(workers[w].pc))
  BY RespondFacts, ThrowFacts DEF LastTransition, PipelineTypeOK

LEMMA LastTransitionProgresses ==
  ASSUME PipelineInv, Grows, NEW w \in Worker, workers[w].pc # "idle",
         NEW t, NEW ok \in BOOLEAN, LastTransition(w, t, ok)
  PROVE  Progresses(w)
<1>1. PipelineTypeOK
  BY DEF PipelineInv
<1> QED
  BY <1>1, LastTransitionFacts, ResponseProgresses, ThrowProgresses

(* A delivery starts a request that knows only that its run is stored.     *)
LEMMA DeliverProgresses ==
  ASSUME PipelineInv, Grows, NEW r \in RunId, NEW w \in Worker, Deliver(r, w)
  PROVE  Progresses(w)
<1> DEFINE local == [Idle EXCEPT !.pc = "process", !.run = r]
<1>1. /\ local \in Local /\ local.pc = "process" /\ local.run = r
      /\ local.report = None /\ local.check = None
  BY IdleLocal DEF Idle, Local, ProcessPc
<1>2. r \in DOMAIN runs'
  BY DEF Deliver, PipelineInv, TasksInv, Grows, RunGrows
<1>3. /\ workers' \in [Worker -> Local] /\ workers'[w] = local
      /\ \A v \in Worker : v # w => workers'[v] = workers[v]
  BY <1>1 DEF Deliver, PipelineInv, PipelineTypeOK
<1> HIDE DEF local
<1> QED
  BY <1>1, <1>2, <1>3 DEF Progresses, LocalInv, PastClaim, Publishing, ExecutePc
-----------------------------------------------------------------------------
(* Steps of the publisher.  From begin to settle the run stays completed   *)
(* with its publication record, and a check known to the request or to the *)
(* record is on GitHub.                                                    *)

(* A step between two points of the publisher that keeps the known check.  *)
LEMMA PublishingMoves ==
  ASSUME PipelineInv, Grows, NEW w \in Worker, workers[w].pc \in Publishing \ {"begin"},
         NEW pc \in {"reopen", "find", "upsert", "reread", "error_record", "error_reread",
                     "error_settle"},
         Moves(w, pc),
         pc = "reread" =>
           /\ workers[w].run \in DOMAIN publications'
           /\ publications'[workers[w].run].check = workers[w].check
           /\ workers[w].check # None
  PROVE  Progresses(w)
<1> DEFINE r == workers[w].run
<1>1. /\ r \in DOMAIN runs /\ Completed(r) /\ r \in DOMAIN publications
      /\ workers[w].report \in Document \cup {None}
      /\ workers[w].check # None => workers[w].check \in ChecksOf(r)
  BY DEF PipelineInv, LocalInv, Publishing
<1>2. Carries(r)
  BY <1>1, RunCarries
<1>3. workers[w].check # None =>
        /\ workers[w].check \in DOMAIN checks'
        /\ checks'[workers[w].check].external_id = r
  BY <1>1, <1>2 DEF Carries, ChecksOf
<1>4. runs'[r].terminal_reason = "COMPLETED" /\ r \in DOMAIN runs' /\ r \in DOMAIN publications'
  BY <1>1, <1>2 DEF Carries, Completed
<1> QED
  BY <1>1, <1>3, <1>4
     DEF Moves, Becomes, Progresses, LocalInv, Completed, ChecksOf, PastClaim, Publishing,
         ExecutePc

LEMMA BeginProgress ==
  ASSUME PipelineInv, Grows, NEW w \in Worker, Begin(w)
  PROVE  Progresses(w)
<1> DEFINE r == workers[w].run
           known == publications'[r].check
<1>1. /\ workers \in [Worker -> Local] /\ workers[w] \in Local /\ TypeOK
      /\ workers[w].pc = "begin"
      /\ DOMAIN checks \subseteq CheckId
  BY DEF PipelineInv, PipelineTypeOK, Begin, At, Partial
<1>2. /\ r \in DOMAIN runs /\ Completed(r)
      /\ workers[w].report \in Document \cup {None}
  BY <1>1 DEF PipelineInv, LocalInv, Publishing
<1>3. Carries(r)
  BY <1>2, RunCarries
<1>4. CASE /\ BeginPublication(r, PayloadOf(r))
           /\ Set(w, [workers[w] EXCEPT !.pc = "reload", !.check = known])
  <2>1. /\ r \in DOMAIN publications'
        /\ known = IF r \in DOMAIN publications THEN publications[r].check ELSE None
    <3>1. CASE r \notin DOMAIN publications
      BY <1>4, <3>1 DEF BeginPublication, Put
    <3>2. CASE r \in DOMAIN publications
      <4>1. publications[r] \in CheckPublication
        BY <1>1, <3>2 DEF TypeOK, Partial
      <4>2. /\ r \in DOMAIN publications'
            /\ publications'[r] = [publications[r] EXCEPT !.attempts = @ + 1,
                                                          !.error = FALSE]
        BY <1>4, <3>2 DEF BeginPublication, Put
      <4> QED
        BY <3>2, <4>1, <4>2 DEF CheckPublication
    <3> QED
      BY <3>1, <3>2
  <2>2. known # None => known \in ChecksOf(r)
    BY <2>1 DEF PipelineInv, ChecksInv
  <2> HIDE DEF known
  <2> DEFINE local == [workers[w] EXCEPT !.pc = "reload", !.check = known]
  <2>3. known \in CheckId \cup {None}
    BY <1>1, <2>2 DEF ChecksOf
  <2>4. /\ local \in Local /\ local.pc = "reload" /\ local.run = r
        /\ local.app = workers[w].app /\ local.report = workers[w].report
        /\ local.check = known
    BY <1>1, <2>3 DEF Local, ProcessPc
  <2> HIDE DEF local
  <2>5. Becomes(w, "reload", workers[w].app, workers[w].report, known)
    BY <1>1, <1>4, <2>4, SetFacts DEF local, known
  <2>6. known # None => known \in DOMAIN checks' /\ checks'[known].external_id = r
    BY <1>3, <2>2 DEF Carries, ChecksOf
  <2> QED
    BY <1>2, <1>3, <2>1, <2>5, <2>6
       DEF Becomes, Progresses, LocalInv, Carries, Completed, ChecksOf, PastClaim,
           Publishing, ExecutePc
<1>5. CASE Throw(w)
  BY <1>1, <1>5, ThrowFacts, ThrowProgresses
<1> QED
  BY <1>4, <1>5 DEF Begin

LEMMA PublishProgress ==
  ASSUME PipelineInv, Grows, NEW w \in Worker, Publish(w)
  PROVE  Progresses(w)
<1> DEFINE r == workers[w].run
<1>1. workers \in [Worker -> Local] /\ workers[w].pc = "publish" /\ PipelineTypeOK
  BY DEF PipelineInv, PipelineTypeOK, Publish, At
<1>2. /\ r \in DOMAIN runs /\ workers[w].check = None
      /\ workers[w].report \in Document \cup {None}
  BY <1>1 DEF PipelineInv, LocalInv
<1>3. Carries(r)
  BY <1>2, RunCarries
<1>4. CASE Respond(w, TRUE)
  BY <1>1, <1>4, RespondFacts, ResponseProgresses
<1>5. CASE Publishable(r) /\ Goto(w, "begin")
  <2>1. Moves(w, "begin") /\ runs[r].terminal_reason = "COMPLETED"
    BY <1>1, <1>5, GotoFacts DEF Pc, ProcessPc, Publishable
  <2> QED
    BY <1>2, <1>3, <2>1
       DEF Moves, Becomes, Progresses, LocalInv, Carries, Completed, PastClaim,
           Publishing, ExecutePc
<1>6. CASE Throw(w)
  BY <1>1, <1>6, ThrowFacts, ThrowProgresses
<1> QED
  BY <1>4, <1>5, <1>6 DEF Publish

LEMMA ErrorsFacts ==
  ASSUME PipelineTypeOK, NEW w \in Worker, NEW kind \in {"retryable", "terminal"},
         Errors(w, kind)
  PROVE  Moves(w, "error_record")
<1> DEFINE local == [workers[w] EXCEPT !.pc = "error_record", !.error = kind]
<1>1. workers \in [Worker -> Local] /\ workers[w] \in Local
  BY DEF PipelineTypeOK
<1>2. /\ local \in Local /\ local.pc = "error_record" /\ local.run = workers[w].run
      /\ local.app = workers[w].app /\ local.report = workers[w].report
      /\ local.check = workers[w].check
  BY <1>1 DEF Local, ProcessPc
<1>3. Set(w, local)
  BY DEF Errors
<1> HIDE DEF local
<1> QED
  BY <1>1, <1>2, <1>3, SetFacts DEF Moves

LEMMA FindProgress ==
  ASSUME PipelineInv, Grows, NEW w \in Worker, Find(w)
  PROVE  Progresses(w)
<1> DEFINE r == workers[w].run
<1>1. /\ workers \in [Worker -> Local] /\ workers[w] \in Local /\ PipelineTypeOK
      /\ workers[w].pc = "find" /\ workers[w].pc \in Publishing \ {"begin"}
      /\ DOMAIN checks \subseteq CheckId
  BY DEF PipelineInv, PipelineTypeOK, Find, At, Partial, Publishing
<1>2. /\ r \in DOMAIN runs /\ Completed(r) /\ r \in DOMAIN publications
      /\ workers[w].report \in Document \cup {None}
  BY <1>1 DEF PipelineInv, LocalInv
<1>3. Carries(r)
  BY <1>2, RunCarries
<1>4. ASSUME NEW c \in ChecksOf(r) \cup {None},
             Set(w, [workers[w] EXCEPT !.pc = "upsert", !.check = c])
      PROVE  Progresses(w)
  <2> DEFINE local == [workers[w] EXCEPT !.pc = "upsert", !.check = c]
  <2>1. c \in CheckId \cup {None}
    BY <1>1 DEF ChecksOf
  <2>2. /\ local \in Local /\ local.pc = "upsert" /\ local.run = r
        /\ local.app = workers[w].app /\ local.report = workers[w].report
        /\ local.check = c
    BY <1>1, <2>1 DEF Local, ProcessPc
  <2> HIDE DEF local
  <2>3. Becomes(w, "upsert", workers[w].app, workers[w].report, c)
    BY <1>1, <1>4, <2>2, SetFacts DEF local
  <2>4. c # None => c \in DOMAIN checks' /\ checks'[c].external_id = r
    BY <1>3 DEF Carries, ChecksOf
  <2> QED
    BY <1>2, <1>3, <2>3, <2>4
       DEF Becomes, Progresses, LocalInv, Carries, Completed, ChecksOf, PastClaim,
           Publishing, ExecutePc
<1>5. CASE Errors(w, "terminal") \/ Goto(w, "upsert")
  <2>1. Moves(w, "error_record") \/ Moves(w, "upsert")
    BY <1>1, <1>5, ErrorsFacts, GotoFacts DEF Pc, ProcessPc
  <2> QED
    BY <1>1, <2>1, PublishingMoves
<1> QED
  BY <1>4, <1>5 DEF Find, FindExisting

LEMMA UpsertProgress ==
  ASSUME PipelineInv, Grows, NEW w \in Worker, Upsert(w)
  PROVE  Progresses(w)
<1> DEFINE r == workers[w].run
<1>1. workers[w].pc = "upsert" /\ workers[w].pc \in Publishing \ {"begin"}
  BY DEF Upsert, At, Publishing
<1>2. /\ r \in DOMAIN runs /\ Completed(r) /\ r \in DOMAIN publications
      /\ workers[w].report \in Document \cup {None}
  BY <1>1 DEF PipelineInv, LocalInv
<1>3. Carries(r)
  BY <1>2, RunCarries
<1>4. PICK c \in CheckId :
        /\ checks' = Put(checks, c, PayloadOf(r))
        /\ \/ Moves(w, "error_record")
           \/ Becomes(w, "remember", workers[w].app, workers[w].report, c)
  BY UpsertFacts
<1>5. CASE Moves(w, "error_record")
  BY <1>1, <1>5, PublishingMoves
<1>6. CASE Becomes(w, "remember", workers[w].app, workers[w].report, c)
  <2>1. c \in DOMAIN checks' /\ checks'[c].external_id = r /\ c # None
    BY <1>4, StoreAssumption DEF Put, PayloadOf, FormatGithubCheck
  <2> QED
    BY <1>2, <1>3, <1>6, <2>1
       DEF Becomes, Progresses, LocalInv, Carries, Completed, ChecksOf, PastClaim,
           Publishing, ExecutePc
<1> QED
  BY <1>4, <1>5, <1>6

LEMMA RememberProgress ==
  ASSUME PipelineInv, Grows, NEW w \in Worker, Remember(w)
  PROVE  Progresses(w)
<1> DEFINE r == workers[w].run
<1>1. /\ workers \in [Worker -> Local] /\ TypeOK
      /\ workers[w].pc = "remember" /\ workers[w].pc \in Publishing \ {"begin"}
  BY DEF PipelineInv, PipelineTypeOK, Remember, At, Publishing
<1>2. workers[w].check # None
  BY <1>1 DEF PipelineInv, LocalInv
<1>3. CASE SetCheckRunId(r, workers[w].check) /\ Goto(w, "reread")
  <2>1. r \in DOMAIN publications' /\ publications'[r].check = workers[w].check
    BY <1>1, <1>3 DEF SetCheckRunId, TypeOK, Partial, CheckPublication
  <2>2. Moves(w, "reread")
    BY <1>1, <1>3, GotoFacts DEF Pc, ProcessPc
  <2> QED
    BY <1>1, <1>2, <2>1, <2>2, PublishingMoves
<1>4. CASE Throw(w)
  BY <1>1, <1>4, ThrowFacts, ThrowProgresses
<1> QED
  BY <1>3, <1>4 DEF Remember

LEMMA RereadProgress ==
  ASSUME PipelineInv, Grows, NEW w \in Worker, Reread(w)
  PROVE  Progresses(w)
<1> DEFINE r == workers[w].run
<1>1. /\ PipelineTypeOK /\ workers[w].pc = "reread" /\ DOMAIN checks \subseteq CheckId
  BY DEF PipelineInv, PipelineTypeOK, Reread, At, Partial
<1>2. /\ r \in DOMAIN runs /\ Completed(r) /\ r \in DOMAIN publications
      /\ publications[r].check \in ChecksOf(r)
      /\ workers[w].check # None => workers[w].check \in ChecksOf(r)
      /\ workers[w].report \in Document \cup {None}
  BY <1>1 DEF PipelineInv, LocalInv, Publishing
<1>3. Carries(r)
  BY <1>2, RunCarries
<1>4. publications[r].check # None
  BY <1>1, <1>2, StoreAssumption DEF ChecksOf
<1>5. Moves(w, "settle")
  BY <1>1, <1>2, ReloadFacts DEF Reread, Pc, ProcessPc
<1> QED
  BY <1>2, <1>3, <1>4, <1>5
     DEF Moves, Becomes, Progresses, LocalInv, Carries, Completed, ChecksOf, PastClaim,
         Publishing, ExecutePc

(* _finish_without_github_check *)
LEMMA FinishProgress ==
  ASSUME PipelineInv, Grows, NEW w \in Worker, Finish(w)
  PROVE  Progresses(w)
<1> DEFINE r == workers[w].run
<1>1. PipelineTypeOK /\ workers[w].pc = "finish"
  BY DEF PipelineInv, Finish, At
<1>2. /\ r \in DOMAIN runs /\ Decided(r)
      /\ workers[w].report \in Document \cup {None}
  BY <1>1 DEF PipelineInv, LocalInv
<1>3. Carries(r)
  BY <1>2, RunCarries
<1>4. CASE Respond(w, TRUE)
  BY <1>1, <1>4, RespondFacts, ResponseProgresses
<1>5. CASE Reload(w, "not_applicable")
  <2>1. Moves(w, "not_applicable")
    BY <1>1, <1>2, <1>5, ReloadFacts DEF Pc, ProcessPc
  <2> QED
    BY <1>2, <1>3, <2>1
       DEF Moves, Becomes, Progresses, LocalInv, Carries, Decided, PastClaim,
           Publishing, ExecutePc
<1> QED
  BY <1>4, <1>5 DEF Finish

LEMMA PublisherProgress ==
  ASSUME PipelineInv, TypeOK', Grows, NEW w \in Worker, PublisherStep(w)
  PROVE  Progresses(w)
<1>1. PipelineTypeOK /\ workers \in [Worker -> Local]
  BY DEF PipelineInv, PipelineTypeOK
<1>2. CASE Settle(w) \/ ErrorSettle(w) \/ NotApplicable(w)
  <2>1. /\ workers[w].pc # "idle"
        /\ \E t : \E ok \in BOOLEAN : LastTransition(w, t, ok)
    BY <1>2 DEF Settle, ErrorSettle, NotApplicable, At, AnswersOk
  <2> QED
    BY <2>1, LastTransitionProgresses
<1>3. CASE ReloadRun(w) \/ ErrorReread(w)
  <2>1. workers[w].pc \in Publishing \ {"begin"}
    BY <1>3 DEF ReloadRun, ErrorReread, At, Publishing
  <2>2. workers[w].run \in DOMAIN runs
    BY <2>1 DEF PipelineInv, LocalInv, Publishing
  <2>3. \E pc \in {"reopen", "find", "error_settle"} : pc \in Pc /\ Reload(w, pc)
    BY <1>3 DEF ReloadRun, ErrorReread, Pc, ProcessPc
  <2>4. \E pc \in {"reopen", "find", "error_settle"} : Moves(w, pc)
    BY <1>1, <2>2, <2>3, ReloadFacts
  <2> QED
    BY <2>1, <2>4, PublishingMoves
<1>4. CASE Reopen(w)
  <2>1. workers[w].pc = "reopen" /\ workers[w].pc \in Publishing \ {"begin"}
    BY <1>4 DEF Reopen, At, Publishing
  <2>2. Moves(w, "find") \/ Moves(w, Handler(workers[w].pc))
    BY <1>1, <1>4, TransitionFacts DEF Reopen, Pc, ProcessPc
  <2> QED
    BY <2>1, <2>2, PublishingMoves, ThrowProgresses
<1>5. CASE RequestFails(w)
  <2>1. workers[w].pc \in Publishing \ {"begin"}
    BY <1>5 DEF RequestFails, At, Publishing
  <2>2. Moves(w, "error_record")
    BY <1>1, <1>5, ErrorsFacts DEF RequestFails
  <2> QED
    BY <2>1, <2>2, PublishingMoves
<1>6. CASE ErrorRecord(w)
  <2>1. workers[w].pc \in Publishing \ {"begin"}
    BY <1>6 DEF ErrorRecord, At, Publishing
  <2>2. Moves(w, "error_reread")
    BY <1>1, <1>6, GotoFacts DEF ErrorRecord, Pc, ProcessPc
  <2> QED
    BY <2>1, <2>2, PublishingMoves
<1> QED
  BY <1>2, <1>3, <1>4, <1>5, <1>6, PublishProgress, BeginProgress, FindProgress,
     UpsertProgress, RememberProgress, RereadProgress, FinishProgress DEF PublisherStep

(* The handlers of exceptions, and the faults of a request. *)
LEMMA HandlerProgress ==
  ASSUME PipelineInv, Grows, NEW w \in Worker, HandlerStep(w) \/ Crash(w) \/ Raise(w) \/ Refused(w)
  PROVE  Progresses(w)
<1>1. PipelineTypeOK /\ workers \in [Worker -> Local]
  BY DEF PipelineInv, PipelineTypeOK
<1>2. workers[w].pc # "idle"
  BY DEF HandlerStep, WorkerFailed, TaskFailed, FailingRun, Crash, Raise, Refused, At, ExecutePc,
         ProcessPc
<1>3. CASE \E ok \in BOOLEAN : Respond(w, ok)
  BY <1>1, <1>3, RespondFacts, ResponseProgresses
<1>4. CASE Raise(w)
  BY <1>1, <1>2, <1>4, ThrowFacts, ThrowProgresses DEF Raise
<1>6. CASE Refused(w)
  BY <1>1, <1>6, RefusedFacts, ResponseProgresses
<1>5. ASSUME NEW pc \in HandlerPc, Goto(w, pc)
      PROVE  Progresses(w)
  <2>1. Moves(w, pc)
    BY <1>1, <1>5, GotoFacts DEF Pc
  <2>2. workers[w].run \in DOMAIN runs /\ workers[w].report \in Document \cup {None}
    BY <1>2 DEF PipelineInv, LocalInv
  <2>3. workers[w].run \in DOMAIN runs'
    BY <2>2 DEF Grows, RunGrows
  <2> QED
    BY <2>1, <2>2, <2>3
       DEF Moves, Becomes, Progresses, LocalInv, HandlerPc, PastClaim, Publishing, ExecutePc
<1> QED
  BY <1>3, <1>4, <1>5, <1>6
     DEF HandlerStep, WorkerFailed, TaskFailed, FailingRun, Crash, HandlerPc
-----------------------------------------------------------------------------
(* At most one request moves, and it keeps its part of the invariant.      *)
LEMMA RequestsProgress ==
  ASSUME PipelineInv, [PipelineNext]_allVars
  PROVE  UNCHANGED workers \/ \E w \in Worker : Progresses(w)
<1>1. TypeOK' /\ Grows
  BY PipelineGrows
<1>2. CASE \/ UNCHANGED allVars
           \/ \E e \in Events : Receive(e)
           \/ \E r \in RunId : Dispatch(r) \/ DispatchLost(r) \/ Deadline(r)
  BY <1>2 DEF allVars, pipeline, Receive, Dispatch, DispatchLost, Deadline
<1>3. ASSUME NEW r \in RunId, NEW w \in Worker, Deliver(r, w)
      PROVE  Progresses(w)
  BY <1>1, <1>3, DeliverProgresses
<1>4. ASSUME NEW w \in Worker, WorkflowStep(w)
      PROVE  Progresses(w)
  BY <1>1, <1>4, SilentProgress, TransitionProgress, SaveProgress, CompleteProgress
     DEF WorkflowStep
<1>5. ASSUME NEW w \in Worker, \/ PublisherStep(w) \/ HandlerStep(w)
                              \/ Crash(w) \/ Raise(w) \/ Refused(w)
      PROVE  Progresses(w)
  BY <1>1, <1>5, PublisherProgress, HandlerProgress
<1> QED
  BY <1>2, <1>3, <1>4, <1>5 DEF PipelineNext, Failure, RequestStep

LEMMA LocalKept ==
  ASSUME PipelineInv, [PipelineNext]_allVars
  PROVE  /\ workers' \in [Worker -> Local]
         /\ \A w \in Worker : LocalInv(w)'
         /\ SingleExecutor'
<1>1. Grows
  BY PipelineGrows
<1>2. /\ PipelineTypeOK /\ workers \in [Worker -> Local] /\ SingleExecutor
      /\ \A w \in Worker : LocalInv(w)
  BY DEF PipelineInv, PipelineTypeOK
<1>3. ASSUME NEW w \in Worker, workers'[w] = workers[w]
      PROVE  LocalInv(w)'
  BY <1>1, <1>2, <1>3, WaitingKeepsLocal
<1>4. CASE UNCHANGED workers
  BY <1>2, <1>3, <1>4 DEF SingleExecutor
<1>5. ASSUME NEW w \in Worker, Progresses(w)
      PROVE  /\ workers' \in [Worker -> Local]
             /\ \A v \in Worker : LocalInv(v)'
             /\ SingleExecutor'
  <2>1. /\ workers' \in [Worker -> Local] /\ LocalInv(w)'
        /\ \A v \in Worker : v # w => workers'[v] = workers[v]
    BY <1>5 DEF Progresses
  <2>2. \A v \in Worker : LocalInv(v)'
    BY <1>3, <2>1
  <2>3. ASSUME NEW v \in Worker, v # w,
               workers[v].run = workers'[w].run,
               workers[v].pc \in PastClaim, workers'[w].pc \in PastClaim
        PROVE  FALSE
    <3>1. runs[workers[v].run].phase # "CONTEXT"
      BY <1>2, <2>3 DEF LocalInv, PastClaim
    <3>2. workers[w].run = workers[v].run /\ workers[w].pc \in PastClaim
      BY <1>5, <2>3, <3>1 DEF Progresses
    <3> QED
      BY <1>2, <2>3, <3>2 DEF SingleExecutor
  <2>4. ASSUME NEW u \in Worker, NEW v \in Worker, u # v,
               workers'[u].run = workers'[v].run,
               workers'[u].pc \in PastClaim, workers'[v].pc \in PastClaim
        PROVE  FALSE
    <3>1. CASE u = w
      BY <2>1, <2>3, <2>4, <3>1
    <3>2. CASE v = w
      BY <2>1, <2>3, <2>4, <3>2
    <3>3. CASE u # w /\ v # w
      BY <1>2, <2>1, <2>4, <3>3 DEF SingleExecutor
    <3> QED
      BY <3>1, <3>2, <3>3
  <2>5. SingleExecutor'
    BY <2>4 DEF SingleExecutor
  <2> QED
    BY <2>1, <2>2, <2>5
<1> QED
  BY <1>4, <1>5, RequestsProgress
-----------------------------------------------------------------------------
(* The queue: a task is acknowledged only when its run is decided. *)
Answerable(r) == \/ runs'[r].lifecycle = "TERMINAL"
                 \/ r \in DOMAIN evidence' /\ ~AppOnly

Answers(w) == /\ workers[w].pc # "idle"
              /\ \E ok \in BOOLEAN : Responds(w, ok) /\ (ok => Answerable(workers[w].run))

LEMMA DecidedAnswers ==
  ASSUME Grows, NEW r \in DOMAIN runs, Decided(r)
  PROVE  Answerable(r)
  BY DEF Grows, RunGrows, RecordsKept, Decided, Answerable

LEMMA LastTransitionAnswers ==
  ASSUME PipelineInv, Grows, NEW w \in Worker,
         Settle(w) \/ ErrorSettle(w) \/ NotApplicable(w)
  PROVE  UNCHANGED tasks \/ Answers(w)
<1> DEFINE r == workers[w].run
<1>1. PipelineTypeOK /\ workers[w].pc \in {"settle", "error_settle", "not_applicable"}
  BY DEF PipelineInv, Settle, ErrorSettle, NotApplicable, At
<1>2. r \in DOMAIN runs /\ Decided(r)
  <2>1. LocalInv(w) /\ workers[w].pc # "idle"
    BY <1>1 DEF PipelineInv
  <2>2. r \in DOMAIN runs /\ (Completed(r) \/ Decided(r))
    BY <1>1, <2>1 DEF LocalInv, Publishing
  <2> QED
    BY <2>2, NoneAssumption
       DEF Completed, Decided, PipelineInv, RunsInv, RunRules, Reason
<1>3. \E t : \E ok \in BOOLEAN : LastTransition(w, t, ok)
  BY DEF Settle, ErrorSettle, NotApplicable, AnswersOk
<1>4. UNCHANGED tasks \/ \E ok \in BOOLEAN : Responds(w, ok)
  BY <1>1, <1>3, LastTransitionFacts
<1> QED
  BY <1>1, <1>2, <1>4, DecidedAnswers DEF Answers

LEMMA FailsTerminal ==
  ASSUME TypeOK, NEW r, FailRun(r, clock)
  PROVE  runs'[r].lifecycle = "TERMINAL" /\ runs'[r].terminal_reason = "FAILED"
<1>1. /\ r \in DOMAIN runs /\ runs[r] \in VerificationRun /\ clock \in Nat
      /\ runs'[r] = Requested(runs[r], FailTransition, clock)
  BY DEF FailRun, TypeOK, Partial, ApplyRunTransition
<1>2. FailTransition.lifecycle = "TERMINAL" /\ FailTransition.terminal_reason = "FAILED"
  BY DEF FailTransition, NoChange
<1> QED
  BY <1>1, <1>2, RequestedFacts, FailTransitionType, NoneAssumption
     DEF Or, Lifecycle, Reason

LEMMA HandlerAnswers ==
  ASSUME PipelineInv, Grows, NEW w \in Worker, HandlerStep(w)
  PROVE  UNCHANGED tasks \/ Answers(w)
<1> DEFINE r == workers[w].run
<1>1. PipelineTypeOK /\ TypeOK /\ workers[w].pc # "idle"
  BY DEF PipelineInv, PipelineTypeOK, HandlerStep, WorkerFailed, TaskFailed, FailingRun, At
<1>2. r \in DOMAIN runs /\ RunRules(r)
  BY <1>1 DEF PipelineInv, LocalInv, RunsInv
<1>3. CASE Respond(w, FALSE)
  BY <1>1, <1>3, RespondFacts DEF Answers
<1>4. CASE Respond(w, TRUE) /\ ~MustFail(Stored(w))
  <2>1. runs[r].lifecycle = "TERMINAL"
    BY <1>1, <1>2, <1>4
       DEF MustFail, Stored, Dispatchable, RunRules, TypeOK, Partial, VerificationRun
  <2>2. Answerable(r)
    BY <1>2, <2>1, DecidedAnswers DEF Decided
  <2> QED
    BY <1>1, <1>4, <2>2, RespondFacts DEF Answers
<1>5. CASE /\ FailRun(r, clock) \/ r \in DOMAIN failures
           /\ Respond(w, TRUE)
  <2>1. CASE FailRun(r, clock)
    BY <1>1, <1>5, <2>1, RespondFacts, FailsTerminal DEF Answers, Answerable
  <2>2. CASE r \in DOMAIN failures
    <3>1. Answerable(r)
      BY <1>2, <2>2, DecidedAnswers DEF Decided, PipelineInv, FailuresInv
    <3> QED
      BY <1>1, <1>5, <3>1, RespondFacts DEF Answers
  <2> QED
    BY <1>5, <2>1, <2>2
<1> QED
  BY <1>3, <1>4, <1>5 DEF HandlerStep, WorkerFailed, TaskFailed, FailingRun

LEMMA PublishFinishAnswers ==
  ASSUME PipelineInv, Grows, NEW w \in Worker, Publish(w) \/ Finish(w)
  PROVE  UNCHANGED tasks \/ Answers(w)
<1> DEFINE r == workers[w].run
<1>1. PipelineTypeOK /\ workers[w].pc \in {"publish", "finish"}
  BY DEF PipelineInv, Publish, Finish, At
<1>2. /\ r \in DOMAIN runs /\ RunRules(r)
      /\ workers[w].pc = "finish" => Decided(r)
  BY <1>1 DEF PipelineInv, LocalInv, RunsInv
<1>3. UNCHANGED tasks \/ (Respond(w, TRUE) /\ (workers[w].pc = "finish" \/ Publishable(r)))
  BY DEF Publish, Finish, At
<1>4. Publishable(r) => Decided(r)
  BY <1>2, NoneAssumption DEF Publishable, RunRules, Decided, Reason
<1> QED
  BY <1>1, <1>2, <1>3, <1>4, DecidedAnswers, RespondFacts DEF Answers

LEMMA TasksStep ==
  ASSUME PipelineInv, [PipelineNext]_allVars
  PROVE  \/ UNCHANGED tasks
         \/ \E w \in Worker : Answers(w)
         \/ \E r \in RunId : Dispatch(r) \/ Deadline(r) \/ \E w \in Worker : Deliver(r, w)
<1>0. Grows /\ PipelineTypeOK
  BY PipelineGrows DEF PipelineInv
<1>1. ASSUME NEW w \in Worker, NEW t, NEW pc, NEW report,
             \/ Transition(w, t, pc) \/ Abstain(w, report) \/ Exhaust(w, report)
             \/ Judge(w, report) \/ Skip(w, pc)
      PROVE  UNCHANGED tasks
  BY <1>1 DEF Transition, Abstain, Exhaust, Judge, Skip, Silent
<1>2. ASSUME NEW w \in Worker, WorkflowStep(w)
      PROVE  UNCHANGED tasks
  <2>1. CASE \/ Process(w) \/ Lookup(w) \/ Execute(w) \/ Replay(w) \/ Load(w)
             \/ Generate(w) \/ Recheck(w) \/ Challenge(w) \/ Repair(w)
             \/ Save(w) \/ Latest(w)
    BY <2>1 DEF Process, Lookup, Execute, Replay, Load, Generate, Recheck, Challenge,
                Repair, Save, Latest, Silent
  <2>2. CASE \/ Queue(w) \/ Start(w) \/ Claim(w) \/ Select(w) \/ Base(w) \/ Head(w)
             \/ Assess(w) \/ Complete(w) \/ Reporting(w)
    BY <1>1, <2>2
       DEF Queue, Start, Claim, Select, Base, Head, Assess, Complete, Reporting
  <2> QED
    BY <1>2, <2>1, <2>2 DEF WorkflowStep
<1>3. ASSUME NEW w \in Worker, PublisherStep(w)
      PROVE  UNCHANGED tasks \/ Answers(w)
  <2>1. CASE \/ Begin(w) \/ ReloadRun(w) \/ Find(w) \/ Upsert(w) \/ RequestFails(w)
             \/ Remember(w) \/ Reread(w) \/ ErrorRecord(w) \/ ErrorReread(w)
    BY <2>1 DEF Begin, ReloadRun, Find, Upsert, RequestFails, Remember, Reread,
                ErrorRecord, ErrorReread, Silent
  <2>2. CASE Reopen(w)
    BY <1>1, <2>2 DEF Reopen
  <2> QED
    BY <1>0, <1>3, <2>1, <2>2, PublishFinishAnswers, LastTransitionAnswers
       DEF PublisherStep
<1>4. ASSUME NEW w \in Worker, HandlerStep(w) \/ Raise(w)
      PROVE  UNCHANGED tasks \/ Answers(w)
  BY <1>0, <1>4, HandlerAnswers DEF Raise
<1>5. ASSUME NEW w \in Worker, Crash(w) \/ Refused(w)
      PROVE  Answers(w)
  BY <1>0, <1>5, RespondFacts, RefusedFacts DEF Crash, Answers
<1>6. CASE \/ UNCHANGED allVars
           \/ \E e \in Events : Receive(e)
           \/ \E r \in RunId : DispatchLost(r)
  BY <1>6 DEF allVars, pipeline, Receive, DispatchLost
<1> QED
  BY <1>2, <1>3, <1>4, <1>5, <1>6 DEF PipelineNext, Failure, RequestStep

LEMMA TasksKept ==
  ASSUME PipelineInv, [PipelineNext]_allVars
  PROVE  /\ Partial(tasks', RunId, Task)
         /\ TasksInv' /\ AcknowledgedIsTerminal'
<1>1. Grows /\ Partial(tasks, RunId, Task)
  BY PipelineGrows DEF PipelineInv, PipelineTypeOK
<1>2. \A r \in DOMAIN tasks :
        /\ r \in DOMAIN runs /\ r \in DOMAIN runs' /\ tasks[r] \in Task
        /\ tasks[r].state = "queued" => tasks[r].attempts < MaxDeliveries
        /\ tasks[r].state = "acknowledged" => tasks[r].refused \/ Answerable(r)
  <2>1. \A r \in DOMAIN tasks :
          /\ r \in DOMAIN runs /\ tasks[r] \in Task
          /\ tasks[r].state = "queued" => tasks[r].attempts < MaxDeliveries
          /\ tasks[r].state = "acknowledged" => tasks[r].refused \/ Decided(r)
    BY <1>1 DEF PipelineInv, TasksInv, AcknowledgedIsTerminal, Decided, Partial
  <2> QED
    BY <1>1, <2>1, DecidedAnswers DEF Grows, RunGrows
<1>3. CASE UNCHANGED tasks
  BY <1>1, <1>2, <1>3 DEF TasksInv, AcknowledgedIsTerminal, Answerable
<1>4. ASSUME NEW r \in RunId, NEW task \in Task, r \in DOMAIN runs',
             task.state = "queued" => task.attempts < MaxDeliveries,
             task.state # "acknowledged",
             tasks' = Put(tasks, r, task)
      PROVE  /\ Partial(tasks', RunId, Task)
             /\ TasksInv' /\ AcknowledgedIsTerminal'
  <2>1. /\ Partial(tasks', RunId, Task) /\ DOMAIN tasks' = DOMAIN tasks \cup {r}
        /\ tasks'[r] = task
        /\ \A j \in DOMAIN tasks : j # r => tasks'[j] = tasks[j]
    <3>1. LET put == Put(tasks, r, task)
          IN  /\ Partial(put, RunId, Task) /\ DOMAIN put = DOMAIN tasks \cup {r}
              /\ put[r] = task
              /\ \A j \in DOMAIN tasks : j # r => put[j] = tasks[j]
      BY <1>1, PutFacts
    <3> QED
      BY <1>4, <3>1
  <2> QED
    BY <1>2, <1>4, <2>1 DEF TasksInv, AcknowledgedIsTerminal, Answerable
<1>5. ASSUME NEW w \in Worker, Answers(w)
      PROVE  /\ Partial(tasks', RunId, Task)
             /\ TasksInv' /\ AcknowledgedIsTerminal'
  BY <1>2, <1>5 DEF Answers, Responds, TasksInv, AcknowledgedIsTerminal, Answerable
<1>6. ASSUME NEW r \in RunId, Dispatch(r)
      PROVE  /\ Partial(tasks', RunId, Task)
             /\ TasksInv' /\ AcknowledgedIsTerminal'
  <2> DEFINE task == [state |-> "queued", attempts |-> 0, by |-> None,
                     refused |-> FALSE]
  <2>1. task \in Task /\ task.state = "queued" /\ task.attempts < MaxDeliveries
    BY PipelineAssumption DEF Task
  <2>2. r \in DOMAIN runs'
    BY <1>1, <1>6 DEF Dispatch, PipelineInv, PipelineTypeOK, Grows, RunGrows
  <2>3. UNCHANGED tasks \/ tasks' = Put(tasks, r, task)
    BY <1>6 DEF Dispatch
  <2> QED
    BY <1>3, <1>4, <2>1, <2>2, <2>3
<1>7. ASSUME NEW r \in DOMAIN tasks, NEW task \in Task,
             task.state = "queued" => task.attempts < MaxDeliveries,
             task.state # "acknowledged",
             tasks' = [tasks EXCEPT ![r] = task]
      PROVE  /\ Partial(tasks', RunId, Task)
             /\ TasksInv' /\ AcknowledgedIsTerminal'
  <2>1. /\ Partial(tasks', RunId, Task) /\ DOMAIN tasks' = DOMAIN tasks
        /\ tasks'[r] = task
        /\ \A j \in DOMAIN tasks : j # r => tasks'[j] = tasks[j]
    BY <1>1, <1>7, ExceptFacts
  <2> QED
    BY <1>2, <1>7, <2>1 DEF TasksInv, AcknowledgedIsTerminal, Answerable
<1>8. ASSUME NEW r \in RunId, Deadline(r)
      PROVE  /\ Partial(tasks', RunId, Task)
             /\ TasksInv' /\ AcknowledgedIsTerminal'
  <2>1. /\ r \in DOMAIN tasks
        /\ tasks' = [tasks EXCEPT ![r] = Returned(tasks[r])]
    BY <1>8 DEF Deadline
  <2> QED
    BY <1>2, <1>7, <2>1, ReturnedFacts
<1>9. ASSUME NEW r \in RunId, NEW w \in Worker, Deliver(r, w)
      PROVE  /\ Partial(tasks', RunId, Task)
             /\ TasksInv' /\ AcknowledgedIsTerminal'
  <2> DEFINE task == [tasks[r] EXCEPT !.state = "leased", !.attempts = @ + 1, !.by = w]
  <2>1. /\ r \in DOMAIN tasks /\ tasks[r].state = "queued"
        /\ tasks' = [tasks EXCEPT ![r] = task]
    BY <1>2, <1>9 DEF Deliver, Task
  <2>2. tasks[r].attempts + 1 \in 0 .. MaxDeliveries
    BY <1>2, <2>1, PipelineAssumption DEF Task
  <2>3. task \in Task /\ task.state = "leased"
    BY <1>2, <2>1, <2>2 DEF Task
  <2> HIDE DEF task
  <2> QED
    BY <1>7, <2>1, <2>3
<1> QED
  BY <1>3, <1>5, <1>6, <1>8, <1>9, TasksStep
-----------------------------------------------------------------------------
(* Stored runs: which steps complete a run or mark it published.           *)

(* What holds of every run record that accept_pull_request writes.         *)
LEMMA AcceptedRuns ==
  ASSUME PointerInv, RunsInv, NEW e \in Events, AcceptPullRequest(e, clock),
         NEW k \in DOMAIN runs'
  PROVE  /\ RunRules(k)'
         /\ runs'[k].terminal_reason = "COMPLETED" =>
              k \in DOMAIN runs /\ runs[k].terminal_reason = "COMPLETED"
         /\ runs'[k].publication = "PUBLISHED" =>
              k \in DOMAIN runs /\ runs[k].publication = "PUBLISHED"
<1>0. clock \in 0 .. clock
  BY DEF PointerInv, TypeOK
<1>1. \A d \in Events : /\ d \in PullRequestEvent(DeliveryId)
                        /\ AppOnly => d.installation # None
  BY StoreAssumption DEF AppOnly
<1>2. CASE k \in DOMAIN runs
  <2>0. /\ runs[k] \in VerificationRun /\ RunRules(k)
        /\ runs'[k] = runs[k] \/ Refreshes(k) \/ Supersedes(k)
    BY <1>0, <1>2, AcceptChanges DEF PointerInv, TypeOK, Partial, RunsInv
  <2>1. CASE runs'[k] = runs[k]
    BY <1>2, <2>0, <2>1 DEF RunRules
  <2>2. CASE Refreshes(k)
    <3>1. PICK d \in Events, now \in Nat : runs'[k] = Refreshed(runs[k], d, now)
      BY <2>2 DEF Refreshes
    <3>2. /\ runs'[k].revision_state = runs[k].revision_state
          /\ runs'[k].lifecycle = runs[k].lifecycle
          /\ runs'[k].terminal_reason = runs[k].terminal_reason
          /\ runs'[k].publication = runs[k].publication
          /\ runs'[k].installation = d.installation
      BY <1>1, <2>0, <3>1, RefreshedFacts
    <3> QED
      BY <1>1, <1>2, <2>0, <3>2 DEF RunRules
  <2>3. CASE Supersedes(k)
    <3>1. PICK r \in RunId, now \in Nat :
            ValidDimensions(runs[k]) /\ runs'[k] = Superseded(runs[k], r, now)
      BY <2>3 DEF Supersedes
    <3>2. /\ runs'[k].lifecycle = "TERMINAL"
          /\ runs'[k].terminal_reason = IF runs[k].lifecycle = "TERMINAL"
                                        THEN runs[k].terminal_reason ELSE "SUPERSEDED"
          /\ runs'[k].publication = runs[k].publication
          /\ runs'[k].installation = runs[k].installation
      BY <2>0, <3>1, SupersededFacts
    <3> QED
      BY <1>2, <2>0, <3>2, NoneAssumption DEF RunRules, Reason
  <2> QED
    BY <2>0, <2>1, <2>2, <2>3
<1>3. CASE k \notin DOMAIN runs
  <2>1. PICK d \in Events, now \in Nat :
          \/ runs'[k] = NewRun(d, now, FALSE)
          \/ CurrentOf(d) \in RunId /\ runs'[k] = NewRun(d, now, TRUE)
    BY <1>0, <1>3, AcceptChanges DEF Created
  <2> d \in PullRequestEvent(DeliveryId) /\ now \in Nat
    BY <1>1, <2>1
  <2>2. AppOnly => d.installation # None
    BY <1>1
  <2>3. None \notin {"SUPERSEDED", "COMPLETED"}
    BY NoneAssumption DEF Reason
  <2>4. CASE runs'[k] = NewRun(d, now, FALSE)
    <3> DEFINE run == NewRun(d, now, FALSE)
    <3>1. /\ run.lifecycle = "ACCEPTED" /\ run.terminal_reason = None
          /\ run.revision_state = "CURRENT" /\ run.publication = "NOT_STARTED"
          /\ run.installation = d.installation
      BY NewRunFacts
    <3>2. runs'[k] = run
      BY <2>4
    <3> HIDE DEF run
    <3> QED
      BY <2>2, <2>3, <3>1, <3>2 DEF RunRules
  <2>5. CASE CurrentOf(d) \in RunId /\ runs'[k] = NewRun(d, now, TRUE)
    <3> DEFINE run == NewRun(d, now, TRUE)
    <3>1. /\ run.lifecycle = "TERMINAL" /\ run.terminal_reason = "SUPERSEDED"
          /\ run.publication = "NOT_STARTED" /\ run.installation = d.installation
      BY <2>5, StaleRunFacts
    <3>2. runs'[k] = run
      BY <2>5
    <3> HIDE DEF run
    <3> QED
      BY <2>2, <2>3, <3>1, <3>2 DEF RunRules
  <2> QED
    BY <2>1, <2>4, <2>5
<1> QED
  BY <1>2, <1>3

(* What holds of a run after a transition or a failure. *)
LEMMA TransitedRuns ==
  ASSUME TypeOK, RunsInv, NEW r \in DOMAIN runs, NEW t \in RunTransition,
         TransitionAllowed(runs[r], t, clock),
         runs' = [runs EXCEPT ![r] = Requested(runs[r], t, clock)]
  PROVE  /\ DOMAIN runs' = DOMAIN runs
         /\ \A k \in DOMAIN runs : k # r => runs'[k] = runs[k]
         /\ \A k \in DOMAIN runs : RunRules(k)'
         /\ runs'[r].terminal_reason = Or(t.terminal_reason, runs[r].terminal_reason)
         /\ runs'[r].publication = Or(t.publication, runs[r].publication)
         /\ runs'[r].lifecycle = Or(t.lifecycle, runs[r].lifecycle)
<1>1. /\ runs[r] \in VerificationRun /\ clock \in Nat /\ RunRules(r)
      /\ runs'[r] = Requested(runs[r], t, clock)
      /\ DOMAIN runs' = DOMAIN runs
      /\ \A k \in DOMAIN runs : k # r => runs'[k] = runs[k]
  BY DEF TypeOK, Partial, RunsInv
<1>2. /\ runs'[r].revision_state = runs[r].revision_state
      /\ runs'[r].installation = runs[r].installation
      /\ runs'[r].terminal_reason = Or(t.terminal_reason, runs[r].terminal_reason)
      /\ runs'[r].publication = Or(t.publication, runs[r].publication)
      /\ runs'[r].lifecycle = Or(t.lifecycle, runs[r].lifecycle)
  BY <1>1, RequestedFacts
<1>3. /\ runs[r].revision_state # "SUPERSEDED"
      /\ (runs'[r].lifecycle = "TERMINAL") <=> (runs'[r].terminal_reason # None)
  BY <1>1 DEF TransitionAllowed, RevisionOpen
<1>4. RunRules(r)'
  BY <1>1, <1>2, <1>3 DEF RunRules
<1>5. \A k \in DOMAIN runs : k # r => RunRules(k)'
  BY <1>1 DEF RunsInv, RunRules
<1> QED
  BY <1>1, <1>2, <1>4, <1>5

(* No run becomes completed or published. *)
VerdictsFollow ==
  \A k \in DOMAIN runs' :
    /\ runs'[k].terminal_reason = "COMPLETED" =>
         k \in DOMAIN runs /\ runs[k].terminal_reason = "COMPLETED"
    /\ runs'[k].publication = "PUBLISHED" =>
         k \in DOMAIN runs /\ runs[k].publication = "PUBLISHED"

(* Only Complete completes a run and only Settle marks it published. *)
CompletesNow(w) == /\ At(w, "complete")
                   /\ TransitionRun(workers[w].run, Seen(w).version,
                                    CompletesWith(workers[w].report), clock)
SettlesNow(w) == /\ At(w, "settle")
                 /\ TransitionRun(workers[w].run, Seen(w).version,
                                  PublishesAs("PUBLISHED"), clock)

LEMMA TransitionRunFacts ==
  ASSUME TypeOK, RunsInv, NEW r \in RunId, NEW v, NEW t \in Transitions,
         TransitionRun(r, v, t, clock)
  PROVE  /\ r \in DOMAIN runs /\ DOMAIN runs' = DOMAIN runs
         /\ \A k \in DOMAIN runs : k # r => runs'[k] = runs[k]
         /\ RunsInv'
         /\ runs'[r].terminal_reason = Or(t.terminal_reason, runs[r].terminal_reason)
         /\ runs'[r].publication = Or(t.publication, runs[r].publication)
         /\ UNCHANGED records
<1>1. /\ r \in DOMAIN runs /\ t \in RunTransition /\ TransitionAllowed(runs[r], t, clock)
      /\ runs' = [runs EXCEPT ![r] = Requested(runs[r], t, clock)]
      /\ UNCHANGED records
  BY StoreAssumption DEF TransitionRun, Readable, ApplyRunTransition
<1> QED
  BY <1>1, TransitedRuns DEF RunsInv

(* Every other transition asks for neither. *)
LEMMA OtherTransition ==
  ASSUME TypeOK, RunsInv, NEW r \in RunId, NEW v, NEW t \in Transitions,
         TransitionRun(r, v, t, clock),
         t.terminal_reason = None, t.publication # "PUBLISHED"
  PROVE  RunsInv' /\ VerdictsFollow /\ UNCHANGED records
  BY TransitionRunFacts DEF VerdictsFollow, Or

(* The transitions a request makes that neither complete nor publish.      *)
Ordinary == {t \in Transitions : t.terminal_reason = None /\ t.publication # "PUBLISHED"}

LEMMA OrdinaryTransitions ==
  /\ \A lifecycle \in {"QUEUED", "RUNNING"} : MovesTo(lifecycle) \in Ordinary
  /\ \A phase \in {"CLAIM", "TEST_GENERATION", "BASE_EXECUTION", "HEAD_EXECUTION",
                   "ASSESSMENT"} : AdvancesTo(phase) \in Ordinary
  /\ \A state \in {"PENDING", "RETRYABLE_FAILURE", "TERMINAL_FAILURE", "NOT_APPLICABLE"} :
       PublishesAs(state) \in Ordinary
  BY AskedTransitions, NoneAssumption
     DEF Ordinary, MovesTo, AdvancesTo, PublishesAs, NoChange, Publication

OrdinaryStep == \E r \in RunId, t \in Ordinary : \E v : TransitionRun(r, v, t, clock)

(* Every step, by what it does to the stored runs and failures. *)
LEMMA RunsStep ==
  ASSUME PipelineInv, [PipelineNext]_allVars
  PROVE  \/ UNCHANGED <<runs, failures>>
         \/ \E e \in Events : AcceptPullRequest(e, clock)
         \/ \E r \in RunId : FailRun(r, clock)
         \/ OrdinaryStep
         \/ \E w \in Worker : CompletesNow(w) \/ SettlesNow(w)
<1>0. \A w \in Worker : workers[w].pc # "idle" => workers[w].run \in RunId
  BY DEF PipelineInv, PipelineTypeOK, LocalInv, TypeOK, Partial
<1>1. ASSUME NEW w \in Worker, NEW report, NEW pc,
             \/ Abstain(w, report) \/ Exhaust(w, report) \/ Judge(w, report)
             \/ Skip(w, pc)
      PROVE  UNCHANGED <<runs, failures>>
  BY <1>1 DEF Abstain, Exhaust, Judge, Skip, Silent, store, vars, records
<1>2. ASSUME NEW w \in Worker, workers[w].pc # "idle", NEW t \in Ordinary,
             \/ \E pc : Transition(w, t, pc)
             \/ \E ok : LastTransition(w, t, ok)
      PROVE  UNCHANGED <<runs, failures>> \/ OrdinaryStep
  BY <1>0, <1>2 DEF Transition, LastTransition, OrdinaryStep, store, vars, records
<1>3. ASSUME NEW w \in Worker, WorkflowStep(w)
      PROVE  UNCHANGED <<runs, failures>> \/ OrdinaryStep \/ CompletesNow(w)
  <2>1. CASE \/ Process(w) \/ Lookup(w) \/ Execute(w) \/ Replay(w) \/ Load(w)
             \/ Generate(w) \/ Recheck(w) \/ Challenge(w) \/ Repair(w) \/ Latest(w)
    BY <2>1 DEF Process, Lookup, Execute, Replay, Load, Generate, Recheck, Challenge,
                Repair, Latest, Silent, store, vars, records
  <2>2. CASE \/ Queue(w) \/ Start(w) \/ Claim(w) \/ Select(w) \/ Base(w) \/ Head(w)
             \/ Assess(w)
    <3>1. /\ workers[w].pc # "idle"
          /\ \E pc : Skip(w, pc) \/ \E t \in Ordinary : Transition(w, t, pc)
      BY <2>2, OrdinaryTransitions
         DEF Queue, Start, Claim, Select, Base, Head, Assess, At
    <3> QED
      BY <1>1, <1>2, <3>1
  <2>3. CASE Reporting(w)
    BY <1>1, <2>3 DEF Reporting
  <2>4. CASE Save(w)
    BY <2>4 DEF Save, SaveEvidence, store, vars, records
  <2>5. CASE Complete(w)
    BY <2>5 DEF Complete, Transition, CompletesNow, store, vars, records
  <2> QED
    BY <1>3, <2>1, <2>2, <2>3, <2>4, <2>5 DEF WorkflowStep
<1>4. ASSUME NEW w \in Worker, PublisherStep(w)
      PROVE  UNCHANGED <<runs, failures>> \/ OrdinaryStep \/ SettlesNow(w)
  <2>1. CASE \/ Publish(w) \/ ReloadRun(w) \/ Find(w) \/ Upsert(w) \/ RequestFails(w)
             \/ Reread(w) \/ ErrorReread(w) \/ Finish(w)
    BY <2>1 DEF Publish, ReloadRun, Find, Upsert, RequestFails, Reread, ErrorReread,
                Finish, Silent, store, vars, records
  <2>2. CASE Begin(w) \/ Remember(w) \/ ErrorRecord(w)
    BY <2>2 DEF Begin, BeginPublication, Remember, SetCheckRunId, ErrorRecord,
                RecordPublicationError, store, vars, records
  <2>3. CASE Reopen(w) \/ ErrorSettle(w) \/ NotApplicable(w)
    <3>1. /\ workers[w].pc # "idle"
          /\ \E t \in Ordinary : \/ \E pc : Transition(w, t, pc)
                                 \/ \E ok : LastTransition(w, t, ok)
      BY <2>3, OrdinaryTransitions DEF Reopen, ErrorSettle, NotApplicable, At
    <3> QED
      BY <1>2, <3>1
  <2>4. CASE Settle(w)
    BY <2>4 DEF Settle, LastTransition, SettlesNow, store, vars, records
  <2> QED
    BY <1>4, <2>1, <2>2, <2>3, <2>4 DEF PublisherStep
<1>5. ASSUME NEW w \in Worker, HandlerStep(w)
      PROVE  UNCHANGED <<runs, failures>> \/ \E r \in RunId : FailRun(r, clock)
  <2>1. CASE WorkerFailed(w) \/ TaskFailed(w)
    BY <2>1 DEF WorkerFailed, TaskFailed, store, vars, records
  <2>2. CASE FailingRun(w)
    BY <1>0, <2>2 DEF FailingRun, store, vars, records
  <2> QED
    BY <1>5, <2>1, <2>2 DEF HandlerStep
<1>6. ASSUME NEW w \in Worker, Crash(w) \/ Raise(w) \/ Refused(w)
      PROVE  UNCHANGED <<runs, failures>>
  BY <1>6 DEF Crash, Raise, Refused, store, vars, records
<1>7. ASSUME NEW r \in RunId, \/ Dispatch(r) \/ DispatchLost(r) \/ Deadline(r)
                              \/ \E w \in Worker : Deliver(r, w)
      PROVE  UNCHANGED <<runs, failures>>
  BY <1>7 DEF Dispatch, DispatchLost, Deadline, Deliver, store, vars, records
<1>8. CASE UNCHANGED allVars
  BY <1>8 DEF allVars, store, vars, records
<1>9. ASSUME NEW e \in Events, Receive(e)
      PROVE  AcceptPullRequest(e, clock)
  BY <1>9 DEF Receive
<1> QED
  BY <1>3, <1>4, <1>5, <1>6, <1>7, <1>8, <1>9 DEF PipelineNext, Failure, RequestStep

LEMMA AcceptKeepsRecords ==
  ASSUME NEW e, AcceptPullRequest(e, clock)
  PROVE  UNCHANGED records
  BY DEF AcceptPullRequest, AcceptDuplicateDelivery, AcceptDuplicateRevision, AcceptStale,
         AcceptNew, vars

LEMMA RunsKept ==
  ASSUME PipelineInv, [PipelineNext]_allVars
  PROVE  /\ RunsInv' /\ FailuresInv'
         /\ VerdictsFollow \/ \E w \in Worker : CompletesNow(w) \/ SettlesNow(w)
<1>1. /\ TypeOK /\ PointerInv /\ RunsInv /\ FailuresInv /\ Grows
  BY PipelineGrows DEF PipelineInv, PipelineTypeOK
<1>2. ASSUME UNCHANGED failures
      PROVE  FailuresInv'
  BY <1>1, <1>2 DEF FailuresInv, Grows, RunGrows
<1>3. CASE UNCHANGED <<runs, failures>>
  BY <1>1, <1>2, <1>3 DEF RunsInv, RunRules, VerdictsFollow
<1>4. ASSUME NEW e \in Events, AcceptPullRequest(e, clock)
      PROVE  RunsInv' /\ FailuresInv' /\ VerdictsFollow
  <2>1. RunsInv' /\ VerdictsFollow
    BY <1>1, <1>4, AcceptedRuns DEF RunsInv, VerdictsFollow
  <2> QED
    BY <1>2, <1>4, <2>1, AcceptKeepsRecords DEF records
<1>5. ASSUME NEW r \in RunId, FailRun(r, clock)
      PROVE  RunsInv' /\ FailuresInv' /\ VerdictsFollow
  <2>1. /\ r \in DOMAIN runs /\ TransitionAllowed(runs[r], FailTransition, clock)
        /\ runs' = [runs EXCEPT ![r] = Requested(runs[r], FailTransition, clock)]
        /\ failures' = Put(failures, r, runs[r].phase)
    BY <1>5 DEF FailRun, ApplyRunTransition
  <2>2. FailTransition.publication = None /\ FailTransition.terminal_reason = "FAILED"
    BY DEF FailTransition, NoChange
  <2>3. /\ DOMAIN runs' = DOMAIN runs /\ RunsInv'
        /\ \A k \in DOMAIN runs : k # r => runs'[k] = runs[k]
        /\ runs'[r].publication = runs[r].publication
    BY <1>1, <2>1, <2>2, TransitedRuns, FailTransitionType DEF RunsInv, Or
  <2>4. runs'[r].terminal_reason = "FAILED" /\ runs'[r].lifecycle = "TERMINAL"
    BY <1>1, <1>5, FailsTerminal
  <2>5. VerdictsFollow
    BY <2>1, <2>3, <2>4 DEF VerdictsFollow
  <2>6. FailuresInv'
    BY <1>1, <2>1, <2>3, <2>4 DEF FailuresInv, Put
  <2> QED
    BY <2>3, <2>5, <2>6
<1>6. CASE OrdinaryStep
  <2>1. RunsInv' /\ VerdictsFollow /\ UNCHANGED records
    BY <1>1, <1>6, OtherTransition DEF OrdinaryStep, Ordinary
  <2> QED
    BY <1>2, <2>1 DEF records
<1>7. ASSUME NEW w \in Worker, CompletesNow(w) \/ SettlesNow(w)
      PROVE  RunsInv' /\ FailuresInv'
  <2>1. /\ workers[w].run \in RunId
        /\ \E t \in Transitions : \E v : TransitionRun(workers[w].run, v, t, clock)
    <3>1. LocalInv(w) /\ workers[w].pc \in {"complete", "settle"}
      BY <1>7 DEF PipelineInv, CompletesNow, SettlesNow, At
    <3>2. workers[w].run \in RunId
      BY <1>1, <3>1 DEF LocalInv, TypeOK, Partial
    <3>3. CompletesNow(w) => workers[w].report \in Document
      BY <3>1 DEF LocalInv, CompletesNow, At
    <3> QED
      BY <1>7, <3>2, <3>3, AskedTransitions DEF CompletesNow, SettlesNow
  <2>2. RunsInv' /\ UNCHANGED records
    BY <1>1, <2>1, TransitionRunFacts
  <2> QED
    BY <1>2, <2>2 DEF records
<1> QED
  BY <1>3, <1>4, <1>5, <1>6, <1>7, RunsStep
-----------------------------------------------------------------------------
(* Publication records and the checks on GitHub. *)
LEMMA PublicationsStep ==
  ASSUME PipelineInv, [PipelineNext]_allVars
  PROVE  \/ UNCHANGED publications
         \/ \E w \in Worker : Begin(w) \/ Remember(w) \/ ErrorRecord(w)
<1>1. ASSUME NEW w \in Worker, NEW report, NEW pc, NEW t, NEW ok,
             \/ Abstain(w, report) \/ Exhaust(w, report) \/ Judge(w, report)
             \/ Skip(w, pc) \/ Transition(w, t, pc) \/ LastTransition(w, t, ok)
      PROVE  UNCHANGED publications
  BY <1>1 DEF Abstain, Exhaust, Judge, Skip, Silent, Transition, LastTransition,
              TransitionRun, store, vars, records
<1>2. ASSUME NEW w \in Worker, WorkflowStep(w)
      PROVE  UNCHANGED publications
  <2>1. CASE \/ Process(w) \/ Lookup(w) \/ Execute(w) \/ Replay(w) \/ Load(w)
             \/ Generate(w) \/ Recheck(w) \/ Challenge(w) \/ Repair(w) \/ Latest(w)
    BY <2>1 DEF Process, Lookup, Execute, Replay, Load, Generate, Recheck, Challenge,
                Repair, Latest, Silent, store, vars, records
  <2>2. CASE \/ Queue(w) \/ Start(w) \/ Claim(w) \/ Select(w) \/ Base(w) \/ Head(w)
             \/ Assess(w) \/ Complete(w) \/ Reporting(w)
    BY <1>1, <2>2
       DEF Queue, Start, Claim, Select, Base, Head, Assess, Complete, Reporting
  <2>3. CASE Save(w)
    BY <2>3 DEF Save, SaveEvidence, store, vars, records
  <2> QED
    BY <1>2, <2>1, <2>2, <2>3 DEF WorkflowStep
<1>3. ASSUME NEW w \in Worker, PublisherStep(w)
      PROVE  UNCHANGED publications \/ Begin(w) \/ Remember(w) \/ ErrorRecord(w)
  <2>1. CASE \/ Publish(w) \/ ReloadRun(w) \/ Find(w) \/ Upsert(w) \/ RequestFails(w)
             \/ Reread(w) \/ ErrorReread(w) \/ Finish(w)
    BY <2>1 DEF Publish, ReloadRun, Find, Upsert, RequestFails, Reread, ErrorReread,
                Finish, Silent, store, vars, records
  <2>2. CASE Reopen(w) \/ Settle(w) \/ ErrorSettle(w) \/ NotApplicable(w)
    BY <1>1, <2>2 DEF Reopen, Settle, ErrorSettle, NotApplicable
  <2> QED
    BY <1>3, <2>1, <2>2 DEF PublisherStep
<1>4. ASSUME NEW w \in Worker, HandlerStep(w) \/ Crash(w) \/ Raise(w) \/ Refused(w)
      PROVE  UNCHANGED publications
  BY <1>4 DEF HandlerStep, WorkerFailed, TaskFailed, FailingRun, FailRun, Crash, Raise, Refused,
              store, vars, records
<1>5. ASSUME NEW r \in RunId, \/ Dispatch(r) \/ DispatchLost(r) \/ Deadline(r)
                              \/ \E w \in Worker : Deliver(r, w)
      PROVE  UNCHANGED publications
  BY <1>5 DEF Dispatch, DispatchLost, Deadline, Deliver, store, vars, records
<1>6. CASE UNCHANGED allVars
  BY <1>6 DEF allVars, store, vars, records
<1>7. ASSUME NEW e \in Events, Receive(e)
      PROVE  UNCHANGED publications
  BY <1>7, AcceptKeepsRecords DEF Receive, records
<1> QED
  BY <1>2, <1>3, <1>4, <1>5, <1>6, <1>7 DEF PipelineNext, Failure, RequestStep

(* A recorded check identity is kept, or is the one the request has just   *)
(* received from GitHub.                                                   *)
LEMMA RecordedChecks ==
  ASSUME PipelineInv, [PipelineNext]_allVars, NEW r \in DOMAIN publications',
         publications'[r].check # None
  PROVE  publications'[r].check \in ChecksOf(r)
<1>1. /\ TypeOK /\ \A k \in DOMAIN publications : publications[k] \in CheckPublication
      /\ \A k \in DOMAIN publications :
           publications[k].check # None => publications[k].check \in ChecksOf(k)
  BY DEF PipelineInv, PipelineTypeOK, TypeOK, Partial, ChecksInv
<1>2. CASE r \in DOMAIN publications /\ publications'[r].check = publications[r].check
  BY <1>1, <1>2
<1>3. CASE UNCHANGED publications
  BY <1>2, <1>3
<1>4. ASSUME NEW w \in Worker, Begin(w)
      PROVE  \/ UNCHANGED publications
             \/ r \in DOMAIN publications /\ publications'[r].check = publications[r].check
  <2> DEFINE q == workers[w].run
  <2>1. CASE BeginPublication(q, PayloadOf(q))
    <3>1. CASE r # q
      BY <2>1, <3>1 DEF BeginPublication, Put
    <3>2. CASE r = q /\ q \notin DOMAIN publications
      BY <2>1, <3>2 DEF BeginPublication, Put
    <3>3. CASE r = q /\ q \in DOMAIN publications
      <4>1. publications'[r] = [publications[r] EXCEPT !.attempts = @ + 1,
                                                       !.error = FALSE]
        BY <2>1, <3>3 DEF BeginPublication, Put
      <4> QED
        BY <1>1, <3>3, <4>1 DEF CheckPublication
    <3> QED
      BY <3>1, <3>2, <3>3
  <2>2. CASE UNCHANGED store
    BY <2>2 DEF store, vars, records
  <2> QED
    BY <1>4, <2>1, <2>2 DEF Begin
<1>5. ASSUME NEW w \in Worker, ErrorRecord(w)
      PROVE  r \in DOMAIN publications /\ publications'[r].check = publications[r].check
  <2>1. RecordPublicationError(workers[w].run)
    BY <1>5 DEF ErrorRecord
  <2> QED
    BY <1>1, <2>1 DEF RecordPublicationError, CheckPublication
<1>6. ASSUME NEW w \in Worker, Remember(w)
      PROVE  publications'[r].check \in ChecksOf(r)
  <2> DEFINE q == workers[w].run
  <2>1. workers[w].check # None => workers[w].check \in ChecksOf(q)
    BY <1>6 DEF Remember, At, PipelineInv, LocalInv, Publishing
  <2>2. CASE SetCheckRunId(q, workers[w].check)
    <3>1. r \in DOMAIN publications
      BY <2>2 DEF SetCheckRunId
    <3>2. CASE r = q
      <4>1. publications'[r].check = workers[w].check
        BY <1>1, <2>2, <3>1, <3>2 DEF SetCheckRunId, CheckPublication
      <4> QED
        BY <2>1, <3>2, <4>1
    <3>3. CASE r # q
      <4>1. publications'[r] = publications[r]
        BY <2>2, <3>1, <3>3 DEF SetCheckRunId
      <4> QED
        BY <1>2, <3>1, <4>1
    <3> QED
      BY <3>2, <3>3
  <2>3. CASE UNCHANGED store
    BY <1>3, <2>3 DEF store, vars, records
  <2> QED
    BY <1>6, <2>2, <2>3 DEF Remember
<1> QED
  BY <1>2, <1>3, <1>4, <1>5, <1>6, PublicationsStep

LEMMA ChecksKept ==
  ASSUME PipelineInv, [PipelineNext]_allVars
  PROVE  ChecksInv' /\ ChecksShowEvidence' /\ Partial(checks', CheckId, Payload)
<1>1. /\ Grows /\ Partial(checks, CheckId, Payload)
      /\ \A r \in DOMAIN evidence : r \in RunId /\ evidence[r] \in Document
  BY PipelineGrows DEF PipelineInv, PipelineTypeOK, TypeOK, Partial
<1>2. \A r \in DOMAIN publications' :
        publications'[r].check # None => publications'[r].check \in ChecksOf(r)'
  BY <1>1, RecordedChecks DEF ChecksOf, Grows, ChecksGrow
<1>3. ASSUME NEW r \in DOMAIN runs, Completed(r), r \in DOMAIN evidence
      PROVE  /\ r \in DOMAIN runs' /\ r \in DOMAIN evidence'
             /\ runs'[r].terminal_reason = "COMPLETED"
             /\ evidence'[r] = evidence[r]
             /\ PayloadOf(r)' = PayloadOf(r)
  <2>1. Carries(r)
    BY <1>1, RunCarries
  <2> QED
    BY <1>3, <2>1 DEF Carries, Completed, PayloadOf
<1>4. ASSUME NEW c \in DOMAIN checks
      PROVE  LET r == checks[c].external_id
             IN  /\ r \in DOMAIN runs /\ r \in DOMAIN evidence
                 /\ Completed(r) /\ checks[c] = PayloadOf(r)
  BY DEF PipelineInv, ChecksInv, ChecksShowEvidence, Completed
<1>5. ASSUME NEW c \in DOMAIN checks', c \in DOMAIN checks, checks'[c] = checks[c]
      PROVE  LET r == checks'[c].external_id
             IN  /\ r \in DOMAIN runs' /\ r \in DOMAIN evidence'
                 /\ runs'[r].terminal_reason = "COMPLETED"
                 /\ checks'[c] = FormatGithubCheck(r, evidence'[r])
  BY <1>3, <1>4, <1>5 DEF PayloadOf
<1>6. ASSUME \A c \in DOMAIN checks' :
               LET r == checks'[c].external_id
               IN  /\ r \in DOMAIN runs' /\ r \in DOMAIN evidence'
                   /\ runs'[r].terminal_reason = "COMPLETED"
                   /\ checks'[c] = FormatGithubCheck(r, evidence'[r])
      PROVE  ChecksInv' /\ ChecksShowEvidence'
  BY <1>2, <1>6 DEF ChecksInv, ChecksShowEvidence, PayloadOf
<1>7. CASE UNCHANGED checks
  BY <1>1, <1>5, <1>6, <1>7
<1>8. ASSUME NEW w \in Worker, Upsert(w)
      PROVE  ChecksInv' /\ ChecksShowEvidence' /\ Partial(checks', CheckId, Payload)
  <2> DEFINE r == workers[w].run
  <2>1. /\ r \in DOMAIN runs /\ Completed(r) /\ r \in DOMAIN evidence
        /\ \E c \in CheckId : checks' = Put(checks, c, PayloadOf(r))
    BY <1>8, UpsertFacts
  <2>2. PICK c \in CheckId : checks' = Put(checks, c, PayloadOf(r))
    BY <2>1
  <2>3. /\ r \in DOMAIN runs' /\ r \in DOMAIN evidence'
        /\ runs'[r].terminal_reason = "COMPLETED"
        /\ evidence'[r] = evidence[r]
    BY <1>1, <2>1, RunCarries DEF Carries, Completed
  <2>4. PayloadOf(r) \in Payload /\ PayloadOf(r).external_id = r
    BY <1>1, <2>1, DocumentAssumption DEF PayloadOf, FormatGithubCheck
  <2> DEFINE put == Put(checks, c, PayloadOf(r))
  <2>5. /\ Partial(put, CheckId, Payload) /\ DOMAIN put = DOMAIN checks \cup {c}
        /\ put[c] = PayloadOf(r)
        /\ \A d \in DOMAIN checks : d # c => put[d] = checks[d]
    BY <1>1, <2>4, PutFacts
  <2> HIDE DEF put
  <2>6. checks' = put
    BY <2>2 DEF put
  <2>7. checks'[c] = FormatGithubCheck(r, evidence'[r]) /\ checks'[c].external_id = r
    BY <2>3, <2>4, <2>5, <2>6 DEF PayloadOf
  <2>8. ASSUME NEW d \in DOMAIN checks'
        PROVE  LET q == checks'[d].external_id
               IN  /\ q \in DOMAIN runs' /\ q \in DOMAIN evidence'
                   /\ runs'[q].terminal_reason = "COMPLETED"
                   /\ checks'[d] = FormatGithubCheck(q, evidence'[q])
    <3>1. CASE d = c
      BY <2>3, <2>7, <3>1
    <3>2. CASE d # c
      BY <1>5, <2>5, <2>6, <3>2
    <3> QED
      BY <3>1, <3>2
  <2> QED
    BY <1>6, <2>5, <2>6, <2>8
<1> QED
  BY <1>7, <1>8, ChecksStep
-----------------------------------------------------------------------------
(* The verdict of a completed run and the check of a published one.        *)
LEMMA VerdictsKept ==
  ASSUME PipelineInv, [PipelineNext]_allVars
  PROVE  CompletedHasEvidence' /\ PublishedIsRemote'
<1>0. /\ TypeOK /\ TypeOK' /\ RunsInv /\ Grows
      /\ \A r \in DOMAIN evidence : evidence[r] \in Document
      /\ DOMAIN checks \subseteq CheckId
  BY PipelineGrows DEF PipelineInv, PipelineTypeOK, TypeOK, Partial
<1>1. ASSUME NEW r \in DOMAIN runs, runs[r].terminal_reason = "COMPLETED"
      PROVE  /\ r \in DOMAIN evidence'
             /\ runs'[r].mechanical = evidence'[r].mechanical
             /\ runs'[r].outcome = evidence'[r].outcome
  <2>1. /\ r \in DOMAIN evidence /\ runs[r].mechanical = evidence[r].mechanical
        /\ runs[r].outcome = evidence[r].outcome
    BY <1>1 DEF PipelineInv, CompletedHasEvidence
  <2>2. /\ evidence[r].mechanical \in MechanicalStatus
        /\ evidence[r].outcome \in ClaimOutcome
    BY <1>0, <2>1, DocumentAssumption DEF Report
  <2>3. runs[r].mechanical # None /\ runs[r].outcome # None
    BY <2>1, <2>2, NoneAssumption
  <2>4. /\ runs'[r].mechanical = runs[r].mechanical
        /\ runs'[r].outcome = runs[r].outcome
        /\ r \in DOMAIN evidence' /\ evidence'[r] = evidence[r]
    BY <1>0, <2>1, <2>3 DEF Grows, RunGrows, RecordsKept, WriteOnce
  <2> QED
    BY <2>1, <2>4
<1>2. ASSUME NEW r \in DOMAIN publications, publications[r].check \in ChecksOf(r)
      PROVE  /\ r \in DOMAIN publications'
             /\ publications'[r].check \in ChecksOf(r)'
  <2>1. publications[r].check # None
    BY <1>0, <1>2, StoreAssumption DEF ChecksOf
  <2> QED
    BY <1>0, <1>2, <2>1 DEF Grows, RecordsKept, ChecksGrow, WriteOnce, ChecksOf
<1>3. ASSUME NEW r \in DOMAIN runs, runs[r].publication = "PUBLISHED"
      PROVE  /\ r \in DOMAIN publications'
             /\ publications'[r].check \in ChecksOf(r)'
  BY <1>2, <1>3 DEF PipelineInv, PublishedIsRemote
<1>4. CASE VerdictsFollow
  BY <1>1, <1>3, <1>4 DEF VerdictsFollow, CompletedHasEvidence, PublishedIsRemote
<1>5. ASSUME NEW w \in Worker, CompletesNow(w)
      PROVE  CompletedHasEvidence' /\ PublishedIsRemote'
  <2> DEFINE r == workers[w].run
             report == workers[w].report
  <2>1. /\ r \in RunId /\ report \in Document
        /\ r \in DOMAIN evidence /\ evidence[r] = report
    <3>1. LocalInv(w) /\ workers[w].pc = "complete"
      BY <1>5 DEF PipelineInv, CompletesNow, At
    <3> QED
      BY <1>0, <3>1 DEF LocalInv, TypeOK, Partial
  <2>2. TransitionRun(r, Seen(w).version, CompletesWith(report), clock)
    BY <1>5 DEF CompletesNow
  <2>3. /\ DOMAIN runs' = DOMAIN runs /\ r \in DOMAIN runs
        /\ \A k \in DOMAIN runs : k # r => runs'[k] = runs[k]
    BY <1>0, <2>1, <2>2, AskedTransitions, TransitionRunFacts
  <2>4. /\ runs'[r].mechanical = report.mechanical
        /\ runs'[r].outcome = report.outcome
        /\ runs'[r].publication # "PUBLISHED"
    BY <1>0, <2>1, <2>2, Completes
  <2>5. r \in DOMAIN evidence' /\ evidence'[r] = report
    BY <1>0, <2>1 DEF Grows, RecordsKept
  <2> HIDE DEF r, report
  <2>6. CompletedHasEvidence'
    <3> SUFFICES ASSUME NEW k \in DOMAIN runs', runs'[k].terminal_reason = "COMPLETED"
                 PROVE  /\ k \in DOMAIN evidence'
                        /\ runs'[k].mechanical = evidence'[k].mechanical
                        /\ runs'[k].outcome = evidence'[k].outcome
      BY DEF CompletedHasEvidence
    <3> QED
      BY <1>1, <2>3, <2>4, <2>5
  <2>7. PublishedIsRemote'
    <3> SUFFICES ASSUME NEW k \in DOMAIN runs', runs'[k].publication = "PUBLISHED"
                 PROVE  /\ k \in DOMAIN publications'
                        /\ publications'[k].check \in ChecksOf(k)'
      BY DEF PublishedIsRemote
    <3> QED
      BY <1>3, <2>3, <2>4
  <2> QED
    BY <2>6, <2>7
<1>6. ASSUME NEW w \in Worker, SettlesNow(w)
      PROVE  CompletedHasEvidence' /\ PublishedIsRemote'
  <2> DEFINE r == workers[w].run
             t == PublishesAs("PUBLISHED")
  <2>1. /\ r \in RunId /\ r \in DOMAIN publications /\ Completed(r)
        /\ publications[r].check \in ChecksOf(r)
    <3>1. LocalInv(w) /\ workers[w].pc = "settle"
      BY <1>6 DEF PipelineInv, SettlesNow, At
    <3> QED
      BY <1>0, <3>1 DEF LocalInv, TypeOK, Partial, Publishing
  <2>2. TransitionRun(r, Seen(w).version, t, clock) /\ t \in Transitions
    BY <1>6, AskedTransitions DEF SettlesNow
  <2>3. /\ DOMAIN runs' = DOMAIN runs /\ r \in DOMAIN runs
        /\ \A k \in DOMAIN runs : k # r => runs'[k] = runs[k]
    BY <1>0, <2>1, <2>2, TransitionRunFacts
  <2> HIDE DEF r, t
  <2>4. CompletedHasEvidence'
    <3> SUFFICES ASSUME NEW k \in DOMAIN runs', runs'[k].terminal_reason = "COMPLETED"
                 PROVE  /\ k \in DOMAIN evidence'
                        /\ runs'[k].mechanical = evidence'[k].mechanical
                        /\ runs'[k].outcome = evidence'[k].outcome
      BY DEF CompletedHasEvidence
    <3> QED
      BY <1>1, <2>1, <2>3 DEF Completed
  <2>5. PublishedIsRemote'
    <3> SUFFICES ASSUME NEW k \in DOMAIN runs', runs'[k].publication = "PUBLISHED"
                 PROVE  /\ k \in DOMAIN publications'
                        /\ publications'[k].check \in ChecksOf(k)'
      BY DEF PublishedIsRemote
    <3> QED
      BY <1>2, <1>3, <2>1, <2>3
  <2> QED
    BY <2>4, <2>5
<1> QED
  BY <1>4, <1>5, <1>6, RunsKept

(* Runs accepted by a lost intake, faults and counters. *)
LEMMA IntakeKept ==
  ASSUME PipelineInv, [PipelineNext]_allVars
  PROVE  intake' \subseteq DOMAIN runs' /\ faults' \in [FaultKind -> Nat]
<1>1. /\ \A r \in DOMAIN runs : r \in DOMAIN runs'
      /\ intake \subseteq DOMAIN runs /\ faults \in [FaultKind -> Nat]
  BY PipelineGrows DEF Grows, RunGrows, PipelineInv, PipelineTypeOK
<1>2. ASSUME NEW e \in Events, Receive(e)
      PROVE  intake' \subseteq DOMAIN runs' /\ UNCHANGED faults
  <2>1. deliveries'[e.delivery] \in DOMAIN runs'
    <3>1. CASE AcceptDuplicateDelivery(e)
      BY <3>1 DEF AcceptDuplicateDelivery, Readable, vars
    <3>2. CASE AcceptDuplicateRevision(e, clock)
      BY <3>2 DEF AcceptDuplicateRevision, Put
    <3>3. CASE \E r \in RunId : AcceptStale(e, clock, r) \/ AcceptNew(e, clock, r)
      BY <3>3 DEF AcceptStale, AcceptNew, Put
    <3> QED
      BY <1>2, <3>1, <3>2, <3>3 DEF Receive, AcceptPullRequest
  <2> QED
    BY <1>1, <1>2, <2>1 DEF Receive
<1>3. ASSUME NEW kind \in FaultKind, Fault(kind)
      PROVE  faults' \in [FaultKind -> Nat]
  BY <1>1, <1>3 DEF Fault
<1>4. ASSUME NEW r \in RunId, \/ Dispatch(r) \/ DispatchLost(r) \/ Deadline(r)
                              \/ \E w \in Worker : Deliver(r, w)
      PROVE  /\ intake' \subseteq intake
             /\ UNCHANGED faults \/ \E kind \in FaultKind : Fault(kind)
  BY <1>4 DEF Dispatch, DispatchLost, Deadline, Deliver, FaultKind
<1>5. ASSUME NEW w \in Worker, Crash(w) \/ Raise(w) \/ Refused(w)
      PROVE  UNCHANGED intake /\ \E kind \in FaultKind : Fault(kind)
  BY <1>5 DEF Crash, Raise, Refused, FaultKind
<1>6. ASSUME NEW w \in Worker, NEW report, NEW pc, NEW t, NEW ok,
             \/ Abstain(w, report) \/ Exhaust(w, report) \/ Judge(w, report)
             \/ Skip(w, pc) \/ Transition(w, t, pc) \/ LastTransition(w, t, ok)
      PROVE  UNCHANGED <<intake, faults>>
  BY <1>6 DEF Abstain, Exhaust, Judge, Skip, Silent, Transition, LastTransition
<1>7. ASSUME NEW w \in Worker, WorkflowStep(w)
      PROVE  UNCHANGED <<intake, faults>>
  <2>1. CASE \/ Process(w) \/ Lookup(w) \/ Execute(w) \/ Replay(w) \/ Load(w)
             \/ Generate(w) \/ Recheck(w) \/ Challenge(w) \/ Repair(w) \/ Latest(w)
             \/ Save(w)
    BY <2>1 DEF Process, Lookup, Execute, Replay, Load, Generate, Recheck, Challenge,
                Repair, Latest, Save, Silent
  <2>2. CASE \/ Queue(w) \/ Start(w) \/ Claim(w) \/ Select(w) \/ Base(w) \/ Head(w)
             \/ Assess(w) \/ Complete(w) \/ Reporting(w)
    BY <1>6, <2>2
       DEF Queue, Start, Claim, Select, Base, Head, Assess, Complete, Reporting
  <2> QED
    BY <1>7, <2>1, <2>2 DEF WorkflowStep
<1>8. ASSUME NEW w \in Worker, PublisherStep(w)
      PROVE  UNCHANGED <<intake, faults>>
  <2>1. CASE \/ Publish(w) \/ Begin(w) \/ ReloadRun(w) \/ Find(w) \/ Upsert(w)
             \/ RequestFails(w) \/ Remember(w) \/ Reread(w) \/ ErrorRecord(w)
             \/ ErrorReread(w) \/ Finish(w)
    BY <2>1 DEF Publish, Begin, ReloadRun, Find, Upsert, RequestFails, Remember, Reread,
                ErrorRecord, ErrorReread, Finish, Silent
  <2>2. CASE Reopen(w) \/ Settle(w) \/ ErrorSettle(w) \/ NotApplicable(w)
    BY <1>6, <2>2 DEF Reopen, Settle, ErrorSettle, NotApplicable
  <2> QED
    BY <1>8, <2>1, <2>2 DEF PublisherStep
<1>9. ASSUME NEW w \in Worker, HandlerStep(w)
      PROVE  UNCHANGED <<intake, faults>>
  BY <1>9 DEF HandlerStep, WorkerFailed, TaskFailed, FailingRun
<1>10. CASE UNCHANGED allVars
  BY <1>1, <1>10 DEF allVars, pipeline, store
<1> QED
  BY <1>1, <1>2, <1>3, <1>4, <1>5, <1>7, <1>8, <1>9, <1>10
     DEF PipelineNext, Failure, RequestStep
-----------------------------------------------------------------------------
LEMMA PipelineStarts == PipelineInit => PipelineInv
<1> SUFFICES ASSUME PipelineInit PROVE PipelineInv
  OBVIOUS
<1>1. Init /\ PointerInv /\ TypeOK
  BY PointersInit DEF PipelineInit, PointerInv
<1>2. PipelineTypeOK
  BY <1>1, IdleLocal DEF PipelineInit, PipelineTypeOK, Partial
<1>3. \A w \in Worker : workers[w].pc = "idle"
  BY IdleLocal DEF PipelineInit
<1>4. DOMAIN runs = {} /\ DOMAIN failures = {} /\ DOMAIN publications = {}
      /\ DOMAIN checks = {} /\ DOMAIN tasks = {}
  BY <1>1 DEF Init, PipelineInit
<1> QED
  BY <1>1, <1>2, <1>3, <1>4
     DEF PipelineInv, RunsInv, FailuresInv, ChecksInv, TasksInv, LocalInv,
         CompletedHasEvidence, ChecksShowEvidence, PublishedIsRemote, SingleExecutor,
         AcknowledgedIsTerminal, PastClaim

LEMMA PipelineKept ==
  ASSUME PipelineInv, [PipelineNext]_allVars
  PROVE  PipelineInv'
<1>1. TypeOK' /\ PointerInv'
  BY PipelineGrows
<1>2. PipelineTypeOK'
  BY <1>1, LocalKept, TasksKept, ChecksKept, IntakeKept DEF PipelineTypeOK
<1> QED
  BY <1>1, <1>2, LocalKept, TasksKept, ChecksKept, RunsKept, VerdictsKept DEF PipelineInv

(* The inductive invariant of the pipeline. *)
THEOREM PipelineInvariant == PipelineSpec => []PipelineInv
  BY PipelineStarts, PipelineKept, PTL DEF PipelineSpec

(* However requests, crashes and repeated deliveries interleave, the       *)
(* pipeline uses the store only through its operations: what is proved of  *)
(* the store holds of the pipeline (all callers of VerificationRunStore).  *)
THEOREM PipelineUsesStore == PipelineSpec => Spec
<1>1. PipelineInit => Init
  BY DEF PipelineInit
<1>2. PipelineInv /\ [PipelineNext]_allVars => [Next]_vars
  BY StoreStep
<1> QED
  BY <1>1, <1>2, PipelineInvariant, PTL DEF PipelineSpec, Spec

(* Every request, task, check and record keeps its type (POST              *)
(* /tasks/verify and all it calls).                                        *)
THEOREM PipelineTypeCorrect == PipelineSpec => []PipelineTypeOK
<1>1. PipelineInv => PipelineTypeOK
  BY DEF PipelineInv
<1> QED
  BY <1>1, PipelineInvariant, PTL

(* A completed run carries the verdict of its stored report                *)
(* (_persist_terminal), for any number of overlapping requests and faults. *)
THEOREM CompletionIsEvidenced == PipelineSpec => []CompletedHasEvidence
<1>1. PipelineInv => CompletedHasEvidence
  BY DEF PipelineInv
<1> QED
  BY <1>1, PipelineInvariant, PTL

(* Every check on GitHub shows the stored evidence of a completed run      *)
(* (GitHubCheckPublisher.publish).                                         *)
THEOREM ChecksAreFaithful == PipelineSpec => []ChecksShowEvidence
<1>1. PipelineInv => ChecksShowEvidence
  BY DEF PipelineInv
<1> QED
  BY <1>1, PipelineInvariant, PTL

(* A run marked PUBLISHED has a recorded check that exists on GitHub.      *)
THEOREM PublicationIsRemote == PipelineSpec => []PublishedIsRemote
<1>1. PipelineInv => PublishedIsRemote
  BY DEF PipelineInv
<1> QED
  BY <1>1, PipelineInvariant, PTL

(* Models and tests run once per run (EvidenceWorkflow.execute): a request *)
(* gets past CLAIM only in the step that takes the run out of CONTEXT, and *)
(* the run never returns there, however many requests hold its task, at    *)
(* once or one after another.                                              *)
THEOREM ExecutesOnce == PipelineSpec => ExecutedOnce
<1>1. ASSUME PipelineInv, [PipelineNext]_allVars, NEW r \in DOMAIN runs
      PROVE  /\ runs[r].phase # "CONTEXT" => runs'[r].phase # "CONTEXT"
             /\ ~(Executing(r)' \subseteq Executing(r)) =>
                  runs[r].phase = "CONTEXT" /\ runs'[r].phase # "CONTEXT"
  <2>1. runs[r].phase # "CONTEXT" => runs'[r].phase # "CONTEXT"
    BY <1>1, PipelineGrows DEF Grows, RunGrows
  <2>2. ASSUME NEW w \in Executing(r)', w \notin Executing(r)
        PROVE  runs[r].phase = "CONTEXT" /\ runs'[r].phase # "CONTEXT"
    <3>1. w \in Worker /\ workers'[w].run = r /\ workers'[w].pc \in PastClaim
      BY <2>2 DEF Executing
    <3>2. LocalInv(w)'
      BY <1>1, <3>1, LocalKept
    <3>3. runs'[r].phase # "CONTEXT"
      BY <3>1, <3>2 DEF LocalInv, PastClaim
    <3>4. workers'[w] # workers[w]
      BY <2>2, <3>1 DEF Executing
    <3>5. Progresses(w)
      BY <1>1, <3>1, <3>4, RequestsProgress DEF Progresses
    <3> QED
      BY <2>2, <3>1, <3>3, <3>5 DEF Progresses, Executing
  <2> QED
    BY <2>1, <2>2
<1>2. PipelineInv /\ [PipelineNext]_allVars =>
        [\A r \in DOMAIN runs :
           /\ ~(Executing(r)' \subseteq Executing(r)) =>
                runs[r].phase = "CONTEXT" /\ runs'[r].phase # "CONTEXT"
           /\ runs[r].phase # "CONTEXT" => runs'[r].phase # "CONTEXT"]_allVars
  BY <1>1
<1> QED
  BY <1>2, PipelineInvariant, PTL DEF PipelineSpec, ExecutedOnce

(* An acknowledged task leaves no run open (ReliableEvidenceWorker.run,    *)
(* verify_task), but for runs that a deployment without their repository   *)
(* refused and runs without an installation whose evidence is already      *)
(* stored.                                                                 *)
THEOREM AcknowledgementIsFinal == PipelineSpec => []AcknowledgedIsTerminal
<1>1. PipelineInv => AcknowledgedIsTerminal
  BY DEF PipelineInv
<1> QED
  BY <1>1, PipelineInvariant, PTL
=============================================================================
