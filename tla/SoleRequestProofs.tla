------------------------- MODULE SoleRequestProofs -------------------------
(***************************************************************************)
(* What holds of TaskPipeline under conditions that the queue and GitHub   *)
(* do not always meet.                                                     *)
(*                                                                         *)
(*   NoOverlap      no two requests work on one run at the same time.  The *)
(*                  queue delivers a task again when its deadline passes,  *)
(*                  although the first request goes on.                    *)
(*   NoRelabelling  no event relabels a stored run.  An event that names    *)
(*                  the revision of a run with a newer timestamp changes   *)
(*                  its version under the request that works on it.        *)
(*                                                                         *)
(* A run then has one check at most, nothing of its publication is left    *)
(* open once its task is gone, and no run fails without a fault.           *)
(***************************************************************************)
EXTENDS TaskPipelineProofs, FiniteSetTheorems

Active(w) == workers[w].pc # "idle"

(* No run is in the hands of two requests. *)
NoOverlap == \A v, w \in Worker :
               Active(v) /\ Active(w) /\ workers[v].run = workers[w].run => v = w
-----------------------------------------------------------------------------
(* A step of one request, with the fields that the lemmas below speak of.  *)
Lands(w, pc, seen, app, check) ==
  /\ workers' \in [Worker -> Local]
  /\ \A v \in Worker : v # w => workers'[v] = workers[v]
  /\ workers'[w].pc = pc /\ workers'[w].run = workers[w].run
  /\ workers'[w].seen = seen /\ workers'[w].app = app
  /\ workers'[w].check = check

Steps(w, pc) == Lands(w, pc, workers[w].seen, workers[w].app, workers[w].check)

LEMMA SetLands ==
  ASSUME workers \in [Worker -> Local], NEW w \in Worker, NEW local \in Local,
         Set(w, local), local.run = workers[w].run
  PROVE  Lands(w, local.pc, local.seen, local.app, local.check)
  BY DEF Set, Lands

LEMMA GotoSteps ==
  ASSUME workers \in [Worker -> Local], NEW w \in Worker, NEW pc \in Pc, Goto(w, pc)
  PROVE  Steps(w, pc)
<1> DEFINE local == [workers[w] EXCEPT !.pc = pc]
<1>1. /\ local \in Local /\ local.pc = pc /\ local.run = workers[w].run
      /\ local.seen = workers[w].seen /\ local.app = workers[w].app
      /\ local.check = workers[w].check
  BY DEF Local, Pc
<1>2. Set(w, local)
  BY DEF Goto
<1> HIDE DEF local
<1> QED
  BY <1>1, <1>2, SetLands DEF Steps

LEMMA ThrowSteps ==
  ASSUME workers \in [Worker -> Local], NEW w \in Worker, Throw(w)
  PROVE  /\ Steps(w, Handler(workers[w].pc))
         /\ Handler(workers[w].pc) \in {"worker_failed", "task_failed"}
<1>1. /\ Handler(workers[w].pc) \in Pc
      /\ Handler(workers[w].pc) \in {"worker_failed", "task_failed"}
  BY DEF Handler, Pc, HandlerPc
<1> QED
  BY <1>1, GotoSteps DEF Throw

LEMMA SeenSteps ==
  ASSUME workers \in [Worker -> Local], NEW w \in Worker, NEW pc \in Pc,
         NEW run \in VerificationRun,
         Set(w, [workers[w] EXCEPT !.pc = pc, !.seen = run])
  PROVE  Lands(w, pc, run, workers[w].app, workers[w].check)
<1> DEFINE local == [workers[w] EXCEPT !.pc = pc, !.seen = run]
<1>1. local \in Local
  <2>1. /\ [workers[w] EXCEPT !.pc = pc] \in Local
        /\ local = [[workers[w] EXCEPT !.pc = pc] EXCEPT !.seen = run]
    BY DEF Local, Pc
  <2> QED
    BY <2>1 DEF Local
<1>2. /\ local.pc = pc /\ local.run = workers[w].run /\ local.seen = run
      /\ local.app = workers[w].app /\ local.check = workers[w].check
  BY DEF Local
<1>3. Set(w, local)
  OBVIOUS
<1> HIDE DEF local
<1> QED
  BY <1>1, <1>2, <1>3, SetLands

LEMMA ErrorsSteps ==
  ASSUME workers \in [Worker -> Local], NEW w \in Worker,
         NEW kind \in {"retryable", "terminal"}, Errors(w, kind)
  PROVE  Steps(w, "error_record")
<1> DEFINE local == [workers[w] EXCEPT !.pc = "error_record", !.error = kind]
<1>1. /\ local \in Local /\ local.pc = "error_record" /\ local.run = workers[w].run
      /\ local.seen = workers[w].seen /\ local.app = workers[w].app
      /\ local.check = workers[w].check
  BY DEF Local, ProcessPc
<1>2. Set(w, local)
  BY DEF Errors
<1> HIDE DEF local
<1> QED
  BY <1>1, <1>2, SetLands DEF Steps

LEMMA CheckSteps ==
  ASSUME workers \in [Worker -> Local], NEW w \in Worker, NEW pc \in Pc,
         NEW c \in CheckId \cup {None},
         Set(w, [workers[w] EXCEPT !.pc = pc, !.check = c])
  PROVE  Lands(w, pc, workers[w].seen, workers[w].app, c)
<1> DEFINE local == [workers[w] EXCEPT !.pc = pc, !.check = c]
<1>1. /\ local \in Local /\ local.pc = pc /\ local.run = workers[w].run
      /\ local.seen = workers[w].seen /\ local.app = workers[w].app
      /\ local.check = c
  BY DEF Local, Pc
<1>2. Set(w, local)
  OBVIOUS
<1> HIDE DEF local
<1> QED
  BY <1>1, <1>2, SetLands
-----------------------------------------------------------------------------
(* One check per run.  A request that found no check is the only one that  *)
(* could create it, so the listing is still true when it posts.            *)
UniqueInv ==
  /\ \A c, d \in DOMAIN checks :
       checks[c].external_id = checks[d].external_id => c = d
  /\ \A w \in Worker : workers[w].pc = "upsert" /\ workers[w].check = None =>
                         ChecksOf(workers[w].run) = {}

(* Every step moves one request at most; only Find leads to a request for a*)
(* new check.                                                              *)
LEMMA UpsertEntered ==
  ASSUME PipelineInv, [PipelineNext]_allVars, NEW w \in Worker,
         workers'[w].pc = "upsert", workers'[w].check = None
  PROVE  /\ workers'[w].run = workers[w].run
         /\ \/ workers[w].pc = "upsert" /\ workers[w].check = None
            \/ ChecksOf(workers[w].run) = {} /\ UNCHANGED checks
<1> SUFFICES ASSUME workers'[w] # workers[w]
             PROVE  /\ workers'[w].run = workers[w].run
                    /\ ChecksOf(workers[w].run) = {} /\ UNCHANGED checks
  OBVIOUS
<1>0. workers \in [Worker -> Local] /\ PipelineTypeOK /\ TypeOK'
  BY PipelineGrows DEF PipelineInv, PipelineTypeOK
<1>1. ASSUME NEW v \in Worker, NEW local, local.pc # "upsert",
             workers' = [workers EXCEPT ![v] = local]
      PROVE  FALSE
  BY <1>0, <1>1
<1>2. ASSUME NEW v \in Worker, NEW pc \in Pc \ {"upsert"}, NEW t,
             Goto(v, pc) \/ Transition(v, t, pc)
      PROVE  FALSE
  <2>1. Handler(workers[v].pc) # "upsert"
    BY DEF Handler
  <2> QED
    BY <1>0, <1>2, <2>1, GotoFacts, TransitionFacts DEF Moves, Becomes
<1>3. ASSUME NEW v \in Worker, NEW ok, Respond(v, ok)
      PROVE  FALSE
  BY <1>0, <1>3, IdleLocal DEF Respond
<1>4. ASSUME NEW v \in Worker, Throw(v)
      PROVE  FALSE
  <2>1. Handler(workers[v].pc) \in Pc \ {"upsert"}
    BY DEF Handler, Pc, HandlerPc
  <2> QED
    BY <1>2, <1>4, <2>1 DEF Throw
<1>5. ASSUME NEW v \in Worker, NEW pc \in Pc \ {"upsert"}, Reload(v, pc)
      PROVE  FALSE
  <2> DEFINE local == [workers[v] EXCEPT !.pc = pc, !.seen = Stored(v)]
  <2>1. local.pc = pc
    BY <1>0 DEF Local
  <2> HIDE DEF local
  <2> QED
    BY <1>1, <1>5, <2>1 DEF Reload, Set, local
<1>6. ASSUME NEW v \in Worker, WorkflowStep(v)
      PROVE  FALSE
  <2>1. CASE \/ Lookup(v) \/ Execute(v) \/ Load(v) \/ Recheck(v) \/ Challenge(v)
             \/ Repair(v) \/ Latest(v) \/ Save(v)
    BY <1>2, <1>4, <1>5, <2>1
       DEF Lookup, Execute, Load, Recheck, Challenge, Repair, Latest, Save, AfterExecution,
           Pc, ExecutePc, ProcessPc
  <2>2. CASE \/ Queue(v) \/ Start(v) \/ Claim(v) \/ Select(v) \/ Base(v) \/ Head(v)
             \/ Assess(v) \/ Complete(v)
    BY <1>2, <2>2
       DEF Queue, Start, Claim, Select, Base, Head, Assess, Complete, Skip, AfterExecution,
           Pc, ExecutePc, ProcessPc
  <2>3. CASE Process(v) \/ Replay(v) \/ Generate(v) \/ Reporting(v)
    <3>1. workers[v] \in Local
      BY <1>0
    <3>2. \E local : local.pc # "upsert" /\ workers' = [workers EXCEPT ![v] = local]
      <4>1. CASE Process(v)
        BY <3>1, <4>1 DEF Process, Set, Local
      <4>2. CASE Replay(v)
        BY <3>1, <4>2 DEF Replay, Set, Local, AfterExecution
      <4>3. CASE Generate(v)
        BY <3>1, <4>3 DEF Generate, Set, Local
      <4>4. CASE Reporting(v)
        BY <3>1, <4>4 DEF Reporting, Abstain, Exhaust, Judge, Set, Local
      <4> QED
        BY <2>3, <4>1, <4>2, <4>3, <4>4
    <3> QED
      BY <1>1, <3>2
  <2> QED
    BY <1>6, <2>1, <2>2, <2>3 DEF WorkflowStep
<1>7. ASSUME NEW v \in Worker, PublisherStep(v)
      PROVE  /\ workers'[w].run = workers[w].run
             /\ ChecksOf(workers[w].run) = {} /\ UNCHANGED checks
  <2>0. workers[v] \in Local
    BY <1>0
  <2>1. ~ (\/ Publish(v) \/ ReloadRun(v) \/ Reopen(v) \/ Remember(v) \/ Reread(v)
           \/ ErrorRecord(v) \/ ErrorReread(v) \/ Finish(v))
    <3>1. CASE Publish(v) \/ Remember(v) \/ ErrorRecord(v) \/ Finish(v)
      BY <1>2, <1>3, <1>4, <1>5, <3>1
         DEF Publish, Remember, ErrorRecord, Finish, Pc, ProcessPc
    <3>2. CASE ReloadRun(v) \/ Reopen(v) \/ Reread(v) \/ ErrorReread(v)
      BY <1>2, <1>5, <3>2 DEF ReloadRun, Reopen, Reread, ErrorReread, Pc, ProcessPc
    <3> QED
      BY <3>1, <3>2
  <2>2. ~ (\/ Settle(v) \/ ErrorSettle(v) \/ NotApplicable(v))
    BY <1>3, <1>4 DEF Settle, ErrorSettle, NotApplicable, LastTransition
  <2>3. ASSUME NEW pc \in Pc \ {"upsert"}, NEW c, NEW kind,
               \/ Set(v, [workers[v] EXCEPT !.pc = pc, !.check = c])
               \/ Set(v, [workers[v] EXCEPT !.pc = pc, !.error = kind])
        PROVE  FALSE
    <3>1. \E local : local.pc # "upsert" /\ workers' = [workers EXCEPT ![v] = local]
      BY <2>0, <2>3 DEF Set, Local
    <3> QED
      BY <1>1, <3>1
  <2>4. ~ (Begin(v) \/ Upsert(v) \/ RequestFails(v))
    BY <1>4, <2>3 DEF Begin, Upsert, RequestFails, Errors, Pc, ProcessPc
  <2>5. CASE Find(v)
    <3>1. \A u \in Worker : u # v => workers'[u] = workers[u]
      BY <1>0, <2>5 DEF Find, Errors, Goto, Set
    <3>2. v = w
      BY <3>1
    <3>3. ASSUME NEW c \in CheckId \cup {None},
                 Set(v, [workers[v] EXCEPT !.pc = "upsert", !.check = c])
          PROVE  Lands(v, "upsert", workers[v].seen, workers[v].app, c)
      BY <1>0, <3>3, CheckSteps DEF Pc, ProcessPc
    <3>4. CASE Errors(v, "terminal")
      BY <2>3, <3>4 DEF Errors, Pc, ProcessPc
    <3>5. CASE workers[v].check # None /\ Goto(v, "upsert")
      BY <1>0, <3>2, <3>5, GotoSteps DEF Steps, Lands, Pc, ProcessPc
    <3>6. CASE \E c \in ChecksOf(workers[v].run) :
                 Set(v, [workers[v] EXCEPT !.pc = "upsert", !.check = c])
      <4>1. ChecksOf(workers[v].run) \subseteq CheckId
        BY <1>0 DEF PipelineTypeOK, Partial, ChecksOf
      <4> QED
        BY <3>2, <3>3, <3>6, <4>1, StoreAssumption DEF Lands
    <3>7. CASE /\ ChecksOf(workers[v].run) = {}
               /\ Set(v, [workers[v] EXCEPT !.pc = "upsert", !.check = None])
      BY <2>5, <3>2, <3>3, <3>7 DEF Lands, Find, Silent
    <3> QED
      BY <2>5, <3>4, <3>5, <3>6, <3>7 DEF Find, FindExisting
  <2> QED
    BY <1>7, <2>1, <2>2, <2>4, <2>5 DEF PublisherStep
<1>8. ASSUME NEW v \in Worker, HandlerStep(v) \/ Crash(v) \/ Raise(v) \/ Refused(v)
      PROVE  FALSE
  <2>1. CASE Refused(v)
    <3>1. Idle.pc # "upsert" /\ (workers' = workers \/ Set(v, Idle))
      BY <2>1, IdleLocal DEF Refused, Idle
    <3> QED
      BY <1>0, <1>1, <3>1 DEF Set
  <2> QED
    BY <1>2, <1>3, <1>4, <1>8, <2>1
       DEF HandlerStep, WorkerFailed, TaskFailed, FailingRun, Crash, Raise, Pc, HandlerPc
<1>9. ASSUME NEW r \in RunId, NEW v \in Worker, Deliver(r, v)
      PROVE  FALSE
  <2>1. [Idle EXCEPT !.pc = "process", !.run = r].pc # "upsert"
    BY DEF Idle
  <2> QED
    BY <1>1, <1>9, <2>1 DEF Deliver
<1>10. ~ (\/ UNCHANGED allVars
          \/ \E e \in Events : Receive(e)
          \/ \E r \in RunId : Dispatch(r) \/ DispatchLost(r) \/ Deadline(r))
  BY DEF allVars, pipeline, Receive, Dispatch, DispatchLost, Deadline
<1> QED
  BY <1>6, <1>7, <1>8, <1>9, <1>10 DEF PipelineNext, Failure, RequestStep

LEMMA UniqueKept ==
  ASSUME PipelineInv, NoOverlap, UniqueInv, [PipelineNext]_allVars
  PROVE  UniqueInv'
<1> DEFINE Unique == \A c, d \in DOMAIN checks :
                       checks[c].external_id = checks[d].external_id => c = d
           Alone(w) == workers[w].pc = "upsert" /\ workers[w].check = None =>
                         ChecksOf(workers[w].run) = {}
<1>1. \A w \in Worker : workers'[w].pc = "upsert" /\ workers'[w].check = None =>
        /\ workers'[w].run = workers[w].run
        /\ ChecksOf(workers[w].run) = {}
        /\ workers[w].pc = "upsert" \/ UNCHANGED checks
  BY UpsertEntered DEF UniqueInv
<1>2. CASE UNCHANGED checks
  BY <1>1, <1>2 DEF UniqueInv, ChecksOf
<1>3. ASSUME NEW v \in Worker, Upsert(v)
      PROVE  UniqueInv'
  <2> DEFINE r == workers[v].run
  <2>1. PICK c \in CheckId :
          /\ checks' = Put(checks, c, PayloadOf(r))
          /\ c \in DOMAIN checks => checks[c].external_id = r
          /\ \/ Moves(v, "error_record")
             \/ Becomes(v, "remember", workers[v].app, workers[v].report, c)
    BY <1>3, UpsertFacts
  <2>2. PayloadOf(r).external_id = r
    BY DEF PayloadOf, FormatGithubCheck
  <2>3. c \in DOMAIN checks \/ ChecksOf(r) = {}
    <3>1. CASE workers[v].check = None
      BY <1>3, <3>1 DEF UniqueInv, Upsert, At
    <3>2. CASE workers[v].check # None
      <4>1. workers[v].check \in DOMAIN checks
        BY <1>3, <3>2 DEF PipelineInv, LocalInv, Upsert, At, Publishing, ChecksOf
      <4>2. DOMAIN checks' = DOMAIN checks
        BY <1>3, <3>2, <4>1 DEF Upsert, Put
      <4> QED
        BY <2>1, <4>2 DEF Put
    <3> QED
      BY <3>1, <3>2
  <2>4. \A d \in DOMAIN checks : checks[d].external_id = r => d = c
    BY <2>1, <2>3 DEF UniqueInv, ChecksOf
  <2>5. Unique'
    BY <2>1, <2>2, <2>4 DEF UniqueInv, Put
  <2>6. ASSUME NEW w \in Worker, workers'[w].pc = "upsert", workers'[w].check = None
        PROVE  ChecksOf(workers[w].run)' = {}
    <3>1. w # v
      BY <2>1, <2>6 DEF Moves, Becomes
    <3>2. workers'[w] = workers[w]
      BY <2>1, <3>1 DEF Moves, Becomes
    <3>3. workers[w].run # r
      BY <1>3, <2>6, <3>1, <3>2 DEF NoOverlap, Active, Upsert, At
    <3> QED
      BY <1>1, <2>1, <2>2, <2>6, <3>2, <3>3 DEF ChecksOf, Put
  <2> QED
    BY <2>5, <2>6 DEF UniqueInv
<1> QED
  BY <1>2, <1>3, ChecksStep

(* "... or create it exactly once": a run has one check at most, however   *)
(* often its publication fails, its request dies or its task returns, as   *)
(* long as no two requests work on it at once (upsert_completed).          *)
THEOREM OneCheckEach == PipelineSpec /\ []NoOverlap => []OneCheckPerRun
<1>1. PipelineInit => UniqueInv
  BY IdleLocal DEF PipelineInit, UniqueInv
<1>2. PipelineInv /\ NoOverlap /\ UniqueInv /\ [PipelineNext]_allVars => UniqueInv'
  BY UniqueKept
<1>3. UniqueInv => OneCheckPerRun
  <2> SUFFICES ASSUME UniqueInv, NEW r \in DOMAIN runs
               PROVE  Cardinality(ChecksOf(r)) <= 1
    BY DEF OneCheckPerRun
  <2>1. CASE ChecksOf(r) = {}
    BY <2>1, FS_EmptySet
  <2>2. ASSUME NEW c \in ChecksOf(r)
        PROVE  Cardinality(ChecksOf(r)) <= 1
    <3>1. ChecksOf(r) = {c}
      BY <2>2 DEF UniqueInv, ChecksOf
    <3>2. Cardinality({c}) = 1
      BY FS_Singleton
    <3> QED
      BY <3>1, <3>2
  <2> QED
    BY <2>1, <2>2
<1> QED
  BY <1>1, <1>2, <1>3, PipelineInvariant, PTL DEF PipelineSpec
-----------------------------------------------------------------------------
(* A request keeps its run until it responds. *)
Continues(w) ==
  /\ \A v \in Worker : v # w => workers'[v] = workers[v]
  /\ workers'[w].run = workers[w].run

Answered(w) == \E ok \in BOOLEAN : Respond(w, ok)

LEMMA RequestContinues ==
  ASSUME PipelineInv, TypeOK', NEW w \in Worker, RequestStep(w) \/ Crash(w) \/ Raise(w)
  PROVE  /\ Active(w)
         /\ Answered(w) \/ (Continues(w) /\ UNCHANGED tasks)
<1>0. workers \in [Worker -> Local] /\ PipelineTypeOK /\ workers[w] \in Local
  BY DEF PipelineInv, PipelineTypeOK
<1>1. ASSUME NEW local, local.run = workers[w].run, workers' = [workers EXCEPT ![w] = local]
      PROVE  Continues(w)
  BY <1>0, <1>1 DEF Continues
<1>2. ASSUME NEW pc, NEW kind, NEW app, NEW report, NEW n, NEW c, NEW run,
             \/ Goto(w, pc) \/ Throw(w) \/ Reload(w, pc) \/ Errors(w, kind)
             \/ Set(w, [workers[w] EXCEPT !.pc = pc, !.app = app])
             \/ Set(w, [workers[w] EXCEPT !.pc = pc, !.report = report])
             \/ Set(w, [workers[w] EXCEPT !.pc = pc, !.attempt = n])
             \/ Set(w, [workers[w] EXCEPT !.pc = pc, !.check = c])
             \/ Set(w, [workers[w] EXCEPT !.pc = pc, !.seen = run])
      PROVE  Continues(w)
  <2>1. \E local : local.run = workers[w].run /\ workers' = [workers EXCEPT ![w] = local]
    BY <1>0, <1>2 DEF Goto, Throw, Reload, Errors, Set, Local
  <2> QED
    BY <1>1, <2>1
<1>3. ASSUME NEW t, NEW pc, Transition(w, t, pc) \/ Skip(w, pc)
      PROVE  Continues(w) /\ UNCHANGED tasks
  BY <1>2, <1>3 DEF Transition, Skip, Silent
<1>4. ASSUME NEW t, NEW ok \in BOOLEAN, LastTransition(w, t, ok)
      PROVE  Answered(w) \/ (Continues(w) /\ UNCHANGED tasks)
  BY <1>2, <1>4 DEF LastTransition, Answered
<1>5. CASE WorkflowStep(w)
  <2>1. CASE \/ Lookup(w) \/ Execute(w) \/ Load(w) \/ Recheck(w) \/ Challenge(w)
             \/ Repair(w) \/ Latest(w) \/ Save(w)
    BY <1>2, <2>1
       DEF Lookup, Execute, Load, Recheck, Challenge, Repair, Latest, Save, Silent, At, Active
  <2>2. CASE \/ Queue(w) \/ Start(w) \/ Claim(w) \/ Select(w) \/ Base(w) \/ Head(w)
             \/ Assess(w) \/ Complete(w)
    BY <1>3, <2>2
       DEF Queue, Start, Claim, Select, Base, Head, Assess, Complete, At, Active
  <2>3. CASE Process(w) \/ Replay(w) \/ Generate(w) \/ Reporting(w)
    BY <1>2, <2>3
       DEF Process, Replay, Generate, Reporting, Abstain, Exhaust, Judge, Silent, At, Active
  <2> QED
    BY <1>5, <2>1, <2>2, <2>3 DEF WorkflowStep
<1>6. CASE PublisherStep(w)
  <2>1. CASE \/ Publish(w) \/ Begin(w) \/ ReloadRun(w) \/ Find(w) \/ Upsert(w)
    BY <1>2, <2>1
       DEF Publish, Begin, ReloadRun, Find, Upsert, Silent, At, Active, Answered
  <2>2. CASE \/ RequestFails(w) \/ Remember(w) \/ Reread(w) \/ ErrorRecord(w)
             \/ ErrorReread(w) \/ Finish(w)
    BY <1>2, <2>2
       DEF RequestFails, Remember, Reread, ErrorRecord, ErrorReread, Finish, Silent, At,
           Active, Answered
  <2>3. CASE Reopen(w) \/ Settle(w) \/ ErrorSettle(w) \/ NotApplicable(w)
    BY <1>3, <1>4, <2>3
       DEF Reopen, Settle, ErrorSettle, NotApplicable, AnswersOk, At, Active
  <2> QED
    BY <1>6, <2>1, <2>2, <2>3 DEF PublisherStep
<1>7. CASE HandlerStep(w) \/ Crash(w) \/ Raise(w)
  BY <1>2, <1>7
     DEF HandlerStep, WorkerFailed, TaskFailed, FailingRun, Crash, Raise, At, Active,
         Answered, ExecutePc, ProcessPc
<1> QED
  BY <1>5, <1>6, <1>7 DEF RequestStep

(* Every step, by what it does to requests and tasks. *)
LEMMA TurnOf ==
  ASSUME PipelineInv, [PipelineNext]_allVars
  PROVE  \/ UNCHANGED <<workers, tasks>>
         \/ \E r \in RunId : (Dispatch(r) \/ Deadline(r)) /\ UNCHANGED workers
         \/ \E r \in RunId, w \in Worker : Deliver(r, w)
         \/ \E w \in Worker : Active(w) /\ (Answered(w) \/ Refused(w))
         \/ \E w \in Worker : Active(w) /\ Continues(w) /\ UNCHANGED tasks
<1>1. TypeOK'
  BY PipelineGrows
<1>2. ASSUME NEW w \in Worker, RequestStep(w) \/ Crash(w) \/ Raise(w)
      PROVE  Active(w) /\ (Answered(w) \/ (Continues(w) /\ UNCHANGED tasks))
  BY <1>1, <1>2, RequestContinues
<1>3. ASSUME \/ UNCHANGED allVars
             \/ \E e \in Events : Receive(e)
             \/ \E r \in RunId : DispatchLost(r)
      PROVE  UNCHANGED <<workers, tasks>>
  BY <1>3 DEF allVars, pipeline, Receive, DispatchLost
<1>4. ASSUME NEW r \in RunId, Dispatch(r) \/ Deadline(r)
      PROVE  UNCHANGED workers
  BY <1>4 DEF Dispatch, Deadline
<1>5. ASSUME NEW w \in Worker, Refused(w)
      PROVE  Active(w)
  BY <1>5 DEF Refused, At, Active
<1> QED
  BY <1>2, <1>3, <1>4, <1>5 DEF PipelineNext, Failure

(* Without missed deadlines a request holds its task until it responds.    *)
Leased == \A w \in Worker : Active(w) => Holds(w)

LEMMA LeaseKept ==
  ASSUME PipelineInv, Leased, [PipelineNext]_allVars, \A r : ~Deadline(r)
  PROVE  Leased'
<1>0. /\ workers \in [Worker -> Local]
      /\ \A r \in DOMAIN tasks : tasks[r] \in Task
  BY DEF PipelineInv, PipelineTypeOK, Partial
<1>1. CASE UNCHANGED <<workers, tasks>>
  BY <1>1 DEF Leased, Active, Holds
<1>2. ASSUME NEW r \in RunId, Dispatch(r), UNCHANGED workers
      PROVE  Leased'
  <2>1. \A k \in DOMAIN tasks : k \in DOMAIN tasks' /\ tasks'[k] = tasks[k]
    BY <1>2 DEF Dispatch, Put
  <2> QED
    BY <1>2, <2>1 DEF Leased, Active, Holds
<1>3. ASSUME NEW r \in RunId, NEW w \in Worker, Deliver(r, w)
      PROVE  Leased'
  <2>1. /\ r \in DOMAIN tasks /\ tasks[r].state = "queued" /\ DOMAIN tasks' = DOMAIN tasks
        /\ tasks'[r].state = "leased" /\ tasks'[r].by = w
        /\ \A k \in DOMAIN tasks : k # r => tasks'[k] = tasks[k]
    BY <1>0, <1>3 DEF Deliver, Task
  <2>2. /\ workers'[w].run = r
        /\ \A v \in Worker : v # w => workers'[v] = workers[v]
    BY <1>0, <1>3 DEF Deliver, Idle
  <2> QED
    BY <2>1, <2>2 DEF Leased, Active, Holds
<1>4. ASSUME NEW w \in Worker, Active(w), Answered(w) \/ Refused(w)
      PROVE  Leased'
  <2>1. /\ ~Active(w)' /\ \A v \in Worker : v # w => workers'[v] = workers[v]
    BY <1>0, <1>4, IdleLocal DEF Answered, Respond, Refused, Set, Active
  <2>2. Holds(w)
    BY <1>4 DEF Leased
  <2>3. /\ DOMAIN tasks' = DOMAIN tasks
        /\ \A k \in DOMAIN tasks : k # workers[w].run => tasks'[k] = tasks[k]
    BY <1>4, <2>2 DEF Answered, Respond, Refused
  <2> QED
    BY <2>1, <2>2, <2>3 DEF Leased, Active, Holds
<1>5. ASSUME NEW w \in Worker, Active(w), Continues(w), UNCHANGED tasks
      PROVE  Leased'
  BY <1>5 DEF Leased, Continues, Active, Holds
<1> QED
  BY <1>1, <1>2, <1>3, <1>4, <1>5, TurnOf

(* Requests overlap only through a missed deadline and a second place to   *)
(* serve them: with one place, or if the deadline outlasts every request,  *)
(* there is no overlap.                                                    *)
THEOREM RequestsAlone ==
  ASSUME MaxFaults["deadline"] = 0 \/ \E w : Worker = {w}
  PROVE  PipelineSpec => []NoOverlap
<1>1. CASE \E w : Worker = {w}
  <2>1. NoOverlap
    BY <1>1 DEF NoOverlap
  <2> QED
    BY <2>1, PTL
<1>2. CASE MaxFaults["deadline"] = 0
  <2>1. PipelineInit => Leased
    BY IdleLocal DEF PipelineInit, Leased, Active
  <2>2. PipelineInv => \A r : ~Deadline(r)
    BY <1>2 DEF PipelineInv, PipelineTypeOK, Deadline, Fault, FaultKind
  <2>3. PipelineInv /\ Leased /\ [PipelineNext]_allVars => Leased'
    BY <2>2, LeaseKept
  <2>4. Leased => NoOverlap
    BY DEF Leased, NoOverlap, Holds
  <2> QED
    BY <2>1, <2>3, <2>4, PipelineInvariant, PTL DEF PipelineSpec
<1> QED
  BY <1>1, <1>2
-----------------------------------------------------------------------------
(* What settles a run: the publication of its evidence.                    *)

(* No stored run gets another timestamp: an event that names its revision  *)
(* with a newer one changes its version and installation under the request *)
(* that works on it.  Events that are no newer are not excluded, nor those *)
(* that bring a pull request back to an earlier revision.                  *)
NoRelabelling ==
  \A r \in DOMAIN runs : runs'[r].head_updated_at = runs[r].head_updated_at

Current(r)  == runs[r].revision_state = "CURRENT"
Terminal(r) == runs[r].lifecycle = "TERMINAL"

(* What every stored record satisfies, whichever requests overlap.         *)
RunRecord(r) ==
  /\ runs[r].created_at = 0 /\ runs[r].updated_at = 0
  /\ Current(r) <=> runs[r].superseded_by = None
  /\ Completed(r) <=> runs[r].publication # "NOT_STARTED"
  /\ ~Completed(r) => runs[r].mechanical = None /\ runs[r].outcome = None
  /\ runs[r].publication = "RETRYABLE_FAILURE" => runs[r].installation # None
  /\ runs[r].publication = "NOT_APPLICABLE" => runs[r].installation = None

(* Evidence is that of a stored run, and a payload renders its evidence.   *)
Documented ==
  /\ \A r \in DOMAIN evidence : r \in DOMAIN runs
  /\ \A r \in DOMAIN publications :
       r \in DOMAIN evidence /\ publications[r].payload = PayloadOf(r)

RecordsInv == clock = 0 /\ Documented /\ \A r \in DOMAIN runs : RunRecord(r)

(* The times a run record bears. *)
LEMMA RunTimes ==
  ASSUME NEW run \in VerificationRun, NEW by \in RunId, NEW t \in RunTransition,
         NEW now \in Nat
  PROVE  /\ Superseded(run, by, now).created_at = run.created_at
         /\ Superseded(run, by, now).updated_at = now
         /\ Requested(run, t, now).created_at = run.created_at
         /\ Requested(run, t, now).updated_at = now
  BY DEF Superseded, Requested, VerificationRun

LEMMA NewRunRecord ==
  ASSUME NEW e \in Events, NEW stale \in BOOLEAN, stale => CurrentOf(e) \in RunId
  PROVE  LET run == NewRun(e, 0, stale)
         IN  /\ run.pr = e.pr /\ run.revision = e.revision
             /\ run.created_at = 0 /\ run.updated_at = 0
             /\ (run.revision_state = "CURRENT") <=> (run.superseded_by = None)
             /\ (run.revision_state = "CURRENT") <=> ~stale
             /\ run.terminal_reason # "COMPLETED" /\ run.publication = "NOT_STARTED"
             /\ run.mechanical = None /\ run.outcome = None
             /\ run.phase = "CONTEXT"
             /\ ~stale => run.lifecycle = "ACCEPTED"
  BY NoneAssumption DEF NewRun, Reason

(* Accepting an event leaves every stored run alone or supersedes it, and  *)
(* a new run is recorded with its event.                                   *)
Untouched(r) ==
  /\ r \in DOMAIN runs'
  /\ \/ runs'[r] = runs[r]
     \/ \E by \in RunId : runs'[r] = Superseded(runs[r], by, 0)

LEMMA Accepted ==
  ASSUME NoRelabelling, PointerInv, clock = 0, NEW e \in Events,
         AcceptPullRequest(e, clock)
  PROVE  /\ \A r \in DOMAIN runs : Untouched(r)
         /\ \A r \in DOMAIN runs' \ DOMAIN runs :
              \E stale \in BOOLEAN : /\ stale => CurrentOf(e) \in RunId
                                     /\ runs'[r] = NewRun(e, 0, stale)
         /\ UNCHANGED <<records, clock>>
<1> USE DEF PointerInv, TypeOK
<1>1. CASE AcceptDuplicateDelivery(e)
  BY <1>1 DEF AcceptDuplicateDelivery, vars, Untouched
<1>2. CASE AcceptDuplicateRevision(e, clock)
  <2> DEFINE r == DuplicateOf(e)
             newer == e.head_updated_at > runs[r].head_updated_at
             run == IF newer THEN Refreshed(runs[r], e, clock) ELSE runs[r]
  <2>1. /\ runs' = Put(runs, r, run) /\ UNCHANGED <<records, clock>>
        /\ r \in DOMAIN runs
    BY <1>2, EventFields DEF AcceptDuplicateRevision, IsDuplicateRevision, HasDuplicate,
                             DuplicateOf, RevisionInv
  <2>2. runs[r] \in VerificationRun /\ e.head_updated_at \in Nat
    BY <2>1, EventFields DEF Partial
  <2>3. runs'[r] = run
    BY <2>1 DEF Put
  <2>4. ~newer
    <3> SUFFICES ASSUME newer PROVE FALSE
      OBVIOUS
    <3>1. runs'[r].head_updated_at = e.head_updated_at
      BY <2>2, <2>3 DEF Refreshed, VerificationRun
    <3> QED
      BY <2>1, <2>2, <3>1 DEF NoRelabelling, VerificationRun
  <2> QED
    BY <2>1, <2>4 DEF Put, Untouched
<1>3. ASSUME NEW r \in RunId, AcceptStale(e, clock, r)
      PROVE  /\ \A k \in DOMAIN runs : k \in DOMAIN runs' /\ runs'[k] = runs[k]
             /\ CurrentOf(e) \in RunId
             /\ \A k \in DOMAIN runs' \ DOMAIN runs : runs'[k] = NewRun(e, 0, TRUE)
             /\ UNCHANGED <<records, clock>>
  <2>1. CurrentOf(e) \in RunId
    BY <1>3 DEF AcceptStale, NotNewer, HasCurrent, CurrentOf, Partial
  <2> QED
    BY <1>3, <2>1 DEF AcceptStale, Put
<1>4. ASSUME NEW r \in RunId, AcceptNew(e, clock, r)
      PROVE  /\ \A k \in DOMAIN runs :
                  /\ k \in DOMAIN runs'
                  /\ runs'[k] = runs[k] \/ runs'[k] = Superseded(runs[k], r, 0)
             /\ \A k \in DOMAIN runs' \ DOMAIN runs : runs'[k] = NewRun(e, 0, FALSE)
             /\ UNCHANGED <<records, clock>>
  BY <1>4 DEF AcceptNew, Put
<1> QED
  BY <1>1, <1>2, <1>3, <1>4 DEF AcceptPullRequest, Untouched

(* What is left of a run in the hands of a request.                        *)
LEMMA UntouchedFacts ==
  ASSUME PointerInv, NEW r \in DOMAIN runs, RunRules(r), Untouched(r)
  PROVE  /\ r \in DOMAIN runs' /\ r \in RunId
         /\ runs'[r].pr = runs[r].pr /\ runs'[r].revision = runs[r].revision
         /\ Completed(r)' <=> Completed(r)
         /\ runs'[r].installation = runs[r].installation
         /\ runs'[r].publication = runs[r].publication
         /\ Current(r)' => runs'[r] = runs[r]
         /\ RunRecord(r) => RunRecord(r)'
<1>1. runs[r] \in VerificationRun /\ r \in RunId
  BY DEF PointerInv, TypeOK, Partial
<1>2. CASE runs'[r] = runs[r]
  BY <1>1, <1>2 DEF Untouched, Completed, RunRecord, Current
<1>3. ASSUME NEW by \in RunId, runs'[r] = Superseded(runs[r], by, 0)
      PROVE  /\ runs'[r].pr = runs[r].pr /\ runs'[r].revision = runs[r].revision
             /\ Completed(r)' <=> Completed(r)
             /\ runs'[r].installation = runs[r].installation
             /\ runs'[r].publication = runs[r].publication
             /\ ~Current(r)'
             /\ RunRecord(r) => RunRecord(r)'
  <2>1. ASSUME NEW t \in RunTransition
        PROVE  runs'[r].created_at = runs[r].created_at /\ runs'[r].updated_at = 0
    BY <1>1, <1>3, RunTimes
  <2>2. runs'[r].created_at = runs[r].created_at /\ runs'[r].updated_at = 0
    BY <2>1, FailTransitionType
  <2>3. (runs[r].terminal_reason = "COMPLETED") <=> (runs'[r].terminal_reason = "COMPLETED")
    <3>1. runs'[r].terminal_reason = IF Terminal(r) THEN runs[r].terminal_reason
                                     ELSE "SUPERSEDED"
      BY <1>1, <1>3, SupersededFacts DEF Terminal
    <3> QED
      BY <3>1, NoneAssumption DEF RunRules, Terminal, Reason
  <2> QED
    BY <1>1, <1>3, <2>2, <2>3, SupersededFacts, NoneAssumption DEF RunRecord, Current, Completed
<1> QED
  BY <1>1, <1>2, <1>3 DEF Untouched
-----------------------------------------------------------------------------
(* The transitions requests ask for, and what they do to the run.          *)
Rewritten(r, t) ==
  /\ r \in DOMAIN runs /\ DOMAIN runs' = DOMAIN runs
  /\ \A k \in DOMAIN runs : k # r => runs'[k] = runs[k]
  /\ TransitionAllowed(runs[r], t, 0) /\ runs'[r] = Requested(runs[r], t, 0)
  /\ UNCHANGED <<deliveries, evidence, publications, clock>>

LEMMA TransitionRewrites ==
  ASSUME TypeOK, clock = 0, NEW r, NEW v, NEW t, TransitionRun(r, v, t, clock)
  PROVE  Rewritten(r, t) /\ UNCHANGED failures
  BY DEF TransitionRun, Readable, TypeOK, Partial, ApplyRunTransition, Rewritten, records

LEMMA FailRewrites ==
  ASSUME TypeOK, clock = 0, NEW r, FailRun(r, clock)
  PROVE  Rewritten(r, FailTransition)
  BY DEF FailRun, Readable, TypeOK, Partial, ApplyRunTransition, Rewritten

LEMMA RewrittenFacts ==
  ASSUME TypeOK, NEW r, NEW t \in RunTransition, Rewritten(r, t)
  PROVE  /\ runs'[r].installation = runs[r].installation
         /\ runs'[r].pr = runs[r].pr /\ runs'[r].revision = runs[r].revision
         /\ runs'[r].revision_state = runs[r].revision_state
         /\ runs'[r].superseded_by = runs[r].superseded_by
         /\ runs'[r].lifecycle = Or(t.lifecycle, runs[r].lifecycle)
         /\ runs'[r].phase = Or(t.phase, runs[r].phase)
         /\ runs'[r].terminal_reason = Or(t.terminal_reason, runs[r].terminal_reason)
         /\ runs'[r].mechanical = Or(t.mechanical, runs[r].mechanical)
         /\ runs'[r].outcome = Or(t.outcome, runs[r].outcome)
         /\ runs'[r].publication = Or(t.publication, runs[r].publication)
         /\ runs'[r].created_at = runs[r].created_at /\ runs'[r].updated_at = 0
<1>1. runs[r] \in VerificationRun /\ runs'[r] = Requested(runs[r], t, 0) /\ r \in RunId
  BY DEF TypeOK, Partial, Rewritten
<1>2. runs'[r].created_at = runs[r].created_at /\ runs'[r].updated_at = 0
  BY <1>1, RunTimes
<1> QED
  BY <1>1, <1>2, RequestedFacts

(* Before completion: the lifecycle or the phase moves on. *)
Early == {MovesTo(lifecycle) : lifecycle \in {"QUEUED", "RUNNING"}}
           \cup {AdvancesTo(phase) : phase \in {"CLAIM", "TEST_GENERATION", "BASE_EXECUTION",
                                                "HEAD_EXECUTION", "ASSESSMENT"}}

LEMMA EarlyFields ==
  ASSUME NEW t \in Early
  PROVE  /\ t \in Transitions /\ t \in RunTransition
         /\ t.terminal_reason = None /\ t.mechanical = None /\ t.outcome = None
         /\ t.publication = None
<1>1. t \in RequestedTransitions
  BY DEF Early, RequestedTransitions
<1>2. ASSUME NEW x
      PROVE  /\ MovesTo(x).terminal_reason = None /\ MovesTo(x).mechanical = None
             /\ MovesTo(x).outcome = None /\ MovesTo(x).publication = None
             /\ AdvancesTo(x).terminal_reason = None /\ AdvancesTo(x).mechanical = None
             /\ AdvancesTo(x).outcome = None /\ AdvancesTo(x).publication = None
  BY DEF MovesTo, AdvancesTo, NoChange
<1> QED
  BY <1>1, <1>2, DocumentAssumption, StoreAssumption DEF Early

LEMMA EarlyRun ==
  ASSUME TypeOK, NEW r, NEW t \in Early, Rewritten(r, t)
  PROVE  /\ RunRecord(r) => RunRecord(r)'
         /\ Completed(r)' <=> Completed(r)
         /\ Current(r)' <=> Current(r)
         /\ runs'[r].installation = runs[r].installation
<1>1. /\ t \in RunTransition /\ t.terminal_reason = None /\ t.mechanical = None
      /\ t.outcome = None /\ t.publication = None
  BY EarlyFields
<1> QED
  BY <1>1, RewrittenFacts DEF RunRecord, Completed, Current, Or

(* Completion. *)
LEMMA CompletingRun ==
  ASSUME TypeOK, NEW r, NEW report \in Document, Rewritten(r, CompletesWith(report))
  PROVE  /\ RunRecord(r) => RunRecord(r)'
         /\ Completed(r)' /\ runs'[r].publication = "PENDING" /\ Terminal(r)'
         /\ Current(r)' <=> Current(r)
         /\ runs'[r].installation = runs[r].installation
<1> DEFINE t == CompletesWith(report)
<1>1. t \in RunTransition
  BY AskedTransitions, StoreAssumption
<1>2. /\ t.lifecycle = "TERMINAL" /\ t.terminal_reason = "COMPLETED"
      /\ t.publication = "PENDING"
  BY DEF CompletesWith
<1> HIDE DEF t
<1>3. Rewritten(r, t)
  BY DEF t
<1>4. /\ runs'[r].installation = runs[r].installation
      /\ runs'[r].revision_state = runs[r].revision_state
      /\ runs'[r].superseded_by = runs[r].superseded_by
      /\ runs'[r].lifecycle = "TERMINAL"
      /\ runs'[r].terminal_reason = "COMPLETED" /\ runs'[r].publication = "PENDING"
      /\ runs'[r].created_at = runs[r].created_at /\ runs'[r].updated_at = 0
  BY <1>1, <1>2, <1>3, RewrittenFacts, NoneAssumption DEF Or, Lifecycle, Reason, Publication
<1> QED
  BY <1>4 DEF RunRecord, Completed, Current, Terminal

(* Publication of a completed run. *)
PublishState == {"PENDING", "PUBLISHED", "RETRYABLE_FAILURE", "TERMINAL_FAILURE",
                 "NOT_APPLICABLE"}

LEMMA PublishFields ==
  ASSUME NEW state \in PublishState
  PROVE  LET t == PublishesAs(state)
         IN  /\ t \in Transitions /\ t \in RunTransition
             /\ t.lifecycle = None /\ t.phase = None /\ t.terminal_reason = None
             /\ t.mechanical = None /\ t.outcome = None /\ t.publication = state
  BY AskedTransitions, StoreAssumption DEF PublishesAs, NoChange, PublishState

LEMMA PublishingRun ==
  ASSUME TypeOK, NEW r, NEW state \in PublishState, Rewritten(r, PublishesAs(state)),
         Completed(r)
  PROVE  /\ /\ RunRecord(r)
            /\ state = "RETRYABLE_FAILURE" => runs[r].installation # None
            /\ state = "NOT_APPLICABLE" => runs[r].installation = None
            => RunRecord(r)'
         /\ Completed(r)' /\ runs'[r].publication = state
         /\ Current(r)' <=> Current(r)
         /\ runs'[r].lifecycle = runs[r].lifecycle
         /\ runs'[r].installation = runs[r].installation
<1> DEFINE t == PublishesAs(state)
<1>1. /\ t \in RunTransition /\ t.lifecycle = None
      /\ t.terminal_reason = None /\ t.mechanical = None /\ t.outcome = None
      /\ t.publication = state
  BY PublishFields
<1>2. state # None /\ state # "NOT_STARTED"
  BY NoneAssumption DEF PublishState, Publication
<1> HIDE DEF t
<1>3. Rewritten(r, t)
  BY DEF t
<1>4. /\ runs'[r].installation = runs[r].installation
      /\ runs'[r].revision_state = runs[r].revision_state
      /\ runs'[r].superseded_by = runs[r].superseded_by
      /\ runs'[r].lifecycle = runs[r].lifecycle
      /\ runs'[r].terminal_reason = runs[r].terminal_reason
      /\ runs'[r].publication = state
      /\ runs'[r].created_at = runs[r].created_at /\ runs'[r].updated_at = 0
  BY <1>1, <1>2, <1>3, RewrittenFacts DEF Or
<1> QED
  BY <1>2, <1>4 DEF RunRecord, Completed, Current

(* fail_run never touches a completed run. *)
LEMMA FailedRun ==
  ASSUME TypeOK, NEW r, Rewritten(r, FailTransition)
  PROVE  /\ RunRecord(r) => RunRecord(r)'
         /\ ~Completed(r) /\ ~Completed(r)'
         /\ runs'[r].installation = runs[r].installation
<1> DEFINE t == FailTransition
<1>1. /\ t \in RunTransition
      /\ t.terminal_reason = "FAILED" /\ t.mechanical = None /\ t.outcome = None
      /\ t.publication = None
  BY FailTransitionType DEF FailTransition, NoChange
<1>2. "FAILED" # None
  BY NoneAssumption DEF Reason
<1> HIDE DEF t
<1>3. Rewritten(r, t)
  BY DEF t
<1>4. /\ runs'[r].installation = runs[r].installation
      /\ runs'[r].revision_state = runs[r].revision_state
      /\ runs'[r].superseded_by = runs[r].superseded_by
      /\ runs'[r].terminal_reason = "FAILED"
      /\ runs'[r].publication = runs[r].publication
      /\ runs'[r].mechanical = runs[r].mechanical
      /\ runs'[r].outcome = runs[r].outcome
      /\ runs'[r].created_at = runs[r].created_at /\ runs'[r].updated_at = 0
  BY <1>1, <1>2, <1>3, RewrittenFacts DEF Or
<1>5. ~Completed(r)
  <2>1. runs'[r] = Requested(runs[r], t, 0)
    BY <1>3 DEF Rewritten
  <2>2. runs[r].terminal_reason # None =>
          runs'[r].terminal_reason = runs[r].terminal_reason
    BY <1>3, <2>1 DEF Rewritten, TransitionAllowed
  <2> QED
    BY <1>4, <2>2, NoneAssumption DEF Completed, Reason
<1> QED
  BY <1>4, <1>5 DEF RunRecord, Completed, Current

(* A publisher that knows the current run gets its transition.             *)
LEMMA PublicationAllowed ==
  ASSUME TypeOK, NEW r \in DOMAIN runs, RunRecord(r), RunRules(r), Current(r), Completed(r),
         NEW state \in PublishState,
         state \in PublicationMoves[runs[r].publication], state # runs[r].publication
  PROVE  TransitionAllowed(runs[r], PublishesAs(state), 0)
<1> DEFINE run == runs[r]
           t == PublishesAs(state)
           next == Requested(run, t, 0)
<1>1. run \in VerificationRun /\ r \in RunId
  BY DEF TypeOK, Partial
<1>2. /\ t \in RunTransition /\ t.lifecycle = None /\ t.phase = None
      /\ t.terminal_reason = None /\ t.mechanical = None /\ t.outcome = None
      /\ t.publication = state
  BY PublishFields
<1>3. state # None
  BY NoneAssumption DEF PublishState, Publication
<1>4. /\ next.lifecycle = run.lifecycle /\ next.phase = run.phase
      /\ next.terminal_reason = run.terminal_reason
      /\ next.mechanical = run.mechanical /\ next.outcome = run.outcome
      /\ next.publication = state
      /\ next.revision_state = run.revision_state
      /\ next.superseded_by = run.superseded_by
      /\ next.created_at = 0 /\ next.updated_at = 0
  <2> HIDE DEF t, run
  <2>1. /\ next.created_at = run.created_at /\ next.updated_at = 0
    BY <1>1, <1>2, RunTimes
  <2>2. run.created_at = 0
    BY DEF RunRecord, run
  <2> QED
    BY <1>1, <1>2, <1>3, <2>1, <2>2, RequestedFacts DEF Or
<1>5. run.lifecycle = "TERMINAL" /\ run.terminal_reason = "COMPLETED"
  BY NoneAssumption DEF RunRules, Completed, Reason
<1>6. ValidDimensions(next)
  BY <1>4 DEF ValidDimensions, RunRecord, RunRules, Current
<1>7. /\ 0 >= run.updated_at /\ RevisionOpen(run)
      /\ PhaseOrder[run.phase] >= PhaseOrder[run.phase]
  BY <1>1 DEF RunRecord, RevisionOpen, Current, VerificationRun, Phase, PhaseOrder
<1>8. next.lifecycle \in LifecycleMoves[run.lifecycle]
  BY <1>4, <1>5 DEF LifecycleMoves
<1>9. (next.lifecycle = "TERMINAL") <=> (next.terminal_reason # None)
  BY <1>4 DEF RunRules
<1> HIDE DEF t, next, run
<1>10. /\ next = Requested(run, t, 0) /\ run = runs[r] /\ t = PublishesAs(state)
       /\ state \in PublicationMoves[run.publication] /\ state # run.publication
  BY DEF next, run, t
<1> QED
  BY <1>4, <1>6, <1>7, <1>8, <1>9, <1>10 DEF TransitionAllowed
-----------------------------------------------------------------------------
Settled == {"PUBLISHED", "TERMINAL_FAILURE", "NOT_APPLICABLE"}

(* From the second read of the run to the response of the publisher. *)
Sending == {"find", "upsert", "remember", "reread", "settle",
            "error_record", "error_reread", "error_settle"}

(* Unless an exception was raised, nothing is left to do for run r. *)
Done(r) == faults["exception"] = 0 /\ Current(r) /\ Completed(r) =>
             runs[r].publication \in Settled

(* What the sole request of a run knows of it.  Superseded runs are out of *)
(* its hands.                                                              *)
Knows(w) ==
  LET k == workers[w]
      r == workers[w].run
  IN  k.pc # "idle" =>
        /\ k.pc \notin {"process"} \cup HandlerPc => (k.app <=> runs[r].installation # None)
        /\ k.pc \in {"publish"} \cup Publishing => k.app
        /\ k.pc \in {"finish", "not_applicable"} => ~k.app
        /\ k.pc \in ExecutePc \cup (HandlerPc \ {"task_failed"}) => ~Completed(r)
        /\ k.pc = "task_failed" => Done(r)
        /\ Current(r) =>
             /\ k.pc \in {"reopen", "settle", "error_settle", "not_applicable"} =>
                  k.seen = runs[r]
             /\ k.pc \in {"begin", "reload"} =>
                  runs[r].publication \in {"PENDING", "RETRYABLE_FAILURE"}
             /\ k.pc = "reopen" => runs[r].publication = "RETRYABLE_FAILURE"
             /\ k.pc \in Sending \cup {"not_applicable"} => runs[r].publication = "PENDING"

(* Nobody works on a run whose task is acknowledged, and only an exception *)
(* or an allowlist without its repository leaves its publication unsettled.*)
AnsweredInv ==
  \A r \in DOMAIN tasks : tasks[r].state = "acknowledged" =>
    /\ \A w \in Worker : Active(w) => workers[w].run # r
    /\ tasks[r].refused \/ Done(r)

SettledInv ==
  /\ RecordsInv /\ UniqueInv /\ AnsweredInv
  /\ \A w \in Worker : Knows(w)

(* What a request knows stays true while others take their steps.          *)
LEMMA DoneKept ==
  ASSUME PointerInv, NEW r \in DOMAIN runs, RunRules(r), Untouched(r), Done(r),
         faults'["exception"] = 0 => faults["exception"] = 0
  PROVE  Done(r)'
  BY UntouchedFacts DEF Done, Current, Completed

LEMMA WaitingKnows ==
  ASSUME PipelineInv, NEW w \in Worker, Knows(w), workers'[w] = workers[w],
         Active(w) => Untouched(workers[w].run),
         faults'["exception"] = 0 => faults["exception"] = 0
  PROVE  Knows(w)'
<1> SUFFICES ASSUME Active(w) PROVE Knows(w)'
  BY DEF Knows, Active
<1> DEFINE r == workers[w].run
<1>1. r \in DOMAIN runs /\ RunRules(r) /\ PointerInv
  BY DEF PipelineInv, LocalInv, Active, RunsInv
<1>2. /\ Completed(r)' <=> Completed(r)
      /\ runs'[r].installation = runs[r].installation
      /\ Current(r)' => runs'[r] = runs[r] /\ Current(r)
  BY <1>1, UntouchedFacts DEF Current
<1>3. Done(r) => Done(r)'
  BY <1>1, DoneKept
<1> HIDE DEF r
<1> QED
  BY <1>2, <1>3 DEF Knows, Completed, Current, Done, r, Active

(* What a step of a request does, seen from its run.                       *)
OnlyRun(r) ==
  /\ DOMAIN runs' = DOMAIN runs
  /\ \A k \in DOMAIN runs : k # r => runs'[k] = runs[k]
  /\ runs'[r].pr = runs[r].pr /\ runs'[r].revision = runs[r].revision
  /\ RunRecord(r)'
  /\ UNCHANGED <<deliveries, clock>>
  /\ faults'["exception"] = 0 => faults["exception"] = 0

(* r is the run of the request before the step. *)
Turned(w, r) ==
  /\ OnlyRun(r)
  /\ \/ Continues(w) /\ UNCHANGED tasks /\ Knows(w)'
     \/ \E ok \in BOOLEAN : Respond(w, ok) /\ (ok => Done(r)')
     \/ Refused(w)

LEMMA SameRun ==
  ASSUME NEW r, RunRecord(r), UNCHANGED <<runs, deliveries, clock>>,
         faults'["exception"] = 0 => faults["exception"] = 0
  PROVE  OnlyRun(r)
<1>1. RunRecord(r)'
  BY DEF RunRecord, Completed, Current
<1> QED
  BY <1>1 DEF OnlyRun

(* The run of a request, with what is known of every stored run.           *)
LEMMA RunOf ==
  ASSUME PipelineInv, RecordsInv, NEW w \in Worker, Active(w)
  PROVE  /\ workers[w].run \in DOMAIN runs /\ TypeOK
         /\ RunRecord(workers[w].run) /\ RunRules(workers[w].run)
         /\ workers \in [Worker -> Local] /\ workers[w] \in Local
  BY DEF PipelineInv, PipelineTypeOK, LocalInv, RecordsInv, RunsInv, Active

(* Until the run is completed there is little to know.                     *)
LEMMA ExecutingKnows ==
  ASSUME NEW w \in Worker, NEW r, r = workers[w].run, Knows(w),
         workers[w].pc \in ExecutePc, Continues(w),
         workers'[w].app = workers[w].app,
         workers'[w].pc \in ExecutePc \cup {"worker_failed"},
         Completed(r)' <=> Completed(r),
         runs'[r].installation = runs[r].installation
  PROVE  Knows(w)'
  BY DEF Knows, Continues, Completed, ExecutePc, Publishing, Sending, HandlerPc

LEMMA ExecutingTurn ==
  ASSUME PipelineInv, RecordsInv, NEW w \in Worker, NEW r, r = workers[w].run, Knows(w),
         workers[w].pc \in ExecutePc, Continues(w), workers'[w].app = workers[w].app,
         workers'[w].pc \in ExecutePc \cup {"worker_failed"},
         UNCHANGED tasks, faults'["exception"] = 0 => faults["exception"] = 0,
         \/ UNCHANGED <<runs, deliveries, clock>>
         \/ \E t \in Early : Rewritten(r, t)
  PROVE  Turned(w, r)
<1>1. Active(w)
  BY DEF Active, ExecutePc
<1>2. r \in DOMAIN runs /\ TypeOK /\ RunRecord(r)
  BY <1>1, RunOf
<1>3. CASE UNCHANGED <<runs, deliveries, clock>>
  <2>1. OnlyRun(r)
    BY <1>2, <1>3, SameRun
  <2>2. Knows(w)'
    BY <1>3, ExecutingKnows DEF Completed
  <2> QED
    BY <2>1, <2>2 DEF Turned
<1>4. ASSUME NEW t \in Early, Rewritten(r, t)
      PROVE  Turned(w, r)
  <2>1. /\ RunRecord(r)'
        /\ Completed(r)' <=> Completed(r)
        /\ runs'[r].installation = runs[r].installation
    BY <1>2, <1>4, EarlyRun
  <2>2. /\ runs'[r].pr = runs[r].pr /\ runs'[r].revision = runs[r].revision
    BY <1>2, <1>4, EarlyFields, RewrittenFacts
  <2>3. OnlyRun(r)
    BY <1>4, <2>1, <2>2 DEF OnlyRun, Rewritten
  <2>4. Knows(w)'
    BY <2>1, ExecutingKnows
  <2> QED
    BY <2>3, <2>4 DEF Turned
<1> QED
  BY <1>3, <1>4

(* The steps of EvidenceWorkflow.execute, but for the ones that end it.    *)
LEMMA ExecuteTurns ==
  ASSUME PipelineInv, RecordsInv, NEW w \in Worker, NEW r, r = workers[w].run, Knows(w),
         \/ Execute(w) \/ Load(w) \/ Queue(w) \/ Start(w) \/ Claim(w) \/ Select(w)
         \/ Generate(w) \/ Recheck(w) \/ Base(w) \/ Challenge(w) \/ Head(w) \/ Assess(w)
         \/ Repair(w) \/ Reporting(w) \/ Save(w) \/ Latest(w)
         \/ workers[w].pc \in ExecutePc /\ Raise(w)
  PROVE  Turned(w, r)
<1>1. /\ workers[w].pc \in ExecutePc /\ Active(w)
  BY DEF Execute, Load, Queue, Start, Claim, Select, Generate, Recheck, Base, Challenge, Head,
         Assess, Repair, Reporting, Abstain, Exhaust, Judge, Save, Latest, At, ExecutePc, Active
<1>2. workers \in [Worker -> Local] /\ workers[w] \in Local /\ TypeOK
  BY <1>1, RunOf
<1>3. Handler(workers[w].pc) = "worker_failed"
  BY <1>1 DEF Handler
<1>4. ASSUME NEW local, local.run = r, local.app = workers[w].app,
             local.pc \in ExecutePc \cup {"worker_failed"},
             workers' = [workers EXCEPT ![w] = local], UNCHANGED tasks,
             faults'["exception"] = 0 => faults["exception"] = 0,
             \/ UNCHANGED <<runs, deliveries, clock>>
             \/ \E t \in Early : Rewritten(r, t)
      PROVE  Turned(w, r)
  <2>1. Continues(w) /\ workers'[w].app = workers[w].app /\ workers'[w].pc = local.pc
    BY <1>2, <1>4 DEF Continues
  <2> QED
    BY <1>1, <1>4, <2>1, ExecutingTurn
<1>5. ASSUME UNCHANGED tasks,
             faults'["exception"] = 0 => faults["exception"] = 0,
             \/ UNCHANGED <<runs, deliveries, clock>>
             \/ \E t \in Early : Rewritten(r, t),
             NEW pc \in ExecutePc, NEW x,
             \/ Goto(w, pc) \/ Throw(w) \/ Set(w, [workers[w] EXCEPT !.pc = pc, !.seen = x])
             \/ Set(w, [workers[w] EXCEPT !.pc = pc, !.attempt = x])
             \/ Set(w, [workers[w] EXCEPT !.pc = pc, !.report = x])
      PROVE  Turned(w, r)
  <2>1. \E local : /\ local.run = r /\ local.app = workers[w].app
                   /\ local.pc \in ExecutePc \cup {"worker_failed"}
                   /\ workers' = [workers EXCEPT ![w] = local]
    BY <1>2, <1>3, <1>5 DEF Goto, Throw, Set, Local
  <2> QED
    BY <1>4, <1>5, <2>1
<1>6. ASSUME NEW pc \in ExecutePc, NEW x, Silent,
             \/ Goto(w, pc) \/ Throw(w) \/ Set(w, [workers[w] EXCEPT !.pc = pc, !.seen = x])
             \/ Set(w, [workers[w] EXCEPT !.pc = pc, !.attempt = x])
             \/ Set(w, [workers[w] EXCEPT !.pc = pc, !.report = x])
      PROVE  Turned(w, r)
  BY <1>5, <1>6 DEF Silent, store, vars
<1>7. ASSUME NEW pc \in ExecutePc, NEW t \in Early, Transition(w, t, pc) \/ Skip(w, pc)
      PROVE  Turned(w, r)
  <2>1. CASE Skip(w, pc)
    BY <1>6, <2>1 DEF Skip
  <2>2. CASE /\ TransitionRun(r, Seen(w).version, t, clock)
             /\ Set(w, [workers[w] EXCEPT !.pc = pc, !.seen = runs'[r]])
             /\ UNCHANGED <<tasks, faults>>
    <3>1. Rewritten(r, t)
      BY <1>2, <2>2, TransitionRewrites DEF RecordsInv
    <3> QED
      BY <1>5, <2>2, <3>1
  <2>3. CASE Throw(w) /\ UNCHANGED <<store, tasks, faults>>
    BY <1>5, <2>3 DEF store, vars
  <2> QED
    BY <1>7, <2>1, <2>2, <2>3 DEF Transition
<1>8. CASE Execute(w) \/ Load(w) \/ Recheck(w) \/ Challenge(w) \/ Repair(w) \/ Latest(w)
  BY <1>6, <1>8 DEF Execute, Load, Recheck, Challenge, Repair, Latest, Reload, ExecutePc
<1>9. CASE \/ Queue(w) \/ Start(w) \/ Claim(w) \/ Select(w) \/ Base(w) \/ Head(w) \/ Assess(w)
  BY <1>7, <1>9
     DEF Queue, Start, Claim, Select, Base, Head, Assess, Early, ExecutePc
<1>10. CASE Generate(w) \/ Reporting(w)
  BY <1>6, <1>10 DEF Generate, Reporting, Abstain, Exhaust, Judge, ExecutePc
<1>11. CASE Save(w)
  <2>1. UNCHANGED <<runs, deliveries, clock, tasks, faults>>
    BY <1>11 DEF Save, SaveEvidence, store, vars
  <2> QED
    BY <1>5, <1>11, <2>1 DEF Save, ExecutePc
<1>12. CASE Raise(w)
  <2>1. faults'["exception"] = 0 => faults["exception"] = 0
    BY <1>12 DEF Raise, Fault, PipelineInv, PipelineTypeOK, FaultKind
  <2> QED
    BY <1>5, <1>12, <2>1 DEF Raise, store, vars, ExecutePc
<1> QED
  BY <1>8, <1>9, <1>10, <1>11, <1>12
-----------------------------------------------------------------------------
(* The steps around and after execute. *)
LEMMA QuietTurn ==
  ASSUME PipelineInv, RecordsInv, NEW w \in Worker, NEW r, r = workers[w].run, Active(w),
         NEW pc, NEW seen, NEW app, NEW check, Lands(w, pc, seen, app, check),
         UNCHANGED <<runs, deliveries, clock, tasks>>,
         faults'["exception"] = 0 => faults["exception"] = 0,
         Knows(w)'
  PROVE  Turned(w, r)
<1>1. OnlyRun(r)
  BY RunOf, SameRun
<1>2. Continues(w)
  BY DEF Lands, Continues
<1> QED
  BY <1>1, <1>2 DEF Turned

LEMMA ThrowTurn ==
  ASSUME PipelineInv, RecordsInv, NEW w \in Worker, NEW r, r = workers[w].run,
         workers[w].pc \in ProcessPc, Throw(w),
         UNCHANGED <<runs, deliveries, clock, tasks>>,
         faults'["exception"] = 0 => faults["exception"] = 0,
         Done(r)'
  PROVE  Turned(w, r)
<1>1. Active(w)
  BY DEF Active, ProcessPc
<1>2. Handler(workers[w].pc) = "task_failed"
  BY DEF Handler, ExecutePc, ProcessPc
<1>3. Steps(w, "task_failed")
  BY <1>1, <1>2, RunOf, ThrowSteps
<1>4. workers'[w].run = r /\ workers'[w].pc = "task_failed"
  BY <1>3 DEF Steps, Lands
<1>5. Knows(w)'
  BY <1>4 DEF Knows, Publishing, Sending, ExecutePc, HandlerPc
<1> QED
  BY <1>1, <1>3, <1>5, QuietTurn DEF Steps

(* After execute the request publishes, or finishes without a check.       *)
LEMMA AfterKnows ==
  ASSUME NEW w \in Worker, NEW r, r = workers[w].run, Knows(w), Continues(w),
         workers[w].pc \in {"lookup"} \cup ExecutePc,
         workers'[w].app = workers[w].app, workers'[w].pc = AfterExecution(w),
         runs'[r].installation = runs[r].installation
  PROVE  Knows(w)'
  BY DEF Knows, Continues, AfterExecution, ExecutePc, Publishing, Sending, HandlerPc

LEMMA EntryTurns ==
  ASSUME PipelineInv, RecordsInv, NEW w \in Worker, NEW r, r = workers[w].run, Knows(w),
         Process(w) \/ Lookup(w)
  PROVE  Turned(w, r)
<1>1. Active(w) /\ UNCHANGED <<runs, deliveries, clock, tasks, faults>>
  BY DEF Process, Lookup, At, Active, Silent, store, vars
<1>2. /\ workers \in [Worker -> Local] /\ workers[w] \in Local
      /\ r \in DOMAIN runs
  BY <1>1, RunOf
<1>3. CASE Process(w)
  <2> DEFINE app == Stored(w).installation # None
             local == [workers[w] EXCEPT !.pc = "lookup", !.app = app]
  <2>1. /\ local \in Local /\ local.pc = "lookup" /\ local.run = workers[w].run
        /\ local.seen = workers[w].seen /\ local.app = app
        /\ local.check = workers[w].check
    <3> HIDE DEF app
    <3>1. app \in BOOLEAN
      BY DEF app
    <3> QED
      BY <1>2, <3>1 DEF Local, ProcessPc
  <2>2. Set(w, local)
    BY <1>3 DEF Process
  <2> HIDE DEF local
  <2>3. Lands(w, "lookup", workers[w].seen, app, workers[w].check)
    BY <1>2, <2>1, <2>2, SetLands
  <2>4. workers'[w].pc = "lookup" /\ workers'[w].run = r /\ workers'[w].app = app
    BY <2>3 DEF Lands
  <2>5. app <=> runs[r].installation # None
    BY DEF Stored
  <2> HIDE DEF app
  <2>6. Knows(w)'
    BY <1>1, <2>4, <2>5 DEF Knows, Publishing, Sending, ExecutePc, HandlerPc
  <2> QED
    BY <1>1, <2>3, <2>6, QuietTurn
<1>4. CASE Lookup(w)
  <2>1. CASE r \in DOMAIN evidence /\ Goto(w, AfterExecution(w))
    <3>1. AfterExecution(w) \in Pc
      BY DEF AfterExecution, Pc, ProcessPc
    <3>2. Steps(w, AfterExecution(w))
      BY <1>2, <2>1, <3>1, GotoSteps
    <3>3. Knows(w)'
      BY <1>1, <1>4, <3>2, AfterKnows DEF Lookup, At, Steps, Lands, Continues
    <3> QED
      BY <1>1, <3>2, <3>3, QuietTurn DEF Steps
  <2>2. CASE r \notin DOMAIN evidence /\ Goto(w, "execute")
    <3>1. Steps(w, "execute")
      BY <1>2, <2>2, GotoSteps DEF Pc, ExecutePc
    <3>2. workers'[w].pc = "execute" /\ workers'[w].run = r /\ workers'[w].app = workers[w].app
      BY <3>1 DEF Steps, Lands
    <3>3. ~Completed(r)
      BY <1>2, <2>2 DEF PipelineInv, CompletedHasEvidence, Completed
    <3>4. workers[w].app <=> runs[r].installation # None
      BY <1>4 DEF Lookup, At, Knows, HandlerPc
    <3>5. Knows(w)'
      BY <1>1, <3>2, <3>3, <3>4
         DEF Knows, Publishing, Sending, ExecutePc, HandlerPc, Completed
    <3> QED
      BY <1>1, <3>1, <3>5, QuietTurn DEF Steps
  <2> QED
    BY <1>4, <2>1, <2>2 DEF Lookup
<1> QED
  BY <1>3, <1>4

LEMMA ExitTurns ==
  ASSUME PipelineInv, RecordsInv, NEW w \in Worker, NEW r, r = workers[w].run, Knows(w),
         Replay(w) \/ Complete(w), TypeOK'
  PROVE  Turned(w, r)
<1>1. Active(w) /\ workers[w].pc \in ExecutePc
  BY DEF Replay, Complete, At, Active, ExecutePc
<1>2. /\ workers \in [Worker -> Local] /\ workers[w] \in Local
      /\ r \in DOMAIN runs /\ TypeOK /\ clock = 0 /\ RunRecord(r)
  BY <1>1, RunOf DEF RecordsInv
<1>3. AfterExecution(w) \in Pc /\ Handler(workers[w].pc) = "worker_failed"
  BY <1>1 DEF AfterExecution, Pc, ProcessPc, Handler
<1>4. CASE Replay(w)
  <2> DEFINE pc == IF Dispatchable(Stored(w)) THEN "save" ELSE AfterExecution(w)
  <2>1. UNCHANGED <<runs, deliveries, clock, tasks, faults>>
    BY <1>4 DEF Replay, Silent, store, vars
  <2>2. /\ Continues(w) /\ workers'[w].pc = pc /\ workers'[w].app = workers[w].app
    BY <1>2, <1>4 DEF Replay, Set, Local, Continues
  <2>3. Knows(w)'
    <3>1. CASE pc = "save"
      BY <1>1, <2>1, <2>2, <3>1, ExecutingKnows DEF ExecutePc, Completed
    <3>2. CASE pc = AfterExecution(w)
      BY <1>1, <2>1, <2>2, <3>2, AfterKnows
    <3> QED
      BY <3>1, <3>2
  <2>4. OnlyRun(r)
    BY <1>2, <2>1, SameRun
  <2> QED
    BY <2>1, <2>2, <2>3, <2>4 DEF Turned
<1>5. CASE Complete(w)
  <2> DEFINE t == CompletesWith(workers[w].report)
  <2>1. /\ UNCHANGED <<tasks, faults>>
        /\ \/ /\ TransitionRun(r, Seen(w).version, t, clock)
              /\ Set(w, [workers[w] EXCEPT !.pc = AfterExecution(w), !.seen = runs'[r]])
           \/ Throw(w) /\ UNCHANGED store
    BY <1>5 DEF Complete, Transition
  <2>2. CASE Throw(w) /\ UNCHANGED store
    <3>1. Steps(w, "worker_failed")
      BY <1>2, <1>3, <2>2, ThrowSteps
    <3>2. Knows(w)'
      BY <1>1, <2>2, <3>1, ExecutingKnows
         DEF Steps, Lands, Continues, Completed, store, vars
    <3> QED
      BY <1>1, <2>1, <2>2, <3>1, <3>2, QuietTurn DEF Steps, store, vars
  <2>3. CASE /\ TransitionRun(r, Seen(w).version, t, clock)
             /\ Set(w, [workers[w] EXCEPT !.pc = AfterExecution(w), !.seen = runs'[r]])
    <3>1. workers[w].report \in Document
      BY <1>5 DEF Complete, At, PipelineInv, LocalInv
    <3>2. Rewritten(r, t)
      BY <1>2, <2>3, TransitionRewrites
    <3>3. /\ RunRecord(r)'
          /\ runs'[r].installation = runs[r].installation
      BY <1>2, <3>1, <3>2, CompletingRun
    <3>4. /\ runs'[r].pr = runs[r].pr /\ runs'[r].revision = runs[r].revision
      BY <1>2, <3>1, <3>2, RewrittenFacts, AskedTransitions, StoreAssumption
    <3>5. OnlyRun(r)
      BY <2>1, <3>2, <3>3, <3>4 DEF OnlyRun, Rewritten
    <3>6. runs'[r] \in VerificationRun
      BY <3>2 DEF TypeOK, Partial, Rewritten
    <3>7. Lands(w, AfterExecution(w), runs'[r], workers[w].app, workers[w].check)
      BY <1>2, <1>3, <2>3, <3>6, SeenSteps
    <3>8. Knows(w)'
      BY <1>1, <3>3, <3>7, AfterKnows DEF Lands, Continues
    <3> QED
      BY <2>1, <3>5, <3>7, <3>8 DEF Turned, Lands, Continues
  <2> QED
    BY <2>1, <2>2, <2>3
<1> QED
  BY <1>4, <1>5
-----------------------------------------------------------------------------
(* The steps of the publisher. *)
LEMMA AnswerTurn ==
  ASSUME PipelineInv, RecordsInv, NEW w \in Worker, NEW r, r = workers[w].run, Active(w),
         NEW ok \in BOOLEAN, Respond(w, ok), UNCHANGED <<runs, deliveries, clock>>,
         faults'["exception"] = 0 => faults["exception"] = 0,
         ok => Done(r)'
  PROVE  Turned(w, r)
<1>1. OnlyRun(r)
  BY RunOf, SameRun
<1> QED
  BY <1>1 DEF Turned

(* The last transition is refused only if the run was superseded.          *)
LEMMA LastTurn ==
  ASSUME PipelineInv, RecordsInv, NEW w \in Worker, NEW r, r = workers[w].run, Knows(w),
         workers[w].pc \in {"settle", "error_settle", "not_applicable"},
         NEW state \in {"PUBLISHED", "RETRYABLE_FAILURE", "TERMINAL_FAILURE", "NOT_APPLICABLE"},
         state = "RETRYABLE_FAILURE" => runs[r].installation # None,
         state = "NOT_APPLICABLE" => runs[r].installation = None,
         NEW ok \in BOOLEAN, ok => state \in Settled,
         LastTransition(w, PublishesAs(state), ok)
  PROVE  Turned(w, r)
<1>1. Active(w) /\ workers[w].pc \in ProcessPc
  BY DEF Active, ProcessPc
<1>2. /\ r \in DOMAIN runs /\ TypeOK /\ clock = 0 /\ RunRecord(r) /\ RunRules(r)
  BY <1>1, RunOf DEF RecordsInv
<1>3. UNCHANGED faults /\ state \in PublishState
  BY DEF LastTransition, PublishState
<1>4. CASE Current(r)
  <2>1. workers[w].seen = runs[r] /\ runs[r].publication = "PENDING"
    BY <1>4 DEF Knows, Sending
  <2>2. Completed(r)
    BY <1>2, <2>1 DEF RunRecord
  <2>3. TransitionAllowed(runs[r], PublishesAs(state), clock)
    <3>1. state \in PublicationMoves[runs[r].publication] /\ state # runs[r].publication
      BY <2>1 DEF PublicationMoves
    <3> QED
      BY <1>2, <1>3, <1>4, <2>2, <3>1, PublicationAllowed
  <2>4. /\ TransitionRun(r, Seen(w).version, PublishesAs(state), clock)
        /\ Respond(w, ok)
    BY <2>1, <2>3 DEF LastTransition, Accepts, Seen
  <2>5. Rewritten(r, PublishesAs(state))
    BY <1>2, <2>4, TransitionRewrites
  <2>6. RunRecord(r)' /\ runs'[r].publication = state
    BY <1>2, <1>3, <2>2, <2>5, PublishingRun
  <2>7. runs'[r].pr = runs[r].pr /\ runs'[r].revision = runs[r].revision
    BY <1>2, <1>3, <2>5, RewrittenFacts, PublishFields
  <2>8. OnlyRun(r)
    BY <1>3, <2>5, <2>6, <2>7 DEF OnlyRun, Rewritten
  <2> QED
    BY <2>4, <2>6, <2>8 DEF Turned, Done
<1>5. CASE ~Current(r)
  <2>1. ~TransitionRun(r, Seen(w).version, PublishesAs(state), clock)
    <3>1. runs[r].revision_state = "SUPERSEDED"
      BY <1>2, <1>5 DEF Current, TypeOK, Partial, VerificationRun
    <3> QED
      BY <3>1 DEF TransitionRun, TransitionAllowed, RevisionOpen
  <2>2. Throw(w) /\ UNCHANGED <<store, tasks>>
    BY <2>1 DEF LastTransition
  <2>3. Done(r)'
    BY <1>5, <2>2 DEF Done, Current, store, vars
  <2> QED
    BY <1>1, <1>3, <2>2, <2>3, ThrowTurn DEF store, vars
<1> QED
  BY <1>4, <1>5

(* Points of the publisher at which only the publication state is known.   *)
LEMMA SendingTurn ==
  ASSUME PipelineInv, RecordsInv, NEW w \in Worker, NEW r, r = workers[w].run, Knows(w),
         workers[w].pc \in Publishing,
         NEW pc \in Publishing, NEW seen, NEW check, Lands(w, pc, seen, workers[w].app, check),
         UNCHANGED <<runs, deliveries, clock, tasks, faults>>,
         Current(r) =>
           /\ pc \in {"reopen", "settle", "error_settle"} => seen = runs[r]
           /\ pc \in {"begin", "reload"} =>
                runs[r].publication \in {"PENDING", "RETRYABLE_FAILURE"}
           /\ pc = "reopen" => runs[r].publication = "RETRYABLE_FAILURE"
           /\ pc \in Sending => runs[r].publication = "PENDING"
  PROVE  Turned(w, r)
<1>1. Active(w) /\ workers[w].pc \notin {"process"} \cup HandlerPc
  BY DEF Active, Publishing, HandlerPc
<1>2. /\ workers[w].app /\ runs[r].installation # None
  BY <1>1 DEF Knows, Active
<1>3. /\ workers'[w].pc = pc /\ workers'[w].run = r /\ workers'[w].app
      /\ workers'[w].seen = seen
  BY <1>2 DEF Lands
<1>4. pc \notin {"finish", "not_applicable", "task_failed"} \cup ExecutePc \cup HandlerPc
  BY DEF Publishing, ExecutePc, HandlerPc
<1>5. Knows(w)'
  BY <1>2, <1>3, <1>4 DEF Knows, Current
<1> QED
  BY <1>1, <1>5, QuietTurn

LEMMA PublisherTurns ==
  ASSUME PipelineInv, RecordsInv, UniqueInv, NEW w \in Worker, NEW r, r = workers[w].run,
         Knows(w), PublisherStep(w)
  PROVE  Turned(w, r)
<1>1. workers[w].pc \in ProcessPc /\ Active(w)
  BY DEF PublisherStep, Publish, Begin, ReloadRun, Reopen, Find, Upsert, RequestFails, Remember,
         Reread, Settle, ErrorRecord, ErrorReread, ErrorSettle, Finish, NotApplicable, At,
         ProcessPc, Active
<1>2. /\ workers \in [Worker -> Local] /\ workers[w] \in Local
      /\ r \in DOMAIN runs /\ TypeOK /\ clock = 0 /\ RunRecord(r) /\ RunRules(r)
      /\ runs[r] \in VerificationRun /\ LocalInv(w)
  BY <1>1, RunOf DEF RecordsInv, PipelineInv, TypeOK, Partial
<1>3. Publishing \subseteq Pc
  BY DEF Publishing, Pc, ProcessPc
<1>4. workers[w].pc # "process" =>
        (workers[w].app <=> runs[r].installation # None)
  BY <1>1 DEF Knows, Active, HandlerPc, ProcessPc
<1>5. CASE Publish(w)
  <2>1. UNCHANGED <<runs, deliveries, clock, faults>>
    BY <1>5 DEF Publish, store, vars
  <2>2. workers[w].pc = "publish" /\ workers[w].app
    BY <1>5 DEF Publish, At, Knows
  <2>3. CASE Respond(w, TRUE) /\ runs[r].publication = "PUBLISHED"
    <3>1. Done(r)'
      BY <2>1, <2>3 DEF Done, Settled
    <3> QED
      BY <1>1, <2>1, <2>3, <3>1, AnswerTurn
  <2>4. CASE /\ Goto(w, "begin") /\ UNCHANGED tasks
             /\ Publishable(r) /\ runs[r].publication \notin {"PUBLISHED", "TERMINAL_FAILURE"}
    <3>1. Completed(r) /\ Current(r)
      BY <2>4 DEF Publishable, Completed, Current
    <3>2. runs[r].publication \in {"PENDING", "RETRYABLE_FAILURE"}
      BY <1>2, <1>4, <2>2, <2>4, <3>1 DEF RunRecord, VerificationRun, Publication
    <3>3. Steps(w, "begin")
      BY <1>2, <1>3, <2>4, GotoSteps DEF Publishing
    <3>4. workers'[w].pc = "begin" /\ workers'[w].run = r /\ workers'[w].app
      BY <2>2, <3>3 DEF Steps, Lands
    <3>5. Knows(w)'
      BY <1>4, <2>1, <2>2, <3>2, <3>4
         DEF Knows, Current, Publishing, Sending, HandlerPc, ExecutePc
    <3> QED
      BY <1>1, <2>1, <2>4, <3>3, <3>5, QuietTurn DEF Steps
  <2>5. CASE /\ Throw(w) /\ UNCHANGED tasks
             /\ Publishable(r) => runs[r].publication \in {"PUBLISHED", "TERMINAL_FAILURE"}
    <3>1. Done(r)'
      BY <1>2, <2>1, <2>5
         DEF Done, Publishable, Current, Completed, Settled, PipelineInv, CompletedHasEvidence
    <3> QED
      BY <1>1, <2>1, <2>5, <3>1, ThrowTurn
  <2> QED
    BY <1>5, <2>3, <2>4, <2>5 DEF Publish
<1>6. ASSUME NEW pc \in Publishing, Goto(w, pc), workers[w].pc \in Publishing \ {"reopen"},
             pc \notin {"reopen", "settle", "error_settle"},
             pc \in {"begin", "reload"} => workers[w].pc \in {"begin", "reload"},
             pc \in Sending => workers[w].pc \in Sending,
             UNCHANGED <<runs, deliveries, clock, tasks, faults>>
      PROVE  Turned(w, r)
  <2>1. Steps(w, pc)
    BY <1>2, <1>3, <1>6, GotoSteps
  <2>2. Current(r) =>
          /\ pc \in {"begin", "reload"} =>
               runs[r].publication \in {"PENDING", "RETRYABLE_FAILURE"}
          /\ pc \in Sending => runs[r].publication = "PENDING"
    BY <1>1, <1>6 DEF Knows, Active
  <2> QED
    BY <1>6, <2>1, <2>2, SendingTurn DEF Steps
<1>7. CASE Begin(w)
  <2>1. /\ r \in DOMAIN publications => publications[r].payload = PayloadOf(r)
        /\ workers[w].pc = "begin" /\ workers[w].pc \in Publishing
    BY <1>7 DEF RecordsInv, Documented, Begin, At, Publishing
  <2>2. /\ BeginPublication(r, PayloadOf(r)) /\ UNCHANGED <<tasks, faults>>
        /\ Set(w, [workers[w] EXCEPT !.pc = "reload", !.check = publications'[r].check])
    BY <1>7, <2>1 DEF Begin
  <2>3. publications'[r].check \in CheckId \cup {None}
    <3>1. r \in DOMAIN publications =>
            /\ publications[r].check \in CheckId \cup {None}
            /\ [publications[r] EXCEPT !.attempts = @ + 1, !.error = FALSE].check
                 = publications[r].check
      BY <1>2 DEF TypeOK, Partial, CheckPublication
    <3> QED
      BY <2>2, <3>1 DEF BeginPublication, Put
  <2>4. Lands(w, "reload", workers[w].seen, workers[w].app, publications'[r].check)
    BY <1>2, <1>3, <2>2, <2>3, CheckSteps DEF Publishing
  <2>5. Current(r) => runs[r].publication \in {"PENDING", "RETRYABLE_FAILURE"}
    BY <2>1 DEF Knows
  <2>6. UNCHANGED <<runs, deliveries, clock>>
    BY <2>2 DEF BeginPublication
  <2> QED
    BY <2>1, <2>2, <2>4, <2>5, <2>6, SendingTurn DEF Publishing, Sending
<1>8. CASE ReloadRun(w)
  <2> DEFINE pc == IF runs[r].publication = "RETRYABLE_FAILURE" THEN "reopen" ELSE "find"
  <2>1. /\ workers[w].pc = "reload" /\ workers[w].pc \in Publishing /\ pc \in Publishing
        /\ UNCHANGED <<runs, deliveries, clock, tasks, faults>>
        /\ Set(w, [workers[w] EXCEPT !.pc = pc, !.seen = runs[r]])
    BY <1>8 DEF ReloadRun, At, Reload, Stored, Silent, store, vars, Publishing
  <2>2. Lands(w, pc, runs[r], workers[w].app, workers[w].check)
    BY <1>2, <1>3, <2>1, SeenSteps
  <2>3. Current(r) => runs[r].publication \in {"PENDING", "RETRYABLE_FAILURE"}
    BY <2>1 DEF Knows
  <2> QED
    BY <2>1, <2>2, <2>3, SendingTurn DEF Sending
<1>9. CASE Reopen(w)
  <2>1. workers[w].pc = "reopen" /\ workers[w].pc \in Publishing /\ UNCHANGED <<tasks, faults>>
    BY <1>9 DEF Reopen, At, Publishing, Transition
  <2>2. Completed(r)
    BY <1>2, <2>1 DEF LocalInv
  <2>3. CASE Current(r)
    <3>1. workers[w].seen = runs[r] /\ runs[r].publication = "RETRYABLE_FAILURE"
      BY <2>1, <2>3 DEF Knows
    <3>2. TransitionAllowed(runs[r], PublishesAs("PENDING"), clock)
      BY <1>2, <2>2, <2>3, <3>1, PublicationAllowed DEF PublicationMoves, PublishState
    <3>3. /\ TransitionRun(r, Seen(w).version, PublishesAs("PENDING"), clock)
          /\ Set(w, [workers[w] EXCEPT !.pc = "find", !.seen = runs'[r]])
      BY <1>9, <3>1, <3>2 DEF Reopen, Transition, Accepts, Seen
    <3>4. Rewritten(r, PublishesAs("PENDING"))
      BY <1>2, <3>3, TransitionRewrites
    <3>5. /\ RunRecord(r)' /\ runs'[r].publication = "PENDING"
          /\ runs'[r].installation = runs[r].installation
      BY <1>2, <2>2, <3>4, PublishingRun DEF PublishState
    <3>6. runs'[r].pr = runs[r].pr /\ runs'[r].revision = runs[r].revision
      BY <1>2, <3>4, RewrittenFacts, PublishFields DEF PublishState
    <3>7. OnlyRun(r)
      BY <2>1, <3>4, <3>5, <3>6 DEF OnlyRun, Rewritten
    <3>8. runs'[r] \in VerificationRun
      BY <1>2, <3>4, PublishFields, RequestedFacts DEF Rewritten, PublishState
    <3>9. Lands(w, "find", runs'[r], workers[w].app, workers[w].check)
      BY <1>2, <1>3, <3>3, <3>8, SeenSteps DEF Publishing
    <3>10. workers'[w].pc = "find" /\ workers'[w].run = r /\ workers'[w].app = workers[w].app
      BY <3>9 DEF Lands
    <3>11. workers[w].app
      BY <2>1 DEF Knows
    <3>12. Knows(w)'
      BY <1>4, <2>1, <3>5, <3>10, <3>11
         DEF Knows, Publishing, Sending, HandlerPc, ExecutePc
    <3> QED
      BY <2>1, <3>7, <3>9, <3>12 DEF Turned, Lands, Continues
  <2>4. CASE ~Current(r)
    <3>1. ~TransitionRun(r, Seen(w).version, PublishesAs("PENDING"), clock)
      BY <1>2, <2>4 DEF TransitionRun, TransitionAllowed, RevisionOpen, Current, VerificationRun
    <3>2. Throw(w) /\ UNCHANGED store
      BY <1>9, <3>1 DEF Reopen, Transition
    <3>3. Done(r)'
      BY <2>4, <3>2 DEF Done, Current, store, vars
    <3> QED
      BY <1>1, <2>1, <3>2, <3>3, ThrowTurn DEF store, vars
  <2> QED
    BY <2>3, <2>4
<1>10. ASSUME NEW kind \in {"retryable", "terminal"}, Errors(w, kind),
              workers[w].pc \in {"find", "upsert"},
              UNCHANGED <<runs, deliveries, clock, tasks, faults>>
       PROVE  Turned(w, r)
  <2>1. Steps(w, "error_record")
    BY <1>2, <1>10, ErrorsSteps
  <2>2. workers[w].pc \in Publishing /\ Current(r) => runs[r].publication = "PENDING"
    BY <1>10 DEF Knows, Sending
  <2> QED
    BY <1>10, <2>1, <2>2, SendingTurn DEF Steps, Publishing
<1>11. ASSUME NEW pc \in {"upsert", "remember"}, NEW c \in CheckId \cup {None},
              Set(w, [workers[w] EXCEPT !.pc = pc, !.check = c]),
              workers[w].pc \in {"find", "upsert"},
              UNCHANGED <<runs, deliveries, clock, tasks, faults>>
       PROVE  Turned(w, r)
  <2>1. Lands(w, pc, workers[w].seen, workers[w].app, c)
    BY <1>2, <1>3, <1>11, CheckSteps DEF Publishing
  <2>2. workers[w].pc \in Publishing /\ Current(r) => runs[r].publication = "PENDING"
    BY <1>11 DEF Knows, Sending
  <2> QED
    BY <1>11, <2>1, <2>2, SendingTurn DEF Publishing
<1>12. CASE Find(w)
  <2>1. ChecksOf(r) \subseteq CheckId
    BY DEF PipelineInv, PipelineTypeOK, Partial, ChecksOf
  <2>2. /\ workers[w].pc = "find" /\ UNCHANGED <<runs, deliveries, clock, tasks, faults>>
        /\ \/ Errors(w, "terminal") \/ Goto(w, "upsert")
           \/ \E c \in CheckId \cup {None} :
                Set(w, [workers[w] EXCEPT !.pc = "upsert", !.check = c])
    BY <1>12, <2>1 DEF Find, At, FindExisting, Silent, store, vars
  <2> QED
    BY <1>6, <1>10, <1>11, <2>2 DEF Publishing, Sending
<1>13. CASE Upsert(w)
  <2>1. workers[w].check \in CheckId \cup {None}
    BY <1>2 DEF Local
  <2>2. /\ workers[w].pc = "upsert" /\ UNCHANGED <<runs, deliveries, clock, tasks, faults>>
        /\ \/ Errors(w, "retryable")
           \/ \E c \in CheckId \cup {None} :
                Set(w, [workers[w] EXCEPT !.pc = "remember", !.check = c])
    BY <1>13, <2>1 DEF Upsert, At, store, vars
  <2> QED
    BY <1>10, <1>11, <2>2
<1>14. CASE RequestFails(w)
  BY <1>10, <1>14 DEF RequestFails, At, Silent, store, vars
<1>15. CASE Remember(w)
  <2>1. workers[w].pc = "remember" /\ workers[w].pc \in Publishing
    BY <1>15 DEF Remember, At, Publishing
  <2>2. publications[r].check \in {None, workers[w].check}
    <3>1. r \in DOMAIN publications /\ workers[w].check \in ChecksOf(r)
      BY <1>2, <2>1 DEF LocalInv, Publishing
    <3>2. publications[r].check # None => publications[r].check \in ChecksOf(r)
      BY <3>1 DEF PipelineInv, ChecksInv
    <3> QED
      BY <3>1, <3>2 DEF UniqueInv, ChecksOf
  <2>3. /\ Goto(w, "reread") /\ UNCHANGED <<runs, deliveries, clock, tasks, faults>>
    BY <1>15, <2>2 DEF Remember, SetCheckRunId
  <2> QED
    BY <1>6, <2>1, <2>3 DEF Publishing, Sending
<1>16. ASSUME NEW pc \in {"settle", "error_settle"}, Reload(w, pc), Silent,
              workers[w].pc \in Sending
       PROVE  Turned(w, r)
  <2>1. Lands(w, pc, runs[r], workers[w].app, workers[w].check)
    BY <1>2, <1>3, <1>16, SeenSteps DEF Reload, Stored, Publishing
  <2>2. Current(r) => runs[r].publication = "PENDING"
    BY <1>1, <1>16 DEF Knows, Active
  <2> QED
    BY <1>16, <2>1, <2>2, SendingTurn DEF Publishing, Sending, Silent, store, vars
<1>17. CASE Reread(w) \/ ErrorReread(w)
  BY <1>16, <1>17 DEF Reread, ErrorReread, At, Sending
<1>18. CASE ErrorRecord(w)
  <2>1. /\ workers[w].pc = "error_record" /\ Goto(w, "error_reread")
        /\ UNCHANGED <<runs, deliveries, clock, tasks, faults>>
    BY <1>18 DEF ErrorRecord, At, RecordPublicationError
  <2> QED
    BY <1>6, <2>1 DEF Publishing, Sending
<1>19. CASE Settle(w)
  BY <1>19, LastTurn DEF Settle, At, Settled
<1>20. CASE ErrorSettle(w)
  <2> DEFINE kind == workers[w].error
             state == IF kind = "retryable" THEN "RETRYABLE_FAILURE" ELSE "TERMINAL_FAILURE"
  <2>1. workers[w].pc = "error_settle" /\ LastTransition(w, PublishesAs(state), AnswersOk(kind))
    BY <1>20 DEF ErrorSettle, At
  <2>2. runs[r].installation # None
    BY <1>4, <2>1 DEF Knows, Publishing
  <2>3. AnswersOk(kind) \in BOOLEAN /\ (AnswersOk(kind) => state \in Settled)
    BY DEF AnswersOk, Settled
  <2> QED
    BY <2>1, <2>2, <2>3, LastTurn
<1>21. CASE NotApplicable(w)
  <2>1. workers[w].pc = "not_applicable" /\ runs[r].installation = None
    BY <1>4, <1>21 DEF NotApplicable, At, Knows
  <2> QED
    BY <1>21, <2>1, LastTurn DEF NotApplicable, Settled
<1>22. CASE Finish(w)
  <2>1. /\ workers[w].pc = "finish" /\ ~workers[w].app /\ runs[r].installation = None
        /\ UNCHANGED <<runs, deliveries, clock, faults>>
    BY <1>4, <1>22 DEF Finish, At, Knows, store, vars
  <2>2. CASE runs[r].publication = "PENDING"
    <3>1. /\ Set(w, [workers[w] EXCEPT !.pc = "not_applicable", !.seen = runs[r]])
          /\ UNCHANGED tasks
      BY <1>22, <2>2 DEF Finish, Reload, Stored
    <3>2. Lands(w, "not_applicable", runs[r], workers[w].app, workers[w].check)
      BY <1>2, <3>1, SeenSteps DEF Pc, ProcessPc
    <3>3. /\ workers'[w].pc = "not_applicable" /\ workers'[w].run = r
          /\ workers'[w].app = workers[w].app /\ workers'[w].seen = runs[r]
      BY <3>2 DEF Lands
    <3>4. Knows(w)'
      BY <2>1, <2>2, <3>3 DEF Knows, Publishing, Sending, HandlerPc, ExecutePc
    <3> QED
      BY <1>1, <2>1, <3>1, <3>2, <3>4, QuietTurn
  <2>3. CASE runs[r].publication # "PENDING"
    <3>1. Respond(w, TRUE)
      BY <1>22, <2>3 DEF Finish, Stored
    <3>2. Done(r)'
      BY <1>2, <2>1, <2>3
         DEF Done, Completed, Current, RunRecord, Settled, VerificationRun, Publication
    <3> QED
      BY <1>1, <2>1, <3>1, <3>2, AnswerTurn
  <2> QED
    BY <2>2, <2>3
<1> QED
  BY <1>5, <1>7, <1>8, <1>9, <1>12, <1>13, <1>14, <1>15, <1>17, <1>18, <1>19, <1>20, <1>21,
     <1>22 DEF PublisherStep
-----------------------------------------------------------------------------
(* Failure: handlers, exceptions and crashes. *)
LEMMA FaultsCount ==
  ASSUME faults \in [FaultKind -> Nat], NEW kind \in FaultKind, Fault(kind)
  PROVE  /\ \A k \in FaultKind : faults'[k] = 0 => faults[k] = 0
         /\ faults'[kind] # 0
  BY DEF Fault

LEMMA HandlerTurns ==
  ASSUME PipelineInv, RecordsInv, NEW w \in Worker, NEW r, r = workers[w].run, Knows(w),
         \/ HandlerStep(w) \/ Crash(w)
         \/ workers[w].pc \in ProcessPc /\ Raise(w)
  PROVE  Turned(w, r)
<1>1. Active(w)
  BY DEF HandlerStep, WorkerFailed, TaskFailed, FailingRun, Crash, At, Active, ProcessPc
<1>2. /\ workers \in [Worker -> Local] /\ workers[w] \in Local
      /\ r \in DOMAIN runs /\ TypeOK /\ clock = 0 /\ RunRecord(r) /\ RunRules(r)
  BY <1>1, RunOf DEF RecordsInv
<1>3. faults'["exception"] = 0 => faults["exception"] = 0
  <2>1. faults \in [FaultKind -> Nat]
    BY DEF PipelineInv, PipelineTypeOK
  <2>2. CASE HandlerStep(w)
    BY <2>2 DEF HandlerStep, WorkerFailed, TaskFailed, FailingRun
  <2>3. CASE Crash(w) \/ Raise(w)
    <3>1. {"crash", "exception"} \subseteq FaultKind
      BY DEF FaultKind
    <3> QED
      BY <2>1, <2>3, <3>1, FaultsCount DEF Crash, Raise
  <2> QED
    BY <2>2, <2>3
<1>4. Done(r) /\ UNCHANGED runs => Done(r)'
  BY <1>3 DEF Done, Current, Completed
<1>5. ~Completed(r) => Done(r)
  BY DEF Done
<1>6. ASSUME NEW pc \in HandlerPc, Goto(w, pc), UNCHANGED <<runs, deliveries, clock, tasks>>,
             pc = "task_failed" => Done(r),
             pc # "task_failed" => ~Completed(r)
      PROVE  Turned(w, r)
  <2>1. Steps(w, pc)
    BY <1>2, <1>6, GotoSteps DEF Pc
  <2>2. workers'[w].pc = pc /\ workers'[w].run = r
    BY <2>1 DEF Steps, Lands
  <2>3. /\ pc \notin {"publish", "finish", "not_applicable"} \cup Publishing
        /\ pc \notin Sending \cup ExecutePc
    BY DEF HandlerPc, Publishing, Sending, ExecutePc
  <2>4. Knows(w)'
    BY <1>4, <1>6, <2>2, <2>3 DEF Knows, Publishing, Sending, Completed
  <2> QED
    BY <1>1, <1>3, <1>6, <2>1, <2>4, QuietTurn DEF Steps
<1>7. CASE WorkerFailed(w)
  <2>1. workers[w].pc = "worker_failed" /\ UNCHANGED <<runs, deliveries, clock>>
    BY <1>7 DEF WorkerFailed, At, store, vars
  <2>2. ~Completed(r)
    BY <2>1 DEF Knows, HandlerPc
  <2>3. CASE Goto(w, "worker_fail_run") /\ UNCHANGED tasks
    BY <1>6, <2>1, <2>2, <2>3 DEF HandlerPc
  <2>4. CASE Respond(w, TRUE)
    BY <1>1, <1>3, <1>4, <1>5, <2>1, <2>2, <2>4, AnswerTurn
  <2> QED
    BY <1>7, <2>3, <2>4 DEF WorkerFailed
<1>8. CASE TaskFailed(w)
  <2>1. workers[w].pc = "task_failed" /\ UNCHANGED <<runs, deliveries, clock>>
    BY <1>8 DEF TaskFailed, At, store, vars
  <2>2. Done(r)
    BY <2>1 DEF Knows
  <2>3. CASE Goto(w, "task_fail_run") /\ UNCHANGED tasks /\ MustFail(runs[r])
    <3>1. ~Completed(r)
      BY <1>2, <2>3, NoneAssumption DEF MustFail, Dispatchable, RunRules, Completed, Reason
    <3> QED
      BY <1>6, <2>1, <2>3, <3>1 DEF HandlerPc
  <2>4. CASE Respond(w, TRUE)
    BY <1>1, <1>3, <1>4, <2>1, <2>2, <2>4, AnswerTurn
  <2> QED
    BY <1>8, <2>3, <2>4 DEF TaskFailed, Stored
<1>9. CASE FailingRun(w)
  <2>1. ~Completed(r) /\ UNCHANGED <<deliveries, clock>>
    BY <1>9 DEF FailingRun, FailRun, Knows, HandlerPc, store, vars
  <2>2. CASE FailRun(r, clock) /\ Respond(w, TRUE)
    <3>1. Rewritten(r, FailTransition)
      BY <1>2, <2>2, FailRewrites
    <3>2. RunRecord(r)' /\ ~Completed(r)'
      BY <1>2, <3>1, FailedRun
    <3>3. runs'[r].pr = runs[r].pr /\ runs'[r].revision = runs[r].revision
      BY <1>2, <3>1, FailTransitionType, RewrittenFacts
    <3>4. OnlyRun(r)
      BY <1>3, <3>1, <3>2, <3>3 DEF OnlyRun, Rewritten
    <3> QED
      BY <2>2, <3>2, <3>4 DEF Turned, Done
  <2>3. CASE UNCHANGED store /\ \E ok \in BOOLEAN : Respond(w, ok)
    BY <1>1, <1>3, <1>4, <1>5, <2>1, <2>3, AnswerTurn DEF store, vars
  <2>4. CASE UNCHANGED store /\ Goto(w, "task_failed") /\ UNCHANGED tasks
    BY <1>5, <1>6, <2>1, <2>4 DEF HandlerPc, store, vars
  <2> QED
    BY <1>9, <2>2, <2>3, <2>4 DEF FailingRun
<1>10. CASE Crash(w)
  BY <1>1, <1>3, <1>10, AnswerTurn DEF Crash, store, vars
<1>11. CASE workers[w].pc \in ProcessPc /\ Raise(w)
  <2>1. faults'["exception"] # 0
    BY <1>11 DEF Raise, Fault, PipelineInv, PipelineTypeOK, FaultKind
  <2>2. Done(r)'
    BY <2>1 DEF Done
  <2> QED
    BY <1>3, <1>11, <2>2, ThrowTurn DEF Raise, store, vars
<1> QED
  BY <1>7, <1>8, <1>9, <1>10, <1>11 DEF HandlerStep

(* Every step of a request, and every way in which it ends.                *)
LEMMA RequestTurns ==
  ASSUME PipelineInv, RecordsInv, UniqueInv, TypeOK', NEW w \in Worker, Knows(w),
         RequestStep(w) \/ Crash(w) \/ Raise(w) \/ Refused(w), NEW r, r = workers[w].run
  PROVE  Turned(w, r)
<1>1. CASE WorkflowStep(w)
  <2>1. CASE \/ Execute(w) \/ Load(w) \/ Queue(w) \/ Start(w) \/ Claim(w) \/ Select(w)
             \/ Generate(w) \/ Recheck(w) \/ Base(w) \/ Challenge(w) \/ Head(w) \/ Assess(w)
             \/ Repair(w) \/ Reporting(w) \/ Save(w) \/ Latest(w)
    BY <2>1, ExecuteTurns
  <2>2. CASE Process(w) \/ Lookup(w)
    BY <2>2, EntryTurns
  <2>3. CASE Replay(w) \/ Complete(w)
    BY <2>3, ExitTurns
  <2> QED
    BY <1>1, <2>1, <2>2, <2>3 DEF WorkflowStep
<1>2. CASE PublisherStep(w)
  BY <1>2, PublisherTurns
<1>3. CASE Raise(w)
  <2>1. workers[w].pc \in ExecutePc \/ workers[w].pc \in ProcessPc
    BY <1>3 DEF Raise
  <2> QED
    BY <1>3, <2>1, ExecuteTurns, HandlerTurns
<1>4. CASE HandlerStep(w) \/ Crash(w)
  BY <1>4, HandlerTurns
<1>5. CASE Refused(w)
  <2>1. Active(w) /\ UNCHANGED <<runs, deliveries, clock>>
    BY <1>5 DEF Refused, At, Active, store, vars
  <2>2. faults'["exception"] = 0 => faults["exception"] = 0
    BY <1>5, FaultsCount DEF Refused, PipelineInv, PipelineTypeOK, FaultKind
  <2>3. OnlyRun(r)
    BY <2>1, <2>2, RunOf, SameRun
  <2> QED
    BY <1>5, <2>3 DEF Turned
<1> QED
  BY <1>1, <1>2, <1>3, <1>4, <1>5 DEF RequestStep
-----------------------------------------------------------------------------
(* Evidence is kept for stored runs only. *)
LEMMA EvidenceOfRuns ==
  ASSUME TypeOK, [Next]_vars, DOMAIN evidence \subseteq DOMAIN runs
  PROVE  \A r \in DOMAIN evidence' : r \in DOMAIN evidence \/ r \in DOMAIN runs
<1>1. CASE UNCHANGED evidence
  BY <1>1
<1>2. ASSUME NEW r \in RunId, NEW doc \in Document, SaveEvidence(r, doc)
      PROVE  \A k \in DOMAIN evidence' : k \in DOMAIN evidence \/ k \in DOMAIN runs
  BY <1>2 DEF SaveEvidence, Readable, Put
<1>3. ASSUME NEW e, NEW now, AcceptPullRequest(e, now)
      PROVE  UNCHANGED evidence
  BY <1>3 DEF AcceptPullRequest, AcceptDuplicateDelivery, AcceptDuplicateRevision,
              AcceptStale, AcceptNew, vars, records
<1>4. ASSUME NEW r, NEW now, NEW v, NEW t, NEW x,
             \/ TransitionRun(r, v, t, now) \/ FailRun(r, now) \/ BeginPublication(r, x)
             \/ SetCheckRunId(r, x) \/ RecordPublicationError(r)
      PROVE  UNCHANGED evidence
  BY <1>4 DEF TransitionRun, FailRun, BeginPublication, SetCheckRunId,
              RecordPublicationError, records
<1> QED
  BY <1>1, <1>2, <1>3, <1>4 DEF Next, Tick, vars, records

(* The stored payload is rendered from the stored evidence. *)
LEMMA DocumentsKept ==
  ASSUME PipelineInv, RecordsInv, [PipelineNext]_allVars
  PROVE  Documented'
<1> USE DEF Documented
<1>1. TypeOK /\ [Next]_vars /\ Grows
  BY StoreStep, PipelineGrows DEF PipelineInv, PipelineTypeOK
<1>2. ASSUME NEW r \in DOMAIN evidence'
      PROVE  r \in DOMAIN runs'
  <2>1. DOMAIN evidence \subseteq DOMAIN runs
    BY DEF RecordsInv
  <2>2. r \in DOMAIN runs
    BY <1>1, <2>1, EvidenceOfRuns
  <2> QED
    BY <1>1, <2>2 DEF Grows, RunGrows
<1>3. ASSUME NEW r \in DOMAIN publications
      PROVE  r \in DOMAIN evidence' /\ publications'[r].payload = PayloadOf(r)'
  <2>1. /\ r \in DOMAIN evidence /\ publications[r].payload = PayloadOf(r)
        /\ r \in DOMAIN evidence' /\ evidence'[r] = evidence[r]
        /\ publications'[r].payload = publications[r].payload
    BY <1>1 DEF RecordsInv, Grows, RecordsKept
  <2> QED
    BY <2>1 DEF PayloadOf
<1>4. CASE UNCHANGED publications
  BY <1>2, <1>3, <1>4
<1>5. ASSUME NEW w \in Worker, Begin(w)
      PROVE  \A r \in DOMAIN publications' \ DOMAIN publications :
               r \in DOMAIN evidence' /\ publications'[r].payload = PayloadOf(r)'
  <2> DEFINE k == workers[w].run
  <2>1. k \in DOMAIN evidence
    <3>1. k \in DOMAIN runs /\ Completed(k)
      BY <1>5 DEF Begin, At, PipelineInv, LocalInv, Publishing
    <3> QED
      BY <3>1 DEF PipelineInv, CompletedHasEvidence, Completed
  <2>2. CASE UNCHANGED publications
    BY <2>2
  <2>3. CASE BeginPublication(k, PayloadOf(k))
    <3>1. UNCHANGED evidence
      BY <2>3 DEF BeginPublication
    <3>2. \A r \in DOMAIN publications' \ DOMAIN publications :
            r = k /\ publications'[r].payload = PayloadOf(k)
      BY <2>3 DEF BeginPublication, Put
    <3> QED
      BY <2>1, <3>1, <3>2 DEF PayloadOf
  <2> QED
    BY <1>5, <2>2, <2>3 DEF Begin, store, vars, records
<1>6. ASSUME NEW w \in Worker, Remember(w) \/ ErrorRecord(w)
      PROVE  DOMAIN publications' = DOMAIN publications
  BY <1>6 DEF Remember, ErrorRecord, SetCheckRunId, RecordPublicationError, store, vars,
              records
<1> QED
  BY <1>2, <1>3, <1>4, <1>5, <1>6, PublicationsStep
-----------------------------------------------------------------------------
(* A step of the sole request of a run. *)
LEMMA RequestSettles ==
  ASSUME PipelineInv, NoOverlap, SettledInv, NEW w \in Worker, Active(w),
         NEW r, r = workers[w].run, Turned(w, r), UniqueInv', Documented'
  PROVE  SettledInv'
<1>1. /\ PipelineTypeOK /\ PointerInv /\ RunsInv /\ TasksInv
      /\ RecordsInv /\ AnsweredInv /\ r \in DOMAIN runs
  BY DEF PipelineInv, SettledInv, LocalInv, Active
<1>2. /\ OnlyRun(r)
      /\ \A v \in Worker : v # w => workers'[v] = workers[v]
  <2>1. ASSUME NEW ok \in BOOLEAN, Respond(w, ok)
        PROVE  \A v \in Worker : v # w => workers'[v] = workers[v]
    BY <1>1, <2>1, RespondFacts DEF Responds
  <2>2. Refused(w) => \A v \in Worker : v # w => workers'[v] = workers[v]
    BY <1>1, RefusedFacts DEF Responds
  <2> QED
    BY <2>1, <2>2 DEF Turned, Continues
<1>3. \A k \in DOMAIN runs : k # r => Untouched(k)
  BY <1>2 DEF OnlyRun, Untouched
<1>4. RecordsInv'
  <2>1. ASSUME NEW k \in DOMAIN runs, k # r PROVE RunRecord(k)'
    BY <1>1, <1>2, <2>1 DEF OnlyRun, RecordsInv, RunRecord, Completed, Current
  <2>2. /\ clock' = 0
        /\ \A k \in DOMAIN runs' : RunRecord(k)'
    BY <1>1, <1>2, <2>1 DEF OnlyRun, RecordsInv
  <2> QED
    BY <2>2 DEF RecordsInv, Documented
<1>5. ASSUME NEW v \in Worker, v # w PROVE Knows(v)'
  <2>1. Active(v) => workers[v].run \in DOMAIN runs /\ workers[v].run # r
    BY <1>5 DEF PipelineInv, LocalInv, Active, NoOverlap
  <2>2. Active(v) => Untouched(workers[v].run)
    BY <1>3, <2>1
  <2> QED
    BY <1>2, <1>5, <2>2, WaitingKnows DEF SettledInv, OnlyRun
<1>6. ASSUME NEW k \in DOMAIN tasks, k # r, Done(k) PROVE Done(k)'
  <2>1. k \in DOMAIN runs /\ RunRules(k) /\ Untouched(k)
    BY <1>1, <1>3, <1>6 DEF TasksInv, RunsInv
  <2> QED
    BY <1>1, <1>2, <1>6, <2>1, DoneKept DEF OnlyRun
<1>7. ~ (r \in DOMAIN tasks /\ tasks[r].state = "acknowledged")
  BY <1>1 DEF AnsweredInv
<1>8. CASE Continues(w) /\ UNCHANGED tasks /\ Knows(w)'
  <2>1. \A v \in Worker : /\ workers'[v].run = workers[v].run
                          /\ v # w => workers'[v] = workers[v]
    BY <1>8 DEF Continues
  <2>2. AnsweredInv'
    <3> SUFFICES ASSUME NEW k \in DOMAIN tasks, tasks[k].state = "acknowledged"
                 PROVE  /\ \A v \in Worker : Active(v)' => workers'[v].run # k
                        /\ tasks[k].refused \/ Done(k)'
      BY <1>8 DEF AnsweredInv
    <3>1. /\ k # r /\ (tasks[k].refused \/ Done(k))
          /\ \A v \in Worker : Active(v) => workers[v].run # k
      BY <1>1, <1>7 DEF AnsweredInv
    <3> QED
      BY <1>6, <2>1, <3>1 DEF Active
  <2> QED
    BY <1>4, <1>5, <1>8, <2>2 DEF SettledInv
<1>9. ASSUME NEW ok \in BOOLEAN, Responds(w, ok), ok => Done(r)'
       PROVE  SettledInv'
  <2>1. Responds(w, ok)
    BY <1>9
  <2>2. Knows(w)' /\ ~Active(w)'
    BY <2>1 DEF Responds, Knows, Active
  <2>3. AnsweredInv'
    <3> SUFFICES ASSUME NEW k \in DOMAIN tasks', tasks'[k].state = "acknowledged"
                 PROVE  /\ \A v \in Worker : Active(v)' => workers'[v].run # k
                        /\ tasks'[k].refused \/ Done(k)'
      BY DEF AnsweredInv
    <3>1. DOMAIN tasks' = DOMAIN tasks
      BY <2>1 DEF Responds
    <3>2. CASE k = r
      <4>1. ok \/ tasks'[k].refused
        BY <1>7, <2>1, <3>1, <3>2 DEF Responds
      <4>2. ASSUME NEW v \in Worker, Active(v)' PROVE workers'[v].run # r
        BY <1>2, <2>2, <4>2 DEF NoOverlap, Active
      <4> QED
        BY <1>9, <3>2, <4>1, <4>2
    <3>3. CASE k # r
      <4>1. tasks'[k] = tasks[k]
        BY <2>1, <3>1, <3>3 DEF Responds
      <4>2. /\ tasks'[k].refused \/ Done(k)
            /\ \A v \in Worker : Active(v) => workers[v].run # k
        BY <1>1, <3>1, <4>1 DEF AnsweredInv
      <4>3. \A v \in Worker : Active(v)' => v # w
        BY <2>2
      <4> QED
        BY <1>2, <1>6, <3>1, <3>3, <4>2, <4>3 DEF Active
    <3> QED
      BY <3>2, <3>3
  <2> QED
    BY <1>4, <1>5, <2>2, <2>3 DEF SettledInv
<1>10. CASE Refused(w)
  BY <1>1, <1>9, <1>10, RefusedFacts
<1>11. CASE \E ok \in BOOLEAN : Respond(w, ok) /\ (ok => Done(r)')
  BY <1>1, <1>9, <1>11, RespondFacts
<1> QED
  BY <1>8, <1>10, <1>11 DEF Turned

(* An event, whatever it does to the stored runs.                          *)
LEMMA EventSettles ==
  ASSUME NoRelabelling, PipelineInv, SettledInv, NEW e \in Events, Receive(e),
         UniqueInv', Documented'
  PROVE  SettledInv'
<1>1. /\ PointerInv /\ RunsInv /\ TasksInv /\ RecordsInv /\ AnsweredInv
      /\ clock = 0
  BY DEF PipelineInv, SettledInv, RecordsInv
<1>2. /\ AcceptPullRequest(e, clock)
      /\ UNCHANGED <<tasks, workers, faults>>
  BY DEF Receive
<1>3. /\ \A r \in DOMAIN runs : Untouched(r)
      /\ \A r \in DOMAIN runs' \ DOMAIN runs :
           \E stale \in BOOLEAN : /\ stale => CurrentOf(e) \in RunId
                                  /\ runs'[r] = NewRun(e, 0, stale)
      /\ UNCHANGED clock
  BY <1>1, <1>2, Accepted
<1>4. ASSUME NEW r \in DOMAIN runs
      PROVE  RunRecord(r)'
  BY <1>1, <1>3, UntouchedFacts DEF RunsInv, RecordsInv
<1>5. ASSUME NEW r \in DOMAIN runs' \ DOMAIN runs
      PROVE  RunRecord(r)'
  <2>1. PICK stale \in BOOLEAN : /\ stale => CurrentOf(e) \in RunId
                                 /\ runs'[r] = NewRun(e, 0, stale)
    BY <1>3
  <2> QED
    BY <2>1, NewRunRecord DEF RunRecord, Completed, Current
<1>6. RecordsInv'
  BY <1>1, <1>3, <1>4, <1>5 DEF RecordsInv, Documented
<1>7. ASSUME NEW w \in Worker PROVE Knows(w)'
  <2>1. Active(w) => Untouched(workers[w].run)
    BY <1>3 DEF PipelineInv, LocalInv, Active
  <2> QED
    BY <1>2, <2>1, WaitingKnows DEF SettledInv
<1>8. AnsweredInv'
  <2>1. ASSUME NEW r \in DOMAIN tasks, Done(r) PROVE Done(r)'
    BY <1>1, <1>2, <1>3, <2>1, DoneKept DEF TasksInv, RunsInv
  <2> QED
    BY <1>1, <1>2, <2>1 DEF AnsweredInv, Active
<1> QED
  BY <1>6, <1>7, <1>8 DEF SettledInv

(* The queue: a task is created, delivered, returned or lost. *)
LEMMA QueueSettles ==
  ASSUME PipelineInv, SettledInv, NEW r \in RunId,
         \/ Dispatch(r) \/ DispatchLost(r) \/ Deadline(r)
         \/ \E w \in Worker : Deliver(r, w),
         UniqueInv', Documented'
  PROVE  SettledInv'
<1>1. /\ PipelineTypeOK /\ RecordsInv /\ AnsweredInv
      /\ workers \in [Worker -> Local] /\ \A k \in DOMAIN tasks : tasks[k] \in Task
  BY DEF PipelineInv, SettledInv, PipelineTypeOK, Partial
<1>2. UNCHANGED <<runs, deliveries, clock>>
  BY DEF Dispatch, DispatchLost, Deadline, Deliver, store, vars
<1>3. faults'["exception"] = 0 => faults["exception"] = 0
  <2>1. faults \in [FaultKind -> Nat] /\ {"dispatch", "deadline"} \subseteq FaultKind
        /\ "exception" \in FaultKind
    BY <1>1 DEF PipelineTypeOK, FaultKind
  <2>2. CASE UNCHANGED faults
    BY <2>2
  <2>3. CASE Fault("dispatch") \/ Fault("deadline")
    BY <2>1, <2>3, FaultsCount
  <2> QED
    BY <2>2, <2>3 DEF Dispatch, DispatchLost, Deadline, Deliver
<1>4. RecordsInv'
  BY <1>1, <1>2 DEF RecordsInv, Documented, RunRecord, Completed, Current
<1>5. \A k : Done(k) => Done(k)'
  BY <1>2, <1>3 DEF Done, Current, Completed
<1>6. ASSUME NEW w \in Worker, workers'[w] = workers[w] PROVE Knows(w)'
  <2>1. Active(w) => Untouched(workers[w].run)
    BY <1>2 DEF PipelineInv, LocalInv, Active, Untouched
  <2> QED
    BY <1>3, <1>6, <2>1, WaitingKnows DEF SettledInv
<1>7. ASSUME UNCHANGED workers,
             \A k \in DOMAIN tasks' : tasks'[k].state = "acknowledged" =>
               /\ k \in DOMAIN tasks /\ tasks[k].state = "acknowledged"
               /\ tasks'[k].refused = tasks[k].refused
      PROVE  SettledInv'
  <2>1. AnsweredInv'
    BY <1>1, <1>5, <1>7 DEF AnsweredInv, Active
  <2> QED
    BY <1>4, <1>6, <1>7, <2>1 DEF SettledInv
<1>8. CASE Dispatch(r) \/ DispatchLost(r)
  <2>1. /\ UNCHANGED workers
        /\ \A k \in DOMAIN tasks' : tasks'[k].state = "acknowledged" =>
             /\ k \in DOMAIN tasks /\ tasks[k].state = "acknowledged"
             /\ tasks'[k].refused = tasks[k].refused
    BY <1>8 DEF Dispatch, DispatchLost, Put
  <2> QED
    BY <1>7, <2>1
<1>9. CASE Deadline(r)
  <2>1. /\ r \in DOMAIN tasks /\ tasks' = [tasks EXCEPT ![r] = Returned(tasks[r])]
        /\ UNCHANGED workers
    BY <1>9 DEF Deadline
  <2>2. Returned(tasks[r]).state # "acknowledged"
    BY <1>1, <2>1, ReturnedFacts
  <2> QED
    BY <1>7, <2>1, <2>2
<1>10. ASSUME NEW w \in Worker, Deliver(r, w)
       PROVE  SettledInv'
  <2>1. /\ workers'[w].pc = "process" /\ workers'[w].run = r
        /\ \A v \in Worker : v # w => workers'[v] = workers[v]
    BY <1>1, <1>10 DEF Deliver, Idle
  <2>2. /\ DOMAIN tasks' = DOMAIN tasks /\ tasks'[r].state = "leased"
        /\ \A k \in DOMAIN tasks : k # r => tasks'[k] = tasks[k]
    BY <1>1, <1>10 DEF Deliver, Task
  <2>3. Knows(w)'
    BY <2>1 DEF Knows, Publishing, Sending, ExecutePc, HandlerPc
  <2>4. AnsweredInv'
    BY <1>1, <1>5, <2>1, <2>2 DEF AnsweredInv, Active
  <2> QED
    BY <1>4, <1>6, <2>1, <2>3, <2>4 DEF SettledInv
<1> QED
  BY <1>8, <1>9, <1>10

LEMMA SettledKept ==
  ASSUME PipelineInv, NoOverlap, SettledInv, [PipelineNext]_allVars, [NoRelabelling]_allVars
  PROVE  SettledInv'
<1>1. TypeOK' /\ UniqueInv' /\ Documented'
  BY PipelineGrows, UniqueKept, DocumentsKept DEF SettledInv, Documented
<1>2. ASSUME NEW w \in Worker, RequestStep(w) \/ Crash(w) \/ Raise(w) \/ Refused(w)
      PROVE  SettledInv'
  <2> DEFINE r == workers[w].run
  <2>1. Active(w)
    BY <1>1, <1>2, RequestContinues DEF Refused, At, Active
  <2>2. RecordsInv /\ UniqueInv /\ Knows(w)
    BY DEF SettledInv
  <2>3. ASSUME NEW k, k = r PROVE Turned(w, k)
    BY <1>1, <1>2, <2>2, <2>3, RequestTurns
  <2> HIDE DEF r
  <2>4. PICK k : k = r
    OBVIOUS
  <2> QED
    BY <1>1, <2>1, <2>3, <2>4, RequestSettles DEF r
<1>3. ASSUME NEW e \in Events, Receive(e)
      PROVE  SettledInv'
  <2>1. UNCHANGED allVars => UNCHANGED runs
    BY DEF allVars, store, vars
  <2>2. NoRelabelling
    BY <2>1 DEF NoRelabelling
  <2> QED
    BY <1>1, <1>3, <2>2, EventSettles
<1>4. ASSUME NEW r \in RunId, \/ Dispatch(r) \/ DispatchLost(r) \/ Deadline(r)
                              \/ \E w \in Worker : Deliver(r, w)
      PROVE  SettledInv'
  BY <1>1, <1>4, QueueSettles
<1>5. CASE UNCHANGED allVars
  <2>1. /\ UNCHANGED <<runs, deliveries, clock, evidence, publications, tasks, workers,
                       checks, faults>>
    BY <1>5 DEF allVars, store, vars, records, pipeline
  <2>2. RecordsInv' /\ AnsweredInv'
    BY <1>1, <2>1 DEF SettledInv, RecordsInv, AnsweredInv, Documented, RunRecord,
                      Completed, Current, Done, Active
  <2>3. ASSUME NEW w \in Worker PROVE Knows(w)'
    <3>1. Active(w) => Untouched(workers[w].run)
      BY <2>1 DEF PipelineInv, LocalInv, Active, Untouched
    <3> QED
      BY <2>1, <3>1, WaitingKnows DEF SettledInv
  <2> QED
    BY <1>1, <2>2, <2>3 DEF SettledInv
<1> QED
  BY <1>2, <1>3, <1>4, <1>5 DEF PipelineNext, Failure

LEMMA SettledStarts == PipelineInit => SettledInv
<1> SUFFICES ASSUME PipelineInit PROVE SettledInv
  OBVIOUS
<1>1. \A w \in Worker : workers[w].pc = "idle"
  BY IdleLocal DEF PipelineInit
<1>2. /\ DOMAIN runs = {} /\ DOMAIN evidence = {} /\ DOMAIN publications = {}
      /\ DOMAIN tasks = {} /\ DOMAIN checks = {} /\ clock = 0
  BY DEF PipelineInit, Init
<1> QED
  BY <1>1, <1>2 DEF SettledInv, RecordsInv, Documented, UniqueInv, AnsweredInv, Knows

(* Faults are counted, never forgotten. *)
LEMMA FaultsStep ==
  ASSUME [PipelineNext]_allVars
  PROVE  UNCHANGED faults \/ \E kind \in FaultKind : Fault(kind)
<1>1. CASE Failure
  BY <1>1 DEF Failure, DispatchLost, Deadline, Crash, Raise, Refused, FaultKind
<1>2. ASSUME NEW w \in Worker, RequestStep(w) PROVE UNCHANGED faults
  <2>1. ASSUME NEW t, NEW pc, NEW ok, NEW report,
               \/ Transition(w, t, pc) \/ LastTransition(w, t, ok) \/ Skip(w, pc)
               \/ Abstain(w, report) \/ Exhaust(w, report) \/ Judge(w, report)
        PROVE  UNCHANGED faults
    BY <2>1 DEF Transition, LastTransition, Skip, Abstain, Exhaust, Judge, Silent
  <2>2. CASE WorkflowStep(w)
    <3>1. CASE \/ Process(w) \/ Lookup(w) \/ Execute(w) \/ Replay(w) \/ Load(w)
               \/ Generate(w) \/ Recheck(w) \/ Challenge(w) \/ Repair(w)
               \/ Save(w) \/ Latest(w)
      BY <3>1 DEF Process, Lookup, Execute, Replay, Load, Generate, Recheck, Challenge,
                  Repair, Save, Latest, Silent
    <3>2. CASE \/ Queue(w) \/ Start(w) \/ Claim(w) \/ Select(w) \/ Base(w) \/ Head(w)
               \/ Assess(w) \/ Complete(w) \/ Reporting(w)
      BY <2>1, <3>2
         DEF Queue, Start, Claim, Select, Base, Head, Assess, Complete, Reporting
    <3> QED
      BY <2>2, <3>1, <3>2 DEF WorkflowStep
  <2>3. CASE PublisherStep(w)
    <3>1. CASE \/ Publish(w) \/ Begin(w) \/ ReloadRun(w) \/ Find(w) \/ Upsert(w)
               \/ RequestFails(w) \/ Remember(w) \/ Reread(w) \/ ErrorRecord(w)
               \/ ErrorReread(w) \/ Finish(w)
      BY <3>1 DEF Publish, Begin, ReloadRun, Find, Upsert, RequestFails, Remember, Reread,
                  ErrorRecord, ErrorReread, Finish, Silent
    <3>2. CASE \/ Reopen(w) \/ Settle(w) \/ ErrorSettle(w) \/ NotApplicable(w)
      BY <2>1, <3>2 DEF Reopen, Settle, ErrorSettle, NotApplicable
    <3> QED
      BY <2>3, <3>1, <3>2 DEF PublisherStep
  <2>4. CASE HandlerStep(w)
    BY <2>4 DEF HandlerStep, WorkerFailed, TaskFailed, FailingRun
  <2> QED
    BY <1>2, <2>2, <2>3, <2>4 DEF RequestStep
<1>3. ASSUME \/ \E e \in Events : Receive(e)
             \/ \E r \in RunId : Dispatch(r) \/ \E w \in Worker : Deliver(r, w)
             \/ UNCHANGED allVars
      PROVE  UNCHANGED faults
  BY <1>3 DEF Receive, Dispatch, Deliver, allVars, pipeline
<1> QED
  BY <1>1, <1>2, <1>3 DEF PipelineNext

LEMMA FaultsFall ==
  ASSUME PipelineInv, [PipelineNext]_allVars
  PROVE  \A kind \in FaultKind : faults'[kind] = 0 => faults[kind] = 0
<1>1. faults \in [FaultKind -> Nat]
  BY DEF PipelineInv, PipelineTypeOK
<1> QED
  BY <1>1, FaultsStep, FaultsCount

(* "retry only stored evidence publication": when the queue has its        *)
(* answer, the check of a current completed run is published, refused or   *)
(* not wanted (publish, verify_task), whichever requests die, however      *)
(* often GitHub fails and whatever newer heads arrive.  It takes that no   *)
(* two requests work on the run at once, that no event relabels it, and    *)
(* that no exception outside the two publication errors was raised: such a *)
(* one is answered 200 for a run that is already terminal.                 *)
THEOREM PublicationIsSettled ==
  PipelineSpec /\ []NoOverlap /\ [][NoRelabelling]_allVars =>
    [](faults["exception"] = 0 => PublicationSettled)
<1>1. PipelineInit => SettledInv
  BY SettledStarts
<1>2. PipelineInv /\ NoOverlap /\ SettledInv /\ [PipelineNext]_allVars /\ [NoRelabelling]_allVars
      => SettledInv'
  BY SettledKept
<1>3. SettledInv => (faults["exception"] = 0 => PublicationSettled)
  BY DEF SettledInv, AnsweredInv, Done, Current, Completed, Settled, PublicationSettled
<1> QED
  BY <1>1, <1>2, <1>3, PipelineInvariant, PTL DEF PipelineSpec

(* The same for a service configured so: one place to serve requests, or a *)
(* deadline that outlasts them, and no exception but the two publication   *)
(* errors.  Requests may die, publications fail and dispatches be lost.    *)
THEOREM RestartsAreHarmless ==
  ASSUME MaxFaults["exception"] = 0,
         MaxFaults["deadline"] = 0 \/ \E w : Worker = {w}
  PROVE  PipelineSpec /\ [][NoRelabelling]_allVars =>
           [](OneCheckPerRun /\ PublicationSettled)
<1> DEFINE Calm == faults["exception"] = 0
<1>1. PipelineInit => Calm
  BY DEF PipelineInit, FaultKind
<1>2. PipelineInv /\ Calm /\ [PipelineNext]_allVars => Calm'
  <2> SUFFICES ASSUME PipelineInv, Calm, NEW kind \in FaultKind, Fault(kind) PROVE Calm'
    BY FaultsStep
  <2>1. faults \in [FaultKind -> Nat] /\ "exception" \in FaultKind
    BY DEF PipelineInv, PipelineTypeOK, FaultKind
  <2> QED
    BY <2>1 DEF Fault
<1> HIDE DEF Calm
<1>3. PipelineSpec => []NoOverlap
  BY RequestsAlone
<1>4. PipelineSpec /\ []NoOverlap /\ [][NoRelabelling]_allVars => [](Calm => PublicationSettled)
  BY PublicationIsSettled DEF Calm
<1> QED
  BY <1>1, <1>2, <1>3, <1>4, PipelineInvariant, OneCheckEach, PTL DEF PipelineSpec
-----------------------------------------------------------------------------
(* Without faults every request finds its run as the last one left it.     *)
NoFault == \A kind \in FaultKind : faults[kind] = 0

(* A run that no request has worked on. *)
Fresh(r) == /\ runs[r].lifecycle = "ACCEPTED" /\ runs[r].phase = "CONTEXT"
            /\ r \notin DOMAIN evidence

(* Points of execute before the evidence is stored, and those at which the *)
(* request holds the stored run.                                           *)
Unsaved   == ExecutePc \ {"replay", "latest", "complete"}
Following == ExecutePc \ {"execute", "replay", "load", "save", "latest"}

(* Where execute has brought its run. *)
Reached(pc, run) ==
  /\ pc = "queue" => run.lifecycle = "ACCEPTED"
  /\ pc = "start" => run.lifecycle = "QUEUED"
  /\ pc \in ExecutePc \ {"execute", "replay", "load", "queue", "start"} =>
       run.lifecycle = "RUNNING"
  /\ pc \in {"queue", "start", "claim"} => run.phase = "CONTEXT"
  /\ pc = "select" => run.phase = "CLAIM"
  /\ pc \in {"generate", "recheck", "base"} => run.phase \in {"TEST_GENERATION", "ASSESSMENT"}
  /\ pc \in {"challenge", "head"} => run.phase \in {"BASE_EXECUTION", "ASSESSMENT"}
  /\ pc = "assess" => run.phase \in {"HEAD_EXECUTION", "ASSESSMENT"}
  /\ pc = "judge" => run.phase = "ASSESSMENT"

FollowsAs(pc, seen, r) ==
  /\ pc \notin {"replay", "worker_fail_run", "task_fail_run"}
  /\ pc \in Unsaved => r \notin DOMAIN evidence
  /\ Current(r) =>
       /\ pc \in {"process", "lookup", "execute", "load"} => Fresh(r) \/ Terminal(r)
       /\ Reached(pc, runs[r])
       /\ pc \in Following => seen = runs[r]
       /\ pc \notin {"process", "lookup"} \cup ExecutePc => Terminal(r)

Follows(w) == Active(w) => FollowsAs(workers[w].pc, workers[w].seen, workers[w].run)

FlowInv ==
  /\ Leased
  /\ failures = <<>>
  /\ \A w \in Worker : Follows(w)
  /\ \A r \in DOMAIN runs : Current(r) => \/ Fresh(r) \/ Terminal(r)
                                          \/ \E w \in Worker : Active(w) /\ workers[w].run = r

(* What a step of a request does, seen from its run. *)
Flows(w, r) ==
  /\ UNCHANGED failures
  /\ \A k \in DOMAIN evidence' : k \in DOMAIN evidence \/ k = r
  /\ Follows(w)'
  /\ \/ Active(w)' /\ workers'[w].run = r
     \/ Current(r)' => Terminal(r)'

Arrives(w, r, pc, seen) ==
  /\ workers'[w].pc = pc /\ workers'[w].run = r /\ workers'[w].seen = seen

LEMMA SetArrives ==
  ASSUME workers \in [Worker -> Local], NEW w \in Worker, NEW pc, NEW x,
         \/ Goto(w, pc)
         \/ Set(w, [workers[w] EXCEPT !.pc = pc, !.attempt = x])
         \/ Set(w, [workers[w] EXCEPT !.pc = pc, !.report = x])
  PROVE  Arrives(w, workers[w].run, pc, workers[w].seen)
<1>1. workers[w] \in Local
  OBVIOUS
<1>2. \E local : /\ local.run = workers[w].run /\ local.seen = workers[w].seen
                 /\ local.pc = pc /\ workers' = [workers EXCEPT ![w] = local]
  BY <1>1 DEF Goto, Set, Local
<1> QED
  BY <1>2 DEF Arrives

LEMMA ArrivalFlows ==
  ASSUME NEW w \in Worker, NEW r, NEW pc \in Pc \ {"idle"}, NEW seen,
         Arrives(w, r, pc, seen), UNCHANGED failures,
         \A k \in DOMAIN evidence' : k \in DOMAIN evidence \/ k = r,
         FollowsAs(pc, seen, r)'
  PROVE  Flows(w, r)
  BY DEF Arrives, Flows, Follows, Active

(* Points after execute. *)
After == {"worker_failed", "task_failed"} \cup (ProcessPc \ {"process", "lookup"})

LEMMA AfterFlows ==
  ASSUME NEW w \in Worker, NEW r, NEW pc \in After,
         workers'[w].pc = pc, workers'[w].run = r, UNCHANGED <<evidence, failures>>,
         Current(r)' => Terminal(r)'
  PROVE  Flows(w, r)
<1>1. /\ pc \notin {"idle", "replay", "worker_fail_run", "task_fail_run", "process", "lookup"}
      /\ pc \notin ExecutePc
  BY DEF After, ProcessPc, ExecutePc
<1>2. ASSUME NEW seen PROVE FollowsAs(pc, seen, r)'
  BY <1>1 DEF FollowsAs, Unsaved, Following, Reached, ExecutePc
<1> QED
  BY <1>1, <1>2 DEF Flows, Follows, Active

LEMMA AnswerFlows ==
  ASSUME PipelineInv, NEW w \in Worker, NEW r, Answered(w), UNCHANGED <<evidence, failures>>,
         Current(r)' => Terminal(r)'
  PROVE  Flows(w, r)
<1>1. ~Active(w)'
  BY RespondFacts DEF Answered, Responds, Active, PipelineInv
<1> QED
  BY <1>1 DEF Flows, Follows

(* The transitions of execute on the run it knows. *)
LEMMA EarlyAllowed ==
  ASSUME TypeOK, NEW r \in DOMAIN runs, RunRecord(r), RunRules(r), Current(r), ~Terminal(r),
         NEW t \in Early,
         \/ \E lifecycle \in {"QUEUED", "RUNNING"} :
              /\ t = MovesTo(lifecycle) /\ lifecycle # runs[r].lifecycle
              /\ lifecycle \in LifecycleMoves[runs[r].lifecycle]
         \/ \E phase \in Phase : /\ t = AdvancesTo(phase)
                                 /\ PhaseOrder[phase] > PhaseOrder[runs[r].phase]
  PROVE  TransitionAllowed(runs[r], t, 0)
<1> DEFINE run == runs[r]
           next == Requested(run, t, 0)
<1>1. run \in VerificationRun /\ r \in RunId
  BY DEF TypeOK, Partial
<1>2. /\ t \in RunTransition /\ t.terminal_reason = None /\ t.mechanical = None
      /\ t.outcome = None /\ t.publication = None
  BY EarlyFields
<1>3. ASSUME NEW x
      PROVE  /\ MovesTo(x).lifecycle = x /\ MovesTo(x).phase = None
             /\ AdvancesTo(x).lifecycle = None /\ AdvancesTo(x).phase = x
  BY DEF MovesTo, AdvancesTo, NoChange
<1>4. /\ next.lifecycle = Or(t.lifecycle, run.lifecycle)
      /\ next.phase = Or(t.phase, run.phase)
      /\ next.terminal_reason = run.terminal_reason
      /\ next.mechanical = run.mechanical /\ next.outcome = run.outcome
      /\ next.publication = run.publication
      /\ next.revision_state = run.revision_state
      /\ next.superseded_by = run.superseded_by
      /\ next.created_at = 0 /\ next.updated_at = 0
  <2> HIDE DEF run
  <2>1. /\ next.created_at = run.created_at /\ next.updated_at = 0
    BY <1>1, <1>2, RunTimes
  <2>2. run.created_at = 0
    BY DEF RunRecord, run
  <2> QED
    BY <1>1, <1>2, <2>1, <2>2, RequestedFacts DEF Or
<1>5. /\ PhaseOrder[run.phase] \in Nat /\ None \notin {"QUEUED", "RUNNING"}
      /\ run.lifecycle \in LifecycleMoves[run.lifecycle]
      /\ run.publication \in PublicationMoves[run.publication]
      /\ run.lifecycle \in {"ACCEPTED", "QUEUED", "RUNNING"} /\ run.phase \in Phase
  BY <1>1, NoneAssumption
     DEF VerificationRun, Phase, PhaseOrder, Lifecycle, LifecycleMoves, Publication,
         PublicationMoves, Terminal
<1>6. /\ run.terminal_reason = None
      /\ 0 >= run.updated_at /\ RevisionOpen(run)
      /\ (run.revision_state = "CURRENT") <=> (run.superseded_by = None)
  BY DEF RunRules, RunRecord, RevisionOpen, Current, Terminal
<1> HIDE DEF run, next
<1>7. /\ next.lifecycle \in LifecycleMoves[run.lifecycle]
      /\ next.lifecycle # "TERMINAL"
      /\ PhaseOrder[next.phase] >= PhaseOrder[run.phase]
      /\ next.lifecycle # run.lifecycle \/ next.phase # run.phase
  <2>1. ASSUME NEW lifecycle \in {"QUEUED", "RUNNING"}, t = MovesTo(lifecycle),
               lifecycle # run.lifecycle, lifecycle \in LifecycleMoves[run.lifecycle]
        PROVE  /\ next.lifecycle \in LifecycleMoves[run.lifecycle]
               /\ next.lifecycle # "TERMINAL"
               /\ PhaseOrder[next.phase] >= PhaseOrder[run.phase]
               /\ next.lifecycle # run.lifecycle
    <3>1. next.lifecycle = lifecycle /\ next.phase = run.phase
      BY <1>3, <1>4, <1>5, <2>1 DEF Or
    <3> QED
      BY <1>5, <2>1, <3>1
  <2>2. ASSUME NEW phase \in Phase, t = AdvancesTo(phase),
               PhaseOrder[phase] > PhaseOrder[run.phase]
        PROVE  /\ next.lifecycle \in LifecycleMoves[run.lifecycle]
               /\ next.lifecycle # "TERMINAL"
               /\ PhaseOrder[next.phase] >= PhaseOrder[run.phase]
               /\ next.phase # run.phase
    <3>1. next.lifecycle = run.lifecycle /\ next.phase = phase
      BY <1>3, <1>4, <2>2, NoneAssumption DEF Or
    <3>2. PhaseOrder[phase] \in Nat
      BY DEF Phase, PhaseOrder
    <3> QED
      BY <1>5, <2>2, <3>1, <3>2
  <2> QED
    BY <2>1, <2>2 DEF run
<1>8. ValidDimensions(next)
  BY <1>4, <1>6, <1>7 DEF ValidDimensions
<1>9. next = Requested(run, t, 0) /\ run = runs[r]
  BY DEF next, run
<1> QED
  BY <1>4, <1>5, <1>6, <1>7, <1>8, <1>9 DEF TransitionAllowed

(* Steps of execute that only read. *)
LEMMA QuietFlows ==
  ASSUME NEW w \in Worker, NEW r, NEW pc \in Pc \ {"idle"}, NEW seen,
         Arrives(w, r, pc, seen), UNCHANGED <<runs, evidence, failures>>,
         FollowsAs(pc, seen, r)
  PROVE  Flows(w, r)
<1>1. FollowsAs(pc, seen, r)'
  BY DEF FollowsAs, Current, Fresh, Terminal, Reached
<1> QED
  BY <1>1, ArrivalFlows

(* A transition of execute goes through unless the run was superseded. *)
LEMMA EarlyFlows ==
  ASSUME PipelineInv, RecordsInv, TypeOK', NEW w \in Worker, NEW r, r = workers[w].run,
         workers[w].pc \in Following, r \notin DOMAIN evidence,
         NEW pc \in Following \cap Unsaved, NEW t \in Early, Transition(w, t, pc),
         Current(r) =>
           /\ workers[w].seen = runs[r] /\ TransitionAllowed(runs[r], t, 0)
           /\ Reached(pc, [lifecycle |-> Or(t.lifecycle, runs[r].lifecycle),
                           phase |-> Or(t.phase, runs[r].phase)])
  PROVE  Flows(w, r)
<1>1. Active(w) /\ workers[w].pc \in ExecutePc
  BY DEF Active, Following, ExecutePc
<1>2. /\ workers \in [Worker -> Local] /\ workers[w] \in Local
      /\ r \in DOMAIN runs /\ TypeOK /\ clock = 0
  BY <1>1, RunOf DEF RecordsInv
<1>3. /\ pc \in Pc \ {"idle"} /\ pc \in ExecutePc
      /\ pc \notin {"replay", "worker_fail_run", "task_fail_run"}
      /\ pc \notin {"process", "lookup", "execute", "load"}
  BY DEF Following, Pc, ExecutePc
<1>4. CASE Current(r)
  <2>1. /\ TransitionRun(r, Seen(w).version, t, clock)
        /\ Set(w, [workers[w] EXCEPT !.pc = pc, !.seen = runs'[r]])
    BY <1>2, <1>4 DEF Transition, Accepts, Seen
  <2>2. Rewritten(r, t) /\ UNCHANGED failures
    BY <1>2, <2>1, TransitionRewrites
  <2>3. PICK seen : seen = runs'[r]
    OBVIOUS
  <2>4. seen \in VerificationRun
    BY <2>2, <2>3 DEF TypeOK, Partial, Rewritten
  <2>5. Arrives(w, r, pc, seen)
    <3>1. Set(w, [workers[w] EXCEPT !.pc = pc, !.seen = seen])
      BY <2>1, <2>3
    <3>2. Lands(w, pc, seen, workers[w].app, workers[w].check)
      BY <1>2, <1>3, <2>4, <3>1, SeenSteps
    <3> QED
      BY <3>2 DEF Lands, Arrives
  <2>6. /\ runs'[r].lifecycle = Or(t.lifecycle, runs[r].lifecycle)
        /\ runs'[r].phase = Or(t.phase, runs[r].phase)
    BY <1>2, <2>2, RewrittenFacts, EarlyFields
  <2>7. Reached(pc, runs'[r])
    BY <1>4, <2>6 DEF Reached
  <2>8. FollowsAs(pc, seen, r)'
    BY <1>3, <2>2, <2>3, <2>7 DEF FollowsAs, Following, Rewritten
  <2> QED
    BY <1>3, <2>2, <2>5, <2>8, ArrivalFlows DEF Rewritten
<1>5. CASE ~Current(r)
  <2>1. ~TransitionRun(r, Seen(w).version, t, clock)
    <3>1. runs[r].revision_state = "SUPERSEDED"
      BY <1>2, <1>5 DEF Current, TypeOK, Partial, VerificationRun
    <3> QED
      BY <3>1 DEF TransitionRun, TransitionAllowed, RevisionOpen
  <2>2. Throw(w) /\ UNCHANGED store
    BY <2>1 DEF Transition
  <2>3. Steps(w, "worker_failed")
    BY <1>1, <1>2, <2>2, ThrowSteps DEF Handler
  <2> QED
    BY <1>5, <2>2, <2>3, AfterFlows DEF Steps, Lands, Current, After, store, vars, records
<1> QED
  BY <1>4, <1>5

(* The steps of execute that announce progress. *)
LEMMA AdvanceFlows ==
  ASSUME PipelineInv, RecordsInv, TypeOK', NEW w \in Worker, NEW r, r = workers[w].run,
         Follows(w),
         \/ Queue(w) \/ Start(w) \/ Claim(w) \/ Select(w) \/ Base(w) \/ Head(w) \/ Assess(w)
  PROVE  Flows(w, r)
<1> DEFINE from == workers[w].pc
<1>1. /\ from \in {"queue", "start", "claim", "select", "base", "head", "assess"}
      /\ from \in Following /\ Active(w)
  BY DEF Queue, Start, Claim, Select, Base, Head, Assess, At, Active, Following, ExecutePc
<1>2. /\ workers \in [Worker -> Local] /\ workers[w] \in Local
      /\ r \in DOMAIN runs /\ TypeOK /\ RunRecord(r) /\ RunRules(r) /\ runs[r].phase \in Phase
  BY <1>1, RunOf DEF TypeOK, Partial, VerificationRun
<1>3. r \notin DOMAIN evidence
  BY <1>1 DEF Follows, FollowsAs, Unsaved, ExecutePc
<1>4. Current(r) => workers[w].seen = runs[r] /\ Reached(from, runs[r])
  BY <1>1 DEF Follows, FollowsAs
<1>5. Current(r) => ~Terminal(r)
  BY <1>1, <1>4 DEF Reached, Terminal, ExecutePc
<1>6. ASSUME NEW x
      PROVE  /\ MovesTo(x).lifecycle = x /\ MovesTo(x).phase = None
             /\ AdvancesTo(x).lifecycle = None /\ AdvancesTo(x).phase = x
  BY DEF MovesTo, AdvancesTo, NoChange
<1>7. None \notin {"QUEUED", "RUNNING"} /\ None \notin Phase
  BY NoneAssumption DEF Lifecycle
<1>8. ASSUME NEW pc \in Following \cap Unsaved, NEW lifecycle \in {"QUEUED", "RUNNING"},
             Transition(w, MovesTo(lifecycle), pc),
             Current(r) => /\ lifecycle # runs[r].lifecycle
                           /\ lifecycle \in LifecycleMoves[runs[r].lifecycle]
                           /\ Reached(pc, [lifecycle |-> lifecycle, phase |-> runs[r].phase])
      PROVE  Flows(w, r)
  <2> DEFINE t == MovesTo(lifecycle)
  <2>1. t \in Early
    BY DEF Early
  <2>2. /\ Or(t.lifecycle, runs[r].lifecycle) = lifecycle
        /\ Or(t.phase, runs[r].phase) = runs[r].phase
    BY <1>6, <1>7 DEF Or
  <2>3. Current(r) => TransitionAllowed(runs[r], t, 0)
    BY <1>2, <1>5, <1>8, <2>1, EarlyAllowed
  <2>4. Transition(w, t, pc)
    BY <1>8
  <2> HIDE DEF t
  <2> QED
    BY <1>1, <1>3, <1>4, <1>8, <2>1, <2>2, <2>3, <2>4, EarlyFlows
<1>9. ASSUME NEW pc \in Following \cap Unsaved,
             NEW phase \in {"CLAIM", "TEST_GENERATION", "BASE_EXECUTION", "HEAD_EXECUTION",
                            "ASSESSMENT"},
             Transition(w, AdvancesTo(phase), pc),
             Current(r) => /\ PhaseOrder[phase] > PhaseOrder[runs[r].phase]
                           /\ Reached(pc, [lifecycle |-> runs[r].lifecycle, phase |-> phase])
      PROVE  Flows(w, r)
  <2> DEFINE t == AdvancesTo(phase)
  <2>1. t \in Early /\ phase \in Phase
    BY DEF Early, Phase, PhaseOrder
  <2>2. /\ Or(t.lifecycle, runs[r].lifecycle) = runs[r].lifecycle
        /\ Or(t.phase, runs[r].phase) = phase
    BY <1>6, <1>7, <2>1 DEF Or
  <2>3. Current(r) => TransitionAllowed(runs[r], t, 0)
    BY <1>2, <1>5, <1>9, <2>1, EarlyAllowed
  <2>4. Transition(w, t, pc)
    BY <1>9
  <2> HIDE DEF t
  <2> QED
    BY <1>1, <1>3, <1>4, <1>9, <2>1, <2>2, <2>3, <2>4, EarlyFlows
<1>10. ASSUME NEW pc \in Following \cap Unsaved, Skip(w, pc),
              Current(r) => Reached(pc, runs[r])
       PROVE  Flows(w, r)
  <2>1. /\ pc \in Pc \ {"idle"} /\ pc \in ExecutePc
        /\ pc \notin {"replay", "worker_fail_run", "task_fail_run"}
        /\ pc \notin {"process", "lookup", "execute", "load"}
    BY DEF Following, Pc, ExecutePc
  <2>2. Arrives(w, r, pc, workers[w].seen)
    BY <1>2, <1>10, <2>1, GotoSteps DEF Skip, Steps, Lands, Arrives
  <2>3. PICK seen : seen = workers[w].seen
    OBVIOUS
  <2>4. FollowsAs(pc, seen, r)
    BY <1>3, <1>4, <1>10, <2>1, <2>3 DEF FollowsAs
  <2> QED
    BY <1>10, <2>1, <2>2, <2>3, <2>4, QuietFlows DEF Skip, Silent, store, vars, records
<1>11. Current(r) =>
         /\ LifecycleMoves["ACCEPTED"] = {"ACCEPTED", "QUEUED", "TERMINAL"}
         /\ LifecycleMoves["QUEUED"] = {"QUEUED", "RUNNING", "TERMINAL"}
  BY DEF LifecycleMoves
<1>12. {"start", "claim", "select", "generate", "challenge", "assess", "judge"}
         \subseteq Following \cap Unsaved
  BY DEF Following, Unsaved, ExecutePc
<1>13. CASE Queue(w)
  <2>1. from = "queue"
    BY <1>13 DEF Queue, At
  <2>2. CASE Transition(w, MovesTo("QUEUED"), "start")
    BY <1>4, <1>8, <1>11, <1>12, <2>1, <2>2 DEF Reached, ExecutePc
  <2>3. CASE Skip(w, "start") /\ Seen(w).lifecycle # "ACCEPTED"
    BY <1>4, <1>10, <1>12, <2>1, <2>3 DEF Reached, Seen
  <2> QED
    BY <1>13, <2>2, <2>3 DEF Queue
<1>14. CASE Start(w)
  <2>1. from = "start"
    BY <1>14 DEF Start, At
  <2>2. CASE Transition(w, MovesTo("RUNNING"), "claim")
    BY <1>4, <1>8, <1>11, <1>12, <2>1, <2>2 DEF Reached, ExecutePc
  <2>3. CASE Skip(w, "claim") /\ Seen(w).lifecycle # "QUEUED"
    BY <1>4, <1>10, <1>12, <2>1, <2>3 DEF Reached, Seen
  <2> QED
    BY <1>14, <2>2, <2>3 DEF Start
<1>15. CASE Claim(w)
  <2>1. from = "claim" /\ Transition(w, AdvancesTo("CLAIM"), "select")
    BY <1>15 DEF Claim, At
  <2> QED
    BY <1>4, <1>9, <1>12, <2>1 DEF Reached, PhaseOrder, ExecutePc
<1>16. CASE Select(w)
  <2>1. from = "select" /\ Transition(w, AdvancesTo("TEST_GENERATION"), "generate")
    BY <1>16 DEF Select, At
  <2> QED
    BY <1>4, <1>9, <1>12, <2>1 DEF Reached, PhaseOrder, ExecutePc
<1>17. CASE Base(w)
  <2>1. from = "base"
    BY <1>17 DEF Base, At
  <2>2. CASE /\ Transition(w, AdvancesTo("BASE_EXECUTION"), "challenge")
             /\ Seen(w).phase = "TEST_GENERATION"
    BY <1>4, <1>9, <1>12, <2>1, <2>2 DEF Reached, PhaseOrder, ExecutePc, Seen
  <2>3. CASE Skip(w, "challenge") /\ Seen(w).phase # "TEST_GENERATION"
    BY <1>4, <1>10, <1>12, <2>1, <2>3 DEF Reached, Seen, ExecutePc
  <2> QED
    BY <1>17, <2>2, <2>3 DEF Base
<1>18. CASE Head(w)
  <2>1. from = "head"
    BY <1>18 DEF Head, At
  <2>2. CASE /\ Transition(w, AdvancesTo("HEAD_EXECUTION"), "assess")
             /\ Seen(w).phase = "BASE_EXECUTION"
    BY <1>4, <1>9, <1>12, <2>1, <2>2 DEF Reached, PhaseOrder, ExecutePc, Seen
  <2>3. CASE Skip(w, "assess") /\ Seen(w).phase # "BASE_EXECUTION"
    BY <1>4, <1>10, <1>12, <2>1, <2>3 DEF Reached, Seen, ExecutePc
  <2> QED
    BY <1>18, <2>2, <2>3 DEF Head
<1>19. CASE Assess(w)
  <2>1. from = "assess"
    BY <1>19 DEF Assess, At
  <2>2. CASE /\ Transition(w, AdvancesTo("ASSESSMENT"), "judge")
             /\ Seen(w).phase # "ASSESSMENT"
    BY <1>4, <1>9, <1>12, <2>1, <2>2 DEF Reached, PhaseOrder, ExecutePc, Seen
  <2>3. CASE Skip(w, "judge") /\ Seen(w).phase = "ASSESSMENT"
    BY <1>4, <1>10, <1>12, <2>1, <2>3 DEF Reached, Seen, ExecutePc
  <2> QED
    BY <1>19, <2>2, <2>3 DEF Assess
<1> QED
  BY <1>13, <1>14, <1>15, <1>16, <1>17, <1>18, <1>19
-----------------------------------------------------------------------------
(* The other steps of execute. *)
LEMMA CompletionAllowed ==
  ASSUME TypeOK, NEW r \in DOMAIN runs, RunRecord(r), RunRules(r), Current(r),
         ~Completed(r), runs[r].lifecycle = "RUNNING", NEW report \in Document
  PROVE  TransitionAllowed(runs[r], CompletesWith(report), 0)
<1> DEFINE run == runs[r]
           t == CompletesWith(report)
           next == Requested(run, t, 0)
<1>1. run \in VerificationRun /\ r \in RunId
  BY DEF TypeOK, Partial
<1>2. /\ t \in RunTransition /\ t.lifecycle = "TERMINAL" /\ t.phase = "PUBLICATION"
      /\ t.terminal_reason = "COMPLETED" /\ t.publication = "PENDING"
  <2>1. t \in RunTransition
    BY AskedTransitions, StoreAssumption
  <2> QED
    BY <2>1 DEF CompletesWith
<1>3. /\ run.publication = "NOT_STARTED" /\ run.terminal_reason = None
      /\ run.mechanical = None /\ run.outcome = None
      /\ 0 >= run.updated_at /\ RevisionOpen(run)
      /\ (run.revision_state = "CURRENT") <=> (run.superseded_by = None)
      /\ run.lifecycle = "RUNNING" /\ run.created_at = 0
  BY DEF RunRecord, RunRules, RevisionOpen, Current
<1>4. None \notin {"TERMINAL", "PUBLICATION", "COMPLETED", "PENDING"}
  BY NoneAssumption DEF Lifecycle, Phase, PhaseOrder, Reason, Publication
<1> HIDE DEF t, run
<1>5. /\ next.lifecycle = "TERMINAL" /\ next.phase = "PUBLICATION"
      /\ next.terminal_reason = "COMPLETED" /\ next.publication = "PENDING"
      /\ next.revision_state = run.revision_state
      /\ next.superseded_by = run.superseded_by
      /\ next.created_at = 0 /\ next.updated_at = 0
  <2>1. /\ next.created_at = run.created_at /\ next.updated_at = 0
    BY <1>1, <1>2, RunTimes
  <2> QED
    BY <1>1, <1>2, <1>3, <1>4, <2>1, RequestedFacts DEF Or
<1>6. /\ PhaseOrder["PUBLICATION"] >= PhaseOrder[run.phase]
      /\ "TERMINAL" \in LifecycleMoves["RUNNING"]
      /\ "PENDING" \in PublicationMoves["NOT_STARTED"]
  BY <1>1 DEF VerificationRun, Phase, PhaseOrder, LifecycleMoves, PublicationMoves
<1>7. ValidDimensions(next)
  BY <1>3, <1>4, <1>5 DEF ValidDimensions
<1>8. next = Requested(run, t, 0) /\ run = runs[r] /\ t = CompletesWith(report)
  BY DEF next, run, t
<1> HIDE DEF next
<1> QED
  BY <1>3, <1>4, <1>5, <1>6, <1>7, <1>8 DEF TransitionAllowed

(* A run whose evidence is stored or whose request starts again. *)
LEMMA EntryFlows ==
  ASSUME PipelineInv, RecordsInv, NEW w \in Worker, NEW r, r = workers[w].run, Follows(w),
         Process(w) \/ Lookup(w) \/ Execute(w) \/ Load(w)
  PROVE  Flows(w, r)
<1>1. /\ Active(w) /\ UNCHANGED <<runs, evidence, failures>>
      /\ workers[w].pc \in {"process", "lookup", "execute", "load"}
  BY DEF Process, Lookup, Execute, Load, At, Active, Silent, store, vars, records
<1>2. /\ workers \in [Worker -> Local] /\ workers[w] \in Local
      /\ r \in DOMAIN runs /\ runs[r] \in VerificationRun
  BY <1>1, RunOf DEF TypeOK, Partial
<1>3. Current(r) => Fresh(r) \/ Terminal(r)
  BY <1>1 DEF Follows, FollowsAs
<1>4. ASSUME NEW pc \in {"lookup", "execute", "load", "queue"},
             NEW seen, Arrives(w, r, pc, seen),
             pc \in Unsaved => r \notin DOMAIN evidence,
             pc = "queue" => seen = runs[r] /\ (Current(r) => Fresh(r))
      PROVE  Flows(w, r)
  <2>1. /\ pc \in Pc \ {"idle"} /\ pc \in {"process", "lookup"} \cup ExecutePc
        /\ pc \notin {"replay", "worker_fail_run", "task_fail_run"}
        /\ pc # "queue" => pc \notin Following
    BY DEF Pc, ProcessPc, ExecutePc, Following
  <2>2. Current(r) => Reached(pc, runs[r])
    BY <1>4 DEF Reached, Fresh, ExecutePc
  <2>3. FollowsAs(pc, seen, r)
    BY <1>3, <1>4, <2>1, <2>2 DEF FollowsAs
  <2> QED
    BY <1>1, <1>4, <2>1, <2>3, QuietFlows
<1>5. ASSUME NEW pc \in Pc, Goto(w, pc)
      PROVE  Arrives(w, r, pc, workers[w].seen)
  BY <1>2, <1>5, GotoSteps DEF Steps, Lands, Arrives
<1>6. CASE Process(w)
  <2>1. Arrives(w, r, "lookup", workers[w].seen)
    BY <1>2, <1>6 DEF Process, Set, Local, Arrives
  <2> QED
    BY <1>4, <2>1 DEF Unsaved, ExecutePc
<1>7. CASE Lookup(w)
  <2>1. CASE r \in DOMAIN evidence /\ Goto(w, AfterExecution(w))
    <3>1. AfterExecution(w) \in Pc /\ AfterExecution(w) \in After
      BY DEF AfterExecution, Pc, ProcessPc, After
    <3>2. Current(r)' => Terminal(r)'
      BY <1>1, <1>3, <2>1 DEF Fresh, Current, Terminal
    <3>3. Arrives(w, r, AfterExecution(w), workers[w].seen)
      BY <1>5, <2>1, <3>1
    <3> QED
      BY <1>1, <3>1, <3>2, <3>3, AfterFlows DEF Arrives
  <2>2. CASE r \notin DOMAIN evidence /\ Goto(w, "execute")
    BY <1>4, <1>5, <2>2 DEF Pc, ExecutePc
  <2> QED
    BY <1>7, <2>1, <2>2 DEF Lookup
<1>8. CASE Execute(w)
  <2>1. r \notin DOMAIN evidence
    BY <1>1, <1>8 DEF Execute, At, Follows, FollowsAs, Unsaved, ExecutePc
  <2>2. Goto(w, "load")
    BY <1>8, <2>1 DEF Execute
  <2> QED
    BY <1>4, <1>5, <2>1, <2>2 DEF Pc, ExecutePc
<1>9. CASE Load(w)
  <2>1. r \notin DOMAIN evidence
    BY <1>1, <1>9 DEF Load, At, Follows, FollowsAs, Unsaved, ExecutePc
  <2>2. CASE Dispatchable(runs[r]) /\ Reload(w, "queue")
    <3>1. Current(r) => Fresh(r)
      BY <1>3, <2>2 DEF Dispatchable, Terminal
    <3>2. Set(w, [workers[w] EXCEPT !.pc = "queue", !.seen = runs[r]])
      BY <2>2 DEF Reload, Stored
    <3>3. Arrives(w, r, "queue", runs[r])
      <4>1. "queue" \in Pc
        BY DEF Pc, ExecutePc
      <4>2. Lands(w, "queue", runs[r], workers[w].app, workers[w].check)
        BY <1>2, <3>2, <4>1, SeenSteps
      <4> QED
        BY <4>2 DEF Lands, Arrives
    <3> QED
      BY <1>4, <2>1, <3>1, <3>3
  <2>3. CASE ~Dispatchable(runs[r]) /\ Throw(w)
    <3>1. Steps(w, "worker_failed")
      BY <1>2, <1>9, <2>3, ThrowSteps DEF Load, At, Handler, ExecutePc
    <3>2. Current(r)' => Terminal(r)'
      BY <1>1, <2>3 DEF Dispatchable, Current, Terminal
    <3> QED
      BY <1>1, <3>1, <3>2, AfterFlows DEF Steps, Lands, After
  <2> QED
    BY <1>9, <2>2, <2>3 DEF Load, Stored
<1> QED
  BY <1>6, <1>7, <1>8, <1>9

LEMMA CandidateFlows ==
  ASSUME PipelineInv, RecordsInv, NEW w \in Worker, NEW r, r = workers[w].run, Follows(w),
         Generate(w) \/ Recheck(w) \/ Challenge(w) \/ Repair(w) \/ Reporting(w)
  PROVE  Flows(w, r)
<1> DEFINE from == workers[w].pc
<1>1. /\ from \in {"select", "generate", "recheck", "challenge", "judge"}
      /\ from \in Following /\ from \in Unsaved /\ Active(w)
      /\ UNCHANGED <<runs, evidence, failures>>
  BY DEF Generate, Recheck, Challenge, Repair, Reporting, Abstain, Exhaust, Judge, At, Active,
         Silent, store, vars, records, Following, Unsaved, ExecutePc
<1>2. /\ workers \in [Worker -> Local] /\ workers[w] \in Local
      /\ r \in DOMAIN runs /\ runs[r] \in VerificationRun
  BY <1>1, RunOf DEF TypeOK, Partial
<1>3. /\ r \notin DOMAIN evidence
      /\ Current(r) => workers[w].seen = runs[r] /\ Reached(from, runs[r])
  BY <1>1 DEF Follows, FollowsAs
<1>4. ASSUME NEW pc \in {"generate", "recheck", "base", "head", "save"},
             Arrives(w, r, pc, workers[w].seen),
             Current(r) => Reached(pc, runs[r])
      PROVE  Flows(w, r)
  <2>1. /\ pc \in Pc \ {"idle"} /\ pc \in ExecutePc
        /\ pc \notin {"replay", "worker_fail_run", "task_fail_run"}
        /\ pc \notin {"process", "lookup", "execute", "load"}
    BY DEF Pc, ExecutePc
  <2>2. PICK seen : seen = workers[w].seen
    OBVIOUS
  <2>3. FollowsAs(pc, seen, r)
    BY <1>3, <1>4, <2>1, <2>2 DEF FollowsAs
  <2> QED
    BY <1>1, <1>4, <2>1, <2>2, <2>3, QuietFlows
<1>5. ASSUME NEW pc \in {"generate", "recheck", "base", "head", "save"}, NEW x,
             \/ Goto(w, pc) \/ Set(w, [workers[w] EXCEPT !.pc = pc, !.attempt = x])
             \/ Set(w, [workers[w] EXCEPT !.pc = pc, !.report = x])
      PROVE  Arrives(w, r, pc, workers[w].seen)
  BY <1>2, <1>5, SetArrives
<1>6. Current(r) => /\ from \in {"generate", "judge"} => Reached("generate", runs[r])
                    /\ from = "generate" => Reached("recheck", runs[r])
                    /\ from = "recheck" => Reached("base", runs[r])
                    /\ from = "challenge" => Reached("head", runs[r])
                    /\ Reached("save", runs[r])
  BY <1>1, <1>3 DEF Reached, ExecutePc
<1>7. CASE Generate(w)
  BY <1>4, <1>5, <1>6, <1>7 DEF Generate, At
<1>8. ASSUME NEW pc \in {"base", "head"}, Current(r) => Reached(pc, runs[r]),
             IF Stored(w).revision_state = "CURRENT" THEN Goto(w, pc) ELSE Throw(w)
      PROVE  Flows(w, r)
  <2>1. CASE Goto(w, pc)
    BY <1>4, <1>5, <1>8, <2>1
  <2>2. CASE Throw(w) /\ ~Current(r)
    <3>1. Steps(w, "worker_failed")
      BY <1>1, <1>2, <2>2, ThrowSteps DEF Handler, Following
    <3> QED
      BY <1>1, <2>2, <3>1, AfterFlows DEF Steps, Lands, After, Current
  <2> QED
    BY <1>8, <2>1, <2>2 DEF Stored, Current
<1>9. CASE Recheck(w) \/ Challenge(w)
  BY <1>6, <1>8, <1>9 DEF Recheck, Challenge, At
<1>10. CASE Repair(w)
  BY <1>4, <1>5, <1>6, <1>10 DEF Repair, At
<1>11. CASE Reporting(w)
  BY <1>4, <1>5, <1>6, <1>11 DEF Reporting, Abstain, Exhaust, Judge, At
<1> QED
  BY <1>7, <1>9, <1>10, <1>11

(* The evidence is stored and the run completed. *)
LEMMA PersistFlows ==
  ASSUME PipelineInv, RecordsInv, NEW w \in Worker, NEW r, r = workers[w].run,
         Knows(w), Follows(w), Save(w) \/ Latest(w) \/ Complete(w)
  PROVE  Flows(w, r)
<1> DEFINE from == workers[w].pc
<1>1. /\ from \in {"save", "latest", "complete"} /\ from \in ExecutePc /\ Active(w)
  BY DEF Save, Latest, Complete, At, Active, ExecutePc
<1>2. /\ workers \in [Worker -> Local] /\ workers[w] \in Local /\ TypeOK /\ clock = 0
      /\ r \in DOMAIN runs /\ runs[r] \in VerificationRun /\ RunRecord(r) /\ RunRules(r)
  BY <1>1, RunOf DEF TypeOK, Partial, RecordsInv
<1>3. /\ Current(r) => runs[r].lifecycle = "RUNNING"
      /\ from = "save" => r \notin DOMAIN evidence
  BY <1>1 DEF Follows, FollowsAs, Reached, Unsaved
<1>4. CASE Save(w)
  <2>1. from = "save" /\ EvidenceAccepts(r, workers[w].report)
    BY <1>3, <1>4 DEF Save, At, EvidenceAccepts
  <2>2. SaveEvidence(r, workers[w].report) /\ Goto(w, "latest")
    BY <1>4, <2>1 DEF Save
  <2>3. /\ UNCHANGED <<runs, failures>>
        /\ \A k \in DOMAIN evidence' : k \in DOMAIN evidence \/ k = r
    BY <2>2 DEF SaveEvidence, Put
  <2>4. /\ "latest" \in Pc \ {"idle"} /\ "latest" \in ExecutePc
        /\ "latest" \notin Unsaved \cup Following
    BY DEF Pc, ExecutePc, Unsaved, Following
  <2>5. PICK seen : seen = workers[w].seen
    OBVIOUS
  <2>6. FollowsAs("latest", seen, r)'
    BY <1>3, <2>3, <2>4 DEF FollowsAs, Reached, Current
  <2>7. Arrives(w, r, "latest", seen)
    BY <1>2, <2>2, <2>5, SetArrives
  <2> QED
    BY <2>3, <2>4, <2>6, <2>7, ArrivalFlows
<1>5. CASE Latest(w)
  <2>1. /\ UNCHANGED <<runs, evidence, failures>>
        /\ Set(w, [workers[w] EXCEPT !.pc = "complete", !.seen = runs[r]])
    BY <1>5 DEF Latest, Reload, Stored, Silent, store, vars, records
  <2>2. /\ "complete" \in Pc /\ "complete" # "idle" /\ "complete" \in ExecutePc
        /\ "complete" \notin Unsaved
    BY DEF Pc, ExecutePc, Unsaved
  <2>3. PICK seen : seen = runs[r]
    OBVIOUS
  <2>4. Lands(w, "complete", seen, workers[w].app, workers[w].check)
    <3>1. Set(w, [workers[w] EXCEPT !.pc = "complete", !.seen = seen])
      BY <2>1, <2>3
    <3> QED
      BY <1>2, <2>2, <2>3, <3>1, SeenSteps
  <2>5. FollowsAs("complete", seen, r)
    BY <1>3, <2>2, <2>3 DEF FollowsAs, Reached
  <2> QED
    BY <2>1, <2>2, <2>4, <2>5, QuietFlows DEF Lands, Arrives
<1>6. CASE Complete(w)
  <2> DEFINE t == CompletesWith(workers[w].report)
  <2>1. from = "complete" /\ workers[w].report \in Document /\ ~Completed(r)
    BY <1>1, <1>6 DEF Complete, At, PipelineInv, LocalInv, Knows
  <2>2. CASE Current(r)
    <3>1. TransitionAllowed(runs[r], t, clock) /\ workers[w].seen = runs[r]
      BY <1>1, <1>2, <1>3, <2>1, <2>2, CompletionAllowed
         DEF Follows, FollowsAs, Following
    <3>2. /\ TransitionRun(r, Seen(w).version, t, clock)
          /\ Set(w, [workers[w] EXCEPT !.pc = AfterExecution(w), !.seen = runs'[r]])
      BY <1>6, <3>1 DEF Complete, Transition, Accepts, Seen
    <3>3. Rewritten(r, t) /\ UNCHANGED failures
      BY <1>2, <3>2, TransitionRewrites
    <3>4. Terminal(r)'
      BY <1>2, <2>1, <3>3, CompletingRun
    <3>5. AfterExecution(w) \in After
      BY DEF AfterExecution, After, ProcessPc
    <3>6. workers'[w].pc = AfterExecution(w) /\ workers'[w].run = r
      BY <1>2, <3>2 DEF Set, Local
    <3> QED
      BY <3>3, <3>4, <3>5, <3>6, AfterFlows DEF Rewritten
  <2>3. CASE ~Current(r)
    <3>1. ~TransitionRun(r, Seen(w).version, t, clock)
      <4>1. runs[r].revision_state = "SUPERSEDED"
        BY <1>2, <2>3 DEF Current, VerificationRun
      <4> QED
        BY <4>1 DEF TransitionRun, TransitionAllowed, RevisionOpen
    <3>2. Throw(w) /\ UNCHANGED store
      BY <1>6, <3>1 DEF Complete, Transition
    <3>3. Steps(w, "worker_failed")
      BY <1>1, <1>2, <3>2, ThrowSteps DEF Handler
    <3> QED
      BY <2>3, <3>2, <3>3, AfterFlows DEF Steps, Lands, Current, After, store, vars, records
  <2> QED
    BY <2>2, <2>3
<1> QED
  BY <1>4, <1>5, <1>6
-----------------------------------------------------------------------------
(* After execute: the run of the request stays terminal. *)
LEMMA LandingFlows ==
  ASSUME PipelineInv, NEW w \in Worker, NEW r, r = workers[w].run,
         UNCHANGED <<evidence, failures>>, Current(r)' => Terminal(r)',
         NEW local, local.pc \in After, local.run = r,
         workers' = [workers EXCEPT ![w] = local]
  PROVE  Flows(w, r)
<1>1. workers'[w] = local
  BY DEF PipelineInv, PipelineTypeOK
<1> QED
  BY <1>1, AfterFlows

LEMMA PublisherFlows ==
  ASSUME PipelineInv, Grows, NEW w \in Worker, NEW r, r = workers[w].run, Follows(w),
         PublisherStep(w)
  PROVE  Flows(w, r)
<1>1. /\ Active(w) /\ workers[w].pc \in ProcessPc \ {"process", "lookup"}
  BY DEF PublisherStep, Publish, Begin, ReloadRun, Reopen, Find, Upsert, RequestFails,
         Remember, Reread, Settle, ErrorRecord, ErrorReread, ErrorSettle, Finish,
         NotApplicable, At, Active, ProcessPc
<1>2. /\ workers \in [Worker -> Local] /\ workers[w] \in Local
      /\ r \in DOMAIN runs /\ RunRules(r) /\ LocalInv(w)
  BY <1>1 DEF PipelineInv, PipelineTypeOK, LocalInv, RunsInv, Active
<1>3. UNCHANGED <<evidence, failures>>
  <2>1. ASSUME NEW t, NEW pc, NEW ok, Transition(w, t, pc) \/ LastTransition(w, t, ok)
        PROVE  UNCHANGED <<evidence, failures>>
    BY <2>1 DEF Transition, LastTransition, TransitionRun, store, vars, records
  <2>2. CASE \/ Publish(w) \/ ReloadRun(w) \/ Find(w) \/ Upsert(w) \/ RequestFails(w)
             \/ Reread(w) \/ ErrorReread(w) \/ Finish(w)
    BY <2>2 DEF Publish, ReloadRun, Find, Upsert, RequestFails, Reread, ErrorReread, Finish,
                Silent, store, vars, records
  <2>3. CASE Begin(w) \/ Remember(w) \/ ErrorRecord(w)
    BY <2>3 DEF Begin, Remember, ErrorRecord, BeginPublication, SetCheckRunId,
                RecordPublicationError, store, vars, records
  <2>4. CASE \/ Reopen(w) \/ Settle(w) \/ ErrorSettle(w) \/ NotApplicable(w)
    BY <2>1, <2>4 DEF Reopen, Settle, ErrorSettle, NotApplicable
  <2> QED
    BY <2>2, <2>3, <2>4 DEF PublisherStep
<1>4. Current(r)' => Terminal(r)'
  <2>1. Terminal(r) => Terminal(r)'
    BY <1>2 DEF Grows, RunGrows, Terminal
  <2>2. Current(r) => Terminal(r)
    <3>1. workers[w].pc \notin {"process", "lookup"} \cup ExecutePc
      BY <1>1 DEF ProcessPc, ExecutePc
    <3> QED
      BY <1>1, <3>1 DEF Follows, FollowsAs
  <2>3. CASE UNCHANGED runs
    BY <2>1, <2>2, <2>3 DEF Current
  <2>4. CASE workers[w].pc \in Publishing
    <3>1. Terminal(r)
      BY <1>2, <2>4, NoneAssumption
         DEF LocalInv, Publishing, Completed, RunRules, Terminal, Reason
    <3> QED
      BY <2>1, <3>1
  <2>5. CASE workers[w].pc = "not_applicable"
    <3>1. Current(r)' => Current(r)
      <4>1. NotApplicable(w)
        BY <2>5 DEF PublisherStep, Publish, Begin, ReloadRun, Reopen, Find, Upsert,
                    RequestFails, Remember, Reread, Settle, ErrorRecord, ErrorReread,
                    ErrorSettle, Finish, At
      <4>2. \/ UNCHANGED runs
            \/ \E v : TransitionRun(r, v, PublishesAs("NOT_APPLICABLE"), clock)
        BY <4>1 DEF NotApplicable, LastTransition, store, vars
      <4>3. ASSUME NEW v, TransitionRun(r, v, PublishesAs("NOT_APPLICABLE"), clock)
            PROVE  Current(r)
        BY <1>2, <4>3 DEF TransitionRun, TransitionAllowed, RevisionOpen, Current,
                          PipelineInv, PipelineTypeOK, TypeOK, Partial, VerificationRun
      <4> QED
        BY <4>2, <4>3 DEF Current
    <3> QED
      BY <2>1, <2>2, <3>1
  <2>6. CASE workers[w].pc \in {"publish", "finish"}
    BY <2>3, <2>6
       DEF PublisherStep, Publish, Begin, ReloadRun, Reopen, Find, Upsert, RequestFails,
           Remember, Reread, Settle, ErrorRecord, ErrorReread, ErrorSettle, Finish,
           NotApplicable, At, store, vars
  <2> QED
    BY <1>1, <2>4, <2>5, <2>6 DEF ProcessPc, Publishing
<1>5. Handler(workers[w].pc) = "task_failed"
  BY <1>1 DEF Handler, ProcessPc, ExecutePc
<1>6. ASSUME NEW pc \in After, NEW x,
             \/ Goto(w, pc) \/ Throw(w) \/ Reload(w, pc)
             \/ Set(w, [workers[w] EXCEPT !.pc = pc, !.seen = x])
             \/ Set(w, [workers[w] EXCEPT !.pc = pc, !.check = x])
             \/ Set(w, [workers[w] EXCEPT !.pc = pc, !.error = x])
      PROVE  Flows(w, r)
  <2>1. \E local : /\ local.pc \in After /\ local.run = r
                   /\ workers' = [workers EXCEPT ![w] = local]
    BY <1>2, <1>5, <1>6 DEF Goto, Throw, Reload, Set, Local, After
  <2> QED
    BY <1>3, <1>4, <2>1, LandingFlows
<1>7. ASSUME NEW ok \in BOOLEAN, Respond(w, ok)
      PROVE  Flows(w, r)
  BY <1>3, <1>4, <1>7, AnswerFlows DEF Answered
<1>8. {"task_failed", "begin", "reload", "reopen", "find", "upsert", "remember", "reread",
       "settle", "error_record", "error_reread", "error_settle", "not_applicable"}
        \subseteq After
  BY DEF After, ProcessPc
<1>9. CASE \/ Publish(w) \/ Begin(w) \/ ReloadRun(w) \/ Reread(w) \/ ErrorRecord(w)
           \/ ErrorReread(w) \/ Finish(w) \/ Remember(w)
  BY <1>6, <1>7, <1>8, <1>9 DEF Publish, Begin, ReloadRun, Reread, ErrorRecord, ErrorReread,
                                Finish, Remember
<1>10. CASE Find(w) \/ Upsert(w) \/ RequestFails(w)
  BY <1>6, <1>8, <1>10 DEF Find, Upsert, RequestFails, Errors
<1>11. CASE Reopen(w)
  BY <1>6, <1>8, <1>11 DEF Reopen, Transition
<1>12. CASE Settle(w) \/ ErrorSettle(w) \/ NotApplicable(w)
  BY <1>6, <1>7, <1>8, <1>12 DEF Settle, ErrorSettle, NotApplicable, LastTransition, AnswersOk
<1> QED
  BY <1>9, <1>10, <1>11, <1>12 DEF PublisherStep

(* Every step of a request. *)
LEMMA RequestFlows ==
  ASSUME PipelineInv, RecordsInv, TypeOK', Grows, NEW w \in Worker, NEW r,
         r = workers[w].run, Knows(w), Follows(w), RequestStep(w)
  PROVE  Flows(w, r)
<1>1. CASE WorkflowStep(w)
  <2>1. ~Replay(w)
    BY DEF Replay, At, Follows, FollowsAs, Active
  <2> QED
    BY <1>1, <2>1, EntryFlows, AdvanceFlows, CandidateFlows, PersistFlows DEF WorkflowStep
<1>2. CASE PublisherStep(w)
  BY <1>2, PublisherFlows
<1>3. CASE HandlerStep(w)
  <2>1. /\ Active(w) /\ workers[w].pc \in {"worker_failed", "task_failed"}
        /\ WorkerFailed(w) \/ TaskFailed(w)
    BY <1>3 DEF HandlerStep, WorkerFailed, TaskFailed, FailingRun, At, Active, Follows,
                FollowsAs
  <2>2. Current(r) => Terminal(r)
    BY <2>1 DEF Follows, FollowsAs, ExecutePc
  <2>3. Respond(w, TRUE) /\ UNCHANGED store
    BY <2>1, <2>2 DEF WorkerFailed, TaskFailed, MustFail, Dispatchable, Stored, Current,
                      Terminal
  <2>4. Current(r)' => Terminal(r)'
    BY <2>2, <2>3 DEF Current, Terminal, store, vars
  <2> QED
    BY <2>3, <2>4, AnswerFlows DEF Answered, store, vars, records
<1> QED
  BY <1>1, <1>2, <1>3 DEF RequestStep
-----------------------------------------------------------------------------
(* Requests that wait find their runs as they left them. *)
LEMMA WaitingFollows ==
  ASSUME PipelineInv, NEW w \in Worker, Follows(w), workers'[w] = workers[w],
         Active(w) => /\ Untouched(workers[w].run)
                      /\ workers[w].run \in DOMAIN evidence' =>
                           workers[w].run \in DOMAIN evidence
  PROVE  Follows(w)'
<1> SUFFICES ASSUME Active(w) PROVE Follows(w)'
  BY DEF Follows, Active
<1> DEFINE r == workers[w].run
<1>1. r \in DOMAIN runs /\ RunRules(r) /\ PointerInv
  BY DEF PipelineInv, LocalInv, Active, RunsInv
<1>2. Current(r)' => runs'[r] = runs[r] /\ Current(r)
  BY <1>1, UntouchedFacts DEF Current
<1> HIDE DEF r
<1> QED
  BY <1>2 DEF Follows, FollowsAs, Fresh, Terminal, r, Active

LEMMA RunWaits ==
  ASSUME PointerInv, NEW r \in DOMAIN runs, RunRules(r), Untouched(r),
         r \in DOMAIN evidence' => r \in DOMAIN evidence, Fresh(r) \/ Terminal(r)
  PROVE  Current(r)' => Fresh(r)' \/ Terminal(r)'
<1>1. Current(r)' => runs'[r] = runs[r]
  BY UntouchedFacts
<1> QED
  BY <1>1 DEF Fresh, Terminal

LEMMA FlowKept ==
  ASSUME PipelineInv, NoOverlap, SettledInv, FlowInv,
         [PipelineNext]_allVars, [NoRelabelling]_allVars, NoFault'
  PROVE  FlowInv'
<1> DEFINE Waits(r) == Current(r) => \/ Fresh(r) \/ Terminal(r)
                                     \/ \E w \in Worker : Active(w) /\ workers[w].run = r
<1>1. /\ PipelineTypeOK /\ PointerInv /\ RunsInv /\ RecordsInv /\ Leased
      /\ failures = <<>> /\ \A w \in Worker : Follows(w) /\ Knows(w)
      /\ TypeOK' /\ Grows /\ clock = 0
      /\ workers \in [Worker -> Local] /\ faults \in [FaultKind -> Nat]
      /\ \A r \in DOMAIN tasks : tasks[r] \in Task
  BY PipelineGrows DEF PipelineInv, PipelineTypeOK, SettledInv, FlowInv, RecordsInv, Partial
<1>2. \A r \in DOMAIN runs : Waits(r)
  BY DEF FlowInv
<1>3. \A kind \in FaultKind : ~Fault(kind)
  BY <1>1, FaultsCount DEF NoFault
<1>4. {"crash", "deadline", "exception", "dispatch", "delisting"} = FaultKind
  BY DEF FaultKind
<1>5. Leased'
  <2>1. \A r : ~Deadline(r)
    BY <1>3, <1>4 DEF Deadline
  <2> QED
    BY <1>1, <2>1, LeaseKept
<1>6. ASSUME NEW w \in Worker, RequestStep(w)
      PROVE  FlowInv'
  <2>1. PICK r : r = workers[w].run
    OBVIOUS
  <2>2. Active(w)
    BY <1>1, <1>6, RequestContinues
  <2>3. Flows(w, r)
    BY <1>1, <1>6, <2>1, RequestFlows
  <2>4. OnlyRun(r) /\ \A v \in Worker : v # w => workers'[v] = workers[v]
    <3>1. UniqueInv
      BY DEF SettledInv
    <3>2. Turned(w, r)
      BY <1>1, <1>6, <2>1, <3>1, RequestTurns
    <3>3. ASSUME NEW ok \in BOOLEAN, Respond(w, ok)
          PROVE  \A v \in Worker : v # w => workers'[v] = workers[v]
      BY <1>1, <3>3, RespondFacts DEF Responds
    <3>4. Refused(w) => \A v \in Worker : v # w => workers'[v] = workers[v]
      BY <1>1, RefusedFacts DEF Responds
    <3> QED
      BY <3>2, <3>3, <3>4 DEF Turned, Continues
  <2>5. ASSUME NEW k \in DOMAIN runs, k # r
        PROVE  Untouched(k) /\ (k \in DOMAIN evidence' => k \in DOMAIN evidence)
    BY <2>3, <2>4, <2>5 DEF OnlyRun, Untouched, Flows
  <2>6. ASSUME NEW v \in Worker, v # w PROVE Follows(v)'
    <3>1. Active(v) => workers[v].run \in DOMAIN runs /\ workers[v].run # r
      BY <2>1, <2>2, <2>6 DEF PipelineInv, LocalInv, Active, NoOverlap
    <3> QED
      BY <1>1, <2>4, <2>5, <2>6, <3>1, WaitingFollows
  <2>7. ASSUME NEW k \in DOMAIN runs' PROVE Waits(k)'
    <3>1. k \in DOMAIN runs
      BY <2>4 DEF OnlyRun
    <3>2. CASE k = r
      BY <2>3, <3>2 DEF Flows
    <3>3. CASE k # r /\ (Fresh(k) \/ Terminal(k))
      BY <1>1, <2>5, <3>1, <3>3, RunWaits DEF RunsInv
    <3>4. CASE k # r /\ ~(Fresh(k) \/ Terminal(k))
      <4>1. Current(k)' => Current(k)
        BY <2>4, <3>1, <3>4 DEF OnlyRun, Current
      <4>2. ASSUME NEW v \in Worker, Active(v), workers[v].run = k
            PROVE  Active(v)' /\ workers'[v].run = k
        BY <2>1, <2>4, <3>4, <4>2 DEF Active
      <4> QED
        BY <1>2, <3>1, <3>4, <4>1, <4>2
    <3> QED
      BY <3>2, <3>3, <3>4
  <2> QED
    BY <1>1, <1>5, <2>3, <2>6, <2>7 DEF FlowInv, Flows
<1>7. ASSUME UNCHANGED <<workers, records>>,
             \A r \in DOMAIN runs : Untouched(r),
             \A r \in DOMAIN runs' \ DOMAIN runs : Current(r)' => Fresh(r)'
      PROVE  FlowInv'
  <2>1. UNCHANGED <<evidence, failures>>
    BY <1>7 DEF records
  <2>2. ASSUME NEW v \in Worker PROVE Follows(v)'
    <3>1. Active(v) => workers[v].run \in DOMAIN runs
      BY DEF PipelineInv, LocalInv, Active
    <3> QED
      BY <1>1, <1>7, <2>1, <3>1, WaitingFollows
  <2>3. ASSUME NEW k \in DOMAIN runs' PROVE Waits(k)'
    <3>1. CASE k \notin DOMAIN runs
      BY <1>7, <3>1
    <3>2. CASE k \in DOMAIN runs /\ (Fresh(k) \/ Terminal(k))
      BY <1>1, <1>7, <2>1, <3>2, RunWaits DEF RunsInv
    <3>3. CASE k \in DOMAIN runs /\ ~(Fresh(k) \/ Terminal(k))
      <4>1. Current(k)' => Current(k)
        BY <1>1, <1>7, <3>3, UntouchedFacts DEF RunsInv, Current
      <4> QED
        BY <1>2, <1>7, <3>3, <4>1 DEF Active
    <3> QED
      BY <3>1, <3>2, <3>3
  <2> QED
    BY <1>1, <1>5, <2>1, <2>2, <2>3 DEF FlowInv
<1>8. ASSUME NEW e \in Events, Receive(e)
      PROVE  FlowInv'
  <2>1. /\ \A r \in DOMAIN runs : Untouched(r)
        /\ \A r \in DOMAIN runs' \ DOMAIN runs :
             \E stale \in BOOLEAN : /\ stale => CurrentOf(e) \in RunId
                                    /\ runs'[r] = NewRun(e, 0, stale)
        /\ UNCHANGED <<workers, records>>
    <3>1. UNCHANGED allVars => UNCHANGED runs
      BY DEF allVars, store, vars
    <3>2. NoRelabelling
      BY <3>1 DEF NoRelabelling
    <3> QED
      BY <1>1, <1>8, <3>2, Accepted DEF Receive
  <2>2. ASSUME NEW r \in DOMAIN runs' \ DOMAIN runs PROVE Current(r)' => Fresh(r)'
    <3>1. r \notin DOMAIN evidence'
      BY <1>1, <2>1 DEF RecordsInv, Documented, records
    <3>2. PICK stale \in BOOLEAN : /\ stale => CurrentOf(e) \in RunId
                                   /\ runs'[r] = NewRun(e, 0, stale)
      BY <2>1
    <3> QED
      BY <3>1, <3>2, NewRunRecord DEF Fresh, Current
  <2> QED
    BY <1>7, <2>1, <2>2
<1>9. ASSUME NEW r \in RunId, Dispatch(r)
      PROVE  FlowInv'
  BY <1>7, <1>9 DEF Dispatch, store, vars, Untouched
<1>10. ASSUME NEW r \in RunId, NEW w \in Worker, Deliver(r, w)
       PROVE  FlowInv'
  <2>1. /\ UNCHANGED <<runs, evidence, failures>> /\ ~Active(w)
        /\ r \in DOMAIN tasks /\ tasks[r].state = "queued"
        /\ workers'[w].pc = "process" /\ workers'[w].run = r
        /\ \A v \in Worker : v # w => workers'[v] = workers[v]
    BY <1>1, <1>10 DEF Deliver, Active, Idle, store, vars, records
  <2>2. r \in DOMAIN runs /\ (Current(r) => Fresh(r) \/ Terminal(r))
    <3>1. r \in DOMAIN runs
      BY <2>1 DEF PipelineInv, TasksInv
    <3>2. \A v \in Worker : ~(Active(v) /\ workers[v].run = r)
      BY <1>1, <2>1 DEF Leased, Holds
    <3> QED
      BY <1>2, <3>1, <3>2
  <2>3. Follows(w)'
    <3>1. "process" \notin Unsaved \cup Following \cup ExecutePc
      BY DEF Unsaved, Following, ExecutePc
    <3> QED
      BY <2>1, <2>2, <3>1 DEF Follows, FollowsAs, Reached, Fresh, Current, Terminal
  <2>4. ASSUME NEW v \in Worker, v # w PROVE Follows(v)'
    BY <1>1, <2>1, <2>4 DEF Follows, FollowsAs, Reached, Fresh, Current, Terminal, Active
  <2>5. ASSUME NEW k \in DOMAIN runs PROVE Waits(k)'
    <3>1. ASSUME NEW v \in Worker, Active(v), workers[v].run = k
          PROVE  Active(v)' /\ workers'[v].run = k
      BY <2>1, <3>1 DEF Active
    <3> QED
      BY <1>2, <2>1, <3>1 DEF Current, Fresh, Terminal
  <2> QED
    BY <1>1, <1>5, <2>1, <2>3, <2>4, <2>5 DEF FlowInv
<1>11. CASE UNCHANGED allVars
  BY <1>7, <1>11 DEF allVars, store, vars, pipeline, Untouched
<1> QED
  <2>1. ~Failure
    BY <1>3, <1>4 DEF Failure, DispatchLost, Deadline, Crash, Raise, Refused
  <2> QED
    BY <1>6, <1>8, <1>9, <1>10, <1>11, <2>1 DEF PipelineNext

(* "reuse the current occurrence": while no request dies, no deadline      *)
(* passes and nothing raises, no run is failed, whatever newer heads       *)
(* supersede the runs being verified (execute, run, verify_task).  Every   *)
(* transition a request asks for is one its run allows, because the run is *)
(* where the request left it.  An event that relabels a run breaks this.   *)
THEOREM NothingFailsAlone ==
  PipelineSpec /\ [][NoRelabelling]_allVars => []NoFailureWithoutFault
<1> DEFINE Inv == NoFault => SettledInv /\ FlowInv
<1>1. PipelineInit => Inv
  <2>1. PipelineInit => Leased
    BY IdleLocal DEF PipelineInit, Leased, Active
  <2>2. PipelineInit => FlowInv
    <3> SUFFICES ASSUME PipelineInit PROVE FlowInv
      OBVIOUS
    <3>1. \A w \in Worker : ~Active(w)
      BY IdleLocal DEF PipelineInit, Active
    <3>2. failures = <<>> /\ DOMAIN runs = {}
      BY DEF PipelineInit, Init
    <3> QED
      BY <2>1, <3>1, <3>2 DEF FlowInv, Follows
  <2> QED
    BY <2>2, SettledStarts
<1>2. PipelineInv /\ Inv /\ [PipelineNext]_allVars /\ [NoRelabelling]_allVars => Inv'
  <2> SUFFICES ASSUME PipelineInv, Inv, [PipelineNext]_allVars, [NoRelabelling]_allVars,
                      NoFault'
               PROVE  SettledInv' /\ FlowInv'
    OBVIOUS
  <2>1. NoFault
    BY FaultsFall DEF NoFault
  <2>2. SettledInv /\ FlowInv
    BY <2>1
  <2>3. NoOverlap
    BY <2>2 DEF FlowInv, Leased, NoOverlap, Holds
  <2> QED
    BY <2>2, <2>3, SettledKept, FlowKept
<1>3. Inv => NoFailureWithoutFault
  BY DEF FlowInv, NoFault, NoFailureWithoutFault
<1> HIDE DEF Inv
<1> QED
  BY <1>1, <1>2, <1>3, PipelineInvariant, PTL DEF PipelineSpec
=============================================================================
