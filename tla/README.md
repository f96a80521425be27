# PatchProof: a TLA+ verification project

PatchProof verifies one behavioural claim of a pull request: it generates a
pytest candidate, executes the same bytes on BASE and HEAD, and publishes what
the difference shows. This directory holds TLA+ models of the service
(`src/patchproof`), TLC configurations that check them on small instances, and
proofs that TLAPS checks for every size.
Line references are to the repository at the modelled commit.

## 1. Inventory

| Component | State it keeps | Operations | Interacts with | What makes it correct |
|---|---|---|---|---|
| Run lifecycle rules (`workflow.py`) | none; a run's dimensions | `apply_run_transition`, `validate_dimensions` | called in every store transaction | a superseded or finished run never reopens; outcomes are final |
| Run store (`storage.py`, `firestore_store.py`) | runs, deliveries, pointer documents, evidence, publications, failures | `accept_pull_request`, `transition_run`, `save_evidence`, `begin_publication`, `set_check_run_id`, `record_publication_error`, `fail_run` | shared by intake, workers, publisher, console | one current run per pull request, the newest; records written once; both adapters agree |
| Intake (`control_plane.py`, `cloud_control.py`) | none | webhook, `POST /analyze` | store, then queue | a run is dispatched at most once, by its own id |
| Queue (`cloud_tasks.py`; Cloud Tasks) | tasks, leases | create, deliver, redeliver, drop | task route | external |
| Task processor (`cloud_control.py`) | none between requests | `verify_task`, `process`, `_finish_without_github_check` | worker, publisher | what is acknowledged is finished |
| Worker boundary (`reliable_worker.py`) | none | `run`, `classify` | workflow, store | an exception leaves a durable failure |
| Evidence workflow (`evidence_workflow.py`) | local run, attempts, challenge, evaluations | `execute`, `_persist_terminal`, reports, semantic gate | store, models, executor | a verdict rests on the executed pair; the report is stored before the run completes |
| Candidate generator (`test_generation.py`) | attempts, call and repair counters | `generate_initial`, `repair`, validator | provider | bounded attempts; repairs differ |
| Provider retry (`model_reliability.py`) | attempt counter of one call | `invoke`, `assess` | provider | at most one retry, transient failures only |
| Classifier (`evidence.py`) | none | `classify` | executor's results | discriminating only for an assertion failure against a pass, same bytes |
| Check publisher (`github_checks.py`) | token cache | `publish`, `upsert_completed` | store, GitHub | one check per run, showing the stored evidence; retried until settled |
| Challenge session, worktrees, executor service (`challenge.py`, `git_workspace.py`, `cloud_executor.py`) | worktree pair, installed environments | `session`, `prepare_environment`, `run`, cleanup | pytest runner, git | the same bytes run on both sides; one candidate never sees another's file; workspaces are removed or their remains reported |
| Pytest runner and processes (`pytest_runner.py`, `execution_runtime.py`, `execution_contract.py`) | a child process and its output | collect, execute, interpret JUnit | operating system | a discriminating status only for one test of unchanged bytes; every wait has a limit |
| Claim selection (`claim_agent.py`, `claim_investigator.py`, `claim_investigation.py`, `investigation_*`, `reasoning_budget.py`) | transcript, tool budgets | tool calls, final selection | provider, repository index | budgets hold; the interface of a claim exists on both revisions |
| Repository context (`context_retrieval.py`, `repository_index.py`) | an index per revision | index, compare, query; retrieval from Git objects | claim selection, generation | bounded; what is left out is not taken for absent |
| Install planning (`install_strategy.py`, `product_preparation.py`, `readiness_preflight.py`) | none | probe, synthesize, compare | executor | BASE and HEAD get equivalent plans or none |
| Evidence console (`dashboard.py`), clients (`cli.py`, `pr_analyze.py`, `cloud_client.py`) | none; a poll loop | project, poll | store, service | shows the stored run |
| Evaluation harnesses (`hard_mode.py`, `benchmark.py`, `benchmarks/`, `tools/run_fresh_eval_v1.py`) | public document, journal, raw and scored results on disk | PREPARE, RUN, SCORE; gate, live run | challenge session, models, file system | a case is inferred once; what is scored is one whole run |

Hard behaviours: webhook deliveries are duplicated, late and reordered; the
queue redelivers a task while its first request still runs; an instance may die
between any two store calls; an answer of GitHub may be lost after it took
effect; newer heads arrive while work goes on; timestamps are read before the
transaction that stores them; several counters bound the same loop; a test may
hang, rewrite its own file or leave processes behind; an index over its budget
looks like a repository without the rest; processes of an evaluation share only
files, and may stop between two of them. The full
list, each at its line, is `hazards` in `PROJECT.json`.

## 2. Modules

| Module | Models | Uses |
|---|---|---|
| `Verdict` | statuses, `classify`, `_candidate_environment_failure`, `_validate_semantic_decision`, as operators | |
| `Workflow` | a stored run, `validate_dimensions`, the transition tables and `apply_run_transition` | `Verdict` |
| `NewestHead` | abstract specification: a register with the newest head of each pull request | |
| `RunStore` | the store, one action per transaction | `Workflow`, implements `NewestHead` |
| `TaskPipeline` | intake, queue, requests of the task route, GitHub's checks | composes with `RunStore` |
| `EvidenceLoop` | the candidate loop of one `execute`, with provider retries | `Verdict` |
| `Planning` | install probing, templates, contracts and the plan both revisions share, as operators | |
| `ChallengeSession` | a session over a worktree pair: readiness, candidates, processes, cleanup; local and by the executor service | `Planning`, `Verdict` |
| `RepositoryIndex` | the bounded index of a revision, comparison of two, the tools' queries, as operators | |
| `ClaimInvestigation` | indexing, starting context, tool turns and budgets, admission of the interface concluded with | `RepositoryIndex` |
| `LiveCase` | the inference of one evaluation case, every way it can end | `Verdict` |
| `Evaluation` | PREPARE, RUN and SCORE of the sealed evaluation as processes over shared files | `LiveCase` |
| `RunStoreProofs`, `TaskPipelineProofs`, `EvidenceLoopProofs`, `ChallengeSessionProofs`, `ClaimInvestigationProofs`, `EvaluationProofs` | theorems about the module each is named for | `TLAPS` |
| `SoleRequestProofs` | theorems about `TaskPipeline` when requests do not overlap and no event relabels a run | `TaskPipelineProofs` |
| `*MC` | small instances | |

Definitions with the comment `variant` are plausible mistakes in the definition
after them. No specification uses them; substituting one shows that the
property named in `mutants` notices.

### RunStore

`runs`, `deliveries`, `evidence`, `publications` and `failures` are the tables
of `storage.py` (collections of `firestore_store.py`), partial functions whose
domain is the set of existing rows. `current` and `revisions` are Firestore's
pointer documents; SQLite's queries are the operators `CurrentRuns` and
`LatestOfRevision`. That the two agree is a property
(`PointersAgree`), which is what makes one
model stand for both adapters. `accept_pull_request` is split by its outcome
into `AcceptDuplicateDelivery`, `AcceptDuplicateRevision`, `AcceptStale` and
`AcceptNew`, whose guards are disjoint. A call that raises changes nothing and
is an action that is not enabled. The timestamp of a call is any clock reading
up to the present one, because both adapters read the clock before the
transaction starts. Title, body, labels and JSON text are left out.

### TaskPipeline

A worker is one request of `POST /tasks/verify`; its program counter names the
next store or remote call, and everything between two such calls is one step.
`process`, `execute`, `_persist_terminal`, `publish`, `upsert_completed`,
`_finish_without_github_check`, both exception handlers and `fail_run` are
followed call by call, with the run each of them read (`seen`), because the
stale reads are the point. `Raise` lets any call fail; `Crash` kills the
request; `Deadline` makes the queue give up on a request that goes on;
`Refused` is the allowlist check of `process`, which raises for a run whose
repository a later deployment no longer lists and is answered 200 without a
recorded failure (`refused` in a task remembers that). The
queue and GitHub are external and modelled from how the code uses them. What
models and executor return is a choice here, refined in `EvidenceLoop`. Reports
of two requests differ (`by`), as their timestamps and token counts do. The
clock stands still in this composition; the effects of time are `RunStore`'s.

### EvidenceLoop

The variables are the locals of `execute` (`attempts`, `challenge`,
`evaluations`, `report`) and the counters of the generator and the provider
wrapper. A source is a model value; `Valid` says what the AST validator accepts
and `Fingerprint` gives the behaviour fingerprint it computes. `Outcomes` are
the results a challenge can have, `Decisions` what the assessor answers.

### Planning and ChallengeSession

A revision is what it commits that planning looks at: a lock file, `setup.py`,
the kind of `pyproject.toml`, its dependency groups and extras, requirements
files, a contract. `Probe` selects the install commands, `ResolveForPair` and
`ResolvePlan` compare both sides; a command is its tokens. `Probe` is `Raised`
for an oversized `pyproject.toml` that it has to read, and a session then ends
with the error `planning` before it has a pair. A revision with more than 20,000
committed paths, for which listing them raises likewise, is left out.

A session's state is the pair's directory and worktrees, the files under the
candidates' paths, what is installed, the results of the two sides and what is
raised. One operation (readiness or a candidate) goes through install,
injection, hash, process, interpretation, hash and removal for BASE and then for
HEAD. `Exit` lets the process end with any of `Reports`, `Timeout` is the
runner's limit, `KillFails` the case in which killing raises, and `Tamper` is a
test, or a process it left, that writes or deletes a file at any path of a
candidate, the removed one of an earlier candidate included. `InjectFails`
creates no file or a half-written one, which the early return leaves. Cleanup follows
`create_pair`: each worktree, then the directory, with failures collected and
reported only when no other exception is active. `mode = "remote"` makes a pair
and a runner for every request, as the executor service does. `ran`, `strays` (the
files of a failed removal or write, and those that a test or process made) and
`installs` are history. The probe of import roots and output limits are left
out.

The session differs from its documents in small ways that need no run: a
candidate that does not parse is left in the worktree (`pytest_runner.py:333`),
which only callers that skip the validator can meet; when a test ends normally
its descendants are not killed; an exception in cleanup replaces the result of
a candidate that already ran; the executor installs again for every request,
although `evidence_workflow.py:396` says that a session installs once.

### RepositoryIndex and ClaimInvestigation

A file defines one symbol and a blob keeps what the index extracts of it: size,
whether it decodes and parses, the hash of the symbol's source, references,
hints for tests. A list is the set of what is on it and the order it stands in, and
`Leading` keeps the first `n`, as a slice does; so budgets cut files, bytes, symbols
and references in path order. What the code does in a loop over a queue is a
recursive function: `Taken` for the dealing of slots between kinds of symbols,
`Reached` for the search outwards from the changed files. The investigation indexes
BASE, then HEAD, plans the starting context, and then alternates model turns and
tool calls; the model's decisions are choices. `Normalize` and `AdmitDiscovered` are the mechanical checks of the
interface a conclusion names. Import budgets (`max_imports`) and the budgets of
source characters are not modelled, nor is the text shown to the model.

Every result and every rejection carries the transcript. `Transcribed` is its
schema: when it has more records than `TranscriptLimit`, a `ValidationError`
that nothing catches takes the place of the outcome (`transcript_error`). The
final turn after a spent budget is a turn like the others, so that `turns` may
reach `max_turns + 1`.

### LiveCase and Evaluation

The files of the artifact directory are variables, and a document stands for
its hash. `_atomic_write` is three steps: `OpenTemp` creates or empties the
temporary file of the target (`temp`), `Fill` writes it, `Replace` puts it in
the target's place. Its name is the same for every writer of that target, so
that a second process may empty it, overlap its bytes (`Mixed`) or move it away
under the first one's hands: `handle` says whether what a process has open is
still the temporary file, is the target by now, or is replaced too
(`ReplaceFails` is the process that finds nothing to move). A write can fail
(`WriteFails`). PREPARE and SCORE write so. RUN does too, but past the exclusive
creation of its journal, where it is alone with its files: its writes, like an
append to the journal, are one step each, and a journal cut in the middle of an
append is left out.

A member of `Preparers`, `Runners` or `Scorers` is a place for a process, which
may be started again whenever its last process ended; `phase` holds what that
process has in memory. A place may be in both `Runners` and `Scorers`: the two
phases begin with the same reads and part when one creates the journal or the other
finds complete results. Nothing is gained by deciding late. The checks at the
start look for files that, once there, stay: whoever still creates the journal
saw none at his start, and whoever began before there was a journal saw no scores. `Stops` ends it between any two file operations: killed,
an I/O error, or a check of its own that refuses (frozen source, integrity,
blindness, exclusions, provider, paths). The check for existing files and the
read that follows it are one step: nothing the second depends on can change the
first. `EditManifest` is the operator replacing sealed files at any moment.
PREPARE derives the cases from one read of the manifest (`LoadManifest`) and
records the hash of another (`HashManifest`); SCORE compares the hash of one
read (`CheckManifest`) and takes the labels from another (`ReadLabels`). A case
in hand moves through `LiveCase`: readiness, claim, candidates with repairs,
assessment; `CaseRaises` is the harness's catch-all. `ran` and `inferred` are
history. Of the summary only the counts that partition the cases are kept.

What the model shows beyond its properties: PREPARE looks for the journal only
at its start, so one that was started before RUN can still replace the metadata
afterwards. The hash comparison keeps SCORE from pairing results with another
document, but a manifest that differs only in hidden labels gives the same
document, and SCORE would then use the labels of the later preparation. The two
reads of PREPARE and of SCORE have the same effect within one process: a
manifest replaced between them leaves a recorded hash, or labels, of another
manifest than the one checked. Two SCOREs at a time can leave scored results
and a summary that are cut or mixed: `ScoresAreWhole` fails for them, and no
document says that they may be run so. SCORE
writes two files; stopped between them it leaves results without a summary,
and is refused ever after. The live run of `hard_mode.py` (line 1178) checks
for its journal and then opens it for appending, so that two of them started
together both run, unlike the exclusive creation here; its budget preflight
counts no retries when the manifest declares none (line 167), although the
models are always wrapped in the retrying adapter; and the holdout contract
requires two candidate calls (`benchmarks/holdout/orchestration.py`) where the
preflight requires three. In contrast to the product's loop, `LiveCase` repairs
a candidate whose environment setup failed.

## 3. Runs

`CHECK_DEADLOCK FALSE` is set everywhere: a service without new events, a
queue that is empty and a workflow that returned its report really stop.

| Run | Instance | Shows |
|---|---|---|
| `store_accept` | 1 pull request, 2 revisions, 4 deliveries, 3 event timestamps, 4 runs that are queued, completed, failed and published, Firestore | types, pointer agreement, newest current run, well-founded supersession, outcomes kept, superseded runs stay as they are, `NewestHead` implemented |
| `store_records` | 1 run, all transitions the code requests, 2 documents, payloads and check ids, 2 attempts, clock 0..1, SQLite | records are written once; the current run can be read back |
| `task_overlap` | 1 run, 2 requests, 3 deliveries, one missed deadline, one exception | verdict and evidence agree, checks show stored evidence, one request, ever, goes on to models and tests, acknowledged means terminal |
| `task_restart` | 1 run, 1 request at a time, 3 crashes, a deadline, a lost dispatch, a repository that leaves the allowlist, 2 candidates; fairness | at most one check, publication settled when acknowledged, dispatched runs end unless refused |
| `task_supersede` | 2 runs, a newer head at any point, 3 candidates | nothing fails without a fault |
| `task_relabel`, `task_reconcile` | as above with a relabelling event, a crash | *violated*: see below |
| `evidence_loop` | 3 model calls, 4 sources (two of the same behaviour, one invalid), 7 kinds of result, all decisions, 2 tries | verdict grounded, reports valid, attempts and evaluations accounted for, budgets |
| `challenge_session` | planning: 15 x 15 repositories; sessions: one plan, 2 candidates of 3 (one unparsable, one at a path BASE has), 4 kinds of report, one file that is left, half written, made or changed; fairness | plans shared and raising only for an oversized manifest, nothing left silently, installed once, discriminating means comparable, attempts isolated, sessions end |
| `investigation` | 14 revision pairs of up to 5 files, 12 tool calls, 2 turns, 2 calls, budgets that truncate | interface on both revisions and grounded, budgets, no kind of change crowded out |
| `investigation_absence` | the same | *violated*: see below |
| `evaluation` | 2 manifests of 1 and 2 cases with another label for the case they share, one replacement, 1 PREPARE place and 2 that run RUN or SCORE, one process stopped or write failing, 2 candidates per case | types; a case is inferred once; journal and results agree at every stop; what can be read of the scores is one whole run; supports are earned |

Bounds. Two revisions and three timestamps give every order of older, equal and
newer events against a run that is current, superseded or relabelled; four
deliveries are needed for a duplicate of a run that is no longer current. Three
deliveries of a task let it fail, be retried and be dropped. Two requests are
what the queue can have in flight through one missed deadline. `MaxVersion` and
`MaxAttempts` only cut the relabelling and retry loops. Symmetry is used where
run, delivery, revision, worker and check identifiers are interchangeable, never
in the runs with a liveness property. In `challenge_session` plans are made for
all pairs but sessions followed for one of them (`Explored`): contracts differ
in the commands they run, not in how a session can go. `MaxStrays`,
the number of files a pair may have left, made or changed beside those of the
candidate at work (committed ones that a process changed count too), and
`MaxCandidates` let one meet a later candidate on either side.
The investigation's budgets are so small that each of them truncates some of
the 14 pairs and none truncates all. Of the evaluation, one PREPARE place is
enough for preparations that come one after the other, since places are reused
without limit; the other two places let two RUNs race for the journal, two SCOREs
share their temporary files, and a SCORE meet a RUN. One replacement of the
manifest (`MaxEdits`) gives a preparation before and one after it, and falls between
any two reads of it; one stop (`MaxStops`, which counts killed processes and failed
writes) is a process cut off that later ones meet the remains of. Two cases are
the least that have a pause and an order, one candidate more than the first is the
least that has a repair.

Crashes are left to the restart run: after the deadline a request that takes no
further step is, for `ExecutedOnce`, one that died while the task was delivered again.

The overlap run has no relabelling event and the restart run no second request
and no exception, because the properties they check fail in those cases: that
is what the violated runs, and the windows below, are about. `OneCheckPerRun`
and `PublicationSettled` thus say nothing of overlapping requests, nor of a
publication met by an exception or a relabelling event. `evidence_loop` counts the
selection of a claim as one logical call; the turns of the investigator behind
it are bounded in `investigation`.

Fairness (`FairPipelineSpec`): weak fairness of each request's next step (Cloud
Run serves a request it has started; every call has a timeout), of each pending
dispatch and of each delivery (the queue keeps delivering a task it holds).
Events, crashes, deadlines and exceptions are never required, and their number
is bounded, since a service that crashes for ever terminates nothing.
`challenge_session` assumes weak fairness of the program's own steps (`Step`):
each of its waits has a limit. A test's exit is not assumed; the deadline ends
it. `investigation` and `evaluation` check safety only: the first ends by the
bounds of `BudgetsHold`, the second may be stopped for ever.

### Disagreements between code and documents

Each of the three has a violated run and an entry in `findings`.

- `task_relabel`: a duplicate event is documented to "reuse the current
  occurrence". With a newer timestamp it increments the version of the run, and
  the request verifying that run fails its next transition and marks it FAILED.
- `task_reconcile`: after a crash between `save_evidence` and the terminal
  transition, the documents promise that executing again reconciles the run.
  `process` never reaches that code when evidence exists: it publishes, which
  raises, and the run is recorded as FAILED. Without an installation id it
  finishes silently and the run stays RUNNING.
- `investigation_absence`: the coverage of an index is documented so that
  absence from a truncated index never rejects a claim. `_admit_discovered`
  rejects every interface that the starting context lists as new on HEAD: one
  whose file is over the size limit on BASE only is rejected although both
  revisions have it.
Other differences met while modelling have no run of their own. The first
five are in the models, and the properties of the passing runs state what the code
does instead:

- "Execute at most `max_turns` model turns" (`claim_investigator.py:337`): when the
  last turn asks for tools, the final turn (lines 399-416) is one more, so
  `BudgetsHold` says `turns <= MaxTurns + 1`.
- "Running out of budget must produce a conservative decision, never a failed run"
  (`claim_investigator.py:401-402`). Refused calls are recorded too, and a
  transcript holds 16 records (line 278), as many as the highest `max_total_calls`
  that `ToolBudget` accepts (`investigation_toolbox.py:94`). With 14 to 16 of them a
  decision that asks for more than is left can lose the outcome to a
  `ValidationError`; with the default of 8 it cannot. `BudgetsHold` says when
  (`transcript_error`), and the instance has the two limits equal.
- "Each artifact is written to a distinct path with exclusive creation [...] and
  removed again afterwards, so no attempt can observe or collect another attempt's
  file" (`challenge.py:37-39`). When the write fails after `open("xb")` has created
  the file, the runner returns (`pytest_runner.py:321-330`) before the `try` whose
  `finally` removes it: a half-written file lies beside the next candidate.
  `AttemptsIsolated` excepts it by name (`strays`).
- "A malformed or oversized manifest is treated as absent rather than fatal"
  (`install_strategy.py:289-290`). The reader raises `ContextRetrievalError` for an
  oversized one (`context_retrieval.py:879-882`), which neither the `except` clause
  around line 288 nor the one of `product_preparation.py:179` names: planning raises.
  `PlanIsShared` says for which revisions it does.
- "Environment or provider-invalid runs are not negative abstentions and must be
  reported separately" (`benchmarks/fresh_eval_v1/README.md:59-60`).
  `_invalid_classification` knows ENVIRONMENT_NOT_READY only
  (`run_fresh_eval_v1.py:606-626`): a control that was ready and whose candidates all
  failed for their environment is scored EXPECTED_ABSTENTION, and a positive
  MISSED_POSITIVE. `SupportIsEarned` claims separation only for what the code
  separates: no outcome, and an environment that never became ready.

- A run that `process` refuses for the allowlist is acknowledged and stays open.
  The comment at `cloud_control.py:732` says of the exceptions answered so that
  they "are already represented durably or cannot become valid by retrying"; this
  one is not represented, and a retry after a new deployment would be valid. A
  `PermissionError` of the file system inside `process` is caught by the same
  clause; it is not modelled, and `AcknowledgedIsTerminal` does not speak of it.
- The Firestore adapter promises "the same semantics as the local SQLite
  adapter" (`firestore_store.py:43`), but stores a relabelled run without
  validating it, with a timestamp read before the transaction: `CurrentReadable`
  fails with `Backend = "firestore"`. In SQLite a superseded row, too, can be
  stored with `updated_at < created_at`.
- `upsert_completed` promises to create a check "exactly once"
  (`github_checks.py:282`); two overlapping requests can both list nothing and
  both create one, so `OneCheckPerRun` is checked with one request at a time.
- "All three bounded candidate attempts failed deterministic validation."
  (`evidence_workflow.py:516`) is also reported when an earlier attempt was
  executed and only the last one rejected.
- A run superseded between the publisher's check of `revision_state` and its
  request still gets a check; a relabelling event inside the publisher's
  `except` clause turns a retryable failure into an acknowledged one.
- A reformatted copy of an executed candidate is executed again when a
  byte-identical repair was rejected in between, because the fingerprint is
  compared with the last attempt only.

## 4. Proofs

All theorems hold for every value of the constants that satisfies the named
assumptions; `tlapm` checks them to the last leaf. Most of them type
the constants and keep `None` out of the sets it stands beside
(`NoneAssumption`, `PipelineAssumption`, `LoopAssumption`, `SessionAssumption`,
`LiveCaseAssumption`). Those that say more: `StoreAssumption`, that the transitions a
caller may request never ask for `FAILED`, which only `fail_run` writes;
`DocumentAssumption`, that the pipeline's own transitions are among those
requests and that a formatted check is a payload; `EvaluationAssumption`, that a
document lists each case once, which `validate_unique_cases` enforces before
anything runs; `IndexAssumption`, that budgets and blob sizes are numbers and each path is
listed once; `InvestigationAssumption`, that no tool's share exceeds the total
and that the total fits the transcript's schema, as every `ToolBudget` that its
constructor accepts does. TLC evaluates each of them on the instances.

`RunStoreProofs`. The invariants about current and superseded runs are not
inductive one by one: `CurrentIsNewest` needs that the pointer names the only
current run, relabelling a superseded run needs that it is not newer than the
current one, and agreement of the revision pointer with the `ORDER BY` query
needs that a newer run of a revision is strictly newer in its event timestamp.
`PointerInv` is the conjunction of `TypeOK`, `CurrentInv` (pointer and current
run), `NewestInv` (timestamps), `RevisionInv` (revision pointers),
`SupersededInv` (superseded runs name their successor) and
`SupersessionWellFounded`. Steps are sorted once by what they do to the runs
(lemma `StepKinds`: quiet, relabel, stale, new), with one lemma per kind. From
`PointerInvariant` follow `CurrentPointer`, `RevisionPointer` and their conjunction
`BackendsAgree`, `CurrentNewest`,
`SupersessionForest` and `NewestHeadRefinement` (initial states map to initial
states, every step to a step of the register or a stutter). What a step may do
to one run (lemmas `RunChanges`, `RunChangeLimits`) gives the action properties
`OutcomesAreWrittenOnce`, `SupersessionIsFinal`, `VersionCountsChanges`.
`VersionCountsChanges` and `FailuresAreRecorded` are proved only, like
`ScoresStayWhole` below: no run repeats them. `FailuresAreRecorded`, `RecordsAreWrittenOnce` and, for SQLite only,
`SqliteCurrentReadable` are proved on the same basis.

`EvidenceLoopProofs`. `ClassifierSound` covers all pairs of execution statuses:
a pair is called discriminating exactly when both sides declare and keep the
artifact, one passes and the other fails an assertion. `VerdictInv` adds to the
two report properties where in the loop a challenge is present and
discriminating: before execution there is none, at the assessor it
discriminates, and at the end of a turn it does not. From it follow
`VerdictsAreGrounded` and `ReportsAreValid`, whatever models answer.
`BudgetInv` relates the counters to the number of attempts and gives
`CandidatesAreBounded`. `CandidatesAreAccounted` needs two more parts: what was
spent when a turn began (`SpentInv`), and that the evaluations stored so far are
those of the executed candidates in their order, the challenge in hand being the
last one's (`EvaluationsInv`). `LoopTypeCorrect` adds the bound on provider
attempts, which is a count over turns and not a type.

`TaskPipelineProofs`. `PipelineInv` says for each program counter of a request
what it knows of the stored records. Such knowledge is only sound if no other
request or webhook can take it away, so it is phrased in what the store never
takes back: a stored document, evidence or failure record stays, a terminal
reason stays, a superseded run stays superseded. `PipelineUsesStore` shows that
every step of a request, of its failure or of the queue is a step of `RunStore` or
leaves the store alone, which carries all theorems about the store over to the
service. `CompletionIsEvidenced`, `ChecksAreFaithful` and `PublicationIsRemote`
hold with any number of overlapping requests. So does `ExecutesOnce`: a request gets
past `CLAIM` only in the step that takes the run out of its first phase, and phases
never go back, so that neither a second request at the same time nor one after a crash
starts models and tests again. `AcknowledgementIsFinal` has the two exceptions
that its property names: a run refused for the allowlist, and a run of the
product API, without an installation, whose evidence is stored already.

`SoleRequestProofs`. Three properties hold only under conditions that the queue or
GitHub does not always meet, and the theorems state them:

- `NoOverlap`: no two active requests have the same run. `RequestsAlone` says when
  that is so: with one place to serve requests, or when no request outlasts the
  deadline of the queue (its lease then lasts until it responds, `Leased`). Run
  `task_overlap` has requests that do overlap.
- `NoRelabelling`: no step gives a stored run another timestamp. An event that
  names the revision of a run with a newer one changes its version under the
  request that works on it (run `task_relabel`). Events that are no newer, and
  those that bring a pull request back to an earlier revision, are not excluded.
- no exception but the two publication errors: any other is answered 200 when the
  run is already terminal, so its publication is never retried (section 3).

`OneCheckEach` assumes `NoOverlap` in every state and gives `OneCheckPerRun`: the
listing that found no check is still true when the request posts one, because
nobody else could have created it (`UniqueInv`), and a check whose answer was lost
is found by its `external_id` the next time.

`PublicationIsSettled` assumes all three and gives `PublicationSettled`.
`SettledInv` adds to `UniqueInv` what every stored record satisfies (`RecordsInv`),
what a request knows of its run's evidence and publication at each point
(`Knows`), and that an acknowledged task has no request left and nothing to settle
(`AnsweredInv`). An event then leaves a run as it is or supersedes it
(`Untouched`), and only current runs need a check. `RestartsAreHarmless` puts the
other two conditions in terms of the constants.

`NothingFailsAlone` needs `NoRelabelling` only: while no fault has occurred, no
deadline has passed and requests do not overlap. `FlowInv` says that a current run is
untouched, terminal or in the hands of a request (`Fresh`), and where each point of
`execute` has brought it (`Reached`, `Follows`). Every transition a request asks for is
then one its run allows, also when a newer head supersedes the run in between.

`ChallengeSessionProofs`. `SessionInv` gives each point of a session what the
runner remembers of its worktrees, what is on disk in them and what is known of
the result in hand. Its core is `SideInv`: as long as the injected file still
has the candidate's bytes, those are the bytes the process read, because what a
test rewrites is never put back; so equal digests before and after the run do
mean that the candidate was run (`DiscriminationIsComparable`), on both sides and
also when processes of earlier candidates are still alive. `InstallInv` says at
every point from which an installation can still start that none was made
(`InstallsOnce`). `FilesInv` lets a candidate's file exist only between its
creation and its removal, or among `strays`, where a failed removal or write, a test
or a process has left it (`AttemptsAreIsolated`). `PairInv` ties the directories to
the error (`NothingIsLeftSilently`). `PlansAreShared` is a lemma about the planning
operators for all pairs of revisions (`PlanOfPair`), which says also when planning raises, with the validation of
`InstallPlan` proved of everything `probe` can return (`ProbeIsValid`). Four actions
hand a result on through the same code (`Gives`); lemmas `GivesKeepsResults` and
`GivesKeeps` are proved once for all four.

`ClaimInvestigationProofs`. `InvestigationInv` has four parts. `IndexInv`: whatever the
budgets cut, an entry of an index is what the revision has (`IndexIsFaithful`), so
absence is the only thing an index can get wrong. `ContextInv`: the starting context
is a cut of what the comparison of the two indexes selects. `ClaimInv`: a conclusion
went through `Normalize` and `AdmitDiscovered`. `TurnInv`: calls, turns and transcript
count the same records. `InvestigationIsBounded` follows from the last part (the number
of turns is `max_turns + 1` at most, and an outcome is lost to its transcript only after
a decision asked for more calls than were left),
`ClaimsAreGrounded` from the first three, with the relevance of every selected symbol
proved by induction over the hops of the search (`RelevantLeadsToChange`, by the
least counterexample of `LeastNumber`). `KindsAreBalanced` is a fact about the
dealing order: a symbol left out was behind every one its group kept
(`KeptDownward`), and no other group kept one that stands further back in its own
(`KindsShareResults`). That the recursive functions are what their equations say is
`Iteration`, the existence of a function defined step by step on the numbers.

`EvaluationProofs`. The journal is created exclusively, so one RUN at most gets
past it: `RunInv` says that at most one process is there and that only it adds
results, `InferredInv` and `JournalInv` relate the case in hand to what is
written, and `PlaceInv` says what each process and each file holds, also after
the process has stopped. `LiveInv` covers the inference of one case and every way
it ends. `FilesInv` says of every file and temporary file that it is spoilt or what
one process wrote as a whole, which holds however many of them share it; with the lemma
`CountedOnce` (counts of a partition add up) it gives `ScoresAreComplete`, about what
can be read. `WriteInv` describes the one writer of the scores where SCOREs come one
after the other (`OneScore`, the assumption of `ScoresStayWhole`): what is moved into place is
then what that writer has just filled. `SupportsAreEarned` ties categories to what the
case did, and makes no claim for one that failed for its environment after readiness.

Two proofs found a fault of the model itself: `ClassifyResult` in `Evaluation` and
`AdmitDiscovered` in `ClaimInvestigation` translated a chain of `if` statements into a
CASE with overlapping arms. TLC takes the first arm that holds, as the code
does; TLA+ leaves the choice open, and the theorem did not follow. Both are
chains of IF now.

Only model-checked: liveness (`DispatchedTerminates`, `SessionEnds`), since fairness is
out of the prover's reach. Every other property of a passing run is stated by a
theorem, the three of `SoleRequestProofs` under the conditions above.

## 5. Not modelled

Signatures, tokens, the allowlist of the intake and request parsing (they reject before
state exists; the allowlist of `process` is modelled); a `PermissionError` of the file system
in `process`; prompts, reports as text, hashes (a document is its identity); Git
plumbing, AST validation and retrieval (pure functions of large data, entering
as parameters or choices; the index and its queries are the exception);
sandboxing and output limits of child processes; the console and the clients,
which read what others stored; the gate, journal and summary of `hard_mode.py`,
the holdout and the oracle benchmark, whose shape is that of `Evaluation`;
`context_retrieval.py`, which selects text. `components` in `PROJECT.json` lists every
part with its status.

## 6. Plan

1. Done: `Verdict`, `Workflow`, `RunStore` with `NewestHead`, `TaskPipeline`,
   `EvidenceLoop`, and the proofs above.
2. Done: execution (`Planning`, `ChallengeSession`), claim investigation
   (`RepositoryIndex`, `ClaimInvestigation`), the sealed evaluation (`LiveCase`,
   `Evaluation`), model-checked.
3. Done: theorems about every component with runs, one for each safety property
   of a passing run.
4. Left for later models: the gate and journal of `hard_mode.py`, the polling
   client, the console's projection of a stored run.
