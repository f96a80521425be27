-------------------------- MODULE ChallengeSession --------------------------
(***************************************************************************)
(* How a candidate test is executed: the execution plan of the pull        *)
(* request, one pair of git worktrees (git_workspace.py), the repository's *)
(* install commands and the pytest process that runs one injected file     *)
(* (pytest_runner.py, execution_runtime.py), and the session that reuses   *)
(* the pair for readiness and every candidate (challenge.py).              *)
(*                                                                         *)
(* "local" is ChallengeSession: one pair for the whole session.  "remote"  *)
(* is RemoteBaseHeadChallenge (cloud_control.py) with the private executor *)
(* (cloud_executor.py): every operation is a request that makes a pair and *)
(* a runner of its own.                                                    *)
(*                                                                         *)
(* Git commands, installs and file operations may fail where the code      *)
(* expects it.  A test, and the processes it leaves behind, may write or   *)
(* delete any file of their own worktree at any moment; none of them       *)
(* writes a candidate's bytes.                                             *)
(***************************************************************************)
EXTENDS FiniteSets, Planning, Verdict

CONSTANTS
  None,
  Pairs,          \* the committed files of BASE and HEAD that are considered
  Artifacts,      \* candidate tests: path, bytes, whether they parse
  Existing,       \* revision -> candidate paths that are committed there
  Reports,        \* what a finished pytest process leaves to be interpreted
  MaxCandidates,  \* bound: candidates executed in one session
  MaxStrays,      \* bound: the files of strays, in one pair
  Explored        \* bound: the pairs whose sessions are followed

Rev   == {"BASE", "HEAD"}
(* The readiness probe, at a path no candidate uses. *)
Probes == [path |-> "probe", bytes |-> "probe", parses |-> TRUE]
Path  == {a.path : a \in Artifacts} \cup {Probes.path}
Others == {"committed", "changed", "partial"}
Bytes  == {a.bytes : a \in Artifacts} \cup {Probes.bytes} \cup Others

(* A finished process: its exit code, its JUnit report and how many test   *)
(* cases that holds, the child element of the only one, and the phrases    *)
(* found in the child's detail or in the output.                           *)
Report == [exit: Nat, xml: {"missing", "unparsable", "read"}, cases: Nat,
           child: {"error", "skipped", "failure", "none"},
           marks: SUBSET {"collection", "not found", "xfail", "xpass",
                          "assertion", "expectation"}]

ASSUME SessionAssumption ==
  /\ Pairs \subseteq [base: Committed, head: Committed]
  /\ Existing \in [Rev -> SUBSET Path]
  /\ Reports \subseteq Report /\ None \notin Bytes
  /\ \A a \in Artifacts : a.bytes \notin Others
  /\ Explored \subseteq Pairs /\ MaxCandidates \in Nat /\ MaxStrays \in Nat

VARIABLES
  committed,   \* the pull request's files, a member of Pairs
  contract,    \* the plan's contract, or NoContract
  mode,        \* "local" or "remote"
  pc,
  op,          \* 0: readiness; n: the n-th candidate
  artifact,    \* what the current operation injects
  rev,         \* the revision it works on
  root,        \* the pair's temporary directory exists
  tree,        \* revision -> its worktree directory
  registered,  \* registered_paths
  failures,    \* cleanup_failures is not empty
  files,       \* revision -> path -> bytes on disk, or None
  strays,      \* where a file is left: not removed, half written, or made by
               \* a process; and committed files that one changed (history)
  installed,   \* the runner's _installed_workspaces
  installs,    \* revision -> how often its commands were run (history)
  alive,       \* revisions in which a finished test left processes
  side,        \* revision -> its ExecutionResult, or None
  challenge,   \* the last completed pair of results, or None
  error        \* what the session raises, or "none"

pair    == <<root, tree, registered, failures>>
content == <<files, strays, installed, installs, alive>>
results == <<side, challenge>>
plan    == <<committed, contract, mode>>
vars    == <<plan, pc, op, artifact, rev, pair, content, results, error>>

Result == [status: TestExecutionStatus, before: Bytes \cup {None},
           after: Bytes \cup {None}, ran: Bytes \cup {None}, cases: Nat]

SessionTypeOK ==
  /\ committed \in Pairs /\ mode \in {"local", "remote"} /\ op \in 0 .. MaxCandidates
  /\ contract \in Contract
  /\ pc \in {"plan", "open", "add", "install", "start", "hash", "launch", "running",
             "finish", "callback", "choose", "remove", "closed", "done"}
  /\ artifact \in Artifacts \cup {Probes} /\ rev \in Rev
  /\ root \in BOOLEAN /\ failures \in BOOLEAN
  /\ tree \in [Rev -> {"absent", "partial", "present"}]
  /\ registered \subseteq Rev /\ installed \subseteq Rev /\ alive \subseteq Rev
  /\ files \in [Rev -> [Path -> Bytes \cup {None}]]
  /\ strays \subseteq Rev \X Path /\ installs \in [Rev -> Nat]
  /\ side \in [Rev -> Result \cup {None}]
  /\ challenge \in [observed: ChallengeResult, comparable: BOOLEAN] \cup {None}
  /\ error \in {"none", "git", "process", "superseded", "cleanup", "unavailable",
             "planning"}
-----------------------------------------------------------------------------
Fresh ==
  /\ tree = [r \in Rev |-> "absent"] /\ registered = {} /\ failures = FALSE
  /\ root = FALSE

NoResults == [r \in Rev |-> None]

Checkout == [r \in Rev |-> [p \in Path |-> IF p \in Existing[r] THEN "committed" ELSE None]]

Init ==
  /\ committed \in Pairs /\ contract = NoContract
  /\ mode \in {"local", "remote"} /\ pc = "plan" /\ op = 0
  /\ artifact = Probes /\ rev = "BASE" /\ Fresh
  /\ files = Checkout /\ strays = {} /\ installed = {}
  /\ installs = [r \in Rev |-> 0] /\ alive = {}
  /\ side = NoResults /\ challenge = None /\ error = "none"

(* prepare_pull_request: without a plan nothing is executed, and an        *)
(* oversized manifest ends the preparation with its error.  Sessions       *)
(* under different contracts differ in what their install commands are,    *)
(* not in how they can end: those of Explored stand for all.               *)
MakePlan ==
  /\ pc = "plan"
  /\ contract' = ResolvePlan(committed.base, committed.head)
  /\ pc' = IF contract' = NoContract \/ committed \notin Explored THEN "done" ELSE "open"
  /\ error' = IF PlanRaises(committed.base, committed.head) THEN "planning" ELSE error
  /\ UNCHANGED <<committed, mode, op, artifact, rev, pair, content, results>>
-----------------------------------------------------------------------------
(* create_pair: resolving the two references and making the directory; for *)
(* the executor, fetching both commits before.                             *)
Open ==
  /\ pc = "open"
  /\ root' = TRUE /\ pc' = "add" /\ rev' = "BASE"
  /\ files' = Checkout /\ strays' = {} /\ alive' = {}
  /\ installed' = {} /\ installs' = [r \in Rev |-> 0]
  /\ UNCHANGED <<plan, op, artifact, tree, registered, failures, results, error>>

(* A reference does not resolve, or the fetched pull request HEAD is no    *)
(* longer the one requested: nothing was made yet.                         *)
OpenFails ==
  /\ pc = "open"
  /\ error' = "git" /\ pc' = "closed"
  /\ UNCHANGED <<plan, op, artifact, rev, pair, content, results>>

(* worktree add, then rev-parse must return the same commit. *)
AddWorktree ==
  /\ pc = "add"
  /\ tree' = [tree EXCEPT ![rev] = "present"]
  /\ registered' = registered \cup {rev}
  /\ IF rev = "BASE" THEN rev' = "HEAD" /\ pc' = pc
     ELSE rev' = "BASE" /\ pc' = IF op = 0 THEN "install" ELSE "start"
  /\ UNCHANGED <<plan, op, artifact, root, failures, content, results, error>>

(* It fails, possibly with part of the directory made, or the commit is    *)
(* another: then the path is already registered.                           *)
AddWorktreeFails ==
  /\ pc = "add"
  /\ \E left \in {"absent", "partial", "present"} :
       /\ tree' = [tree EXCEPT ![rev] = left]
       /\ registered' = registered \cup (IF left = "present" THEN {rev} ELSE {})
  /\ error' = "git" /\ pc' = "remove"
  /\ UNCHANGED <<plan, op, artifact, rev, root, failures, content, results>>
-----------------------------------------------------------------------------
(* _install: the contract's commands in order, the first failure or        *)
(* timeout ends it; a success is remembered for the workspace.             *)
NeedsInstallAlways(r) == TRUE                     \* variant: no memo
NeedsInstall(r) == r \notin installed

Installs(r, ok) ==
  /\ installs' = [installs EXCEPT ![r] = @ + 1]
  /\ installed' = IF ok THEN installed \cup {r} ELSE installed

(* Where an operation ends: a remote one with its pair; the workflow stops *)
(* after a failed readiness and after a candidate whose setup failed.      *)
After(goesOn) == IF mode = "remote" \/ ~goesOn THEN "remove" ELSE "choose"

(* ChallengeSession.prepare_environment: setup on BASE, then on HEAD, then *)
(* the probe is run on both.                                               *)
PrepareEnvironment ==
  /\ pc = "install"
  /\ \E ok \in (IF NeedsInstall(rev) THEN BOOLEAN ELSE {TRUE}) :
       /\ IF NeedsInstall(rev) THEN Installs(rev, ok)
          ELSE UNCHANGED <<installed, installs>>
       /\ pc' = IF ~ok THEN "remove" ELSE IF rev = "BASE" THEN pc ELSE "start"
       /\ rev' = IF ok /\ rev = "BASE" THEN "HEAD" ELSE "BASE"
  /\ artifact' = Probes
  /\ UNCHANGED <<plan, op, pair, files, strays, alive, results, error>>
-----------------------------------------------------------------------------
(* One PytestRunner.run gave a result: BASE is followed by HEAD (with the  *)
(* callback of the workflow between them), HEAD by the classification.     *)
(* The readiness probe must pass on each side.                             *)
UnchangedBefore(sides) ==                         \* variant: hashed once
  \A r \in Rev : sides[r].before = artifact.bytes
Unchanged(sides) ==
  \A r \in Rev : sides[r].before = artifact.bytes /\ sides[r].after = artifact.bytes

(* The observations classify sees, and (history) whether both processes    *)
(* read the candidate's bytes and selected one test.                       *)
Classified(sides) ==
  [observed |-> [base |-> sides["BASE"].status, head |-> sides["HEAD"].status,
                 declared |-> TRUE, unchanged |-> Unchanged(sides)],
   comparable |-> \A r \in Rev : sides[r].ran = artifact.bytes /\ sides[r].cases = 1]

Gives(result) ==
  LET sides == [side EXCEPT ![rev] = result]
  IN  IF op = 0 /\ result.status # "PASSED" THEN
        pc' = "remove" /\ rev' = "BASE" /\ side' = NoResults /\ UNCHANGED challenge
      ELSE IF rev = "BASE" THEN
        /\ pc' = IF op > 0 /\ mode = "local" THEN "callback" ELSE "start"
        /\ rev' = "HEAD" /\ side' = sides /\ UNCHANGED challenge
      ELSE
        /\ challenge' = Classified(sides)
        /\ pc' = After(~SetupFailed(challenge'.observed))
        /\ rev' = "BASE" /\ side' = NoResults

Early(status) == [status |-> status, before |-> None, after |-> None,
                  ran |-> None, cases |-> 0]

(* The workspace is gone, or the path exists on disk: never overwritten. *)
Refuses(r, a) == tree[r] # "present" \/ files[r][a.path] # None

Refuse ==
  /\ pc = "start" /\ Refuses(rev, artifact)
  /\ Gives(Early(IF tree[rev] # "present" THEN "PROCESS_ERROR" ELSE "INVALID_ARTIFACT"))
  /\ UNCHANGED <<plan, op, artifact, pair, content, error>>

(* Whether the file at p in r is one of strays from now on. *)
Left(r, p, left) ==
  /\ strays' = IF left THEN strays \cup {<<r, p>>} ELSE strays \ {<<r, p>>}
  /\ Cardinality(strays') <= MaxStrays

(* Setup, unless it already succeeded in this workspace, then the write,   *)
(* which creates the file exclusively.                                     *)
Inject ==
  /\ pc = "start" /\ ~Refuses(rev, artifact)
  /\ IF NeedsInstall(rev) THEN Installs(rev, TRUE) ELSE UNCHANGED <<installed, installs>>
  /\ files' = [files EXCEPT ![rev][artifact.path] = artifact.bytes]
  /\ pc' = "hash"
  /\ UNCHANGED <<plan, op, artifact, rev, pair, strays, alive, results, error>>

(* The file cannot be created, or created but not written: the early       *)
(* return comes before the clause that removes it.                         *)
InjectFails ==
  /\ pc = "start" /\ ~Refuses(rev, artifact)
  /\ IF NeedsInstall(rev) THEN Installs(rev, TRUE) ELSE UNCHANGED <<installed, installs>>
  /\ Gives(Early("INVALID_ARTIFACT"))
  /\ \/ UNCHANGED <<files, strays>>
     \/ /\ files' = [files EXCEPT ![rev][artifact.path] = "partial"]
        /\ Left(rev, artifact.path, TRUE)
  /\ UNCHANGED <<plan, op, artifact, pair, alive, error>>

SetupFails ==
  /\ pc = "start" /\ ~Refuses(rev, artifact) /\ NeedsInstall(rev)
  /\ Installs(rev, FALSE)
  /\ Gives(Early("ENVIRONMENT_SETUP_FAILED"))
  /\ UNCHANGED <<plan, op, artifact, pair, files, strays, alive, error>>

(* hash_before, then the syntax check, whose early return leaves the file. *)
Hash ==
  LET bytes == files[rev][artifact.path]
  IN  /\ pc = "hash"
      /\ IF artifact.parses
         THEN /\ side' = [side EXCEPT ![rev] = [Early("PROCESS_ERROR") EXCEPT !.before = bytes]]
              /\ pc' = "launch" /\ UNCHANGED <<rev, challenge>>
         ELSE Gives([Early("INVALID_ARTIFACT") EXCEPT !.before = bytes, !.after = bytes])
      /\ UNCHANGED <<plan, op, artifact, pair, content, error>>

(* The process starts and reads the file, or cannot start. *)
Launch ==
  /\ pc = "launch"
  /\ \/ /\ side' = [side EXCEPT ![rev].ran = files[rev][artifact.path]]
        /\ pc' = "running"
     \/ pc' = "finish" /\ UNCHANGED side
  /\ UNCHANGED <<plan, op, artifact, rev, pair, content, challenge, error>>
-----------------------------------------------------------------------------
(* PytestJUnitParser._without_report and parse. *)
WithoutReportRaw(report) ==                       \* variant: the exit code's name
  IF report.exit = 5 THEN "NO_TESTS_COLLECTED" ELSE "PROCESS_ERROR"
WithoutReport(report) ==
  IF report.exit = 5 \/ "not found" \in report.marks THEN "NOT_COLLECTED"
  ELSE IF "collection" \in report.marks THEN "COLLECTION_ERROR" ELSE "PROCESS_ERROR"

Parse(report) ==
  IF report.xml = "unparsable" THEN "PROCESS_ERROR"
  ELSE IF report.xml = "missing" \/ report.cases = 0 THEN WithoutReport(report)
  ELSE IF report.cases > 1 THEN "MULTIPLE_TESTS_COLLECTED"
  ELSE CASE report.child = "error" ->
              IF "collection" \in report.marks THEN "COLLECTION_ERROR" ELSE "TEST_ERROR"
         [] report.child = "skipped" ->
              IF "xfail" \in report.marks THEN "XFAILED" ELSE "SKIPPED"
         [] report.child = "failure" ->
              IF "xpass" \in report.marks THEN "XPASSED"
              ELSE IF report.marks \cap {"assertion", "expectation"} # {}
                   THEN "ASSERTION_FAILED" ELSE "TEST_ERROR"
         [] OTHER ->
              IF "xpass" \in report.marks THEN "XPASSED"
              ELSE IF report.exit = 0 THEN "PASSED" ELSE "PROCESS_ERROR"

(* The process ends by itself; only the first one is waited for, so what   *)
(* it started may still be running.                                        *)
Exit ==
  /\ pc = "running"
  /\ \E report \in Reports :
       side' = [side EXCEPT ![rev].status = Parse(report),
                            ![rev].cases = IF report.xml = "read" THEN report.cases ELSE 0]
  /\ alive' \in {alive, alive \cup {rev}}
  /\ pc' = "finish"
  /\ UNCHANGED <<plan, op, artifact, rev, pair, files, strays, installed, installs,
                 challenge, error>>

(* BoundedSubprocessRunner.run: after the timeout its process group is     *)
(* killed and waited for.                                                  *)
NeverExpires == FALSE                             \* variant: wait() without limit
Expires == pc = "running"

Timeout ==
  /\ Expires
  /\ side' = [side EXCEPT ![rev].status = "TIMED_OUT"] /\ pc' = "finish"
  /\ UNCHANGED <<plan, op, artifact, rev, pair, content, challenge, error>>

(* Or it cannot be waited for even after kill(): the exception passes the  *)
(* finally clause of run and ends the session.                             *)
RemainingAll(r, removed) == files                 \* variant: not removed
Remaining(r, removed) ==
  IF removed THEN [files EXCEPT ![r][artifact.path] = None] ELSE files

Unlinks ==
  \E removed \in BOOLEAN :
    /\ removed \/ files[rev][artifact.path] # None
    /\ files' = Remaining(rev, removed)
    /\ Left(rev, artifact.path, ~removed)

KillFails ==
  /\ Expires
  /\ Unlinks /\ alive' = alive \cup {rev}
  /\ error' = "process" /\ pc' = "remove" /\ side' = NoResults
  /\ UNCHANGED <<plan, op, artifact, rev, pair, installed, installs, challenge>>

(* hash_after; the finally clause removes the result directory and the     *)
(* file, ignoring an error.                                                *)
Finish ==
  /\ pc = "finish"
  /\ Gives([side[rev] EXCEPT !.after = files[rev][artifact.path]])
  /\ Unlinks
  /\ UNCHANGED <<plan, op, artifact, pair, alive, installed, installs, error>>

(* External: the running test, or what an earlier one left behind in the   *)
(* same worktree, writes or deletes a file there.  Such a write is taken   *)
(* when the file is looked at next: that of the artifact at each step of   *)
(* its operation, any other while a test runs.                             *)
Looked(p) ==
  pc \in IF p = artifact.path THEN {"start", "hash", "launch", "running", "finish"}
        ELSE {"running"}

Tamper ==
  /\ rev \in alive \/ pc = "running"
  /\ \E p \in Path, bytes \in {"changed", None} :
       /\ Looked(p) /\ files[rev][p] # bytes
       /\ files' = [files EXCEPT ![rev][p] = bytes]
       /\ Left(rev, p, \/ p \in Existing[rev]
                       \/ bytes # None /\ (files[rev][p] = None \/ <<rev, p>> \in strays))
  /\ UNCHANGED <<plan, pc, op, artifact, rev, pair, installed, installs, alive, results,
                 error>>
-----------------------------------------------------------------------------
(* on_base_complete raises when the run is no longer current. *)
Callback ==
  /\ pc = "callback"
  /\ \/ pc' = "start" /\ UNCHANGED error
     \/ pc' = "remove" /\ error' = "superseded"
  /\ side' = IF pc' = "start" THEN side ELSE NoResults
  /\ UNCHANGED <<plan, op, artifact, rev, pair, content, challenge>>

(* The workflow asks for another candidate, at any path that is not        *)
(* committed on HEAD; its validator parsed it.  The executor takes any.    *)
Choose ==
  /\ pc = "choose" /\ op < MaxCandidates
  /\ artifact' \in {a \in Artifacts :
       mode = "local" => a.parses /\ a.path \notin Existing["HEAD"]}
  /\ op' = op + 1 /\ rev' = "BASE"
  /\ pc' = IF mode = "local" THEN "start" ELSE "open"
  /\ side' = NoResults /\ challenge' = None
  /\ UNCHANGED <<plan, pair, content, error>>

Stop ==
  /\ pc = "choose"
  /\ pc' = IF mode = "local" THEN "remove" ELSE "done"
  /\ UNCHANGED <<plan, op, artifact, rev, pair, content, results, error>>
-----------------------------------------------------------------------------
(* The finally clause of create_pair: HEAD's worktree, then BASE's.  When  *)
(* git fails and the directory is still there, it is removed by hand.      *)
RemoveWorktree ==
  LET r == IF "HEAD" \in registered THEN "HEAD" ELSE "BASE"
  IN  /\ pc = "remove" /\ registered # {}
      /\ registered' = registered \ {r}
      /\ \/ tree' = [tree EXCEPT ![r] = "absent"] /\ failures' \in {failures, TRUE}
         \/ UNCHANGED tree /\ failures' = TRUE
      /\ UNCHANGED <<plan, pc, op, artifact, rev, root, content, results, error>>

(* worktree prune (its exit code is ignored), then the directory itself;   *)
(* what could not be removed is raised, or noted on the active error.      *)
ReportedFailures(left) ==                         \* variant: root not looked at
  IF failures /\ error = "none" THEN "cleanup" ELSE error
Reported(left) ==
  IF (failures \/ left) /\ error = "none" THEN "cleanup" ELSE error

RemoveRoot ==
  /\ pc = "remove" /\ registered = {}
  /\ \E left \in BOOLEAN :
       /\ root' = left
       /\ tree' = IF left THEN tree ELSE [r \in Rev |-> "absent"]
       /\ error' = Reported(left)
  /\ failures' = FALSE /\ pc' = "closed"
  /\ UNCHANGED <<plan, op, artifact, rev, registered, content, results>>

(* A git command of the finally clause times out: the rest is skipped and  *)
(* its exception replaces the active one.                                  *)
CleanupTimeout ==
  /\ pc = "remove"
  /\ error' = "git" /\ pc' = "closed"
  /\ UNCHANGED <<plan, op, artifact, rev, pair, content, results>>

(* The session is over; the executor answers, or its answer is an error or *)
(* is lost (RuntimeError in the control plane).  The callback runs after   *)
(* the whole pair.                                                         *)
GoesOn == challenge # None /\ ~SetupFailed(challenge.observed)

Close ==
  /\ pc = "closed"
  /\ \/ /\ mode = "local" \/ error # "none" \/ ~GoesOn
        /\ pc' = "done" /\ UNCHANGED error
     \/ /\ mode = "remote" /\ error = "none" /\ GoesOn
        /\ pc' = "choose" /\ UNCHANGED error
     \/ /\ mode = "remote" /\ error = "none"
        /\ pc' = "done" /\ error' \in {"unavailable", "superseded"}
  /\ UNCHANGED <<plan, op, artifact, rev, pair, content, results>>

(* Steps of the program: each of its waits has a limit. *)
Step ==
  \/ MakePlan \/ Open \/ OpenFails \/ AddWorktree \/ AddWorktreeFails
  \/ PrepareEnvironment \/ Refuse \/ Inject \/ InjectFails \/ SetupFails \/ Hash \/ Launch
  \/ Timeout \/ KillFails \/ Finish \/ Callback \/ Choose \/ Stop
  \/ RemoveWorktree \/ RemoveRoot \/ CleanupTimeout \/ Close

Next == Step \/ Exit \/ Tamper

(* A test need not end by itself, so Exit is not fair. *)
Spec == Init /\ [][Next]_vars /\ WF_vars(Step)
-----------------------------------------------------------------------------
(* A pair is executed only under the one contract that both revisions      *)
(* imply, each taken alone, and a probed contract passes the validation    *)
(* its constructor applies.  Planning never raises on its own output, only *)
(* for an oversized manifest that it reads: with no contract declared and  *)
(* no lock file beside it.                                                 *)
PlanIsShared ==
  /\ contract # NoContract =>
       IF contract.synthesized
       THEN /\ \A files_ \in {committed.base, committed.head} :
                 files_.contract = "absent" /\ Probe(files_).commands = contract.install
            /\ ValidInstall(contract.install)
       ELSE Load(committed.base.contract) = contract /\ Load(committed.head.contract) = contract
  /\ error = "planning" =>
       /\ contract = NoContract
       /\ \E files_ \in {committed.base, committed.head} :
            files_.pyproject = "oversized" /\ ~files_.lock /\ files_.contract = "absent"

(* When a session is over, worktrees and directory are gone or the caller  *)
(* got an error: create_pair never leaves them behind silently.            *)
NothingLeftSilently ==
  pc \in {"closed", "done"} /\ error = "none" =>
    ~root /\ \A r \in Rev : tree[r] = "absent"

(* Install commands run at most once per worktree, however many candidates *)
(* use it, and in a shared pair no candidate ever fails in setup: that     *)
(* outcome is left to the executor's fresh pairs.                          *)
InstalledOnce ==
  /\ \A r \in Rev : installs[r] <= 1
  /\ mode = "local" /\ challenge # None => ~SetupFailed(challenge.observed)

(* A discriminating result compares the same bytes: on both sides the      *)
(* process read exactly the candidate and selected one test, whatever      *)
(* tests and processes left over from earlier candidates did to the file.  *)
DiscriminatingIsComparable ==
  challenge # None /\ Classify(challenge.observed).mechanical = "DISCRIMINATING" =>
    challenge.comparable

(* While a test runs, its worktree holds its own file, as injected or as a *)
(* process left it, and no file of another attempt or process except those *)
(* that the runner cannot answer for: a removal or a write that failed, or *)
(* a file that a test or a process left behind has made.                   *)
AttemptsIsolated ==
  pc = "running" =>
    \A p \in Path \ Existing[rev] :
      IF p = artifact.path THEN files[rev][p] \in {artifact.bytes, "changed", None}
      ELSE files[rev][p] = None \/ <<rev, p>> \in strays

(* Every session ends, also when a test hangs. *)
SessionEnds == <>(pc = "done")
=============================================================================
