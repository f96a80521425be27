------------------------------ MODULE RunStore ------------------------------
(***************************************************************************)
(* The persistence boundary: SqliteVerificationRunStore (storage.py) and   *)
(* FirestoreVerificationRunStore (firestore_store.py).  One action is one  *)
(* transaction (BEGIN IMMEDIATE ... COMMIT, or a serializable Firestore    *)
(* transaction).  A call that raises leaves the store as it was, so it is  *)
(* an action that is not enabled.                                          *)
(*                                                                         *)
(* Every operation reads the wall clock BEFORE its transaction begins, and *)
(* Firestore re-runs a contended transaction with the timestamp of the     *)
(* first try.  The timestamp a transaction stores is therefore any reading *)
(* up to the present one: "now" is chosen from 0 .. clock.                 *)
(*                                                                         *)
(* The two back ends keep the same documents but find a pull request's     *)
(* current run and a revision's latest run differently: SQLite by a query  *)
(* over the runs, Firestore by pointer documents it writes itself.  The    *)
(* model keeps Firestore's pointers and states the queries as operators.   *)
(***************************************************************************)
EXTENDS Workflow

CONSTANTS
  Backend,        \* "sqlite" or "firestore"
  DeliveryId,     \* X-GitHub-Delivery values and the product API's own ids
  Document,       \* serialized evidence reports (one SHA-256 each)
  Payload,        \* rendered check payloads (one SHA-256 each)
  CheckId,        \* check run ids GitHub can assign
  Events,         \* the pull-request events that can be received
  Transitions,    \* the transitions callers request
  MaxClock,       \* bound on the clock
  MaxVersion,     \* bound on a run's version
  MaxAttempts     \* bound on a publication's attempt count

ASSUME StoreAssumption ==
  /\ Backend \in {"sqlite", "firestore"}
  /\ Events \subseteq PullRequestEvent(DeliveryId)
  /\ Transitions \subseteq RunTransition
  /\ None \notin CheckId
  /\ \A t \in Transitions : t.terminal_reason # "FAILED"  \* only fail_run fails
  /\ MaxClock \in Nat /\ MaxVersion \in Nat /\ MaxAttempts \in Nat

VARIABLES
  runs,           \* run id -> stored run
  deliveries,     \* delivery id -> run id
  current,        \* Firestore: pull request -> run id
  revisions,      \* Firestore: <<pull request, revision>> -> run id
  evidence,       \* run id -> evidence document
  publications,   \* run id -> publication attempt record
  failures,       \* run id -> phase the run failed in
  clock           \* the wall clock

pointers == <<current, revisions>>
records  == <<evidence, publications, failures>>
vars     == <<runs, deliveries, pointers, records, clock>>

CheckPublication ==
  [payload: Payload, check: CheckId \cup {None}, attempts: Nat \ {0},
   error: BOOLEAN]

(* Stored values are partial functions: a key is in the domain once the    *)
(* row or document exists.                                                 *)
Partial(f, S, T)      == DOMAIN f \subseteq S /\ f \in [DOMAIN f -> T]
Put(f, key, value)    == [k \in DOMAIN f \cup {key} |->
                            IF k = key THEN value ELSE f[k]]

TypeOK ==
  /\ Partial(runs, RunId, VerificationRun)
  /\ Partial(deliveries, DeliveryId, RunId)
  /\ Partial(current, PullRequest, RunId)
  /\ Partial(revisions, PullRequest \X Revision, RunId)
  /\ Partial(evidence, RunId, Document)
  /\ Partial(publications, RunId, CheckPublication)
  /\ Partial(failures, RunId, Phase)
  /\ clock \in Nat

(* model_validate on every read: get_run, _require_run, _row_to_run. *)
Readable(r) == r \in DOMAIN runs /\ ValidDimensions(runs[r])
-----------------------------------------------------------------------------
(* SQLite's query for the current run of a pull request. *)
CurrentRuns(pr) ==
  {r \in DOMAIN runs : runs[r].pr = pr /\ runs[r].revision_state = "CURRENT"}

(* SQLite's ORDER BY head_updated_at DESC, created_at DESC LIMIT 1 over    *)
(* the runs of one revision: the rows the query may return.                *)
LatestOfRevision(pr, rev) ==
  LET rows == {r \in DOMAIN runs : runs[r].pr = pr /\ runs[r].revision = rev}
      Precedes(a, b) ==
        \/ runs[a].head_updated_at > runs[b].head_updated_at
        \/ /\ runs[a].head_updated_at = runs[b].head_updated_at
           /\ runs[a].created_at >= runs[b].created_at
  IN  {r \in rows : \A s \in rows : Precedes(r, s)}

(***************************************************************************)
(* Definitions marked "variant" are plausible mistakes in the definition   *)
(* that follows them.  The specification does not use them: substituting   *)
(* one shows which property notices the mistake.                           *)
(***************************************************************************)

(* What accept_pull_request looks up before it decides. *)
KnownDelivery(e) == e.delivery \in DOMAIN deliveries
HasCurrent(e)    == e.pr \in DOMAIN current
CurrentOf(e)     == current[e.pr]
HasDuplicate(e)  == <<e.pr, e.revision>> \in DOMAIN revisions
DuplicateOf(e)   == revisions[<<e.pr, e.revision>>]
NeverOlder(e)    == FALSE                    \* variant: arrival order trusted
StrictlyOlder(e) ==                          \* variant: a tie supersedes
  HasCurrent(e) /\ e.head_updated_at < runs[CurrentOf(e)].head_updated_at
NotNewer(e)      == /\ HasCurrent(e)
                    /\ e.head_updated_at <= runs[CurrentOf(e)].head_updated_at

(* Both lookups validate the run they load. *)
LookupsSucceed(e) ==
  /\ HasCurrent(e) => Readable(CurrentOf(e))
  /\ HasDuplicate(e) => Readable(DuplicateOf(e))

DuplicatesCurrent(e) ==                      \* variant: older runs forgotten
  HasDuplicate(e) /\ HasCurrent(e) /\ DuplicateOf(e) = CurrentOf(e)
IsDuplicateRevision(e) ==
  /\ HasDuplicate(e)
  /\ \/ ~HasCurrent(e)
     \/ DuplicateOf(e) = CurrentOf(e)
     \/ NotNewer(e)

(* The same revision with a newer event timestamp: the run is relabelled. *)
Refreshed(run, e, now) ==
  [run EXCEPT !.head_updated_at = e.head_updated_at,
              !.installation    = e.installation,
              !.updated_at      = now,
              !.version         = @ + 1]

SupersededAlways(run) == "SUPERSEDED"        \* variant: the CASE dropped
SupersededReason(run) ==
  IF run.lifecycle = "TERMINAL" THEN run.terminal_reason ELSE "SUPERSEDED"

SupersededBySelf(run, by, now) ==            \* variant: pointer read too early
  [run EXCEPT !.revision_state  = "SUPERSEDED",
              !.superseded_by   = current[run.pr],
              !.lifecycle       = "TERMINAL",
              !.terminal_reason = SupersededReason(run),
              !.updated_at      = now,
              !.version         = @ + 1]
Superseded(run, by, now) ==
  [run EXCEPT !.revision_state  = "SUPERSEDED",
              !.superseded_by   = by,
              !.lifecycle       = "TERMINAL",
              !.terminal_reason = SupersededReason(run),
              !.updated_at      = now,
              !.version         = @ + 1]

ZeroVersion  == 0                            \* variant: versions count from 0
FirstVersion == 1

NewRun(e, now, stale) ==
  [pr |-> e.pr, revision |-> e.revision,
   head_updated_at |-> e.head_updated_at, installation |-> e.installation,
   lifecycle |-> IF stale THEN "TERMINAL" ELSE "ACCEPTED",
   phase |-> "CONTEXT",
   terminal_reason |-> IF stale THEN "SUPERSEDED" ELSE None,
   mechanical |-> None, outcome |-> None, publication |-> "NOT_STARTED",
   revision_state |-> IF stale THEN "SUPERSEDED" ELSE "CURRENT",
   superseded_by |-> IF stale THEN CurrentOf(e) ELSE None,
   created_at |-> now, updated_at |-> now, version |-> FirstVersion]
-----------------------------------------------------------------------------
Init ==
  /\ runs = <<>> /\ deliveries = <<>>
  /\ current = <<>> /\ revisions = <<>>
  /\ evidence = <<>> /\ publications = <<>> /\ failures = <<>>
  /\ clock = 0

Tick == /\ clock < MaxClock
        /\ clock' = clock + 1
        /\ UNCHANGED <<runs, deliveries, pointers, records>>

(* accept_pull_request of a delivery id seen before: only a lookup. *)
AcceptDuplicateDelivery(e) ==
  /\ KnownDelivery(e)
  /\ Readable(deliveries[e.delivery])
  /\ UNCHANGED vars

(* SQLite reads a relabelled row back before it commits and rolls back if  *)
(* the row no longer validates; Firestore's model_copy validates nothing.  *)
CommitsUnread(run)   == TRUE                 \* variant: no read back
CommitsRelabel(run) == Backend = "sqlite" => ValidDimensions(run)

(* accept_pull_request of a revision that already has a run. *)
AcceptDuplicateRevision(e, now) ==
  LET r     == DuplicateOf(e)
      newer == e.head_updated_at > runs[r].head_updated_at
      run   == IF newer THEN Refreshed(runs[r], e, now) ELSE runs[r]
  IN  /\ ~KnownDelivery(e) /\ LookupsSucceed(e) /\ IsDuplicateRevision(e)
      /\ run.version <= MaxVersion
      /\ newer => CommitsRelabel(run)
      /\ runs' = Put(runs, r, run)
      /\ deliveries' = Put(deliveries, e.delivery, r)
      /\ UNCHANGED <<pointers, records, clock>>

(* accept_pull_request of an event older than the current run: an already  *)
(* superseded run is recorded for the audit trail.                         *)
AcceptStale(e, now, r) ==
  /\ ~KnownDelivery(e) /\ LookupsSucceed(e) /\ ~IsDuplicateRevision(e)
  /\ NotNewer(e)
  /\ r \in RunId \ DOMAIN runs
  /\ runs' = Put(runs, r, NewRun(e, now, TRUE))
  /\ deliveries' = Put(deliveries, e.delivery, r)
  /\ revisions' = Put(revisions, <<e.pr, e.revision>>, r)
  /\ UNCHANGED <<current, records, clock>>

(* accept_pull_request of the newest known HEAD: the current run, if any,  *)
(* is superseded in the same transaction.                                  *)
AcceptNew(e, now, r) ==
  /\ ~KnownDelivery(e) /\ LookupsSucceed(e) /\ ~IsDuplicateRevision(e)
  /\ ~NotNewer(e)
  /\ r \in RunId \ DOMAIN runs
  /\ HasCurrent(e) => runs[CurrentOf(e)].version < MaxVersion
  /\ runs' = [k \in DOMAIN runs \cup {r} |->
                IF k = r THEN NewRun(e, now, FALSE)
                ELSE IF HasCurrent(e) /\ k = CurrentOf(e)
                     THEN Superseded(runs[k], r, now)
                     ELSE runs[k]]
  /\ deliveries' = Put(deliveries, e.delivery, r)
  /\ revisions' = Put(revisions, <<e.pr, e.revision>>, r)
  /\ current' = Put(current, e.pr, r)
  /\ UNCHANGED <<records, clock>>

AcceptPullRequest(e, now) ==
  \/ AcceptDuplicateDelivery(e)
  \/ AcceptDuplicateRevision(e, now)
  \/ \E r \in RunId : AcceptStale(e, now, r) \/ AcceptNew(e, now, r)

(* transition_run: optimistic, so the caller names the version it read. *)
TransitionRun(r, expected, t, now) ==
  /\ Readable(r)
  /\ runs[r].version = expected
  /\ expected < MaxVersion
  /\ TransitionAllowed(runs[r], t, now)
  /\ runs' = [runs EXCEPT ![r] = ApplyRunTransition(runs[r], t, now)]
  /\ UNCHANGED <<deliveries, pointers, records, clock>>

(* "stored evidence cannot be overwritten" *)
EvidenceReplaceable(r, doc) == TRUE          \* variant: INSERT OR REPLACE
EvidenceAccepts(r, doc)     == r \in DOMAIN evidence => evidence[r] = doc

(* save_evidence: insert once; an identical document is accepted again. *)
SaveEvidence(r, doc) ==
  /\ Readable(r)
  /\ EvidenceAccepts(r, doc)
  /\ evidence' = Put(evidence, r, doc)
  /\ UNCHANGED <<runs, deliveries, pointers, publications, failures, clock>>

BeginPublication(r, payload) ==
  LET first == r \notin DOMAIN publications
  IN  /\ Readable(r)
      /\ ~first => /\ publications[r].payload = payload
                   /\ publications[r].attempts < MaxAttempts
      /\ publications' =
           Put(publications, r,
               IF first THEN [payload |-> payload, check |-> None,
                              attempts |-> 1, error |-> FALSE]
               ELSE [publications[r] EXCEPT !.attempts = @ + 1,
                                            !.error = FALSE])
      /\ UNCHANGED <<runs, deliveries, pointers, evidence, failures, clock>>

SetCheckRunId(r, check) ==
  /\ r \in DOMAIN publications
  /\ publications[r].check \in {None, check}
  /\ publications' = [publications EXCEPT ![r].check = check]
  /\ UNCHANGED <<runs, deliveries, pointers, evidence, failures, clock>>

RecordPublicationError(r) ==
  /\ r \in DOMAIN publications
  /\ publications' = [publications EXCEPT ![r].error = TRUE]
  /\ UNCHANGED <<runs, deliveries, pointers, evidence, failures, clock>>

FailTransition == [NoChange EXCEPT !.lifecycle = "TERMINAL",
                                   !.terminal_reason = "FAILED"]

(* fail_run: the first failure is kept; the run is terminated without a    *)
(* version check.  A run that already has its failure is only looked up.   *)
FailRun(r, now) ==
  /\ r \in DOMAIN runs
  /\ r \notin DOMAIN failures
  /\ Readable(r)
  /\ runs[r].version < MaxVersion
  /\ TransitionAllowed(runs[r], FailTransition, now)
  /\ runs' = [runs EXCEPT ![r] = ApplyRunTransition(runs[r], FailTransition, now)]
  /\ failures' = Put(failures, r, runs[r].phase)
  /\ UNCHANGED <<deliveries, pointers, evidence, publications, clock>>

Next ==
  \/ Tick
  \/ \E now \in 0 .. clock :
       \/ \E e \in Events : AcceptPullRequest(e, now)
       \/ \E r \in RunId :
            \/ \E v \in 1 .. MaxVersion, t \in Transitions :
                 TransitionRun(r, v, t, now)
            \/ FailRun(r, now)
  \/ \E r \in RunId :
       \/ \E doc \in Document : SaveEvidence(r, doc)
       \/ \E payload \in Payload : BeginPublication(r, payload)
       \/ \E check \in CheckId : SetCheckRunId(r, check)
       \/ RecordPublicationError(r)

Spec == Init /\ [][Next]_vars
-----------------------------------------------------------------------------
(* The Firestore pointer and the SQLite query name the same current run:   *)
(* a pull request with any run has exactly one CURRENT run, and "current"  *)
(* points at it (accept_pull_request of both back ends).                   *)
CurrentPointerAgrees ==
  /\ \A pr \in PullRequest :
       CurrentRuns(pr) = IF pr \in DOMAIN current THEN {current[pr]} ELSE {}
  /\ \A r \in DOMAIN runs : runs[r].pr \in DOMAIN current

(* The Firestore revision pointer and SQLite's ORDER BY ... LIMIT 1 name   *)
(* the same run, and the query never has to choose between tied rows.      *)
RevisionPointerAgrees ==
  \A pr \in PullRequest, rev \in Revision :
    LatestOfRevision(pr, rev) =
      IF <<pr, rev>> \in DOMAIN revisions THEN {revisions[<<pr, rev>>]} ELSE {}

(* Both pointers of the Firestore store, which accept_pull_request moves   *)
(* by hand, name the runs that the queries of the SQLite store find.       *)
PointersAgree == CurrentPointerAgrees /\ RevisionPointerAgrees

(* No run of a pull request has a newer event timestamp than its current   *)
(* run, even though duplicates relabel runs and events arrive late.        *)
CurrentIsNewest ==
  \A r \in DOMAIN runs : \A c \in CurrentRuns(runs[r].pr) :
    runs[r].head_updated_at <= runs[c].head_updated_at

(* Following superseded_by from any run stays within its pull request and  *)
(* ends: no set of runs supersedes only its own members.  With             *)
(* CurrentPointerAgrees, the chain ends at the current run.                *)
SupersessionWellFounded ==
  /\ \A r \in DOMAIN runs : runs[r].superseded_by # None =>
       /\ runs[r].superseded_by \in DOMAIN runs
       /\ runs[runs[r].superseded_by].pr = runs[r].pr
  /\ \A S \in SUBSET DOMAIN runs :
       S # {} => \E r \in S : runs[r].superseded_by \notin S

(* A failure record exists exactly for the runs whose terminal reason is   *)
(* FAILED, also after the run is superseded (fail_run, accept_pull_request)*)
FailureIffFailed ==
  DOMAIN failures = {r \in DOMAIN runs : runs[r].terminal_reason = "FAILED"}

(* The run under verification can be read back: no accept or transition    *)
(* stores a current run that validate_dimensions refuses.                  *)
CurrentReadable ==
  \A r \in DOMAIN runs :
    runs[r].revision_state = "CURRENT" => ValidDimensions(runs[r])
-----------------------------------------------------------------------------
(* A terminal reason, a mechanical status and a claim outcome are never    *)
(* replaced once recorded, also not by supersession.                       *)
WriteOnce(before, after) == before # None => after = before
OutcomeWriteOnce ==
  [][\A r \in DOMAIN runs :
       /\ WriteOnce(runs[r].terminal_reason, runs'[r].terminal_reason)
       /\ WriteOnce(runs[r].mechanical, runs'[r].mechanical)
       /\ WriteOnce(runs[r].outcome, runs'[r].outcome)]_vars

(* A superseded run neither resumes nor publishes nor becomes current      *)
(* again; a duplicate event may only relabel it.                           *)
SupersededIsFinal ==
  [][\A r \in DOMAIN runs : runs[r].revision_state = "SUPERSEDED" =>
       /\ runs'[r].revision_state = "SUPERSEDED"
       /\ runs'[r].superseded_by = runs[r].superseded_by
       /\ runs'[r].lifecycle = runs[r].lifecycle
       /\ runs'[r].phase = runs[r].phase
       /\ runs'[r].publication = runs[r].publication]_vars

(* Every change of a stored run is visible to the optimistic version check *)
(* of transition_run: no writer can change a run behind its version.       *)
ChangesBumpVersion ==
  [][\A r \in DOMAIN runs :
       runs'[r] # runs[r] => runs'[r].version = runs[r].version + 1]_vars

(* Evidence, publication payload, check identity, first failure and the    *)
(* run a delivery resolved to are written once and never lost.             *)
RecordsWriteOnce ==
  [][/\ \A r \in DOMAIN evidence : evidence'[r] = evidence[r]
     /\ \A r \in DOMAIN failures : failures'[r] = failures[r]
     /\ \A d \in DOMAIN deliveries : deliveries'[d] = deliveries[d]
     /\ \A r \in DOMAIN publications :
          /\ publications'[r].payload = publications[r].payload
          /\ publications'[r].attempts >= publications[r].attempts
          /\ WriteOnce(publications[r].check, publications'[r].check)]_vars
-----------------------------------------------------------------------------
(* The store implements the register of NewestHead: the newest head of a   *)
(* pull request is the revision and event timestamp of its current run.    *)
NewestHeads ==
  [pr \in PullRequest |->
     IF pr \in DOMAIN current
     THEN [revision |-> runs[current[pr]].revision,
           at       |-> runs[current[pr]].head_updated_at]
     ELSE None]

Register == INSTANCE NewestHead
  WITH HeadTime <- {e.head_updated_at : e \in Events}, Unknown <- None,
       newest <- NewestHeads

(* accept_pull_request moves a pull request to another head only on a      *)
(* strictly newer event, whatever the interleaving of deliveries.          *)
ImplementsNewestHead == Register!Spec
=============================================================================
