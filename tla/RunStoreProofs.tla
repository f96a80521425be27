--------------------------- MODULE RunStoreProofs ---------------------------
(***************************************************************************)
(* Theorems about RunStore, for every set of runs, events, transitions and *)
(* every bound.                                                            *)
(***************************************************************************)
EXTENDS RunStore, TLAPS

(* What each way of building a run record keeps and changes.  The lemmas   *)
(* are cited in place of the definitions, which are records of 15 fields.  *)

(* A run created by accept_pull_request has the event's identity. *)
LEMMA NewRunFacts ==
  ASSUME NEW e \in PullRequestEvent(DeliveryId), NEW now \in Nat
  PROVE  LET run == NewRun(e, now, FALSE)
         IN  /\ run \in VerificationRun
             /\ run.pr = e.pr /\ run.revision = e.revision
             /\ run.head_updated_at = e.head_updated_at
             /\ run.revision_state = "CURRENT" /\ run.superseded_by = None
             /\ run.terminal_reason = None /\ run.lifecycle = "ACCEPTED"
             /\ run.installation = e.installation
             /\ run.publication = "NOT_STARTED"
             /\ ValidDimensions(run)
  BY NoneAssumption
     DEF NewRun, FirstVersion, VerificationRun, PullRequestEvent, ValidDimensions, Lifecycle,
         Phase, PhaseOrder, Reason, MechanicalStatus, ClaimOutcome, Publication

LEMMA StaleRunFacts ==
  ASSUME NEW e \in PullRequestEvent(DeliveryId), NEW now \in Nat,
         CurrentOf(e) \in RunId
  PROVE  LET run == NewRun(e, now, TRUE)
         IN  /\ run \in VerificationRun
             /\ run.pr = e.pr /\ run.revision = e.revision
             /\ run.head_updated_at = e.head_updated_at
             /\ run.revision_state = "SUPERSEDED"
             /\ run.superseded_by = CurrentOf(e)
             /\ run.terminal_reason = "SUPERSEDED" /\ run.lifecycle = "TERMINAL"
             /\ run.installation = e.installation
             /\ run.publication = "NOT_STARTED"
  BY NoneAssumption
     DEF NewRun, FirstVersion, VerificationRun, PullRequestEvent, Lifecycle,
         Phase, PhaseOrder, Reason, MechanicalStatus, ClaimOutcome, Publication

(* A refreshed run keeps its identity and every state dimension. *)
LEMMA RefreshedFacts ==
  ASSUME NEW run \in VerificationRun, NEW now \in Nat,
         NEW e \in PullRequestEvent(DeliveryId)
  PROVE  LET next == Refreshed(run, e, now)
         IN  /\ next \in VerificationRun
             /\ next.pr = run.pr /\ next.revision = run.revision
             /\ next.head_updated_at = e.head_updated_at
             /\ next.revision_state = run.revision_state
             /\ next.superseded_by = run.superseded_by
             /\ next.lifecycle = run.lifecycle /\ next.phase = run.phase
             /\ next.terminal_reason = run.terminal_reason
             /\ next.mechanical = run.mechanical
             /\ next.outcome = run.outcome
             /\ next.publication = run.publication
             /\ next.installation = e.installation
             /\ next.version = run.version + 1
<1> DEFINE next == Refreshed(run, e, now)
           relabelled == [run EXCEPT !.head_updated_at = e.head_updated_at,
                                     !.installation    = e.installation,
                                     !.updated_at      = now]
<1>1. relabelled \in VerificationRun /\ relabelled.version = run.version
  BY DEF VerificationRun, PullRequestEvent
<1>2. [relabelled EXCEPT !.version = run.version + 1] \in VerificationRun
  <2> HIDE DEF relabelled
  <2> QED BY <1>1 DEF VerificationRun
<1>3. next \in VerificationRun
  BY <1>2 DEF Refreshed
<1> QED
  BY <1>3 DEF Refreshed, VerificationRun, PullRequestEvent

(* A superseded run is terminal and keeps a reason it already had. *)
LEMMA SupersededFacts ==
  ASSUME NEW run \in VerificationRun, NEW by \in RunId, NEW now \in Nat
  PROVE  LET next == Superseded(run, by, now)
         IN  /\ next \in VerificationRun
             /\ next.pr = run.pr /\ next.revision = run.revision
             /\ next.head_updated_at = run.head_updated_at
             /\ next.revision_state = "SUPERSEDED"
             /\ next.superseded_by = by
             /\ next.lifecycle = "TERMINAL"
             /\ next.terminal_reason = IF run.lifecycle = "TERMINAL"
                                       THEN run.terminal_reason ELSE "SUPERSEDED"
             /\ next.mechanical = run.mechanical
             /\ next.outcome = run.outcome /\ next.phase = run.phase
             /\ next.publication = run.publication
             /\ next.installation = run.installation
             /\ next.version = run.version + 1
<1> DEFINE next == Superseded(run, by, now)
           reason == IF run.lifecycle = "TERMINAL"
                     THEN run.terminal_reason ELSE "SUPERSEDED"
           closed == [run EXCEPT !.revision_state  = "SUPERSEDED",
                                 !.superseded_by   = by,
                                 !.lifecycle       = "TERMINAL",
                                 !.terminal_reason = reason,
                                 !.updated_at      = now]
<1>0. reason \in Reason \cup {None}
  BY DEF VerificationRun, Reason
<1>1. closed \in VerificationRun /\ closed.version = run.version
  <2> HIDE DEF reason
  <2> QED BY <1>0 DEF VerificationRun, Lifecycle
<1>2. [closed EXCEPT !.version = run.version + 1] \in VerificationRun
  <2> HIDE DEF closed
  <2> QED BY <1>1 DEF VerificationRun
<1>3. next \in VerificationRun
  BY <1>2 DEF Superseded, SupersededReason
<1> QED
  BY <1>3 DEF Superseded, SupersededReason, VerificationRun

(* A transition changes no identity and no revision state, and each other  *)
(* dimension to the requested value, if one is requested.                  *)
LEMMA RequestedFacts ==
  ASSUME NEW run \in VerificationRun, NEW t \in RunTransition, NEW now \in Nat
  PROVE  LET next == Requested(run, t, now)
         IN  /\ next \in VerificationRun
             /\ next.pr = run.pr /\ next.revision = run.revision
             /\ next.head_updated_at = run.head_updated_at
             /\ next.revision_state = run.revision_state
             /\ next.superseded_by = run.superseded_by
             /\ next.installation = run.installation
             /\ next.lifecycle = Or(t.lifecycle, run.lifecycle)
             /\ next.phase = Or(t.phase, run.phase)
             /\ next.terminal_reason = Or(t.terminal_reason, run.terminal_reason)
             /\ next.mechanical = Or(t.mechanical, run.mechanical)
             /\ next.outcome = Or(t.outcome, run.outcome)
             /\ next.publication = Or(t.publication, run.publication)
             /\ next.version = run.version + 1
<1> DEFINE next == Requested(run, t, now)
           moved == [run EXCEPT
                       !.lifecycle       = Or(t.lifecycle, run.lifecycle),
                       !.phase           = Or(t.phase, run.phase),
                       !.terminal_reason = Or(t.terminal_reason, run.terminal_reason),
                       !.mechanical      = Or(t.mechanical, run.mechanical),
                       !.outcome         = Or(t.outcome, run.outcome),
                       !.publication     = Or(t.publication, run.publication),
                       !.updated_at      = now]
<1>1. /\ Or(t.lifecycle, run.lifecycle) \in Lifecycle
      /\ Or(t.phase, run.phase) \in Phase
      /\ Or(t.terminal_reason, run.terminal_reason) \in Reason \cup {None}
      /\ Or(t.mechanical, run.mechanical) \in MechanicalStatus \cup {None}
      /\ Or(t.outcome, run.outcome) \in ClaimOutcome \cup {None}
      /\ Or(t.publication, run.publication) \in Publication
  BY DEF Or, VerificationRun, RunTransition
<1>2. moved \in VerificationRun /\ moved.version = run.version
  BY <1>1 DEF VerificationRun
<1>3. [moved EXCEPT !.version = run.version + 1] \in VerificationRun
  <2> HIDE DEF moved
  <2> QED BY <1>2 DEF VerificationRun
<1>4. next \in VerificationRun
  BY <1>3 DEF Requested
<1> QED
  BY <1>4 DEF Requested, VerificationRun
-----------------------------------------------------------------------------
(* Storing one row or document keeps a partial function's type and leaves  *)
(* every other key as it was.                                              *)
LEMMA PutFacts ==
  ASSUME NEW S, NEW T, NEW f, Partial(f, S, T), NEW k \in S, NEW v \in T
  PROVE  /\ Partial(Put(f, k, v), S, T)
         /\ DOMAIN Put(f, k, v) = DOMAIN f \cup {k}
         /\ Put(f, k, v)[k] = v
         /\ \A j \in DOMAIN f : j # k => Put(f, k, v)[j] = f[j]
  BY DEF Partial, Put

LEMMA ExceptFacts ==
  ASSUME NEW S, NEW T, NEW f, Partial(f, S, T), NEW k \in DOMAIN f, NEW v \in T
  PROVE  /\ Partial([f EXCEPT ![k] = v], S, T)
         /\ DOMAIN [f EXCEPT ![k] = v] = DOMAIN f
         /\ [f EXCEPT ![k] = v][k] = v
         /\ \A j \in DOMAIN f : j # k => [f EXCEPT ![k] = v][j] = f[j]
  BY DEF Partial

(* The transition fail_run applies is one a caller could request. *)
LEMMA FailTransitionType == FailTransition \in RunTransition
  BY DEF FailTransition, NoChange, RunTransition, Lifecycle, Reason

(* Accepting, transitioning, failing and publishing write only well-formed *)
(* records.                                                                *)
LEMMA TypeKept ==
  ASSUME TypeOK, [Next]_vars
  PROVE  TypeOK'
<1> USE DEF TypeOK
<1>1. CASE UNCHANGED vars
  BY <1>1 DEF vars, pointers, records, Partial
<1>2. CASE Tick
  BY <1>2, StoreAssumption DEF Tick, pointers, records, Partial
<1>3. ASSUME NEW e \in Events, AcceptDuplicateDelivery(e)
      PROVE  TypeOK'
  BY <1>3 DEF AcceptDuplicateDelivery, vars, pointers, records, Partial
<1>4. ASSUME NEW e \in Events, NEW now \in 0 .. clock,
             AcceptDuplicateRevision(e, now)
      PROVE  TypeOK'
  <2> DEFINE r   == DuplicateOf(e)
             run == IF e.head_updated_at > runs[r].head_updated_at
                    THEN Refreshed(runs[r], e, now) ELSE runs[r]
  <2>1. e \in PullRequestEvent(DeliveryId) /\ e.delivery \in DeliveryId
    BY StoreAssumption DEF PullRequestEvent
  <2>2. r \in DOMAIN runs /\ r \in RunId /\ runs[r] \in VerificationRun
    BY <1>4 DEF AcceptDuplicateRevision, LookupsSucceed, IsDuplicateRevision,
                Readable, Partial
  <2>3. run \in VerificationRun
    BY <2>1, <2>2, RefreshedFacts
  <2>4. /\ runs' = Put(runs, r, run) /\ deliveries' = Put(deliveries, e.delivery, r)
        /\ UNCHANGED <<pointers, records, clock>>
    BY <1>4 DEF AcceptDuplicateRevision
  <2> HIDE DEF r, run
  <2>5. Partial(runs', RunId, VerificationRun)
    BY <2>2, <2>3, <2>4, PutFacts
  <2>6. Partial(deliveries', DeliveryId, RunId)
    BY <2>1, <2>2, <2>4, PutFacts
  <2> QED
    BY <2>4, <2>5, <2>6 DEF pointers, records
<1>5. ASSUME NEW e \in Events, NEW now \in 0 .. clock, NEW r \in RunId,
             AcceptStale(e, now, r)
      PROVE  TypeOK'
  <2>1. /\ e \in PullRequestEvent(DeliveryId) /\ e.delivery \in DeliveryId
        /\ <<e.pr, e.revision>> \in PullRequest \X Revision
    BY StoreAssumption DEF PullRequestEvent
  <2>2. CurrentOf(e) \in RunId
    BY <1>5 DEF AcceptStale, NotNewer, HasCurrent, CurrentOf, Partial
  <2>3. NewRun(e, now, TRUE) \in VerificationRun
    <3>1. now \in Nat
      OBVIOUS
    <3> QED
      BY <3>1, <2>1, <2>2, StaleRunFacts
  <2>4. Partial(runs', RunId, VerificationRun)
    BY <1>5, <2>3, PutFacts DEF AcceptStale
  <2>5. Partial(deliveries', DeliveryId, RunId)
    BY <1>5, <2>1, PutFacts DEF AcceptStale
  <2>6. Partial(revisions', PullRequest \X Revision, RunId)
    BY <1>5, <2>1, PutFacts DEF AcceptStale
  <2> QED
    BY <1>5, <2>4, <2>5, <2>6 DEF AcceptStale, records
<1>6. ASSUME NEW e \in Events, NEW now \in 0 .. clock, NEW r \in RunId,
             AcceptNew(e, now, r)
      PROVE  TypeOK'
  <2>1. /\ e \in PullRequestEvent(DeliveryId) /\ e.delivery \in DeliveryId
        /\ e.pr \in PullRequest
        /\ <<e.pr, e.revision>> \in PullRequest \X Revision
    BY StoreAssumption DEF PullRequestEvent
  <2>2. NewRun(e, now, FALSE) \in VerificationRun
    <3>1. now \in Nat
      OBVIOUS
    <3> QED
      BY <3>1, <2>1, NewRunFacts
  <2>3. \A k \in DOMAIN runs : /\ runs[k] \in VerificationRun
                              /\ Superseded(runs[k], r, now) \in VerificationRun
    BY SupersededFacts DEF Partial
  <2>4. Partial(runs', RunId, VerificationRun)
    BY <1>6, <2>2, <2>3 DEF AcceptNew, Partial
  <2>5. Partial(deliveries', DeliveryId, RunId)
    BY <1>6, <2>1, PutFacts DEF AcceptNew
  <2>6. Partial(revisions', PullRequest \X Revision, RunId)
    BY <1>6, <2>1, PutFacts DEF AcceptNew
  <2>7. Partial(current', PullRequest, RunId)
    BY <1>6, <2>1, PutFacts DEF AcceptNew
  <2> QED
    BY <1>6, <2>4, <2>5, <2>6, <2>7 DEF AcceptNew, records
<1>7. ASSUME NEW r \in RunId, NEW v \in 1 .. MaxVersion,
             NEW t \in Transitions, NEW now \in 0 .. clock,
             TransitionRun(r, v, t, now)
      PROVE  TypeOK'
  <2>1. r \in DOMAIN runs /\ runs[r] \in VerificationRun /\ t \in RunTransition
    BY <1>7, StoreAssumption DEF TransitionRun, Readable, Partial
  <2>2. ApplyRunTransition(runs[r], t, now) \in VerificationRun
    BY <2>1, RequestedFacts DEF ApplyRunTransition
  <2>3. Partial(runs', RunId, VerificationRun)
    BY <1>7, <2>1, <2>2, ExceptFacts DEF TransitionRun
  <2> QED
    BY <1>7, <2>3 DEF TransitionRun, pointers, records
<1>8. ASSUME NEW r \in RunId, NEW now \in 0 .. clock, FailRun(r, now)
      PROVE  TypeOK'
  <2>1. /\ r \in DOMAIN runs /\ runs[r] \in VerificationRun
        /\ runs[r].phase \in Phase
    BY <1>8 DEF FailRun, Partial, VerificationRun
  <2>2. ApplyRunTransition(runs[r], FailTransition, now) \in VerificationRun
    BY <2>1, RequestedFacts, FailTransitionType DEF ApplyRunTransition
  <2>3. Partial(runs', RunId, VerificationRun)
    BY <1>8, <2>1, <2>2, ExceptFacts DEF FailRun
  <2>4. Partial(failures', RunId, Phase)
    BY <1>8, <2>1, PutFacts DEF FailRun
  <2> QED
    BY <1>8, <2>3, <2>4 DEF FailRun, pointers
<1>9. ASSUME NEW r \in RunId, NEW doc \in Document, SaveEvidence(r, doc)
      PROVE  TypeOK'
  <2>1. Partial(evidence', RunId, Document)
    BY <1>9, PutFacts DEF SaveEvidence
  <2> QED
    BY <1>9, <2>1 DEF SaveEvidence, pointers
<1>10. ASSUME NEW r \in RunId, NEW payload \in Payload,
              BeginPublication(r, payload)
       PROVE  TypeOK'
  <2> DEFINE first == [payload |-> payload, check |-> None,
                       attempts |-> 1, error |-> FALSE]
             again == [publications[r] EXCEPT !.attempts = @ + 1,
                                              !.error = FALSE]
  <2>1. first \in CheckPublication
    BY DEF CheckPublication
  <2>2. ASSUME r \in DOMAIN publications
        PROVE  again \in CheckPublication
    <3>1. publications[r] \in CheckPublication
      BY <2>2 DEF Partial
    <3>2. publications[r].attempts + 1 \in Nat \ {0}
      BY <3>1 DEF CheckPublication
    <3> QED
      BY <3>1, <3>2 DEF CheckPublication
  <2>3. PICK value \in CheckPublication : publications' = Put(publications, r, value)
    BY <1>10, <2>1, <2>2 DEF BeginPublication
  <2>4. Partial(publications', RunId, CheckPublication)
    BY <2>3, PutFacts
  <2> QED
    BY <1>10, <2>4 DEF BeginPublication, pointers
<1>11. ASSUME NEW r \in RunId, NEW check \in CheckId, SetCheckRunId(r, check)
       PROVE  TypeOK'
  BY <1>11 DEF SetCheckRunId, pointers, CheckPublication, Partial
<1>12. ASSUME NEW r \in RunId, RecordPublicationError(r)
       PROVE  TypeOK'
  BY <1>12 DEF RecordPublicationError, pointers, CheckPublication, Partial
<1> QED
  BY <1>1, <1>2, <1>3, <1>4, <1>5, <1>6, <1>7, <1>8, <1>9, <1>10, <1>11, <1>12
     DEF Next, AcceptPullRequest

(* Every stored row and document keeps its type. *)
THEOREM TypeCorrect == Spec => []TypeOK
<1>1. Init => TypeOK
  BY DEF Init, TypeOK, Partial
<1> QED
  BY <1>1, TypeKept, PTL DEF Spec
-----------------------------------------------------------------------------
(* A step seen through what the pointers and the queries depend on: a      *)
(* run's identity, event timestamp and revision state.                     *)
SameIdentity(k) == /\ runs'[k].pr = runs[k].pr
                   /\ runs'[k].revision = runs[k].revision
Kept(k) == /\ SameIdentity(k)
           /\ runs'[k].head_updated_at = runs[k].head_updated_at
           /\ runs'[k].revision_state = runs[k].revision_state
           /\ runs'[k].superseded_by = runs[k].superseded_by

Quiet == /\ DOMAIN runs' = DOMAIN runs
         /\ \A k \in DOMAIN runs : Kept(k)
         /\ UNCHANGED pointers

Relabels(e) ==
  LET r == DuplicateOf(e)
  IN  /\ HasDuplicate(e) /\ r \in DOMAIN runs
      /\ ~HasCurrent(e) \/ r = CurrentOf(e) \/ NotNewer(e)
      /\ e.head_updated_at > runs[r].head_updated_at
      /\ DOMAIN runs' = DOMAIN runs
      /\ \A k \in DOMAIN runs \ {r} : Kept(k)
      /\ SameIdentity(r)
      /\ runs'[r].head_updated_at = e.head_updated_at
      /\ runs'[r].revision_state = runs[r].revision_state
      /\ runs'[r].superseded_by = runs[r].superseded_by
      /\ UNCHANGED pointers

(* Common to both ways of creating run r for event e. *)
Creates(e, r) ==
  /\ ~IsDuplicateRevision(e)
  /\ r \in RunId \ DOMAIN runs
  /\ DOMAIN runs' = DOMAIN runs \cup {r}
  /\ runs'[r].pr = e.pr /\ runs'[r].revision = e.revision
  /\ runs'[r].head_updated_at = e.head_updated_at
  /\ revisions' = Put(revisions, <<e.pr, e.revision>>, r)

CreatesStale(e, r) ==
  /\ Creates(e, r)
  /\ NotNewer(e)
  /\ runs'[r].revision_state = "SUPERSEDED"
  /\ runs'[r].superseded_by = CurrentOf(e)
  /\ \A k \in DOMAIN runs : Kept(k)
  /\ current' = current

CreatesCurrent(e, r) ==
  /\ Creates(e, r)
  /\ ~NotNewer(e)
  /\ runs'[r].revision_state = "CURRENT" /\ runs'[r].superseded_by = None
  /\ ValidDimensions(runs'[r])
  /\ HasCurrent(e) => CurrentOf(e) \in DOMAIN runs
  /\ \A k \in DOMAIN runs :
       IF HasCurrent(e) /\ k = CurrentOf(e)
       THEN /\ SameIdentity(k)
            /\ runs'[k].head_updated_at = runs[k].head_updated_at
            /\ runs'[k].revision_state = "SUPERSEDED"
            /\ runs'[k].superseded_by = r
       ELSE Kept(k)
  /\ current' = Put(current, e.pr, r)

(* Every step is one of these four. *)
LEMMA StepKinds ==
  ASSUME TypeOK, [Next]_vars
  PROVE  \/ Quiet
         \/ \E e \in Events : Relabels(e)
         \/ \E e \in Events, r \in RunId : CreatesStale(e, r)
         \/ \E e \in Events, r \in RunId : CreatesCurrent(e, r)
<1> USE DEF TypeOK
<1>1. ASSUME runs' = runs, UNCHANGED pointers
      PROVE  Quiet
  BY <1>1 DEF Quiet, Kept, SameIdentity
<1>2. CASE \/ UNCHANGED vars
           \/ Tick
           \/ \E e \in Events : AcceptDuplicateDelivery(e)
           \/ \E r \in RunId :
                \/ \E doc \in Document : SaveEvidence(r, doc)
                \/ \E payload \in Payload : BeginPublication(r, payload)
                \/ \E check \in CheckId : SetCheckRunId(r, check)
                \/ RecordPublicationError(r)
  <2>1. runs' = runs /\ UNCHANGED pointers
    BY <1>2 DEF vars, pointers, Tick, AcceptDuplicateDelivery, SaveEvidence,
                BeginPublication, SetCheckRunId, RecordPublicationError
  <2> QED
    BY <1>1, <2>1
<1>3. ASSUME NEW r \in RunId, NEW t \in RunTransition, NEW now \in Nat,
             r \in DOMAIN runs, UNCHANGED pointers,
             runs' = [runs EXCEPT ![r] = ApplyRunTransition(runs[r], t, now)]
      PROVE  Quiet
  <2>1. runs[r] \in VerificationRun
    BY <1>3 DEF Partial
  <2>2. Kept(r)
    BY <1>3, <2>1, RequestedFacts, ExceptFacts
       DEF Kept, SameIdentity, ApplyRunTransition
  <2> QED
    BY <1>3, <2>2 DEF Quiet, Kept, SameIdentity, Partial
<1>4. ASSUME NEW r \in RunId, NEW v \in 1 .. MaxVersion, NEW t \in Transitions,
             NEW now \in 0 .. clock, TransitionRun(r, v, t, now)
      PROVE  Quiet
  <2>1. /\ t \in RunTransition /\ now \in Nat /\ r \in DOMAIN runs
        /\ UNCHANGED pointers
        /\ runs' = [runs EXCEPT ![r] = ApplyRunTransition(runs[r], t, now)]
    BY <1>4, StoreAssumption DEF TransitionRun, Readable
  <2> QED
    BY <1>3, <2>1
<1>5. ASSUME NEW r \in RunId, NEW now \in 0 .. clock, FailRun(r, now)
      PROVE  Quiet
  <2>1. /\ now \in Nat /\ r \in DOMAIN runs /\ UNCHANGED pointers
        /\ runs' = [runs EXCEPT ![r] = ApplyRunTransition(runs[r], FailTransition, now)]
    BY <1>5 DEF FailRun
  <2> QED
    BY <1>3, <2>1, FailTransitionType
<1>6. ASSUME NEW e \in Events, NEW now \in 0 .. clock,
             AcceptDuplicateRevision(e, now)
      PROVE  Quiet \/ Relabels(e)
  <2> DEFINE r == DuplicateOf(e)
  <2>1. /\ e \in PullRequestEvent(DeliveryId) /\ now \in Nat
        /\ r \in DOMAIN runs /\ r \in RunId /\ runs[r] \in VerificationRun
        /\ UNCHANGED pointers
    BY <1>6, StoreAssumption
       DEF AcceptDuplicateRevision, LookupsSucceed, IsDuplicateRevision,
           Readable, Partial, pointers
  <2>2. CASE ~(e.head_updated_at > runs[r].head_updated_at)
    <3>1. runs' = Put(runs, r, runs[r])
      BY <1>6, <2>2 DEF AcceptDuplicateRevision
    <3> QED
      BY <2>1, <3>1 DEF Quiet, Kept, SameIdentity, Put
  <2>3. CASE e.head_updated_at > runs[r].head_updated_at
    <3>1. runs' = Put(runs, r, Refreshed(runs[r], e, now))
      BY <1>6, <2>3 DEF AcceptDuplicateRevision
    <3>2. /\ DOMAIN runs' = DOMAIN runs
          /\ runs'[r] = Refreshed(runs[r], e, now)
          /\ \A k \in DOMAIN runs \ {r} : runs'[k] = runs[k]
      BY <2>1, <3>1 DEF Put
    <3>3. /\ SameIdentity(r)
          /\ runs'[r].head_updated_at = e.head_updated_at
          /\ runs'[r].revision_state = runs[r].revision_state
          /\ runs'[r].superseded_by = runs[r].superseded_by
      BY <2>1, <3>2, RefreshedFacts DEF SameIdentity
    <3> QED
      BY <1>6, <2>1, <2>3, <3>2, <3>3
         DEF Relabels, AcceptDuplicateRevision, IsDuplicateRevision, Kept,
             SameIdentity
  <2> QED
    BY <2>2, <2>3
<1>7. ASSUME NEW e \in Events, NEW now \in 0 .. clock, NEW r \in RunId,
             AcceptStale(e, now, r)
      PROVE  CreatesStale(e, r)
  <2>1. /\ e \in PullRequestEvent(DeliveryId) /\ now \in Nat
        /\ CurrentOf(e) \in RunId
    BY <1>7, StoreAssumption
       DEF AcceptStale, NotNewer, HasCurrent, CurrentOf, Partial
  <2>2. /\ DOMAIN runs' = DOMAIN runs \cup {r}
        /\ runs'[r] = NewRun(e, now, TRUE)
        /\ \A k \in DOMAIN runs : runs'[k] = runs[k]
    BY <1>7 DEF AcceptStale, Put
  <2>3. /\ runs'[r].pr = e.pr /\ runs'[r].revision = e.revision
        /\ runs'[r].head_updated_at = e.head_updated_at
        /\ runs'[r].revision_state = "SUPERSEDED"
        /\ runs'[r].superseded_by = CurrentOf(e)
    <3> DEFINE run == NewRun(e, now, TRUE)
    <3>1. /\ run.pr = e.pr /\ run.revision = e.revision
          /\ run.head_updated_at = e.head_updated_at
          /\ run.revision_state = "SUPERSEDED"
          /\ run.superseded_by = CurrentOf(e)
      BY <2>1, StaleRunFacts
    <3>2. runs'[r] = run
      BY <2>2
    <3> HIDE DEF run
    <3> QED
      BY <3>1, <3>2
  <2> QED
    BY <1>7, <2>2, <2>3
       DEF CreatesStale, Creates, AcceptStale, Kept, SameIdentity
<1>8. ASSUME NEW e \in Events, NEW now \in 0 .. clock, NEW r \in RunId,
             AcceptNew(e, now, r)
      PROVE  CreatesCurrent(e, r)
  <2>1. /\ e \in PullRequestEvent(DeliveryId) /\ now \in Nat
        /\ r \in RunId \ DOMAIN runs
        /\ HasCurrent(e) => CurrentOf(e) \in DOMAIN runs
    BY <1>8, StoreAssumption DEF AcceptNew, LookupsSucceed, Readable
  <2>2. /\ DOMAIN runs' = DOMAIN runs \cup {r}
        /\ runs'[r] = NewRun(e, now, FALSE)
    BY <1>8 DEF AcceptNew
  <2>3. /\ runs'[r].pr = e.pr /\ runs'[r].revision = e.revision
        /\ runs'[r].head_updated_at = e.head_updated_at
        /\ runs'[r].revision_state = "CURRENT" /\ runs'[r].superseded_by = None
        /\ ValidDimensions(runs'[r])
    <3> DEFINE run == NewRun(e, now, FALSE)
    <3>1. /\ run.pr = e.pr /\ run.revision = e.revision
          /\ run.head_updated_at = e.head_updated_at
          /\ run.revision_state = "CURRENT" /\ run.superseded_by = None
          /\ ValidDimensions(run)
      BY <2>1, NewRunFacts
    <3>2. runs'[r] = run
      BY <2>2
    <3> HIDE DEF run
    <3> QED
      BY <3>1, <3>2
  <2>4. ASSUME NEW k \in DOMAIN runs
        PROVE  IF HasCurrent(e) /\ k = CurrentOf(e)
               THEN /\ SameIdentity(k)
                    /\ runs'[k].head_updated_at = runs[k].head_updated_at
                    /\ runs'[k].revision_state = "SUPERSEDED"
                    /\ runs'[k].superseded_by = r
               ELSE Kept(k)
    <3>1. runs[k] \in VerificationRun /\ k # r
      BY <2>1 DEF Partial
    <3>2. runs'[k] = IF HasCurrent(e) /\ k = CurrentOf(e)
                     THEN Superseded(runs[k], r, now) ELSE runs[k]
      BY <1>8, <3>1 DEF AcceptNew
    <3>3. CASE HasCurrent(e) /\ k = CurrentOf(e)
      BY <2>1, <3>1, <3>2, <3>3, SupersededFacts DEF SameIdentity
    <3>4. CASE ~(HasCurrent(e) /\ k = CurrentOf(e))
      BY <3>2, <3>4 DEF Kept, SameIdentity
    <3> QED
      BY <3>3, <3>4
  <2> QED
    BY <1>8, <2>1, <2>2, <2>3, <2>4 DEF CreatesCurrent, Creates, AcceptNew
<1> QED
  BY <1>2, <1>4, <1>5, <1>6, <1>7, <1>8 DEF Next, AcceptPullRequest
-----------------------------------------------------------------------------
(* The inductive invariant behind the properties of the pointers: stated   *)
(* per run, through the pointers, where the properties use sets of runs.   *)
CurrentInv ==
  /\ \A pr \in DOMAIN current :
       current[pr] \in DOMAIN runs /\ runs[current[pr]].pr = pr
  /\ \A r \in DOMAIN runs :
       /\ runs[r].pr \in DOMAIN current
       /\ (runs[r].revision_state = "CURRENT") <=> (r = current[runs[r].pr])

NewestInv ==
  \A r \in DOMAIN runs :
    runs[r].head_updated_at <= runs[current[runs[r].pr]].head_updated_at

RevisionInv ==
  /\ \A pr \in PullRequest, rev \in Revision :
       <<pr, rev>> \in DOMAIN revisions =>
         /\ revisions[<<pr, rev>>] \in DOMAIN runs
         /\ runs[revisions[<<pr, rev>>]].pr = pr
         /\ runs[revisions[<<pr, rev>>]].revision = rev
  /\ \A r \in DOMAIN runs :
       /\ <<runs[r].pr, runs[r].revision>> \in DOMAIN revisions
       /\ \/ r = revisions[<<runs[r].pr, runs[r].revision>>]
          \/ runs[r].head_updated_at
               < runs[revisions[<<runs[r].pr, runs[r].revision>>]].head_updated_at

SupersededInv ==
  \A r \in DOMAIN runs :
    (runs[r].revision_state = "CURRENT") <=> (runs[r].superseded_by = None)

PointerInv == TypeOK /\ CurrentInv /\ NewestInv /\ RevisionInv
                     /\ SupersededInv /\ SupersessionWellFounded

(* The fields the arguments below compute with. *)
LEMMA RunFields ==
  ASSUME TypeOK
  PROVE  \A r \in DOMAIN runs :
           /\ r \in RunId
           /\ runs[r].pr \in PullRequest /\ runs[r].revision \in Revision
           /\ runs[r].head_updated_at \in Nat
           /\ runs[r].revision_state \in {"CURRENT", "SUPERSEDED"}
  BY DEF TypeOK, Partial, VerificationRun

LEMMA EventFields ==
  ASSUME NEW e \in Events
  PROVE  e.pr \in PullRequest /\ e.revision \in Revision /\ e.head_updated_at \in Nat
  BY StoreAssumption DEF PullRequestEvent

LEMMA QuietKeepsPointers ==
  ASSUME PointerInv, TypeOK', Quiet
  PROVE  PointerInv'
<1> USE DEF PointerInv, Quiet, Kept, SameIdentity, pointers
<1>1. CurrentInv'
  BY DEF CurrentInv
<1>2. NewestInv'
  BY DEF NewestInv, CurrentInv
<1>3. RevisionInv'
  <2>1. \A r \in DOMAIN runs : runs[r].pr \in PullRequest /\ runs[r].revision \in Revision
    BY RunFields
  <2> QED
    BY <2>1 DEF RevisionInv
<1>4. SupersededInv'
  BY DEF SupersededInv
<1>5. SupersessionWellFounded'
  <2>1. \A r \in DOMAIN runs' : runs'[r].superseded_by # None =>
          /\ runs'[r].superseded_by \in DOMAIN runs'
          /\ runs'[runs'[r].superseded_by].pr = runs'[r].pr
    BY DEF SupersessionWellFounded
  <2>2. ASSUME NEW S \in SUBSET DOMAIN runs', S # {}
        PROVE  \E r \in S : runs'[r].superseded_by \notin S
    BY <2>2 DEF SupersessionWellFounded
  <2> QED
    BY <2>1, <2>2 DEF SupersessionWellFounded
<1> QED
  BY <1>1, <1>2, <1>3, <1>4, <1>5

LEMMA RelabelKeepsPointers ==
  ASSUME PointerInv, TypeOK', NEW e \in Events, Relabels(e)
  PROVE  PointerInv'
<1> DEFINE r == DuplicateOf(e)
<1> USE DEF PointerInv
<1>1. /\ r \in DOMAIN runs /\ runs[r].pr = e.pr /\ runs[r].revision = e.revision
      /\ r = revisions[<<e.pr, e.revision>>]
      /\ DOMAIN runs' = DOMAIN runs /\ current' = current /\ revisions' = revisions
  BY EventFields DEF Relabels, HasDuplicate, DuplicateOf, RevisionInv, pointers
<1>2. \A k \in DOMAIN runs :
        /\ runs'[k].pr = runs[k].pr /\ runs'[k].revision = runs[k].revision
        /\ runs'[k].revision_state = runs[k].revision_state
        /\ runs'[k].superseded_by = runs[k].superseded_by
        /\ k = r => runs'[k].head_updated_at = e.head_updated_at
        /\ k # r => runs'[k].head_updated_at = runs[k].head_updated_at
  BY <1>1 DEF Relabels, Kept, SameIdentity
<1>3. runs[r].head_updated_at < e.head_updated_at
  BY <1>1, EventFields, RunFields DEF Relabels
<1>4. r = current[e.pr] \/ e.head_updated_at <= runs[current[e.pr]].head_updated_at
  BY <1>1 DEF Relabels, HasCurrent, CurrentOf, NotNewer, CurrentInv
<1> HIDE DEF r
<1>5. CurrentInv'
  BY <1>1, <1>2 DEF CurrentInv
<1>6. NewestInv'
  <2> SUFFICES ASSUME NEW k \in DOMAIN runs
               PROVE  runs'[k].head_updated_at
                        <= runs'[current[runs[k].pr]].head_updated_at
    BY <1>1, <1>2 DEF NewestInv
  <2> DEFINE c == current[runs[k].pr]
  <2>1. /\ c \in DOMAIN runs
        /\ runs[k].head_updated_at <= runs[c].head_updated_at
    BY DEF CurrentInv, NewestInv
  <2>2. /\ runs[k].head_updated_at \in Nat /\ runs[c].head_updated_at \in Nat
        /\ runs[r].head_updated_at \in Nat /\ e.head_updated_at \in Nat
    BY <1>1, <2>1, EventFields, RunFields
  <2>3. CASE k # r
    BY <1>2, <1>3, <2>1, <2>2, <2>3
  <2>4. CASE k = r
    BY <1>1, <1>2, <1>4, <2>1, <2>2, <2>4
  <2> QED
    BY <2>3, <2>4
<1>7. RevisionInv'
  <2>1. \A k \in DOMAIN runs :
          \/ k = revisions[<<runs[k].pr, runs[k].revision>>]
          \/ runs'[k].head_updated_at
               < runs'[revisions[<<runs[k].pr, runs[k].revision>>]].head_updated_at
    BY <1>1, <1>2, <1>3, EventFields, RunFields DEF RevisionInv
  <2> QED
    BY <1>1, <1>2, <2>1, RunFields DEF RevisionInv
<1>8. SupersededInv'
  BY <1>1, <1>2 DEF SupersededInv
<1>9. SupersessionWellFounded'
  <2>1. ASSUME NEW S \in SUBSET DOMAIN runs', S # {}
        PROVE  \E k \in S : runs'[k].superseded_by \notin S
    BY <1>1, <1>2, <2>1 DEF SupersessionWellFounded
  <2> QED
    BY <1>1, <1>2, <2>1 DEF SupersessionWellFounded
<1> QED
  BY <1>5, <1>6, <1>7, <1>8, <1>9

LEMMA StaleKeepsPointers ==
  ASSUME PointerInv, TypeOK', NEW e \in Events, NEW r \in RunId, CreatesStale(e, r)
  PROVE  PointerInv'
<1> USE DEF PointerInv
<1>1. /\ r \notin DOMAIN runs /\ DOMAIN runs' = DOMAIN runs \cup {r}
      /\ \A k \in DOMAIN runs : Kept(k)
      /\ runs'[r].pr = e.pr /\ runs'[r].revision = e.revision
      /\ runs'[r].head_updated_at = e.head_updated_at
      /\ runs'[r].revision_state = "SUPERSEDED"
      /\ runs'[r].superseded_by = current[e.pr]
      /\ current' = current
  BY DEF CreatesStale, Creates, CurrentOf
<1>2. /\ e.pr \in DOMAIN current
      /\ current[e.pr] \in DOMAIN runs /\ runs[current[e.pr]].pr = e.pr
      /\ e.head_updated_at <= runs[current[e.pr]].head_updated_at
  BY DEF CreatesStale, NotNewer, HasCurrent, CurrentOf, CurrentInv
<1>3. <<e.pr, e.revision>> \notin DOMAIN revisions
  BY DEF CreatesStale, Creates, IsDuplicateRevision, HasDuplicate
<1>4. /\ DOMAIN revisions' = DOMAIN revisions \cup {<<e.pr, e.revision>>}
      /\ revisions'[<<e.pr, e.revision>>] = r
      /\ \A k \in DOMAIN revisions : revisions'[k] = revisions[k]
  BY <1>3 DEF CreatesStale, Creates, Put
<1>5. CurrentInv'
  BY <1>1, <1>2 DEF CurrentInv, Kept, SameIdentity
<1>6. NewestInv'
  BY <1>1, <1>2 DEF NewestInv, CurrentInv, Kept, SameIdentity
<1>7. RevisionInv'
  <2>1. ASSUME NEW pr \in PullRequest, NEW rev \in Revision,
               <<pr, rev>> \in DOMAIN revisions'
        PROVE  /\ revisions'[<<pr, rev>>] \in DOMAIN runs'
               /\ runs'[revisions'[<<pr, rev>>]].pr = pr
               /\ runs'[revisions'[<<pr, rev>>]].revision = rev
    <3>1. CASE <<pr, rev>> \in DOMAIN revisions
      BY <1>1, <1>4, <3>1 DEF RevisionInv, Kept, SameIdentity
    <3>2. CASE <<pr, rev>> = <<e.pr, e.revision>>
      BY <1>1, <1>4, <3>2
    <3> QED
      BY <1>4, <2>1, <3>1, <3>2
  <2>2. ASSUME NEW k \in DOMAIN runs
        PROVE  LET key == <<runs'[k].pr, runs'[k].revision>>
               IN  /\ key \in DOMAIN revisions'
                   /\ \/ k = revisions'[key]
                      \/ runs'[k].head_updated_at
                           < runs'[revisions'[key]].head_updated_at
    <3> DEFINE key == <<runs[k].pr, runs[k].revision>>
    <3>1. /\ key \in DOMAIN revisions
          /\ \/ k = revisions[key]
             \/ runs[k].head_updated_at < runs[revisions[key]].head_updated_at
      BY DEF RevisionInv
    <3>2. revisions[key] \in DOMAIN runs
      BY <3>1, RunFields DEF RevisionInv
    <3>3. key = <<runs'[k].pr, runs'[k].revision>> /\ revisions'[key] = revisions[key]
      BY <1>1, <1>4, <3>1 DEF Kept, SameIdentity
    <3> HIDE DEF key
    <3> QED
      BY <1>1, <1>4, <3>1, <3>2, <3>3 DEF Kept, SameIdentity
  <2> QED
    BY <1>1, <1>4, <2>1, <2>2 DEF RevisionInv
<1>8. SupersededInv'
  BY <1>1, <1>2, NoneAssumption, RunFields DEF SupersededInv, Kept, SameIdentity
<1>9. SupersessionWellFounded'
  <2>1. ASSUME NEW S \in SUBSET DOMAIN runs', S # {}
        PROVE  \E k \in S : runs'[k].superseded_by \notin S
    <3>1. CASE S = {r}
      BY <1>1, <1>2, <3>1
    <3>2. CASE S # {r}
      <4>1. S \ {r} \in SUBSET DOMAIN runs /\ S \ {r} # {}
        BY <1>1, <2>1, <3>2
      <4>2. PICK k \in S \ {r} : runs[k].superseded_by \notin S \ {r}
        BY <4>1 DEF SupersessionWellFounded
      <4>3. runs[k].superseded_by # r
        BY <1>1, <4>1, <4>2, NoneAssumption DEF SupersessionWellFounded
      <4> QED
        BY <1>1, <4>1, <4>2, <4>3 DEF Kept, SameIdentity
    <3> QED
      BY <3>1, <3>2
  <2>2. \A k \in DOMAIN runs' : runs'[k].superseded_by # None =>
          /\ runs'[k].superseded_by \in DOMAIN runs'
          /\ runs'[runs'[k].superseded_by].pr = runs'[k].pr
    BY <1>1, <1>2 DEF SupersessionWellFounded, Kept, SameIdentity
  <2> QED
    BY <2>1, <2>2 DEF SupersessionWellFounded
<1> QED
  BY <1>5, <1>6, <1>7, <1>8, <1>9

LEMMA NewKeepsPointers ==
  ASSUME PointerInv, TypeOK', NEW e \in Events, NEW r \in RunId,
         CreatesCurrent(e, r)
  PROVE  PointerInv'
<1> USE DEF PointerInv
<1>1. /\ r \notin DOMAIN runs /\ DOMAIN runs' = DOMAIN runs \cup {r}
      /\ runs'[r].pr = e.pr /\ runs'[r].revision = e.revision
      /\ runs'[r].head_updated_at = e.head_updated_at
      /\ runs'[r].revision_state = "CURRENT" /\ runs'[r].superseded_by = None
  BY DEF CreatesCurrent, Creates
<1>2. \A k \in DOMAIN runs :
        /\ SameIdentity(k)
        /\ runs'[k].head_updated_at = runs[k].head_updated_at
  BY DEF CreatesCurrent, Kept
<1>3. \A k \in DOMAIN runs :
        IF runs[k].pr = e.pr /\ k = current[e.pr]
        THEN runs'[k].revision_state = "SUPERSEDED" /\ runs'[k].superseded_by = r
        ELSE /\ runs'[k].revision_state = runs[k].revision_state
             /\ runs'[k].superseded_by = runs[k].superseded_by
  BY DEF CreatesCurrent, Kept, HasCurrent, CurrentOf, CurrentInv
<1>4. /\ DOMAIN current' = DOMAIN current \cup {e.pr}
      /\ current'[e.pr] = r
      /\ \A pr \in DOMAIN current : pr # e.pr => current'[pr] = current[pr]
  BY DEF CreatesCurrent, Put
<1>5. /\ DOMAIN revisions' = DOMAIN revisions \cup {<<e.pr, e.revision>>}
      /\ revisions'[<<e.pr, e.revision>>] = r
      /\ \A k \in DOMAIN revisions : k # <<e.pr, e.revision>> =>
           revisions'[k] = revisions[k]
  BY DEF CreatesCurrent, Creates, Put
<1>6. \A k \in DOMAIN runs : runs[k].pr = e.pr =>
        runs[k].head_updated_at < e.head_updated_at
  <2> SUFFICES ASSUME NEW k \in DOMAIN runs, runs[k].pr = e.pr
               PROVE  runs[k].head_updated_at < e.head_updated_at
    OBVIOUS
  <2>1. /\ e.pr \in DOMAIN current /\ current[e.pr] \in DOMAIN runs
        /\ runs[k].head_updated_at <= runs[current[e.pr]].head_updated_at
    BY DEF CurrentInv, NewestInv
  <2>2. ~(e.head_updated_at <= runs[current[e.pr]].head_updated_at)
    BY <2>1 DEF CreatesCurrent, NotNewer, HasCurrent, CurrentOf
  <2> QED
    BY <2>1, <2>2, EventFields, RunFields
<1>7. CurrentInv'
  <2>1. \A pr \in DOMAIN current' :
          current'[pr] \in DOMAIN runs' /\ runs'[current'[pr]].pr = pr
    BY <1>1, <1>2, <1>4 DEF CurrentInv, SameIdentity
  <2>2. \A k \in DOMAIN runs :
          /\ runs'[k].pr \in DOMAIN current'
          /\ (runs'[k].revision_state = "CURRENT") <=> (k = current'[runs'[k].pr])
    BY <1>1, <1>2, <1>3, <1>4 DEF CurrentInv, SameIdentity
  <2> QED
    BY <1>1, <1>4, <2>1, <2>2 DEF CurrentInv
<1>8. NewestInv'
  <2>1. \A k \in DOMAIN runs :
          runs'[k].head_updated_at <= runs'[current'[runs'[k].pr]].head_updated_at
    <3> SUFFICES ASSUME NEW k \in DOMAIN runs
                 PROVE  runs'[k].head_updated_at
                          <= runs'[current'[runs'[k].pr]].head_updated_at
      OBVIOUS
    <3>1. CASE runs[k].pr = e.pr
      BY <1>1, <1>2, <1>4, <1>6, <3>1, EventFields, RunFields DEF SameIdentity
    <3>2. CASE runs[k].pr # e.pr
      <4>1. /\ runs[k].pr \in DOMAIN current
            /\ current[runs[k].pr] \in DOMAIN runs
            /\ current'[runs[k].pr] = current[runs[k].pr]
        BY <1>4, <3>2 DEF CurrentInv
      <4> QED
        BY <1>2, <4>1 DEF NewestInv, SameIdentity
    <3> QED
      BY <3>1, <3>2
  <2>2. runs'[r].head_updated_at <= runs'[current'[runs'[r].pr]].head_updated_at
    BY <1>1, <1>4, EventFields
  <2> QED
    BY <1>1, <2>1, <2>2 DEF NewestInv
<1>9. RevisionInv'
  <2>1. ASSUME NEW pr \in PullRequest, NEW rev \in Revision,
               <<pr, rev>> \in DOMAIN revisions'
        PROVE  /\ revisions'[<<pr, rev>>] \in DOMAIN runs'
               /\ runs'[revisions'[<<pr, rev>>]].pr = pr
               /\ runs'[revisions'[<<pr, rev>>]].revision = rev
    <3>1. CASE <<pr, rev>> # <<e.pr, e.revision>>
      BY <1>1, <1>2, <1>5, <2>1, <3>1 DEF RevisionInv, SameIdentity
    <3>2. CASE <<pr, rev>> = <<e.pr, e.revision>>
      BY <1>1, <1>5, <3>2
    <3> QED
      BY <3>1, <3>2
  <2>2. ASSUME NEW k \in DOMAIN runs
        PROVE  LET key == <<runs'[k].pr, runs'[k].revision>>
               IN  /\ key \in DOMAIN revisions'
                   /\ \/ k = revisions'[key]
                      \/ runs'[k].head_updated_at
                           < runs'[revisions'[key]].head_updated_at
    <3> DEFINE key == <<runs[k].pr, runs[k].revision>>
    <3>1. /\ key \in DOMAIN revisions
          /\ \/ k = revisions[key]
             \/ runs[k].head_updated_at < runs[revisions[key]].head_updated_at
      BY DEF RevisionInv
    <3>2. revisions[key] \in DOMAIN runs
      BY <3>1, RunFields DEF RevisionInv
    <3>3. key = <<runs'[k].pr, runs'[k].revision>>
      BY <1>2 DEF SameIdentity
    <3>4. CASE key = <<e.pr, e.revision>>
      BY <1>1, <1>2, <1>5, <1>6, <3>1, <3>3, <3>4
    <3>5. CASE key # <<e.pr, e.revision>>
      <4> HIDE DEF key
      <4> QED
        BY <1>2, <1>5, <3>1, <3>2, <3>3, <3>5
    <3> QED
      BY <3>4, <3>5
  <2> QED
    BY <1>1, <1>5, <2>1, <2>2 DEF RevisionInv
<1>10. SupersededInv'
  BY <1>1, <1>3, NoneAssumption DEF SupersededInv
<1>11. SupersessionWellFounded'
  <2>1. ASSUME NEW S \in SUBSET DOMAIN runs', S # {}
        PROVE  \E k \in S : runs'[k].superseded_by \notin S
    <3>1. CASE r \in S
      <4>1. None \notin S
        BY <1>1, <2>1, NoneAssumption, RunFields
      <4> QED
        BY <1>1, <3>1, <4>1
    <3>2. CASE r \notin S
      <4>1. S \in SUBSET DOMAIN runs
        BY <1>1, <3>2
      <4>2. PICK k \in S : runs[k].superseded_by \notin S
        BY <2>1, <4>1 DEF SupersessionWellFounded
      <4> QED
        BY <1>3, <3>2, <4>1, <4>2
    <3> QED
      BY <3>1, <3>2
  <2>2. \A k \in DOMAIN runs' : runs'[k].superseded_by # None =>
          /\ runs'[k].superseded_by \in DOMAIN runs'
          /\ runs'[runs'[k].superseded_by].pr = runs'[k].pr
    BY <1>1, <1>2, <1>3 DEF SupersessionWellFounded, SameIdentity
  <2> QED
    BY <2>1, <2>2 DEF SupersessionWellFounded
<1> QED
  BY <1>7, <1>8, <1>9, <1>10, <1>11

(* A step either leaves what the invariant speaks of alone, relabels one   *)
(* run or creates one.                                                     *)
LEMMA PointersKept ==
  ASSUME PointerInv, [Next]_vars
  PROVE  PointerInv'
<1>1. TypeOK /\ TypeOK'
  BY TypeKept DEF PointerInv
<1> QED
  BY <1>1, StepKinds, QuietKeepsPointers, RelabelKeepsPointers,
     StaleKeepsPointers, NewKeepsPointers

LEMMA PointersInit == Init => PointerInv
  BY DEF Init, PointerInv, TypeOK, Partial, CurrentInv, NewestInv, RevisionInv,
         SupersededInv, SupersessionWellFounded

(* The invariant holds throughout. *)
THEOREM PointerInvariant == Spec => []PointerInv
  BY PointersInit, PointersKept, PTL DEF Spec

(* A pull request has exactly one current run and the Firestore pointer    *)
(* names it, for any number of pull requests, runs and events.             *)
THEOREM CurrentPointer == Spec => []CurrentPointerAgrees
<1>1. PointerInv => CurrentPointerAgrees
  BY DEF PointerInv, CurrentInv, CurrentPointerAgrees, CurrentRuns
<1> QED
  BY <1>1, PointerInvariant, PTL

(* The Firestore revision pointer is SQLite's ORDER BY ... LIMIT 1, without *)
(* ties, so both back ends find the same duplicate.                        *)
THEOREM RevisionPointer == Spec => []RevisionPointerAgrees
<1>1. PointerInv => RevisionPointerAgrees
  <2> SUFFICES ASSUME PointerInv, NEW pr \in PullRequest, NEW rev \in Revision
               PROVE  LatestOfRevision(pr, rev) =
                        IF <<pr, rev>> \in DOMAIN revisions
                        THEN {revisions[<<pr, rev>>]} ELSE {}
    BY DEF RevisionPointerAgrees
  <2> USE DEF PointerInv
  <2>1. CASE <<pr, rev>> \notin DOMAIN revisions
    BY <2>1 DEF RevisionInv, LatestOfRevision
  <2>2. CASE <<pr, rev>> \in DOMAIN revisions
    <3> DEFINE m == revisions[<<pr, rev>>]
    <3>1. m \in DOMAIN runs /\ runs[m].pr = pr /\ runs[m].revision = rev
      BY <2>2 DEF RevisionInv
    <3>2. \A k \in DOMAIN runs : runs[k].pr = pr /\ runs[k].revision = rev =>
            k = m \/ runs[k].head_updated_at < runs[m].head_updated_at
      BY DEF RevisionInv
    <3>3. \A k \in DOMAIN runs : /\ runs[k].head_updated_at \in Nat
                                /\ runs[k].created_at \in Nat
      BY DEF TypeOK, Partial, VerificationRun
    <3> HIDE DEF m
    <3>4. m \in LatestOfRevision(pr, rev)
      BY <3>1, <3>2, <3>3 DEF LatestOfRevision
    <3>5. ASSUME NEW k \in LatestOfRevision(pr, rev), k # m
          PROVE  FALSE
      BY <3>1, <3>2, <3>3, <3>5 DEF LatestOfRevision
    <3>6. LatestOfRevision(pr, rev) = {m}
      BY <3>4, <3>5
    <3> QED
      BY <2>2, <3>6 DEF m
  <2> QED
    BY <2>1, <2>2
<1> QED
  BY <1>1, PointerInvariant, PTL

(* Both pointers at once: the two back ends find the same current run and  *)
(* the same duplicate for every event.                                     *)
THEOREM BackendsAgree == Spec => []PointersAgree
<1>1. CurrentPointerAgrees /\ RevisionPointerAgrees => PointersAgree
  BY DEF PointersAgree
<1> QED
  BY <1>1, CurrentPointer, RevisionPointer, PTL

(* Late and duplicate events never leave a pull request on an older head   *)
(* than one it already knows of.                                           *)
THEOREM CurrentNewest == Spec => []CurrentIsNewest
<1>1. PointerInv => CurrentIsNewest
  BY DEF PointerInv, CurrentInv, NewestInv, CurrentIsNewest, CurrentRuns
<1> QED
  BY <1>1, PointerInvariant, PTL

(* The history of a pull request is a forest of supersessions rooted at    *)
(* the current run.                                                        *)
THEOREM SupersessionForest == Spec => []SupersessionWellFounded
<1>1. PointerInv => SupersessionWellFounded
  BY DEF PointerInv
<1> QED
  BY <1>1, PointerInvariant, PTL
-----------------------------------------------------------------------------
(* The ways in which a step may change a stored run. *)
Refreshes(k)  == \E e \in Events, now \in Nat :
                   /\ runs'[k] = Refreshed(runs[k], e, now)
                   /\ Backend = "sqlite" => ValidDimensions(runs'[k])
Supersedes(k) == \E r \in RunId, now \in Nat :
                   /\ runs[k].revision_state = "CURRENT"
                   /\ ValidDimensions(runs[k])
                   /\ runs'[k] = Superseded(runs[k], r, now)
Transits(k)   == \E t \in RunTransition, now \in Nat :
                   /\ TransitionAllowed(runs[k], t, now)
                   /\ runs'[k] = Requested(runs[k], t, now)

(* A run that is new was just created from an event. *)
Created(k) == \E e \in Events, now \in Nat :
                \/ runs'[k] = NewRun(e, now, FALSE)
                \/ CurrentOf(e) \in RunId /\ runs'[k] = NewRun(e, now, TRUE)

LEMMA AcceptChanges ==
  ASSUME PointerInv, NEW e \in Events, NEW now \in 0 .. clock,
         AcceptPullRequest(e, now)
  PROVE  /\ \A k \in DOMAIN runs :
              /\ k \in DOMAIN runs'
              /\ runs'[k] = runs[k] \/ Refreshes(k) \/ Supersedes(k)
         /\ \A k \in DOMAIN runs' \ DOMAIN runs : Created(k)
<1> USE DEF PointerInv, TypeOK
<1>0. now \in Nat /\ \A k \in DOMAIN runs : k \in RunId /\ runs[k] \in VerificationRun
  BY DEF Partial
<1>1. CASE AcceptDuplicateDelivery(e)
  BY <1>1 DEF AcceptDuplicateDelivery, vars
<1>2. CASE AcceptDuplicateRevision(e, now)
  <2> DEFINE r == DuplicateOf(e)
  <2>1. /\ r \in DOMAIN runs
        /\ \/ runs' = Put(runs, r, runs[r])
           \/ /\ runs' = Put(runs, r, Refreshed(runs[r], e, now))
              /\ Backend = "sqlite" => ValidDimensions(Refreshed(runs[r], e, now))
    BY <1>2 DEF AcceptDuplicateRevision, CommitsRelabel, LookupsSucceed,
                IsDuplicateRevision, Readable
  <2> QED
    BY <1>0, <2>1 DEF Put, Refreshes
<1>3. ASSUME NEW r \in RunId, AcceptStale(e, now, r)
      PROVE  /\ \A k \in DOMAIN runs : k \in DOMAIN runs' /\ runs'[k] = runs[k]
             /\ \A k \in DOMAIN runs' \ DOMAIN runs : Created(k)
  <2>1. CurrentOf(e) \in RunId
    BY <1>0, <1>3 DEF AcceptStale, NotNewer, HasCurrent, CurrentOf, CurrentInv
  <2> QED
    BY <1>0, <1>3, <2>1 DEF AcceptStale, Put, Created
<1>4. ASSUME NEW r \in RunId, AcceptNew(e, now, r)
      PROVE  /\ \A k \in DOMAIN runs :
                  k \in DOMAIN runs' /\ (runs'[k] = runs[k] \/ Supersedes(k))
             /\ \A k \in DOMAIN runs' \ DOMAIN runs : Created(k)
  <2>1. ASSUME NEW k \in DOMAIN runs
        PROVE  /\ k \in DOMAIN runs' /\ k # r
               /\ runs'[k] = IF HasCurrent(e) /\ k = CurrentOf(e)
                             THEN Superseded(runs[k], r, now) ELSE runs[k]
    BY <1>4 DEF AcceptNew
  <2>2. ASSUME HasCurrent(e)
        PROVE  /\ ValidDimensions(runs[CurrentOf(e)])
               /\ runs[CurrentOf(e)].revision_state = "CURRENT"
    BY <1>4, <2>2 DEF AcceptNew, LookupsSucceed, Readable, HasCurrent, CurrentOf,
                      CurrentInv
  <2>3. \A k \in DOMAIN runs' \ DOMAIN runs : runs'[k] = NewRun(e, now, FALSE)
    BY <1>4 DEF AcceptNew
  <2> QED
    BY <1>0, <2>1, <2>2, <2>3 DEF Supersedes, Created
<1> QED
  BY <1>1, <1>2, <1>3, <1>4 DEF AcceptPullRequest

LEMMA RunChanges ==
  ASSUME PointerInv, [Next]_vars, NEW k \in DOMAIN runs
  PROVE  /\ k \in DOMAIN runs' /\ runs[k] \in VerificationRun
         /\ runs'[k] = runs[k] \/ Refreshes(k) \/ Supersedes(k) \/ Transits(k)
<1> USE DEF PointerInv, TypeOK
<1>0. runs[k] \in VerificationRun /\ (0 .. clock) \subseteq Nat
  BY DEF Partial
<1>1. CASE \/ UNCHANGED vars
           \/ Tick
           \/ \E r \in RunId :
                \/ \E doc \in Document : SaveEvidence(r, doc)
                \/ \E payload \in Payload : BeginPublication(r, payload)
                \/ \E check \in CheckId : SetCheckRunId(r, check)
                \/ RecordPublicationError(r)
  <2>1. runs' = runs
    BY <1>1 DEF vars, Tick, SaveEvidence, BeginPublication, SetCheckRunId,
                RecordPublicationError
  <2> QED
    BY <1>0, <2>1
<1>2. ASSUME NEW r \in RunId, NEW v \in 1 .. MaxVersion, NEW t \in Transitions,
             NEW now \in 0 .. clock, TransitionRun(r, v, t, now)
      PROVE  k \in DOMAIN runs' /\ (runs'[k] = runs[k] \/ Transits(k))
  <2>1. /\ TransitionAllowed(runs[r], t, now) /\ t \in RunTransition /\ now \in Nat
        /\ runs' = [runs EXCEPT ![r] = Requested(runs[r], t, now)]
    BY <1>2, StoreAssumption DEF TransitionRun, ApplyRunTransition
  <2> QED
    BY <2>1 DEF Transits, Partial
<1>3. ASSUME NEW r \in RunId, NEW now \in 0 .. clock, FailRun(r, now)
      PROVE  k \in DOMAIN runs' /\ (runs'[k] = runs[k] \/ Transits(k))
  <2>1. /\ TransitionAllowed(runs[r], FailTransition, now) /\ now \in Nat
        /\ runs' = [runs EXCEPT ![r] = Requested(runs[r], FailTransition, now)]
    BY <1>3 DEF FailRun, ApplyRunTransition
  <2> QED
    BY <2>1, FailTransitionType DEF Transits, Partial
<1>4. ASSUME NEW e \in Events, NEW now \in 0 .. clock, AcceptPullRequest(e, now)
      PROVE  /\ k \in DOMAIN runs'
             /\ runs'[k] = runs[k] \/ Refreshes(k) \/ Supersedes(k)
  BY <1>4, AcceptChanges
<1> QED
  BY <1>0, <1>1, <1>2, <1>3, <1>4 DEF Next

(* What a stored run never loses in one step. *)
LEMMA RunChangeLimits ==
  ASSUME PointerInv, [Next]_vars, NEW k \in DOMAIN runs
  PROVE  /\ WriteOnce(runs[k].terminal_reason, runs'[k].terminal_reason)
         /\ WriteOnce(runs[k].mechanical, runs'[k].mechanical)
         /\ WriteOnce(runs[k].outcome, runs'[k].outcome)
         /\ runs[k].lifecycle = "TERMINAL" => runs'[k].lifecycle = "TERMINAL"
         /\ runs[k].phase # "CONTEXT" => runs'[k].phase # "CONTEXT"
         /\ runs'[k] # runs[k] => runs'[k].version = runs[k].version + 1
         /\ runs[k].revision_state = "SUPERSEDED" =>
              /\ runs'[k].revision_state = "SUPERSEDED"
              /\ runs'[k].superseded_by = runs[k].superseded_by
              /\ runs'[k].lifecycle = runs[k].lifecycle
              /\ runs'[k].phase = runs[k].phase
              /\ runs'[k].publication = runs[k].publication
<1>0. runs[k] \in VerificationRun
  BY RunChanges
<1>1. CASE runs'[k] = runs[k]
  BY <1>1 DEF WriteOnce
<1>2. CASE Refreshes(k)
  <2>1. PICK e \in Events, now \in Nat : runs'[k] = Refreshed(runs[k], e, now)
    BY <1>2 DEF Refreshes
  <2>2. e \in PullRequestEvent(DeliveryId)
    BY StoreAssumption
  <2>3. /\ runs'[k].revision_state = runs[k].revision_state
        /\ runs'[k].superseded_by = runs[k].superseded_by
        /\ runs'[k].lifecycle = runs[k].lifecycle /\ runs'[k].phase = runs[k].phase
        /\ runs'[k].terminal_reason = runs[k].terminal_reason
        /\ runs'[k].mechanical = runs[k].mechanical
        /\ runs'[k].outcome = runs[k].outcome
        /\ runs'[k].publication = runs[k].publication
        /\ runs'[k].version = runs[k].version + 1
    BY <1>0, <2>1, <2>2, RefreshedFacts
  <2> QED
    BY <2>3 DEF WriteOnce
<1>3. CASE Supersedes(k)
  <2>1. PICK r \in RunId, now \in Nat :
          /\ runs[k].revision_state = "CURRENT"
          /\ ValidDimensions(runs[k])
          /\ runs'[k] = Superseded(runs[k], r, now)
    BY <1>3 DEF Supersedes
  <2> QED
    BY <1>0, <2>1, SupersededFacts DEF WriteOnce, ValidDimensions
<1>4. CASE Transits(k)
  <2>1. PICK t \in RunTransition, now \in Nat :
          /\ TransitionAllowed(runs[k], t, now)
          /\ runs'[k] = Requested(runs[k], t, now)
    BY <1>4 DEF Transits
  <2>2. /\ runs'[k].version = runs[k].version + 1
        /\ runs'[k].lifecycle = Requested(runs[k], t, now).lifecycle
        /\ runs'[k].phase = Requested(runs[k], t, now).phase
        /\ runs'[k].lifecycle \in Lifecycle /\ runs'[k].phase \in Phase
        /\ runs[k].lifecycle \in Lifecycle /\ runs[k].phase \in Phase
    BY <1>0, <2>1, RequestedFacts DEF VerificationRun
  <2>3. /\ runs[k].revision_state # "SUPERSEDED"
        /\ WriteOnce(runs[k].terminal_reason, runs'[k].terminal_reason)
        /\ WriteOnce(runs[k].mechanical, runs'[k].mechanical)
        /\ WriteOnce(runs[k].outcome, runs'[k].outcome)
    BY <2>1 DEF TransitionAllowed, RevisionOpen, WriteOnce
  <2>4. runs[k].lifecycle = "TERMINAL" => runs'[k].lifecycle = "TERMINAL"
    BY <2>1, <2>2 DEF TransitionAllowed, LifecycleMoves
  <2>5. runs[k].phase # "CONTEXT" => runs'[k].phase # "CONTEXT"
    BY <2>1, <2>2 DEF TransitionAllowed, PhaseOrder, Phase
  <2> QED
    BY <2>2, <2>3, <2>4, <2>5
<1> QED
  BY <1>1, <1>2, <1>3, <1>4, RunChanges

(* Neither a transition nor a failure nor supersession replaces a recorded *)
(* reason, status or outcome.                                              *)
THEOREM OutcomesAreWrittenOnce == Spec => OutcomeWriteOnce
<1>1. PointerInv /\ [Next]_vars =>
        [\A r \in DOMAIN runs :
           /\ WriteOnce(runs[r].terminal_reason, runs'[r].terminal_reason)
           /\ WriteOnce(runs[r].mechanical, runs'[r].mechanical)
           /\ WriteOnce(runs[r].outcome, runs'[r].outcome)]_vars
  BY RunChangeLimits
<1> QED
  BY <1>1, PointerInvariant, PTL DEF Spec, OutcomeWriteOnce

(* A superseded run stays superseded and its workflow state is frozen. *)
THEOREM SupersessionIsFinal == Spec => SupersededIsFinal
<1>1. PointerInv /\ [Next]_vars =>
        [\A r \in DOMAIN runs : runs[r].revision_state = "SUPERSEDED" =>
           /\ runs'[r].revision_state = "SUPERSEDED"
           /\ runs'[r].superseded_by = runs[r].superseded_by
           /\ runs'[r].lifecycle = runs[r].lifecycle
           /\ runs'[r].phase = runs[r].phase
           /\ runs'[r].publication = runs[r].publication]_vars
  BY RunChangeLimits
<1> QED
  BY <1>1, PointerInvariant, PTL DEF Spec, SupersededIsFinal

(* The version check of transition_run sees every change of a run. *)
THEOREM VersionCountsChanges == Spec => ChangesBumpVersion
<1>1. PointerInv /\ [Next]_vars =>
        [\A r \in DOMAIN runs :
           runs'[r] # runs[r] => runs'[r].version = runs[r].version + 1]_vars
  BY RunChangeLimits
<1> QED
  BY <1>1, PointerInvariant, PTL DEF Spec, ChangesBumpVersion
-----------------------------------------------------------------------------
(* Failing a run and recording why are one step, and supersession keeps    *)
(* the FAILED reason: records and reasons never drift apart.               *)
THEOREM FailuresAreRecorded == Spec => []FailureIffFailed
<1>1. Init => FailureIffFailed
  BY DEF Init, FailureIffFailed
<1>2. PointerInv /\ FailureIffFailed /\ [Next]_vars => FailureIffFailed'
  <2> SUFFICES ASSUME PointerInv, FailureIffFailed, [Next]_vars
               PROVE  FailureIffFailed'
    OBVIOUS
  <2> USE DEF PointerInv, TypeOK
  <2>0. (0 .. clock) \subseteq Nat
    OBVIOUS
  <2>1. CASE \/ UNCHANGED vars
             \/ Tick
             \/ \E e \in Events : AcceptDuplicateDelivery(e)
             \/ \E r \in RunId :
                  \/ \E doc \in Document : SaveEvidence(r, doc)
                  \/ \E payload \in Payload : BeginPublication(r, payload)
                  \/ \E check \in CheckId : SetCheckRunId(r, check)
                  \/ RecordPublicationError(r)
    <3>1. runs' = runs /\ failures' = failures
      BY <2>1 DEF vars, records, Tick, AcceptDuplicateDelivery, SaveEvidence,
                  BeginPublication, SetCheckRunId, RecordPublicationError
    <3> QED
      BY <3>1 DEF FailureIffFailed
  <2>2. ASSUME NEW r \in RunId, NEW v \in 1 .. MaxVersion, NEW t \in Transitions,
               NEW now \in 0 .. clock, TransitionRun(r, v, t, now)
        PROVE  FailureIffFailed'
    <3> DEFINE next == Requested(runs[r], t, now)
    <3>1. /\ r \in DOMAIN runs /\ runs[r] \in VerificationRun
          /\ t \in RunTransition /\ t.terminal_reason # "FAILED" /\ now \in Nat
          /\ runs' = [runs EXCEPT ![r] = next] /\ failures' = failures
          /\ TransitionAllowed(runs[r], t, now)
      BY <2>2, StoreAssumption
         DEF TransitionRun, ApplyRunTransition, Readable, Partial, records
    <3>2. next.terminal_reason = Or(t.terminal_reason, runs[r].terminal_reason)
      BY <3>1, RequestedFacts
    <3>3. runs[r].terminal_reason # None =>
            next.terminal_reason = runs[r].terminal_reason
      BY <3>1 DEF TransitionAllowed
    <3>4. (next.terminal_reason = "FAILED") <=> (runs[r].terminal_reason = "FAILED")
      BY <3>1, <3>2, <3>3, NoneAssumption DEF Or, Reason
    <3> HIDE DEF next
    <3> QED
      BY <3>1, <3>4 DEF FailureIffFailed, Partial
  <2>3. ASSUME NEW r \in RunId, NEW now \in 0 .. clock, FailRun(r, now)
        PROVE  FailureIffFailed'
    <3> DEFINE next == Requested(runs[r], FailTransition, now)
    <3>1. /\ r \in DOMAIN runs /\ runs[r] \in VerificationRun /\ now \in Nat
          /\ runs' = [runs EXCEPT ![r] = next]
          /\ DOMAIN failures' = DOMAIN failures \cup {r}
      BY <2>3 DEF FailRun, ApplyRunTransition, Partial, Put
    <3>2. next.terminal_reason
            = Or(FailTransition.terminal_reason, runs[r].terminal_reason)
      <4> HIDE DEF next
      <4> QED
        BY <3>1, RequestedFacts, FailTransitionType DEF next
    <3>3. FailTransition.terminal_reason = "FAILED" /\ None # "FAILED"
      BY NoneAssumption DEF FailTransition, NoChange, Reason
    <3>4. next.terminal_reason = "FAILED"
      BY <3>2, <3>3 DEF Or
    <3> HIDE DEF next
    <3> QED
      BY <3>1, <3>4 DEF FailureIffFailed, Partial
  <2>4. ASSUME NEW e \in Events, NEW now \in 0 .. clock,
               AcceptDuplicateRevision(e, now)
        PROVE  FailureIffFailed'
    <3> DEFINE r == DuplicateOf(e)
    <3>1. /\ r \in DOMAIN runs /\ runs[r] \in VerificationRun /\ now \in Nat
          /\ e \in PullRequestEvent(DeliveryId) /\ failures' = failures
          /\ \/ runs' = Put(runs, r, runs[r])
             \/ runs' = Put(runs, r, Refreshed(runs[r], e, now))
      BY <2>4, StoreAssumption
         DEF AcceptDuplicateRevision, LookupsSucceed, IsDuplicateRevision,
             Readable, Partial, records
    <3>2. Refreshed(runs[r], e, now).terminal_reason = runs[r].terminal_reason
      BY <3>1, RefreshedFacts
    <3> QED
      BY <3>1, <3>2 DEF FailureIffFailed, Put
  <2>5. ASSUME NEW e \in Events, NEW now \in 0 .. clock, NEW r \in RunId,
               AcceptStale(e, now, r)
        PROVE  FailureIffFailed'
    <3> DEFINE run == NewRun(e, now, TRUE)
    <3>1. /\ e \in PullRequestEvent(DeliveryId) /\ now \in Nat
          /\ CurrentOf(e) \in RunId
      BY <2>5, StoreAssumption
         DEF AcceptStale, NotNewer, HasCurrent, CurrentOf, Partial
    <3>2. run.terminal_reason = "SUPERSEDED"
      BY <3>1, StaleRunFacts
    <3>3. /\ r \notin DOMAIN runs /\ runs' = Put(runs, r, run)
          /\ failures' = failures
      BY <2>5 DEF AcceptStale, records
    <3> HIDE DEF run
    <3> QED
      BY <3>2, <3>3 DEF FailureIffFailed, Put
  <2>6. ASSUME NEW e \in Events, NEW now \in 0 .. clock, NEW r \in RunId,
               AcceptNew(e, now, r)
        PROVE  FailureIffFailed'
    <3> DEFINE run == NewRun(e, now, FALSE)
    <3>1. e \in PullRequestEvent(DeliveryId) /\ now \in Nat
      BY StoreAssumption
    <3>2. run.terminal_reason # "FAILED"
      BY <3>1, NewRunFacts, NoneAssumption DEF Reason
    <3>3. /\ r \notin DOMAIN runs /\ DOMAIN runs' = DOMAIN runs \cup {r}
          /\ runs'[r] = run /\ failures' = failures
      BY <2>6 DEF AcceptNew, records
    <3>4. ASSUME NEW k \in DOMAIN runs
          PROVE  (runs'[k].terminal_reason = "FAILED")
                   <=> (runs[k].terminal_reason = "FAILED")
      <4>1. /\ runs[k] \in VerificationRun
            /\ runs'[k] = IF HasCurrent(e) /\ k = CurrentOf(e)
                          THEN Superseded(runs[k], r, now) ELSE runs[k]
        BY <2>6 DEF AcceptNew, Partial
      <4>2. CASE HasCurrent(e) /\ k = CurrentOf(e)
        <5>1. ValidDimensions(runs[k])
          BY <2>6, <4>2 DEF AcceptNew, LookupsSucceed, Readable
        <5>2. runs'[k].terminal_reason = IF runs[k].lifecycle = "TERMINAL"
                                         THEN runs[k].terminal_reason
                                         ELSE "SUPERSEDED"
          BY <3>1, <4>1, <4>2, SupersededFacts
        <5> QED
          BY <5>1, <5>2, NoneAssumption DEF ValidDimensions, Reason
      <4>3. CASE ~(HasCurrent(e) /\ k = CurrentOf(e))
        BY <4>1, <4>3
      <4> QED
        BY <4>2, <4>3
    <3> HIDE DEF run
    <3> QED
      BY <3>2, <3>3, <3>4 DEF FailureIffFailed
  <2> QED
    BY <2>1, <2>2, <2>3, <2>4, <2>5, <2>6 DEF Next, AcceptPullRequest
<1> QED
  BY <1>1, <1>2, PointerInvariant, PTL DEF Spec

(* On SQLite the run under verification always validates when read back:   *)
(* the relabelled row is re-read before the commit, and transitions never  *)
(* move updated_at back.                                                   *)
THEOREM SqliteCurrentReadable ==
  ASSUME Backend = "sqlite"
  PROVE  Spec => []CurrentReadable
<1>1. Init => CurrentReadable
  BY DEF Init, CurrentReadable
<1>2. PointerInv /\ CurrentReadable /\ [Next]_vars => CurrentReadable'
  <2> SUFFICES ASSUME PointerInv, CurrentReadable, [Next]_vars,
                      NEW k \in DOMAIN runs',
                      runs'[k].revision_state = "CURRENT"
               PROVE  ValidDimensions(runs'[k])
    BY DEF CurrentReadable, ValidDimensions
  <2> USE DEF PointerInv, TypeOK
  <2>1. CASE k \in DOMAIN runs /\ runs'[k] = runs[k]
    BY <2>1 DEF CurrentReadable, ValidDimensions
  <2>2. CASE Transits(k)
    BY <2>2 DEF Transits, TransitionAllowed
  <2>3. CASE k \in DOMAIN runs /\ Supersedes(k)
    <3>1. runs'[k].revision_state = "SUPERSEDED"
      BY <2>3, SupersededFacts DEF Supersedes, Partial
    <3> QED
      BY <3>1
  <2>4. CASE Refreshes(k)
    BY <2>4 DEF Refreshes
  <2>5. CASE k \notin DOMAIN runs
    <3>1. \E e \in Events : CreatesStale(e, k) \/ CreatesCurrent(e, k)
      <4>1. ~Quiet /\ \A e \in Events : ~Relabels(e)
        BY <2>5 DEF Quiet, Relabels
      <4>2. PICK e \in Events, r \in RunId : CreatesStale(e, r) \/ CreatesCurrent(e, r)
        BY <4>1, StepKinds
      <4>3. DOMAIN runs' = DOMAIN runs \cup {r}
        BY <4>2 DEF CreatesStale, CreatesCurrent, Creates
      <4>4. r = k
        BY <2>5, <4>3
      <4> QED
        BY <4>2, <4>4
    <3> QED
      BY <3>1 DEF CreatesStale, CreatesCurrent
  <2> QED
    BY <2>1, <2>2, <2>3, <2>4, <2>5, RunChanges
<1> QED
  BY <1>1, <1>2, PointerInvariant, PTL DEF Spec

(* What a step may never do to the records beside the runs. *)
RecordsKept ==
  /\ \A r \in DOMAIN evidence : r \in DOMAIN evidence' /\ evidence'[r] = evidence[r]
  /\ \A r \in DOMAIN failures : r \in DOMAIN failures' /\ failures'[r] = failures[r]
  /\ \A d \in DOMAIN deliveries :
       d \in DOMAIN deliveries' /\ deliveries'[d] = deliveries[d]
  /\ \A r \in DOMAIN publications :
       /\ r \in DOMAIN publications'
       /\ publications'[r].payload = publications[r].payload
       /\ publications'[r].attempts >= publications[r].attempts
       /\ WriteOnce(publications[r].check, publications'[r].check)

LEMMA RecordLimits ==
  ASSUME TypeOK, [Next]_vars
  PROVE  RecordsKept
<1> USE DEF TypeOK, RecordsKept
<1>0. \A r \in DOMAIN publications : /\ publications[r] \in CheckPublication
                                    /\ publications[r].attempts \in Nat
  BY DEF Partial, CheckPublication
<1>1. ASSUME UNCHANGED publications
      PROVE  \A r \in DOMAIN publications :
               /\ publications'[r].payload = publications[r].payload
               /\ publications'[r].attempts >= publications[r].attempts
               /\ WriteOnce(publications[r].check, publications'[r].check)
  BY <1>0, <1>1 DEF WriteOnce
<1>2. CASE Tick
  BY <1>1, <1>2 DEF Tick, records
<1>3. ASSUME NEW e \in Events, AcceptDuplicateDelivery(e)
      PROVE  RecordsKept
  BY <1>1, <1>3 DEF AcceptDuplicateDelivery, vars, records
<1>4. ASSUME NEW e \in Events, ~KnownDelivery(e), UNCHANGED records,
             NEW r, deliveries' = Put(deliveries, e.delivery, r)
      PROVE  RecordsKept
  BY <1>1, <1>4 DEF KnownDelivery, records, Put
<1>5. ASSUME NEW e \in Events, NEW now \in 0 .. clock,
             AcceptDuplicateRevision(e, now)
      PROVE  RecordsKept
  BY <1>4, <1>5 DEF AcceptDuplicateRevision
<1>6. ASSUME NEW e \in Events, NEW now \in 0 .. clock, NEW r \in RunId,
             AcceptStale(e, now, r) \/ AcceptNew(e, now, r)
      PROVE  RecordsKept
  BY <1>4, <1>6 DEF AcceptStale, AcceptNew
<1>7. ASSUME NEW r \in RunId, NEW v \in 1 .. MaxVersion, NEW t \in Transitions,
             NEW now \in 0 .. clock, TransitionRun(r, v, t, now)
      PROVE  RecordsKept
  BY <1>1, <1>7 DEF TransitionRun, records
<1>8. ASSUME NEW r \in RunId, NEW now \in 0 .. clock, FailRun(r, now)
      PROVE  RecordsKept
  BY <1>1, <1>8 DEF FailRun, Put
<1>9. ASSUME NEW r \in RunId, NEW doc \in Document, SaveEvidence(r, doc)
      PROVE  RecordsKept
  BY <1>1, <1>9 DEF SaveEvidence, EvidenceAccepts, Put
<1>10. ASSUME NEW r \in RunId, NEW payload \in Payload,
              BeginPublication(r, payload)
       PROVE  RecordsKept
  <2>1. UNCHANGED <<evidence, failures, deliveries>>
    BY <1>10 DEF BeginPublication
  <2>2. ASSUME NEW k \in DOMAIN publications
        PROVE  /\ k \in DOMAIN publications'
               /\ publications'[k].payload = publications[k].payload
               /\ publications'[k].attempts >= publications[k].attempts
               /\ WriteOnce(publications[k].check, publications'[k].check)
    <3>1. CASE k # r
      <4>1. k \in DOMAIN publications' /\ publications'[k] = publications[k]
        BY <1>10, <3>1 DEF BeginPublication, Put
      <4> QED
        BY <1>0, <4>1 DEF WriteOnce
    <3>2. CASE k = r
      <4>1. /\ k \in DOMAIN publications'
            /\ publications'[k] = [publications[k] EXCEPT !.attempts = @ + 1,
                                                          !.error = FALSE]
        BY <1>10, <3>2 DEF BeginPublication, Put
      <4> QED
        BY <1>0, <4>1 DEF WriteOnce, CheckPublication
    <3> QED
      BY <3>1, <3>2
  <2> QED
    BY <2>1, <2>2
<1>11. ASSUME NEW r \in RunId, NEW check \in CheckId, SetCheckRunId(r, check)
       PROVE  RecordsKept
  BY <1>0, <1>11 DEF SetCheckRunId, WriteOnce, CheckPublication
<1>12. ASSUME NEW r \in RunId, RecordPublicationError(r)
       PROVE  RecordsKept
  BY <1>0, <1>12 DEF RecordPublicationError, WriteOnce, CheckPublication
<1>13. CASE UNCHANGED vars
  BY <1>1, <1>13 DEF vars, records
<1> QED
  BY <1>2, <1>3, <1>5, <1>6, <1>7, <1>8, <1>9, <1>10, <1>11, <1>12, <1>13
     DEF Next, AcceptPullRequest

(* No later call replaces evidence, a first failure, a delivery's run, a   *)
(* check payload or a known check identity.                                *)
THEOREM RecordsAreWrittenOnce == Spec => RecordsWriteOnce
<1>1. TypeOK /\ [Next]_vars =>
        [/\ \A r \in DOMAIN evidence : evidence'[r] = evidence[r]
         /\ \A r \in DOMAIN failures : failures'[r] = failures[r]
         /\ \A d \in DOMAIN deliveries : deliveries'[d] = deliveries[d]
         /\ \A r \in DOMAIN publications :
              /\ publications'[r].payload = publications[r].payload
              /\ publications'[r].attempts >= publications[r].attempts
              /\ WriteOnce(publications[r].check, publications'[r].check)]_vars
  BY RecordLimits DEF RecordsKept
<1> QED
  BY <1>1, TypeCorrect, PTL DEF Spec, RecordsWriteOnce
-----------------------------------------------------------------------------
(* The pointers and runs implement the register of newest heads. *)
THEOREM NewestHeadRefinement == Spec => ImplementsNewestHead
<1>1. Init => Register!Init
  BY DEF Init, Register!Init, NewestHeads
<1>2. PointerInv /\ TypeOK' /\ [Next]_vars => [Register!Next]_NewestHeads
  <2> SUFFICES ASSUME PointerInv, TypeOK', [Next]_vars
               PROVE  Register!Next \/ NewestHeads' = NewestHeads
    OBVIOUS
  <2> USE DEF PointerInv
  <2>1. ASSUME current' = current,
               \A pr \in DOMAIN current :
                 /\ runs'[current[pr]].revision = runs[current[pr]].revision
                 /\ runs'[current[pr]].head_updated_at
                      = runs[current[pr]].head_updated_at
        PROVE  NewestHeads' = NewestHeads
    BY <2>1 DEF NewestHeads
  <2>2. ASSUME NEW e \in Events,
               e.pr \in DOMAIN current =>
                 e.head_updated_at > runs[current[e.pr]].head_updated_at,
               NewestHeads' = [NewestHeads EXCEPT ![e.pr] =
                                 [revision |-> e.revision, at |-> e.head_updated_at]]
        PROVE  Register!Next
    <3> DEFINE head == [revision |-> e.revision, at |-> e.head_updated_at]
    <3>1. e.pr \in PullRequest /\ head \in Register!Head
      BY EventFields DEF Register!Head
    <3>2. NewestHeads[e.pr] = None \/ head.at > NewestHeads[e.pr].at
      BY <2>2, <3>1 DEF NewestHeads
    <3>3. Register!Observe(e.pr, head)
      BY <2>2, <3>2 DEF Register!Observe
    <3> QED
      BY <3>1, <3>3 DEF Register!Next
  <2>3. CASE Quiet
    BY <2>1, <2>3 DEF Quiet, Kept, SameIdentity, pointers, CurrentInv
  <2>4. ASSUME NEW e \in Events, NEW r \in RunId, CreatesStale(e, r)
        PROVE  NewestHeads' = NewestHeads
    BY <2>1, <2>4 DEF CreatesStale, Kept, SameIdentity, CurrentInv
  <2>5. ASSUME NEW e \in Events, NEW r \in RunId, CreatesCurrent(e, r)
        PROVE  Register!Next
    <3>1. /\ DOMAIN current' = DOMAIN current \cup {e.pr}
          /\ current'[e.pr] = r
          /\ \A pr \in DOMAIN current : pr # e.pr => current'[pr] = current[pr]
      BY <2>5 DEF CreatesCurrent, Put
    <3>2. /\ runs'[r].revision = e.revision
          /\ runs'[r].head_updated_at = e.head_updated_at
          /\ \A k \in DOMAIN runs :
               /\ runs'[k].revision = runs[k].revision
               /\ runs'[k].head_updated_at = runs[k].head_updated_at
      BY <2>5 DEF CreatesCurrent, Creates, Kept, SameIdentity
    <3>3. NewestHeads' = [NewestHeads EXCEPT ![e.pr] =
                            [revision |-> e.revision, at |-> e.head_updated_at]]
      <4>1. e.pr \in PullRequest
        BY EventFields
      <4>2. \A pr \in DOMAIN current : current[pr] \in DOMAIN runs
        BY DEF CurrentInv
      <4> QED
        BY <3>1, <3>2, <4>1, <4>2 DEF NewestHeads
    <3>4. e.pr \in DOMAIN current =>
            e.head_updated_at > runs[current[e.pr]].head_updated_at
      <4>1. e.pr \in DOMAIN current => current[e.pr] \in DOMAIN runs
        BY DEF CurrentInv
      <4> QED
        BY <2>5, <4>1, EventFields, RunFields
           DEF CreatesCurrent, NotNewer, HasCurrent, CurrentOf
    <3> QED
      BY <2>2, <3>3, <3>4
  <2>6. ASSUME NEW e \in Events, Relabels(e)
        PROVE  Register!Next \/ NewestHeads' = NewestHeads
    <3> DEFINE r == DuplicateOf(e)
    <3>1. /\ r \in DOMAIN runs /\ runs[r].pr = e.pr /\ runs[r].revision = e.revision
          /\ current' = current
          /\ SameIdentity(r) /\ runs'[r].head_updated_at = e.head_updated_at
          /\ \A k \in DOMAIN runs \ {r} : Kept(k)
          /\ e.head_updated_at > runs[r].head_updated_at
      BY <2>6, EventFields
         DEF Relabels, HasDuplicate, DuplicateOf, RevisionInv, pointers
    <3> HIDE DEF r
    <3>2. e.pr \in DOMAIN current
      BY <3>1 DEF CurrentInv
    <3>3. CASE r = current[e.pr]
      <4>1. \A pr \in DOMAIN current : pr # e.pr =>
              current[pr] # r /\ current[pr] \in DOMAIN runs
        BY <3>1 DEF CurrentInv
      <4>2. NewestHeads' = [NewestHeads EXCEPT ![e.pr] =
                              [revision |-> e.revision, at |-> e.head_updated_at]]
        BY <3>1, <3>2, <3>3, <4>1 DEF NewestHeads, Kept, SameIdentity
      <4> QED
        BY <2>2, <3>1, <3>3, <4>2
    <3>4. CASE r # current[e.pr]
      <4>1. \A pr \in DOMAIN current : current[pr] # r /\ current[pr] \in DOMAIN runs
        BY <3>1, <3>4 DEF CurrentInv
      <4> QED
        BY <2>1, <3>1, <4>1 DEF Kept, SameIdentity
    <3> QED
      BY <3>3, <3>4
  <2> QED
    BY <2>3, <2>4, <2>5, <2>6, StepKinds
<1> QED
  BY <1>1, <1>2, TypeCorrect, PointerInvariant, PTL
     DEF Spec, ImplementsNewestHead, Register!Spec
=============================================================================
