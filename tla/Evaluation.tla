----------------------------- MODULE Evaluation -----------------------------
(***************************************************************************)
(* The sealed evaluation (tools/run_fresh_eval_v1.py): PREPARE publishes   *)
(* the label-blind cases, RUN infers them once, SCORE reveals the labels.  *)
(* The phases are operating-system processes that share a directory and    *)
(* nothing else.  An operator may start them at any time and as often as   *)
(* he likes: a process here is a place for one, which is "new" again when  *)
(* that one has ended.  Any of them may stop between two file operations,  *)
(* and nothing resumes it.                                                 *)
(*                                                                         *)
(* A file is a variable.  _atomic_write writes a temporary file beside its *)
(* target and puts it in the target's place; the temporary file of a       *)
(* target has one name, which two PREPAREs or two SCOREs share.  RUN       *)
(* writes its results past the exclusive creation of its journal, so that  *)
(* nobody shares its temporary file and its writes are one step each.  A   *)
(* document stands for its bytes: comparing hashes is comparing documents. *)
(***************************************************************************)
EXTENDS LiveCase, Sequences, FiniteSets, Functions

CONSTANTS
  Preparers, Scorers,  \* places for PREPARE and SCORE; RUN has Runners
  Manifests, Sealed,   \* manifests the operator may install, the first one
  DocumentOf,          \* manifest -> the public document PREPARE derives
  LabelOf,             \* manifest -> case -> hidden label
  MaxEdits, MaxStops,  \* bounds: replacements of the manifest, processes cut off
  Documents,           \* public documents
  CasesOf,             \* document -> its cases, in order
  Empty, Mixed         \* bytes that are no document: none yet, or not of one write

Cases == UNION {Range(CasesOf[d]) : d \in Documents}
Labels == {"POSITIVE", "NEGATIVE_CONTROL"}
Spoilt == {Empty, Mixed}
Targets == {"public", "metadata", "scored", "summary"}

VARIABLES
  manifest,   \* the sealed manifest now on disk
  edits,      \* how often it was replaced
  stops,      \* how many processes stopped before their end
  public,     \* public_cases.json
  metadata,   \* prepare_metadata.json: the hashes of document and manifest
  journal,    \* live/journal.jsonl
  raw,        \* live/raw_results.json
  scored,     \* live/scored_results.json
  summary,    \* live/summary.md
  temp,       \* target -> its temporary file, None if there is none
  handle,     \* process -> what the temporary file it has open is by now
  phase,      \* process -> where it is and what it holds
  inferred    \* case -> how often its inference was begun

gate      == <<public, metadata>>
results   == <<journal, raw>>
scores    == <<scored, summary>>
writes    == <<temp, handle>>
sealed    == <<manifest, edits>>
vars      == <<sealed, stops, gate, writes, results, scores, phase, live, inferred>>

Processes == Preparers \cup Runners \cup Scorers

Metadata == [document: Documents, manifest: Manifests]
Event == [event: {"RUN_STARTED", "PACING_STARTED", "PACING_COMPLETED",
                  "CASE_STARTED", "CASE_COMPLETED", "RUN_COMPLETED"},
          case: Cases \cup {None}]
(* document is the hash that RUN copied from the metadata, ran the         *)
(* document whose cases it went through.                                   *)
Raw == [document: Documents, ran: Documents, completed: BOOLEAN,
        cases: Seq([case: Cases, result: Result])]

Category == {"SUPPORTED_POSITIVE", "MISSED_POSITIVE", "EXPECTED_ABSTENTION",
             "INCORRECT_SUPPORT", "INVALID_ENVIRONMENT", "INVALID_PROVIDER_MODEL",
             "INVALID_CLAIM_OUTPUT", "INVALID_HARNESS"}
ScoredCase == [case: Cases, label: Labels, classification: Category, result: Result]
Scored == [document: Documents, manifest: Manifests, ran: Documents,
           cases: Seq(ScoredCase)]

(* What a process holds in memory: the manifest whose hash it took, the    *)
(* document, the metadata, the index of the case in hand, the raw and the  *)
(* scored results.                                                         *)
Fresh == [pc |-> "new", manifest |-> None, document |-> None, metadata |-> None,
          index |-> 1, raw |-> None, scored |-> None]
Place == [pc: {"new", "derived", "built", "public", "written", "metadata",
               "reading", "loaded", "started", "next", "infer", "recorded", "pace",
               "pacing", "last", "completed",
               "read", "hashed", "labelled", "scored", "revealed", "summary"},
          manifest: Manifests \cup {None}, document: Documents \cup {None},
          metadata: Metadata \cup {None}, index: Nat \ {0},
          raw: Raw \cup {None}, scored: Scored \cup {None}]

(* A document names each of its cases once (validate_unique_cases), and    *)
(* the labels are those of the cases that its manifest declares.           *)
ASSUME EvaluationAssumption ==
  /\ Sealed \in Manifests /\ MaxEdits \in Nat /\ MaxStops \in Nat
  /\ Preparers \cap (Runners \cup Scorers) = {}
  /\ None \notin Documents \cup Manifests \cup Cases \cup Category
  /\ None \notin Metadata \cup Raw \cup Scored /\ None \notin [Category -> Nat]
  /\ Spoilt \cap (Documents \cup Metadata \cup Scored \cup {None}) = {}
  /\ Spoilt \cap [Category -> Nat] = {}
  /\ \A d \in Documents : /\ CasesOf[d] \in Seq(Range(CasesOf[d])) \ {<<>>}
                          /\ IsInjective(CasesOf[d])
  /\ \A m \in Manifests : /\ DocumentOf[m] \in Documents
                          /\ LabelOf[m] \in [Range(CasesOf[DocumentOf[m]]) -> Labels]

(* A temporary file that was put in its target's place is the "file" of    *)
(* a process that still has it open, until the next one is: then "lost".   *)
Handle == {"closed", "temp", "file", "lost"}
Bytes(documents) == documents \cup Spoilt \cup {None}

EvaluationTypeOK ==
  /\ manifest \in Manifests /\ edits \in 0 .. MaxEdits /\ stops \in 0 .. MaxStops
  /\ public \in Bytes(Documents) /\ metadata \in Bytes(Metadata)
  /\ journal \in Seq(Event)
  /\ raw \in Raw \cup {None} /\ scored \in Bytes(Scored)
  /\ summary \in Bytes([Category -> Nat])
  /\ DOMAIN temp = Targets
  /\ temp.public \in Bytes(Documents) /\ temp.metadata \in Bytes(Metadata)
  /\ temp.scored \in Bytes(Scored) /\ temp.summary \in Bytes([Category -> Nat])
  /\ handle \in [Processes -> Handle]
  /\ live \in [Runners -> Live]
  /\ inferred \in [Cases -> Nat]
  /\ phase \in [Processes -> Place]
  /\ \A p \in Processes : phase[p].document # None =>
       phase[p].index \in DOMAIN CasesOf[phase[p].document]
-----------------------------------------------------------------------------
Init ==
  /\ manifest = Sealed /\ edits = 0 /\ stops = 0
  /\ public = None /\ metadata = None
  /\ journal = <<>> /\ raw = None /\ scored = None /\ summary = None
  /\ temp = [t \in Targets |-> None] /\ handle = [p \in Processes |-> "closed"]
  /\ phase = [p \in Processes |-> Fresh]
  /\ live = [r \in Runners |-> Idle]
  /\ inferred = [c \in Cases |-> 0]

At(p, pc)    == phase[p].pc = pc
Becomes(p, s) == phase' = [phase EXCEPT ![p] = s]
Goto(p, pc)  == Becomes(p, [phase[p] EXCEPT !.pc = pc])

(* The operator replaces the sealed manifest, with its integrity file. *)
EditManifest ==
  /\ edits < MaxEdits /\ edits' = edits + 1
  /\ manifest' \in Manifests \ {manifest}
  /\ UNCHANGED <<stops, gate, writes, results, scores, phase, live, inferred>>

Cut == stops < MaxStops /\ stops' = stops + 1

(* A process stops: killed, or a check of its own that refuses (frozen     *)
(* source, integrity of the sealed files, exclusions, a document that is   *)
(* not blind, provider and paths of RUN).                                  *)
Stops(p) ==
  /\ ~At(p, "new") /\ Cut
  /\ Becomes(p, Fresh)
  /\ live' = IF p \in Runners THEN [live EXCEPT ![p] = Idle] ELSE live
  /\ handle' = [handle EXCEPT ![p] = "closed"]
  /\ UNCHANGED <<sealed, gate, temp, results, scores, inferred>>

(* Every phase begins by looking for files of a phase that may not be      *)
(* repeated, and then at nothing but what it read.                         *)
RunStarted == journal # <<>> \/ raw # None
HasScores  == scored # None \/ summary # None
-----------------------------------------------------------------------------
(* _atomic_write.  A target is opened and filled at the first point of a   *)
(* pair and put in place at the second, which has the target's name.       *)
WrittenAt == [built |-> "public", written |-> "metadata",
              labelled |-> "scored", revealed |-> "summary"]
Target(p) == WrittenAt[phase[p].pc]
Writing(p) == phase[p].pc \in DOMAIN WrittenAt

Put(target, bytes) ==
  /\ public'   = IF target = "public" THEN bytes ELSE public
  /\ metadata' = IF target = "metadata" THEN bytes ELSE metadata
  /\ scored'   = IF target = "scored" THEN bytes ELSE scored
  /\ summary'  = IF target = "summary" THEN bytes ELSE summary

(* What process p has open, and an overwrite of it, be it the temporary    *)
(* file or, by now, the target itself.                                     *)
Opened(p) ==
  IF handle[p] = "temp" THEN temp[Target(p)]
  ELSE [public |-> public, metadata |-> metadata, scored |-> scored,
        summary |-> summary][Target(p)]
Overwrite(p, bytes) ==
  /\ temp' = IF handle[p] = "temp" THEN [temp EXCEPT ![Target(p)] = bytes] ELSE temp
  /\ IF handle[p] = "file" THEN Put(Target(p), bytes) ELSE UNCHANGED <<gate, scores>>

(* open("wb") creates the temporary file or empties the one that is there. *)
OpenTemp(p) ==
  /\ Writing(p) /\ handle[p] = "closed"
  /\ temp' = [temp EXCEPT ![Target(p)] = Empty]
  /\ handle' = [handle EXCEPT ![p] = "temp"]
  /\ UNCHANGED <<sealed, stops, gate, results, scores, phase, live, inferred>>

(* The file is written from its beginning: what another process wrote      *)
(* there may go on behind the end.                                         *)
Fill(p, document) ==
  /\ Writing(p) /\ handle[p] # "closed"
  /\ \E bytes \in {document} \cup (IF Opened(p) = Empty THEN {} ELSE {Mixed}) :
       Overwrite(p, bytes)
  /\ handle' = [handle EXCEPT ![p] = "closed"]
  /\ Goto(p, Target(p))
  /\ UNCHANGED <<sealed, stops, results, live, inferred>>

(* A write that fails, or a process killed in it. *)
WriteFails(p) ==
  /\ Writing(p) /\ handle[p] # "closed" /\ Cut
  /\ Overwrite(p, Mixed)
  /\ handle' = [handle EXCEPT ![p] = "closed"]
  /\ Becomes(p, Fresh)
  /\ UNCHANGED <<sealed, results, live, inferred>>

(* os.replace: whatever is in the temporary file takes the target's place, *)
(* under the hands of those who have either of them open.                  *)
Replace(p, target) ==
  /\ At(p, target) /\ temp[target] # None
  /\ Put(target, temp[target])
  /\ temp' = [temp EXCEPT ![target] = None]
  /\ handle' = [q \in Processes |->
       IF Writing(q) /\ Target(q) = target /\ handle[q] # "closed"
       THEN IF handle[q] = "temp" THEN "file" ELSE "lost"
       ELSE handle[q]]
  /\ UNCHANGED <<sealed, stops, results, live, inferred>>

(* There is nothing to put in place: another process has done it. *)
ReplaceFails(p) ==
  /\ phase[p].pc \in Targets /\ temp[phase[p].pc] = None
  /\ Becomes(p, Fresh)
  /\ UNCHANGED <<sealed, stops, gate, writes, results, scores, live, inferred>>
-----------------------------------------------------------------------------
(* prepare: the cases come from one read of the manifest, its recorded     *)
(* hash from a later one; then the document and its metadata are written.  *)
LoadManifest(p) ==
  /\ p \in Preparers /\ At(p, "new") /\ ~RunStarted
  /\ Becomes(p, [phase[p] EXCEPT !.pc = "derived", !.document = DocumentOf[manifest]])
  /\ UNCHANGED <<sealed, stops, gate, writes, results, scores, live, inferred>>

HashManifest(p) ==
  /\ p \in Preparers /\ At(p, "derived")
  /\ Becomes(p, [phase[p] EXCEPT !.pc = "built", !.manifest = manifest])
  /\ UNCHANGED <<sealed, stops, gate, writes, results, scores, live, inferred>>

FillPublic(p) == At(p, "built") /\ Fill(p, phase[p].document)
WritePublic(p) == Replace(p, "public") /\ Goto(p, "written")

FillMetadata(p) ==
  /\ At(p, "written")
  /\ Fill(p, [document |-> phase[p].document, manifest |-> phase[p].manifest])
WriteMetadata(p) == Replace(p, "metadata") /\ Becomes(p, Fresh)
-----------------------------------------------------------------------------
(* _load_prepared, of RUN and SCORE: two reads, then the hash of the       *)
(* document against the one in the metadata.  A place may serve both: who  *)
(* can go on as RUN saw no journal and who can go on as SCORE saw no       *)
(* scores when he began, since neither ever disappears.                    *)
ReadPublic(p) ==
  /\ At(p, "new") /\ public \in Documents
  /\ \/ p \in Runners /\ ~RunStarted
     \/ p \in Scorers /\ ~HasScores
  /\ Becomes(p, [phase[p] EXCEPT !.pc = "reading", !.document = public])
  /\ UNCHANGED <<sealed, stops, gate, writes, results, scores, live, inferred>>

AnyPair(document, meta) == meta \in Metadata     \* variant: hash not compared
Matches(document, meta) == meta \in Metadata /\ meta.document = document

ReadMetadata(p) ==
  /\ p \in Runners \cup Scorers /\ At(p, "reading")
  /\ Matches(phase[p].document, metadata)
  /\ Becomes(p, [phase[p] EXCEPT !.pc = "loaded", !.metadata = metadata])
  /\ UNCHANGED <<sealed, stops, gate, writes, results, scores, live, inferred>>
-----------------------------------------------------------------------------
(* run *)
Declared(r)   == CasesOf[phase[r].document]
InHand(r)     == Declared(r)[phase[r].index]
Append1(event, case) == journal' = Append(journal, [event |-> event, case |-> case])

Shared          == TRUE                         \* variant: opened with "a"
JournalIsNew    == journal = <<>>               \* opened with "x"

(* The journal is created exclusively: of the processes that got here only *)
(* one goes on.                                                            *)
StartRun(r) ==
  /\ r \in Runners /\ At(r, "loaded") /\ JournalIsNew
  /\ Append1("RUN_STARTED", None)
  /\ Becomes(r, [phase[r] EXCEPT
       !.pc = "started",
       !.raw = [document |-> phase[r].metadata.document, ran |-> phase[r].document,
                completed |-> FALSE, cases |-> <<>>]])
  /\ UNCHANGED <<sealed, stops, gate, writes, raw, scores, live, inferred>>

WriteRaw(r) ==
  /\ r \in Runners /\ At(r, "started")
  /\ raw' = phase[r].raw
  /\ Goto(r, "next")
  /\ UNCHANGED <<sealed, stops, gate, writes, journal, scores, live, inferred>>

(* The pause between two cases is journalled on both sides. *)
PaceStarted(r) ==
  /\ r \in Runners /\ At(r, "pace")
  /\ Append1("PACING_STARTED", InHand(r))
  /\ Goto(r, "pacing")
  /\ UNCHANGED <<sealed, stops, gate, writes, raw, scores, live, inferred>>

PaceCompleted(r) ==
  /\ r \in Runners /\ At(r, "pacing")
  /\ Append1("PACING_COMPLETED", InHand(r))
  /\ Goto(r, "next")
  /\ UNCHANGED <<sealed, stops, gate, writes, raw, scores, live, inferred>>

StartCase(r) ==
  /\ r \in Runners /\ At(r, "next")
  /\ Append1("CASE_STARTED", InHand(r))
  /\ Goto(r, "infer")
  /\ UNCHANGED <<sealed, stops, gate, writes, raw, scores, live, inferred>>

BeginInference(r) ==
  /\ r \in Runners /\ At(r, "infer") /\ Moves(r, "idle")
  /\ Begin(r)
  /\ inferred' = [inferred EXCEPT ![InHand(r)] = @ + 1]
  /\ UNCHANGED <<sealed, stops, gate, writes, results, scores, phase>>

Infer(r) ==
  /\ r \in Runners /\ At(r, "infer")
  /\ InferStep(r)
  /\ UNCHANGED <<sealed, stops, gate, writes, results, scores, phase, inferred>>

(* The result joins the others in memory and all of them are written. *)
With(r) == [phase[r].raw EXCEPT
              !.cases = Append(@, [case |-> InHand(r), result |-> live[r].result])]

RecordInMemory(r) ==                            \* variant: written at the end
  /\ r \in Runners /\ At(r, "infer") /\ Moves(r, "finished")
  /\ Becomes(r, [phase[r] EXCEPT !.pc = "recorded", !.raw = With(r)])
  /\ Goes(r, Idle)
  /\ UNCHANGED <<sealed, stops, gate, writes, results, scores, inferred>>
RecordResult(r) ==
  /\ r \in Runners /\ At(r, "infer") /\ Moves(r, "finished")
  /\ raw' = With(r)
  /\ Becomes(r, [phase[r] EXCEPT !.pc = "recorded", !.raw = With(r)])
  /\ Goes(r, Idle)
  /\ UNCHANGED <<sealed, stops, gate, writes, journal, scores, inferred>>

MoreOrLast(r) == phase[r].index <= Len(Declared(r))   \* variant: off by one
More(r)       == phase[r].index < Len(Declared(r))

(* CASE_COMPLETED; then the next case, or the end of the run. *)
CompleteCase(r) ==
  /\ r \in Runners /\ At(r, "recorded")
  /\ Append1("CASE_COMPLETED", InHand(r))
  /\ IF More(r)
     THEN Becomes(r, [phase[r] EXCEPT !.pc = "pace", !.index = @ + 1])
     ELSE Goto(r, "last")
  /\ UNCHANGED <<sealed, stops, gate, writes, raw, scores, live, inferred>>

CompleteRaw(r) ==
  /\ r \in Runners /\ At(r, "last")
  /\ raw' = [phase[r].raw EXCEPT !.completed = TRUE]
  /\ Goto(r, "completed")
  /\ UNCHANGED <<sealed, stops, gate, writes, journal, scores, live, inferred>>

CompleteRun(r) ==
  /\ r \in Runners /\ At(r, "completed")
  /\ Append1("RUN_COMPLETED", None)
  /\ Becomes(r, Fresh)
  /\ UNCHANGED <<sealed, stops, gate, writes, raw, scores, live, inferred>>
-----------------------------------------------------------------------------
(* score *)
InvalidClassification(terminal) ==
  CASE terminal = "ENVIRONMENT_NOT_READY"           -> "INVALID_ENVIRONMENT"
    [] terminal \in {"CLAIM_INVOCATION_ERROR",
                     "MODEL_INVOCATION_ERROR"}      -> "INVALID_PROVIDER_MODEL"
    [] terminal = "CLAIM_INVALID_OUTPUT"            -> "INVALID_CLAIM_OUTPUT"
    [] terminal = "HARNESS_OR_IMPLEMENTATION_ERROR" -> "INVALID_HARNESS"
    [] OTHER                                        -> None

ClassifyResult(label, result) ==
  LET invalid   == InvalidClassification(result.terminal)
      supported == result.outcome = "CLAIM_SUPPORTED_FOR_SCENARIO"
  IN  IF invalid # None THEN invalid
      ELSE IF label = "NEGATIVE_CONTROL"
           THEN IF supported THEN "INCORRECT_SUPPORT" ELSE "EXPECTED_ABSTENTION"
           ELSE IF supported THEN "SUPPORTED_POSITIVE" ELSE "MISSED_POSITIVE"

(* _score_summary: the supported and missed of the evaluable positives,    *)
(* the abstentions and supports of the evaluable controls, and the         *)
(* failures of any case.                                                   *)
Sided == [SUPPORTED_POSITIVE |-> "POSITIVE", MISSED_POSITIVE |-> "POSITIVE",
          EXPECTED_ABSTENTION |-> "NEGATIVE_CONTROL",
          INCORRECT_SUPPORT |-> "NEGATIVE_CONTROL"]
ScoreSummary(cases) ==
  [category \in Category |->
     Cardinality({i \in DOMAIN cases :
       /\ cases[i].classification = category
       /\ category \in DOMAIN Sided => cases[i].label = Sided[category]})]

Total(counts) ==
  counts.SUPPORTED_POSITIVE + counts.MISSED_POSITIVE + counts.EXPECTED_ABSTENTION
    + counts.INCORRECT_SUPPORT + counts.INVALID_ENVIRONMENT
    + counts.INVALID_PROVIDER_MODEL + counts.INVALID_CLAIM_OUTPUT + counts.INVALID_HARNESS

Identities(cases)  == {cases[i].case : i \in DOMAIN cases}
ResultIn(cases, c) == cases[CHOOSE i \in DOMAIN cases : cases[i].case = c].result

(* The refusals of score: an incomplete run, results of another document,  *)
(* a manifest that is not the one prepared, other cases.                   *)
Scorable(p) ==
  /\ raw # None
  /\ raw.completed /\ Len(raw.cases) = Len(Declared(p))
  /\ raw.document = phase[p].metadata.document

ReadRaw(p) ==
  /\ p \in Scorers /\ At(p, "loaded") /\ Scorable(p)
  /\ Becomes(p, [phase[p] EXCEPT !.pc = "read", !.raw = raw])
  /\ UNCHANGED <<sealed, stops, gate, writes, results, scores, live, inferred>>

CheckManifest(p) ==
  /\ p \in Scorers /\ At(p, "read") /\ manifest = phase[p].metadata.manifest
  /\ Goto(p, "hashed")
  /\ UNCHANGED <<sealed, stops, gate, writes, results, scores, live, inferred>>

(* The manifest is read again for its labels: it may be another one than   *)
(* the one just hashed.                                                    *)
ReadLabels(p) ==
  /\ p \in Scorers /\ At(p, "hashed")
  /\ LET labels == LabelOf[manifest]
         outcomes == phase[p].raw.cases
         ScoreOf(c) ==
           LET result == ResultIn(outcomes, c)
           IN  [case |-> c, label |-> labels[c], result |-> result,
                classification |-> ClassifyResult(labels[c], result)]
     IN  /\ Identities(outcomes) = Range(Declared(p))
         /\ Identities(outcomes) = DOMAIN labels
         /\ Becomes(p, [phase[p] EXCEPT
              !.pc = "labelled",
              !.scored = [document |-> phase[p].metadata.document,
                          manifest |-> phase[p].metadata.manifest,
                          ran |-> phase[p].raw.ran,
                          cases |-> [i \in DOMAIN Declared(p) |->
                                       ScoreOf(Declared(p)[i])]]])
  /\ UNCHANGED <<sealed, stops, gate, writes, results, scores, live, inferred>>

FillScored(p) == At(p, "labelled") /\ Fill(p, phase[p].scored)
WriteScored(p) == Replace(p, "scored") /\ Goto(p, "revealed")

(* The summary of what this process scored, whatever another SCORE has     *)
(* written since.                                                          *)
FillSummary(p) == At(p, "revealed") /\ Fill(p, ScoreSummary(phase[p].scored.cases))
WriteSummary(p) == Replace(p, "summary") /\ Becomes(p, Fresh)
-----------------------------------------------------------------------------
Next ==
  \/ EditManifest
  \/ \E p \in Processes :
       \/ Stops(p) \/ OpenTemp(p) \/ WriteFails(p) \/ ReplaceFails(p)
       \/ LoadManifest(p) \/ HashManifest(p)
       \/ FillPublic(p) \/ WritePublic(p) \/ FillMetadata(p) \/ WriteMetadata(p)
       \/ ReadPublic(p) \/ ReadMetadata(p)
       \/ StartRun(p) \/ WriteRaw(p) \/ PaceStarted(p) \/ PaceCompleted(p)
       \/ StartCase(p) \/ BeginInference(p) \/ Infer(p) \/ RecordResult(p)
       \/ CompleteCase(p) \/ CompleteRaw(p) \/ CompleteRun(p)
       \/ ReadRaw(p) \/ CheckManifest(p) \/ ReadLabels(p)
       \/ FillScored(p) \/ WriteScored(p) \/ FillSummary(p) \/ WriteSummary(p)

Spec == Init /\ [][Next]_vars
-----------------------------------------------------------------------------
(* "Run the sealed public cases exactly once": however often RUN is        *)
(* started, together with another one or after one that stopped, no case   *)
(* is inferred twice.                                                      *)
InferredOnce == \A c \in Cases : inferred[c] <= 1

Entries(event) == {i \in DOMAIN journal : journal[i].event = event}
UpTo(i)        == {k \in Entries(journal[i].event) : k <= i}

(* The journal and the raw results describe one run at every moment at     *)
(* which it may stop: a case is inferred only after its CASE_STARTED, its  *)
(* result is on disk before its CASE_COMPLETED and at most one ahead of    *)
(* it, the n-th CASE_COMPLETED is about the n-th result, and RUN_COMPLETED *)
(* follows complete results.                                               *)
JournalAgrees ==
  LET completed == Cardinality(Entries("CASE_COMPLETED"))
      recorded  == IF raw = None THEN <<>> ELSE raw.cases
  IN  /\ \A c \in Cases : inferred[c] > 0 =>
           \E i \in Entries("CASE_STARTED") : journal[i].case = c
      /\ Len(recorded) \in {completed, completed + 1}
      /\ \A i \in Entries("CASE_COMPLETED") :
           journal[i].case = recorded[Cardinality(UpTo(i))].case
      /\ Entries("RUN_COMPLETED") # {} => raw # None /\ raw.completed

(* What is scored is the whole run of the document it is scored as: each   *)
(* of its cases, in its order, inferred from that document although        *)
(* PREPARE may replace the files while RUN and SCORE read them.  A summary *)
(* counts each case in exactly one category.  This is said of files that   *)
(* can be read: two SCOREs at a time may spoil each other's.               *)
ScoredIsComplete ==
  /\ scored \notin Spoilt \cup {None} =>
       /\ scored.ran = scored.document
       /\ [i \in DOMAIN scored.cases |-> scored.cases[i].case] = CasesOf[scored.document]
       /\ \A i \in DOMAIN scored.cases : inferred[scored.cases[i].case] = 1
  /\ summary \notin Spoilt \cup {None} => Total(summary) = Len(CasesOf[raw.document])

(* Of SCOREs that come one after the other, whatever write fails and       *)
(* wherever one is killed, none leaves scores or a summary that are cut    *)
(* short or mixed: what exists refuses the next SCORE for good, so that it *)
(* could not be replaced.                                                  *)
ScoresAreWhole == scored \notin Spoilt /\ summary \notin Spoilt

(* A case counts as a support, right or wrong, only if its last candidate  *)
(* failed by assertion on BASE and passed on HEAD and the assessor found   *)
(* it related to the claim.  A case without an outcome, and one whose      *)
(* environment did not become ready, count neither as a support nor as a   *)
(* miss nor as an abstention.  (A case whose environment fails after it    *)
(* was ready does count, as a miss or as an abstention.)                   *)
SupportIsEarned ==
  scored \notin Spoilt \cup {None} =>
    \A i \in DOMAIN scored.cases :
      LET e == scored.cases[i] IN
      /\ e.classification \in {"SUPPORTED_POSITIVE", "INCORRECT_SUPPORT"} =>
           /\ e.result.pattern = "BASE_ASSERTION_FAILED_HEAD_PASSED"
           /\ e.result.related /\ e.result.mechanical = "DISCRIMINATING"
      /\ e.result.outcome = None <=>
           e.classification \in {"INVALID_PROVIDER_MODEL", "INVALID_CLAIM_OUTPUT",
                                 "INVALID_HARNESS"}
      /\ e.result.terminal = "ENVIRONMENT_NOT_READY" <=>
           e.classification = "INVALID_ENVIRONMENT"
=============================================================================
