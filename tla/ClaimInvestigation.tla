------------------------- MODULE ClaimInvestigation -------------------------
(***************************************************************************)
(* Claim selection for one revision pair: the factory that indexes BASE    *)
(* and HEAD, the planner's starting context (claim_investigation.py), the  *)
(* model's bounded use of the read-only tools (investigation_toolbox.py)   *)
(* and the mechanical check of the interface it concludes with             *)
(* (claim_investigator.py).                                                *)
(*                                                                         *)
(* The model is the environment: on each turn it asks for tools, concludes *)
(* with any interface or none, answers nonsense or fails.  A request's     *)
(* calls are chosen one by one, which loses nothing because the model sees *)
(* no result before its next turn.                                         *)
(***************************************************************************)
EXTENDS RepositoryIndex

CONSTANTS
  Repositories,     \* revision pairs, each role's path -> blob or Absent
  Queries,          \* the tool calls a model may make
  MaxShared,        \* StartingContextBudget: max_shared_observables,
  MaxNewHead,       \*   max_new_head_symbols,
  MaxTraces,        \*   max_caller_traces,
  MaxCallers,       \*   max_callers_per_symbol
  MaxTurns,         \* ToolBudget: max_turns,
  MaxTotal,         \*   max_total_calls,
  PerTool,          \*   max_calls_per_tool,
  MaxMatches,       \*   max_results_per_call
  CallsPerTurn,     \* InvestigatorDecision.tool_calls, at most
  TranscriptLimit   \* InvestigationTranscript.tool_calls, at most

Rev == {"BASE", "HEAD"}
Query == [tool: Tools \cup {"unknown"}, rev: Rev \cup {"other"},
          name: STRING, path: Files \cup {None}]

ASSUME InvestigationAssumption ==
  /\ \A r \in Repositories : DOMAIN r = Rev
  /\ \A r \in Repositories, v \in Rev :
       /\ DOMAIN r[v] = Files
       /\ \A f \in Files : r[v][f] = Absent \/ r[v][f].size \in Nat
  /\ \A q \in Queries : q \in Query
  /\ {MaxShared, MaxNewHead, MaxTraces, MaxCallers, MaxTurns, MaxTotal, PerTool,
      MaxMatches, CallsPerTurn} \subseteq Nat \ {0}
  /\ PerTool <= MaxTotal
  /\ TranscriptLimit \in Nat /\ MaxTotal <= TranscriptLimit

VARIABLES
  repo,        \* the two revisions
  index,       \* their indexes, as far as they are built
  context,     \* the starting context
  phase,       \* where the investigation is
  turn,        \* InvestigationToolbox._turn
  turns,       \* model invocations so far
  asked,       \* tool calls of the current decision still to be made
  accepted,    \* accepted calls of each tool
  refused,     \* refused calls that were recorded
  discovered,  \* symbols some tool returned
  claim        \* the interface concluded with

vars == <<repo, index, context, phase, turn, turns, asked, accepted, refused, discovered, claim>>

NoIndex == [files |-> {}, body |-> <<>>, references |-> {}, hints |-> <<>>,
            truncated |-> FALSE]
WithTranscript == {"invalid_output", "abstained", "selected", "head_only", "undiscovered",
                   "one_sided", "unrelated"}
Ended == WithTranscript \cup {"index_error", "provider_error", "transcript_error"}

InvestigationTypeOK ==
  /\ repo \in Repositories
  /\ \A v \in Rev : DOMAIN index[v].body \subseteq index[v].files
  /\ context.shared \cup context.newHead \cup discovered \subseteq Files
  /\ context.complete \in BOOLEAN
  /\ phase \in {"base", "head", "plan", "model", "tools", "final"} \cup Ended
  /\ turn \in 1..MaxTurns /\ turns \in 0..(MaxTurns + 1)
  /\ asked \in 0..CallsPerTurn
  /\ accepted \in [Tools -> Nat] /\ refused \in 0..(MaxTotal + CallsPerTurn - 1)
  /\ claim \in Files \cup {None}

Init ==
  /\ repo \in Repositories
  /\ index = [v \in Rev |-> NoIndex]
  /\ context = [shared |-> {}, newHead |-> {}, complete |-> FALSE]
  /\ phase = "base" /\ turn = 1 /\ turns = 0 /\ asked = 0
  /\ accepted = [t \in Tools |-> 0] /\ refused = 0
  /\ discovered = {} /\ claim = None
-----------------------------------------------------------------------------
(* GitClaimInvestigatorFactory.build: one index after the other.  An index *)
(* depends on nothing but the immutable pair.                              *)
IndexOf(r, v) ==
  BuildIndex(r[v], Excluded(r["BASE"], r["HEAD"]), Priority(r["BASE"], r["HEAD"]))

IndexRevision(v, at, then) ==
  /\ phase = at
  /\ index' = [index EXCEPT ![v] = IndexOf(repo, v)]
  /\ phase' = then
  /\ UNCHANGED <<repo, context, turn, turns, asked, accepted, refused, discovered, claim>>

IndexBase == IndexRevision("BASE", "base", "head")
IndexHead == IndexRevision("HEAD", "head", "plan")

(* The Git read fails, exceeds its output or its time budget, or returns   *)
(* something malformed.                                                    *)
IndexFails ==
  /\ phase \in {"base", "head"}
  /\ phase' = "index_error"
  /\ UNCHANGED <<repo, index, context, turn, turns, asked, accepted, refused, discovered, claim>>

base == index["BASE"]
head == index["HEAD"]

(* _callers_of: the symbols that call a name, the symbol itself left out.  *)
CallersOf(f) == FindCallers(head, Name[f], MaxCallers) \ {f}

(* _rank_shared: the shared observables that qualify, best rank first,     *)
(* changed ones first within a rank.                                       *)
RankOf(f) == CASE Visibility[f] = "exported" -> 1 [] Visibility[f] = "public" -> 3
               [] Visibility[f] = "internal" -> 5 [] OTHER -> 7

RankShared(shared, reaching) ==
  LET changed  == {f \in shared : ImplementationChanged(base, head, f)}
      relevant == shared \cap RelevanceIdentities(base, head)
      rank     == [f \in Files |-> RankOf(f) + IF f \in changed THEN 0 ELSE 1]
  IN Leading(changed \cup relevant \cup (shared \cap reaching),
           LAMBDA f, g : ByKey(rank, f, g), MaxShared)

(* IndexCoverage.complete.                                                 *)
Complete == /\ ~base.truncated /\ ~head.truncated
            /\ Cardinality(Comparisons(base, head)) <= MaxResults

StartingContext ==
  /\ phase = "plan"
  /\ LET seen == Observables(base, head)
         groups == Groups(base, head)
         before(f, g) == Dealt(groups, f, g)
         newHead == Leading({f \in seen : NewOnHead(base, head, f)}, before, MaxNewHead)
         reaching == UNION {CallersOf(f) : f \in Leading(newHead, before, MaxTraces)}
         shared == {f \in seen : PresentOnBoth(base, head, f)}
     IN context' = [shared |-> RankShared(shared, reaching), newHead |-> newHead,
                    complete |-> Complete]
  /\ phase' = "model"
  /\ UNCHANGED <<repo, index, turn, turns, asked, accepted, refused, discovered, claim>>
-----------------------------------------------------------------------------
(* One model turn that asks for tools; on the final turn that is an error. *)
Investigate ==
  /\ phase = "model"
  /\ turns' = turns + 1
  /\ asked' \in 1..CallsPerTurn
  /\ phase' = "tools"
  /\ UNCHANGED <<repo, index, context, turn, accepted, refused, discovered, claim>>

Accepted == accepted["inspect_symbol"] + accepted["find_references"]
            + accepted["find_related_tests"] + accepted["inspect_source_window"]
Recorded == refused + Accepted

(* variant: the budget is checked against what was left before the call *)
ExhaustedLate == Recorded > MaxTotal

Exhausted == Recorded >= MaxTotal

(* InvestigationToolbox.call: an unknown tool is refused without a record, *)
(* a spent budget or arguments the contract rejects with one.              *)
Serves(q) ==
  /\ ~Exhausted /\ accepted[q.tool] < PerTool
  /\ q.rev \in Rev /\ Accepts(index[q.rev], q)

ToolCall(q) ==
  /\ phase = "tools" /\ asked > 0
  /\ asked' = asked - 1
  /\ IF q.tool \notin Tools THEN UNCHANGED <<accepted, refused, discovered>>
     ELSE IF Serves(q)
       THEN /\ accepted' = [accepted EXCEPT ![q.tool] = @ + 1]
            /\ discovered' = discovered \cup Returned(index[q.rev], q, MaxMatches)
            /\ UNCHANGED refused
       ELSE /\ refused' = refused + 1
            /\ UNCHANGED <<accepted, discovered>>
  /\ UNCHANGED <<repo, index, context, phase, turn, turns, claim>>

(* begin_turn, and the one final turn once turns or calls are spent.       *)
(* variant: the turn that reaches the limit may be followed by another *)
MayContinueOnce == turn <= MaxTurns

MayContinue == turn < MaxTurns

EndTurn ==
  /\ phase = "tools" /\ asked = 0
  /\ turn' = IF MayContinue THEN turn + 1 ELSE turn
  /\ phase' = IF MayContinue /\ ~Exhausted THEN "model" ELSE "final"
  /\ UNCHANGED <<repo, index, context, turns, asked, accepted, refused, discovered, claim>>

(* The transcript that every result and every rejection carries: its       *)
(* schema refuses more records than its limit, and that error, which       *)
(* nothing here catches, takes the place of the outcome.                   *)
Transcribed(outcome) ==
  IF Recorded <= TranscriptLimit THEN outcome ELSE "transcript_error"

(* A response that is too long or no valid decision, and a final turn that *)
(* asks for tools again.                                                   *)
InvalidOutput ==
  /\ phase \in {"model", "final"}
  /\ turns' = turns + 1 /\ phase' = Transcribed("invalid_output")
  /\ UNCHANGED <<repo, index, context, turn, asked, accepted, refused, discovered, claim>>

(* model.invoke raises, which ends the investigation without a transcript. *)
ProviderError ==
  /\ phase \in {"model", "final"}
  /\ turns' = turns + 1 /\ phase' = "provider_error"
  /\ UNCHANGED <<repo, index, context, turn, asked, accepted, refused, discovered, claim>>
-----------------------------------------------------------------------------
(* variant: an interface a tool returned needs no second look *)
AdmitReturned(f) == IF f \in discovered THEN "selected" ELSE "undiscovered"

(* _admit_discovered: an interface outside the starting context must have  *)
(* been returned by a tool, be in both indexes and be related to the       *)
(* change.                                                                 *)
AdmitDiscovered(f) ==
  IF f \in context.newHead THEN "head_only"
  ELSE IF f \notin discovered THEN "undiscovered"
  ELSE IF ~PresentOnBoth(base, head, f) THEN "one_sided"
  ELSE IF ~ImplementationChanged(base, head, f) /\ f \notin RelevanceIdentities(base, head)
       THEN "unrelated"
  ELSE "selected"

(* _normalize: an abstention, or the claim the model concludes with.       *)
Normalize(f) ==
  IF f = None THEN "abstained"
  ELSE IF f \in context.shared THEN "selected" ELSE AdmitDiscovered(f)

Conclude(f) ==
  /\ phase \in {"model", "final"}
  /\ turns' = turns + 1 /\ claim' = f /\ phase' = Transcribed(Normalize(f))
  /\ UNCHANGED <<repo, index, context, turn, asked, accepted, refused, discovered>>

Next == \/ IndexBase \/ IndexHead \/ IndexFails \/ StartingContext
        \/ Investigate \/ EndTurn \/ InvalidOutput \/ ProviderError
        \/ \E q \in Queries : ToolCall(q)
        \/ \E f \in Files \cup {None} : Conclude(f)

Spec == Init /\ [][Next]_vars
-----------------------------------------------------------------------------
(* What the two revisions really contain, whatever the indexes hold.       *)
InRevision(v, f) == repo[v][f].state = "parsed"
Touched(f) ==
  /\ InRevision("HEAD", f)
  /\ InRevision("BASE", f) => repo["BASE"][f].body # repo["HEAD"][f].body
RefersTo(f, g) == \E i \in DOMAIN repo["HEAD"][f].refs :
                    LET r == repo["HEAD"][f].refs[i] IN r.via = "alias" /\ r.target = g
Names(f, g) == \E i \in DOMAIN repo["HEAD"][f].refs : repo["HEAD"][f].refs[i].name = Name[g]

(* A chain of at most Hops references from f to something the pull request *)
(* touched, through symbols both revisions have.                           *)
LeadsToChange(f) ==
  \E n \in 0..Hops : \E c \in [0..n -> Files] :
    /\ c[0] = f /\ Touched(c[n])
    /\ \A i \in 0..(n - 1) : /\ \A v \in Rev : InRevision(v, c[i])
                             /\ RefersTo(c[i], c[i + 1])

(* A claim PatchProof goes on with has an interface that exists in both    *)
(* revisions, even when the indexes are partial.  When they are complete,  *)
(* the interface changed, leads to a change by exact references, or names  *)
(* a symbol the pull request added: what the planner and _admit_discovered *)
(* derive from bounded indexes is then true of the repository.             *)
ClaimIsGrounded ==
  phase = "selected" =>
    /\ \A v \in Rev : InRevision(v, claim)
    /\ ~(base.truncated \/ head.truncated) =>
         \/ LeadsToChange(claim)
         \/ \E g \in Files : Touched(g) /\ ~InRevision("BASE", g) /\ Names(claim, g)

(* The investigation stays within its budgets although they are checked    *)
(* only between calls and between turns: no tool is served more than its   *)
(* share nor all of them more than the total, and refusals exceed it by    *)
(* less than one decision's calls; the model is invoked at most once more  *)
(* than max_turns, for the final turn.  An outcome comes with a transcript *)
(* that fits its schema, and is lost for one that does not only after a    *)
(* decision has asked for more calls than were left.                       *)
BudgetsHold ==
  /\ \A t \in Tools : accepted[t] <= PerTool
  /\ Accepted <= MaxTotal /\ Recorded <= MaxTotal + CallsPerTurn - 1
  /\ turns <= MaxTurns + 1
  /\ phase \in WithTranscript => Recorded <= TranscriptLimit
  /\ phase = "transcript_error" => Recorded > MaxTotal

(* compare_observables: "one large change kind cannot crowd every other    *)
(* kind out of the bounded result".  Where a symbol of one kind of change  *)
(* is left out, no other kind has more than one symbol more than its kind. *)
NoKindCrowdedOut ==
  phase = "plan" =>
    LET groups  == Groups(base, head)
        kept(i) == Cardinality(groups[i] \cap Observables(base, head))
    IN \A i, j \in 1..4 : kept(i) < Cardinality(groups[i]) => kept(j) <= kept(i) + 1

(* IndexCoverage: "A truncated index cannot prove absence" and the         *)
(* validator "refuses to reject on absence alone": an interface that both  *)
(* revisions have is not rejected as missing from one of them.             *)
AbsenceNeverRejects ==
  phase \in {"head_only", "one_sided"} => \E v \in Rev : ~InRevision(v, claim)
=============================================================================
