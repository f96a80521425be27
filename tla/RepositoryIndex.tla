--------------------------- MODULE RepositoryIndex ---------------------------
(***************************************************************************)
(* What PatchProof knows of a repository without running it: the bounded   *)
(* index of one revision (repository_index.py), the comparison of two      *)
(* indexes and the queries on them (investigation_tools.py).               *)
(*                                                                         *)
(* A file defines one symbol, which is named by the file.  A blob keeps    *)
(* what the index extracts from a file: its size, whether it decodes and   *)
(* parses, the hash of its symbol's source and the references that source  *)
(* makes, in the order of their lines.  A reference has a terminal name,   *)
(* the file its import alias expands to (None when nothing resolves it),   *)
(* how it is written and whether it is a call; a hint is an import or a    *)
(* literal mention, which only the search for tests reads.                 *)
(***************************************************************************)
EXTENDS Naturals, Sequences, FiniteSets, Functions

CONSTANTS
  Paths,          \* the repository's Python paths, in order
  Name,           \* the symbol each of them defines
  Visibility,     \* "exported", "public", "internal" or "private"
  Tests,          \* the paths of tests, whose symbol is a test function
  MaxFiles, MaxFileBytes, MaxSourceBytes,    \* RepositoryIndexBudget
  MaxSymbols, MaxReferences,
  Hops,           \* InvestigationBudget.max_relevance_hops
  MaxResults      \* InvestigationBudget.default_max_results

Files  == Range(Paths)
None   == "none"
Absent == [state |-> "absent"]

ASSUME IndexAssumption ==
  /\ Paths \in Seq(Files) /\ IsInjective(Paths)
  /\ Tests \subseteq Files /\ None \notin Files
  /\ Name \in [Files -> STRING]
  /\ Visibility \in [Files -> {"exported", "public", "internal", "private"}]
  /\ {MaxFiles, MaxFileBytes, MaxSourceBytes, MaxSymbols, MaxReferences, MaxResults}
       \subseteq Nat \ {0}
  /\ MaxFileBytes <= MaxSourceBytes /\ Hops \in Nat

Reference(name, target, via, call) ==
  [name |-> name, target |-> target, via |-> via, call |-> call]
Hint(name, target, via) == [name |-> name, target |-> target, via |-> via]
Blob(size, state, body, refs, hints) ==
  [state |-> state, size |-> size, body |-> body, refs |-> refs, hints |-> hints]

(* A list is the set of its members and the order they stand in.  _result  *)
(* keeps the first matches of one.  Its second limit, on the characters of *)
(* source shown, is left out with the text.                                *)
Leading(S, Before(_, _), n) == {x \in S : Cardinality({y \in S : Before(y, x)}) < n}

(* The order of paths, and by a key first. *)
At == [f \in Files |-> CHOOSE i \in DOMAIN Paths : Paths[i] = f]
InOrder(f, g)    == At[f] < At[g]
ByKey(key, f, g) == key[f] < key[g] \/ (key[f] = key[g] /\ InOrder(f, g))
-----------------------------------------------------------------------------
(* prepare_pull_request: changed tests are hidden from both revisions and  *)
(* changed production files are read first.                                *)
Changes(base, head)  == {f \in Files : base[f] # head[f]}
Excluded(base, head) == Changes(base, head) \cap Tests
Priority(base, head) == Changes(base, head) \ Tests

(* The selection loop: files in priority-then-path order, each taken       *)
(* unless it is too large, too late or more than the total allows.         *)
Candidates(tree, excluded) ==
  {f \in Files \ excluded : tree[f].state \notin {"absent", "symlink"}}

Fits(taken, tree, f) ==
  /\ tree[f].size <= MaxFileBytes
  /\ Cardinality(taken.files) < MaxFiles
  /\ taken.bytes + tree[f].size <= MaxSourceBytes

(* The paths are gone through twice, the second time for what has no       *)
(* priority.                                                               *)
Turn(n) == Paths[IF n <= Len(Paths) THEN n ELSE n - Len(Paths)]

Taken(tree, excluded, priority) ==
  LET considered(n) == /\ Turn(n) \in Candidates(tree, excluded)
                       /\ Turn(n) \in priority <=> n <= Len(Paths)
      taken[n \in 0..(2 * Len(Paths))] ==
        IF n = 0 THEN [files |-> {}, bytes |-> 0]
        ELSE IF considered(n) /\ Fits(taken[n - 1], tree, Turn(n))
        THEN [files |-> taken[n - 1].files \cup {Turn(n)},
              bytes |-> taken[n - 1].bytes + tree[Turn(n)].size]
        ELSE taken[n - 1]
  IN taken

Selected(tree, excluded, priority) == Taken(tree, excluded, priority)[2 * Len(Paths)].files

(* The visitors: every parsed file gives its symbol and its references,    *)
(* both only until their budgets are spent.                                *)
Partial(tree, parsed, references) ==
  \/ {f \in Files : tree[f].state # "absent"} # parsed
  \/ Cardinality(parsed) > MaxSymbols
  \/ Cardinality(references) > MaxReferences

BuildIndex(tree, excluded, priority) ==
  LET files      == Selected(tree, excluded, priority)
      parsed     == {f \in files : tree[f].state = "parsed"}
      references == UNION {{f} \X DOMAIN tree[f].refs : f \in parsed}
      earlier(f, g) == ByKey([h \in Files |-> IF h \in priority THEN 1 ELSE 2], f, g)
      symbols    == Leading(parsed, earlier, MaxSymbols)
      kept       == Leading(references,
                          LAMBDA p, q : \/ earlier(p[1], q[1])
                                        \/ p[1] = q[1] /\ p[2] < q[2],
                          MaxReferences)
  IN [files      |-> {f \in files : tree[f].state # "undecodable"},
      body       |-> [f \in symbols |-> tree[f].body],
      references |-> {[path |-> p[1], ref |-> tree[p[1]].refs[p[2]]] : p \in kept},
      hints      |-> [f \in symbols |-> tree[f].hints],
      truncated  |-> Partial(tree, parsed, references)]
-----------------------------------------------------------------------------
(* _comparisons.                                                           *)
Defines(index, f) == f \in DOMAIN index.body
Comparisons(base, head) == {f \in Files : Defines(base, f) \/ Defines(head, f)}

PresentOnBoth(base, head, f)   == Defines(base, f) /\ Defines(head, f)
NewOnHead(base, head, f)       == ~Defines(base, f) /\ Defines(head, f)
RemovedFromHead(base, head, f) == Defines(base, f) /\ ~Defines(head, f)
ImplementationChanged(base, head, f) ==
  PresentOnBoth(base, head, f) /\ base.body[f] # head.body[f]

(* _relevance_identities: what changed or is new and, hop by hop, the      *)
(* shared symbols whose HEAD source refers to it by exact identity.        *)
Dependencies(head, f) ==
  {r.ref.target : r \in {x \in head.references : x.path = f /\ x.ref.via = "alias"}}
    \cap DOMAIN head.body

Reached(base, head) ==
  LET reached[n \in 0..Hops] ==
        IF n = 0
          THEN {f \in Files : \/ NewOnHead(base, head, f)
                              \/ ImplementationChanged(base, head, f)}
          ELSE LET before == reached[n - 1]
               IN before \cup {f \in Files : /\ PresentOnBoth(base, head, f)
                                            /\ Dependencies(head, f) \cap before # {}}
  IN reached

RelevanceIdentities(base, head) == Reached(base, head)[Hops]

(* _prioritized_observable_comparisons: four groups, each in priority      *)
(* order, dealt one by one; the unrelated symbols come last.               *)
PriorityKey == [f \in Files |-> CASE Visibility[f] = "exported" -> 1
                                  [] Visibility[f] = "private"  -> 3
                                  [] OTHER -> 2]

Groups(base, head) ==
  LET relevant == RelevanceIdentities(base, head)
      shared  == {f \in Files : PresentOnBoth(base, head, f)}
      changed == {f \in shared : ImplementationChanged(base, head, f)}
  IN <<changed,
       {f \in Files : NewOnHead(base, head, f)},
       {f \in Files : RemovedFromHead(base, head, f)},
       (shared \cap relevant) \ changed,
       shared \ (relevant \cup changed)>>

(* How many of its group stand before f, and the round in which it is      *)
(* dealt.                                                                  *)
Standing(group, f) == Cardinality({g \in group : ByKey(PriorityKey, g, f)})
Round(groups, i, f) == Standing(groups[i], f) + IF i = 5 THEN Len(Paths) ELSE 0

(* variant: one group after the other *)
DealtInTurn(groups, f, g) ==
  \E i, j \in 1..5 : /\ f \in groups[i] /\ g \in groups[j]
                     /\ \/ i < j
                        \/ i = j /\ Round(groups, i, f) < Round(groups, j, g)

Dealt(groups, f, g) ==
  \E i, j \in 1..5 : /\ f \in groups[i] /\ g \in groups[j]
                     /\ \/ Round(groups, i, f) < Round(groups, j, g)
                        \/ Round(groups, i, f) = Round(groups, j, g) /\ i < j

(* compare_observables.                                                    *)
Observables(base, head) ==
  LET groups == Groups(base, head)
  IN Leading(UNION Range(groups), LAMBDA f, g : Dealt(groups, f, g), MaxResults)
-----------------------------------------------------------------------------
(* The queries a model may make.  Each gives the symbols it returns or     *)
(* refuses its arguments; a reference or a window carries no symbol.       *)
Tools == {"inspect_symbol", "find_references", "find_related_tests", "inspect_source_window"}

Rank(via) == CASE via = "alias" -> 1 [] via = "bare" -> 2 [] via = "attribute" -> 3

(* _ranked_references and find_callers: only names are compared, so every  *)
(* call of the name counts, whatever it is bound to.                       *)
FindCallers(index, name, maximum) ==
  LET calls == {c \in (1..3) \X Files :
                  \E r \in index.references :
                    /\ r.path = c[2] /\ r.ref.name = name
                    /\ r.ref.call /\ Rank(r.ref.via) = c[1]}
      before(c, d) == c[1] < d[1] \/ (c[1] = d[1] /\ InOrder(c[2], d[2]))
  IN {c[2] : c \in Leading(calls, before, maximum)}

(* find_related_tests: a test ranks by its best evidence.                  *)
FindRelatedTests(index, name, path, maximum) ==
  LET hints(t, via) == {h \in index.hints[t] : h.via = via}
      evidence(t) ==
        {Rank(r.ref.via) : r \in {x \in index.references : x.path = t /\ x.ref.name = name}}
          \cup {4 : h \in {x \in hints(t, "import") : x.name = name}}
          \cup {5 : h \in {x \in hints(t, "import") : x.target = path}}
          \cup {6 : h \in {x \in hints(t, "text") :
                             IF name # None THEN x.name = name ELSE x.target = path}}
      best(t) == CHOOSE n \in evidence(t) : \A m \in evidence(t) : n <= m
      found == {t \in DOMAIN index.body \cap Tests : evidence(t) # {}}
  IN Leading(found, LAMBDA t, u : ByKey([v \in found |-> best(v)], t, u), maximum)

InspectSymbol(index, name, path, maximum) ==
  Leading({f \in DOMAIN index.body : path \in {None, f} /\ name \in {None, Name[f]}},
        InOrder, maximum)

Accepts(index, q) ==
  /\ q.path \in index.files \cup {None}
  /\ CASE q.tool = "find_references"       -> q.name # None
       [] q.tool = "inspect_source_window" -> q.path # None
       [] OTHER -> q.name # None \/ q.path # None

Returned(index, q, maximum) ==
  CASE q.tool = "inspect_symbol"     -> InspectSymbol(index, q.name, q.path, maximum)
    [] q.tool = "find_related_tests" -> FindRelatedTests(index, q.name, q.path, maximum)
    [] OTHER -> {}
=============================================================================
