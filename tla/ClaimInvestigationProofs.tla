----------------------- MODULE ClaimInvestigationProofs -----------------------
(***************************************************************************)
(* Proofs about claim selection (ClaimInvestigation, RepositoryIndex).     *)
(* InvestigationInv joins four parts: the indexes are those of the pair    *)
(* once they are built (IndexInv), every interface of the starting context *)
(* may be claimed (ContextInv), so may a claim that was selected           *)
(* (ClaimInv), and the budgets left allow what the loop still does         *)
(* (TurnInv).  Each part is kept by every action, given the ones before.   *)
(* What the indexes say is then carried over to the repository: an index   *)
(* is faithful, and each hop of the relevance search is a reference that   *)
(* the repository has.                                                     *)
(***************************************************************************)
EXTENDS ClaimInvestigation, FiniteSetTheorems, WellFoundedInduction, TLAPS
-----------------------------------------------------------------------------
(* Every nonempty set of numbers has a least one: induction over numbers   *)
(* is argued below by the least counterexample.                            *)
LEMMA LeastNumber ==
  ASSUME NEW T \in SUBSET Nat, T # {}
  PROVE  \E m \in T : \A n \in T : m <= n
<1> DEFINE R == OpToRel(<, Nat)
<1>1. IsWellFoundedOn(R, Nat)  BY NatLessThanWellFounded
<1>2. PICK m \in T : \A n \in T : <<n, m>> \notin R
  <2> HIDE DEF R
  <2> QED  BY <1>1, WFMin
<1>3. \A n \in T : ~ (n < m)  BY <1>2 DEF OpToRel
<1>4. \A n \in T : m <= n  BY <1>3
<1> QED  BY <1>4

(* A value computed in N steps from a first one exists for every N.        *)
HasIteration(N, V, start, step) ==
  \E g \in [0..N -> V] : g[0] = start /\ \A n \in 1..N : g[n] = step[n][g[n - 1]]

LEMMA Iteration ==
  ASSUME NEW N, NEW V, NEW start, NEW step,
         N \in Nat, start \in V, step \in [1..N -> [V -> V]]
  PROVE  HasIteration(N, V, start, step)
<1> DEFINE Up(k) == \E g \in [0..k -> V] :
                      g[0] = start /\ \A n \in 1..k : g[n] = step[n][g[n - 1]]
           Fails == {k \in 0..N : ~Up(k)}
<1>1. Up(0)
  <2> DEFINE h == [n \in 0..0 |-> start]
  <2>1. h \in [0..0 -> V] /\ h[0] = start /\ 1..0 = {}  OBVIOUS
  <2> HIDE DEF h
  <2> QED  BY <2>1
<1>2. ASSUME NEW k \in 1..N, Up(k - 1)  PROVE Up(k)
  <2>1. PICK g \in [0..(k - 1) -> V] :
          g[0] = start /\ \A n \in 1..(k - 1) : g[n] = step[n][g[n - 1]]
    BY <1>2
  <2> DEFINE h == [n \in 0..k |-> IF n = k THEN step[k][g[k - 1]] ELSE g[n]]
  <2>2. h \in [0..k -> V]  BY <2>1
  <2>3. h[0] = start  BY <2>1
  <2>4. ASSUME NEW n \in 1..k  PROVE h[n] = step[n][h[n - 1]]
    <3>1. CASE n = k  BY <3>1
    <3>2. CASE n # k  BY <2>1, <3>2
    <3> QED  BY <3>1, <3>2
  <2> HIDE DEF h
  <2> QED  BY <2>2, <2>3, <2>4
<1>3. Fails = {}
  <2> SUFFICES ASSUME Fails # {}  PROVE FALSE
    OBVIOUS
  <2> HIDE DEF Up
  <2>1. PICK m \in Fails : \A n \in Fails : m <= n
    <3>1. Fails \in SUBSET Nat  OBVIOUS
    <3> HIDE DEF Fails
    <3> QED  BY <3>1, LeastNumber
  <2>2. m \in 0..N /\ ~Up(m)  OBVIOUS
  <2>3. m # 0  BY <1>1, <2>2
  <2>4. Up(m - 1)  BY <2>1, <2>2, <2>3
  <2> QED  BY <1>2, <2>2, <2>3, <2>4
<1>4. Up(N)
  <2> HIDE DEF Up
  <2> QED  BY <1>3
<1> QED  BY <1>4 DEF HasIteration

-----------------------------------------------------------------------------
(* The recursive functions of the index are what their equations say.      *)
Widened(b, h, S) ==
  S \cup {f \in Files : PresentOnBoth(b, h, f) /\ Dependencies(h, f) \cap S # {}}

(* The relevance search widens its set once per hop.                       *)
LEMMA ReachedSteps ==
  ASSUME NEW b, NEW h
  PROVE  /\ Reached(b, h)[0] = {f \in Files : \/ NewOnHead(b, h, f)
                                              \/ ImplementationChanged(b, h, f)}
         /\ \A n \in 1..Hops : Reached(b, h)[n] = Widened(b, h, Reached(b, h)[n - 1])
<1> DEFINE first == {f \in Files : NewOnHead(b, h, f) \/ ImplementationChanged(b, h, f)}
           Holds(r) == r = [n \in 0..Hops |-> IF n = 0 THEN first ELSE Widened(b, h, r[n - 1])]
           V == SUBSET Files
           step == [n \in 1..Hops |-> [S \in V |-> Widened(b, h, S)]]
<1>1. Reached(b, h) = CHOOSE r : Holds(r)  BY Zenon DEF Reached, Widened
<1>2. \E r : Holds(r)
  <2>1. first \in V /\ Hops \in Nat  BY IndexAssumption
  <2>2. step \in [1..Hops -> [V -> V]]  BY DEF Widened
  <2>3. \A n \in 1..Hops, S \in V : step[n][S] = Widened(b, h, S)  OBVIOUS
  <2> HIDE DEF first, V, step
  <2>4. PICK g \in [0..Hops -> V] :
          g[0] = first /\ \A n \in 1..Hops : g[n] = step[n][g[n - 1]]
    <3>1. HasIteration(Hops, V, first, step)  BY <2>1, <2>2, Iteration
    <3> QED  BY <3>1 DEF HasIteration
  <2>5. \A n \in 1..Hops : g[n] = Widened(b, h, g[n - 1])
    <3> SUFFICES ASSUME NEW n \in 1..Hops  PROVE g[n] = Widened(b, h, g[n - 1])
      OBVIOUS
    <3>1. g[n - 1] \in V  BY <2>1, <2>4
    <3> QED  BY <2>3, <2>4, <3>1
  <2>6. \A n \in 0..Hops : g[n] = IF n = 0 THEN first ELSE Widened(b, h, g[n - 1])
    BY <2>1, <2>4, <2>5
  <2>7. Holds(g)  BY <2>4, <2>6
  <2> QED  BY <2>7
<1>3. Holds(Reached(b, h))
  <2> HIDE DEF Holds
  <2> QED  BY <1>1, <1>2
<1>4. Hops \in Nat  BY IndexAssumption
<1> HIDE DEF first
<1>5. /\ Reached(b, h)[0] = first
      /\ \A n \in 1..Hops : Reached(b, h)[n] = Widened(b, h, Reached(b, h)[n - 1])
  BY <1>3, <1>4
<1> QED  BY <1>5 DEF first

(* Every file a blob is read of has a size.                                *)
Sized(tree) == \A f \in Files : tree[f] = Absent \/ tree[f].size \in Nat

(* The selection loop keeps a file it considers and has room for.          *)
Considered(tree, excluded, priority, n) ==
  /\ Turn(n) \in Candidates(tree, excluded)
  /\ Turn(n) \in priority <=> n <= Len(Paths)

Keep(tree, excluded, priority, n, taken) ==
  IF Considered(tree, excluded, priority, n) /\ Fits(taken, tree, Turn(n))
  THEN [files |-> taken.files \cup {Turn(n)}, bytes |-> taken.bytes + tree[Turn(n)].size]
  ELSE taken

(* The selection keeps or leaves one path at a time.                       *)
LEMMA TakenSteps ==
  ASSUME NEW tree, NEW excluded, NEW priority, Sized(tree)
  PROVE  LET taken == Taken(tree, excluded, priority)
         IN  /\ taken[0] = [files |-> {}, bytes |-> 0]
             /\ \A n \in 1..(2 * Len(Paths)) :
                  taken[n] = Keep(tree, excluded, priority, n, taken[n - 1])
<1> DEFINE N == 2 * Len(Paths)
           C == Candidates(tree, excluded)
           V == [files : SUBSET C, bytes : Nat]
           first == [files |-> {}, bytes |-> 0]
           K(n, t) == Keep(tree, excluded, priority, n, t)
           Holds(r) == r = [n \in 0..N |-> IF n = 0 THEN first ELSE K(n, r[n - 1])]
           step == [n \in 1..N |-> [t \in V |-> K(n, t)]]
           T == Taken(tree, excluded, priority)
<1>1. T = CHOOSE r : Holds(r)  BY Zenon DEF Taken, Keep, Considered
<1>0. N \in Nat  BY IndexAssumption
<1>2. \E r : Holds(r)
  <2>1. first \in V  OBVIOUS
  <2>2. step \in [1..N -> [V -> V]]
    <3> SUFFICES ASSUME NEW n \in 1..N, NEW t \in V  PROVE K(n, t) \in V
      OBVIOUS
    <3>1. CASE Considered(tree, excluded, priority, n) /\ Fits(t, tree, Turn(n))
      <4>1. Turn(n) \in C /\ Turn(n) \in Files /\ tree[Turn(n)].state # "absent"
        BY <3>1 DEF Considered, Candidates
      <4>2. tree[Turn(n)].size \in Nat  BY <4>1 DEF Sized, Absent
      <4> QED  BY <3>1, <4>1, <4>2 DEF Keep
    <3>2. CASE ~(Considered(tree, excluded, priority, n) /\ Fits(t, tree, Turn(n)))
      BY <3>2 DEF Keep
    <3> QED  BY <3>1, <3>2
  <2>3. \A n \in 1..N, t \in V : step[n][t] = K(n, t)  OBVIOUS
  <2> HIDE DEF N, V, first, K, step
  <2>4. PICK g \in [0..N -> V] :
          g[0] = first /\ \A n \in 1..N : g[n] = step[n][g[n - 1]]
    <3>1. HasIteration(N, V, first, step)  BY <1>0, <2>1, <2>2, Iteration
    <3> QED  BY <3>1 DEF HasIteration
  <2>5. ASSUME NEW n \in 1..N  PROVE g[n] = K(n, g[n - 1])
    <3>1. g[n - 1] \in V  BY <1>0, <2>4
    <3> QED  BY <2>3, <2>4, <3>1
  <2>6. \A n \in 0..N : g[n] = IF n = 0 THEN first ELSE K(n, g[n - 1])
    BY <1>0, <2>4, <2>5
  <2>7. Holds(g)  BY <2>4, <2>6
  <2> QED  BY <2>7
<1>3. Holds(T)
  <2> HIDE DEF Holds, T
  <2> QED  BY <1>1, <1>2
<1> HIDE DEF first, N, K, T
<1>5. T[0] = first /\ \A n \in 1..N : T[n] = K(n, T[n - 1])
  BY <1>0, <1>3
<1> QED  BY <1>5 DEF first, N, K, T

(* A selected file is one that git lists and nothing excludes.             *)
LEMMA SelectedAreCandidates ==
  ASSUME NEW tree, NEW excluded, NEW priority, Sized(tree)
  PROVE  Selected(tree, excluded, priority) \subseteq Candidates(tree, excluded)
<1> DEFINE N == 2 * Len(Paths)
           T == Taken(tree, excluded, priority)
           C == Candidates(tree, excluded)
           Fails == {n \in 0..N : ~(T[n].files \subseteq C)}
<1>0. N \in Nat  BY IndexAssumption
<1>1. /\ T[0] = [files |-> {}, bytes |-> 0]
      /\ \A n \in 1..N : T[n] = Keep(tree, excluded, priority, n, T[n - 1])
  BY TakenSteps
<1> HIDE DEF T, C, N
<1>2. Fails = {}
  <2> SUFFICES ASSUME Fails # {}  PROVE FALSE
    OBVIOUS
  <2>1. PICK m \in Fails : \A n \in Fails : m <= n
    <3>1. Fails \in SUBSET Nat  BY <1>0
    <3> HIDE DEF Fails
    <3> QED  BY <3>1, LeastNumber
  <2>2. m \in 1..N  BY <1>0, <1>1, <2>1
  <2>3. T[m - 1].files \subseteq C  BY <1>0, <2>1, <2>2
  <2>4. T[m] = Keep(tree, excluded, priority, m, T[m - 1])  BY <1>1, <2>2
  <2>5. T[m].files \subseteq T[m - 1].files \cup C
    BY <2>4 DEF Keep, Considered, C
  <2> QED  BY <2>1, <2>3, <2>5
<1> QED  BY <1>0, <1>2 DEF Selected, T, N, C

-----------------------------------------------------------------------------
(* The two indexes are those of the pair, once they are built.             *)
IndexInv ==
  /\ repo \in Repositories
  /\ index \in [Rev -> {NoIndex} \cup {IndexOf(repo, v) : v \in Rev}]
  /\ phase \notin {"base", "index_error"} => base = IndexOf(repo, "BASE")
  /\ phase \notin {"base", "head", "index_error"} => head = IndexOf(repo, "HEAD")

(* Why a shared interface may be claimed: it changed, is relevant to the   *)
(* change or calls, as far as names tell, a symbol that is new on HEAD.    *)
Eligible(f) ==
  /\ PresentOnBoth(base, head, f)
  /\ \/ ImplementationChanged(base, head, f)
     \/ f \in RelevanceIdentities(base, head)
     \/ \E g \in Files : NewOnHead(base, head, g) /\ f \in CallersOf(g)

ContextInv ==
  /\ context \in [shared: SUBSET Files, newHead: SUBSET Files, complete: BOOLEAN]
  /\ phase \in {"base", "head"} => context.shared = {}
  /\ \A f \in context.shared : Eligible(f)

ClaimInv ==
  /\ discovered \subseteq Files /\ claim \in Files \cup {None}
  /\ phase = "selected" => claim \in Files /\ Eligible(claim)

(* What is left of the budgets at each point of the loop.  The final turn  *)
(* is the only one that may find them spent.                               *)
TurnInv ==
  /\ phase \in {"base", "head", "plan", "model", "tools", "final"} \cup Ended
  /\ turn \in 1..MaxTurns /\ turns \in 0..(MaxTurns + 1) /\ asked \in 0..CallsPerTurn
  /\ accepted \in [Tools -> 0..PerTool] /\ refused \in Nat
  /\ phase \in {"base", "head", "plan"} => turns = 0 /\ turn = 1 /\ Recorded = 0
  /\ phase = "model" => turns = turn - 1 /\ ~Exhausted
  /\ phase \in {"tools", "final"} => turns <= turn
  /\ phase = "tools" => turns = turn
  /\ Recorded + (IF phase = "tools" THEN asked ELSE 0) <= MaxTotal + CallsPerTurn - 1
  /\ Accepted <= MaxTotal
  /\ phase \in WithTranscript => Recorded <= TranscriptLimit
  /\ phase = "transcript_error" => Recorded > MaxTotal

InvestigationInv == IndexInv /\ ContextInv /\ ClaimInv /\ TurnInv

-----------------------------------------------------------------------------
(* What the loop needs of the budgets.                                     *)
LEMMA BudgetsAreNumbers ==
  /\ {MaxShared, MaxNewHead, MaxTraces, MaxCallers, MaxTurns, MaxTotal, PerTool,
      MaxMatches, CallsPerTurn} \subseteq Nat
  /\ MaxTurns >= 1 /\ MaxTotal >= 1 /\ CallsPerTurn >= 1
  /\ TranscriptLimit \in Nat /\ MaxTotal <= TranscriptLimit
BY InvestigationAssumption

(* The calls served so far are a number, and one call adds one.            *)
LEMMA AcceptedIsNumber ==
  ASSUME accepted \in [Tools -> Nat]
  PROVE  Accepted \in Nat
BY DEF Accepted, Tools

(* One more call of one tool is one more call.                             *)
LEMMA AcceptedCountsOne ==
  ASSUME accepted \in [Tools -> Nat], NEW t \in Tools,
         accepted' = [accepted EXCEPT ![t] = @ + 1]
  PROVE  Accepted' = Accepted + 1
BY DEF Accepted, Tools

(* Every action keeps to the budgets.                                      *)
LEMMA TurnKept ==
  ASSUME TurnInv, [Next]_vars
  PROVE  TurnInv'
<1> USE BudgetsAreNumbers
<1>0. accepted \in [Tools -> Nat] /\ Accepted \in Nat /\ Recorded \in Nat
  BY AcceptedIsNumber DEF TurnInv, Recorded
<1>1. CASE /\ UNCHANGED <<turn, turns, asked, accepted, refused>>
           /\ \/ phase \in {"base", "head", "plan"}
                 /\ phase' \in {"head", "plan", "model", "index_error"}
              \/ phase' = phase
  BY <1>0, <1>1 DEF TurnInv, Recorded, Accepted, Exhausted, Ended, WithTranscript
<1>2. CASE Investigate
  <2>1. Recorded' = Recorded /\ Accepted' = Accepted
    BY <1>2 DEF Investigate, Recorded, Accepted
  <2> QED  BY <1>0, <1>2, <2>1 DEF TurnInv, Investigate, Exhausted, Ended, WithTranscript
<1>3. CASE EndTurn
  <2>1. Recorded' = Recorded /\ Accepted' = Accepted
    BY <1>3 DEF EndTurn, Recorded, Accepted
  <2> QED  BY <1>0, <1>3, <2>1 DEF TurnInv, EndTurn, Exhausted, MayContinue, Ended, WithTranscript
<1>4. ASSUME NEW outcome \in WithTranscript \cup {"provider_error"},
             phase \in {"model", "final"},
             (phase' = outcome /\ outcome = "provider_error") \/ phase' = Transcribed(outcome),
             turns' = turns + 1 /\ UNCHANGED <<turn, asked, accepted, refused>>
      PROVE  TurnInv'
  <2>1. Recorded' = Recorded /\ Accepted' = Accepted
    BY <1>4 DEF Recorded, Accepted
  <2>2. /\ phase' \in Ended \ {"index_error"}
        /\ phase' \in WithTranscript => Recorded <= TranscriptLimit
        /\ phase' = "transcript_error" => Recorded > MaxTotal
    BY <1>0, <1>4 DEF Transcribed, WithTranscript, Ended
  <2> QED  BY <1>0, <1>4, <2>1, <2>2 DEF TurnInv, Ended, WithTranscript
<1>5. ASSUME NEW q \in Queries, ToolCall(q)  PROVE TurnInv'
  <2>1. /\ phase = "tools" /\ asked > 0 /\ asked' = asked - 1
        /\ UNCHANGED <<phase, turn, turns>>
    BY <1>5 DEF ToolCall
  <2>2. CASE q.tool \in Tools /\ Serves(q)
    <3>1. /\ accepted' = [accepted EXCEPT ![q.tool] = @ + 1] /\ refused' = refused
          /\ accepted[q.tool] < PerTool /\ Recorded < MaxTotal
      BY <1>0, <1>5, <2>2 DEF ToolCall, Serves, Exhausted
    <3>2. Accepted' = Accepted + 1  BY <1>0, <2>2, <3>1, AcceptedCountsOne
    <3>3. accepted' \in [Tools -> 0..PerTool]  BY <2>2, <3>1 DEF TurnInv
    <3>4. Recorded' = Recorded + 1 /\ Accepted' <= MaxTotal
      BY <1>0, <3>1, <3>2 DEF Recorded, TurnInv
    <3> QED  BY <1>0, <2>1, <3>1, <3>3, <3>4 DEF TurnInv, Ended, WithTranscript
  <2>3. CASE q.tool \in Tools /\ ~Serves(q)
    <3>1. refused' = refused + 1 /\ accepted' = accepted  BY <1>5, <2>3 DEF ToolCall
    <3>2. Recorded' = Recorded + 1 /\ Accepted' = Accepted
      BY <1>0, <3>1 DEF Recorded, Accepted, TurnInv
    <3> QED  BY <1>0, <2>1, <3>1, <3>2 DEF TurnInv, Ended, WithTranscript
  <2>4. CASE q.tool \notin Tools
    <3>1. UNCHANGED <<refused, accepted>>  BY <1>5, <2>4 DEF ToolCall
    <3>2. Recorded' = Recorded /\ Accepted' = Accepted  BY <3>1 DEF Recorded, Accepted
    <3> QED  BY <1>0, <2>1, <3>1, <3>2 DEF TurnInv, Ended, WithTranscript
  <2> QED  BY <2>2, <2>3, <2>4
<1>6. ASSUME NEW f \in Files \cup {None}, Conclude(f)  PROVE TurnInv'
  <2>1. Normalize(f) \in WithTranscript
    BY DEF Normalize, AdmitDiscovered, WithTranscript
  <2> QED  BY <1>4, <1>6, <2>1 DEF Conclude
<1>7. CASE InvalidOutput
  BY <1>4, <1>7 DEF InvalidOutput, WithTranscript
<1>8. CASE ProviderError
  BY <1>4, <1>8 DEF ProviderError
<1> QED
  BY <1>1, <1>2, <1>3, <1>5, <1>6, <1>7, <1>8
     DEF Next, vars, IndexBase, IndexHead, IndexRevision, IndexFails, StartingContext

-----------------------------------------------------------------------------
(* A list that fits its limit is kept whole.                               *)
LEMMA FilesAreFinite == IsFiniteSet(Files)
<1>1. DOMAIN Paths = 1..Len(Paths) /\ Paths \in [1..Len(Paths) -> Files]
  BY IndexAssumption
<1>2. \A f \in Files : \E i \in 1..Len(Paths) : Paths[i] = f
  BY <1>1 DEF Files, Range
<1>3. Paths \in Surjection(1..Len(Paths), Files)  BY <1>1, <1>2 DEF Surjection
<1>4. IsFiniteSet(1..Len(Paths))  BY IndexAssumption, FS_Interval
<1> QED  BY <1>3, <1>4, FS_Surjection

(* Every file has a place in the order of paths.                           *)
LEMMA PathsAreOrdered ==
  \A f \in Files : At[f] \in 1..Len(Paths) /\ Paths[At[f]] = f
<1> SUFFICES ASSUME NEW f \in Files
             PROVE  At[f] \in 1..Len(Paths) /\ Paths[At[f]] = f
  OBVIOUS
<1>1. \E i \in DOMAIN Paths : Paths[i] = f  BY DEF Files, Range
<1>2. DOMAIN Paths = 1..Len(Paths)  BY IndexAssumption
<1> QED  BY <1>1, <1>2 DEF At

(* No file comes before itself.                                            *)
LEMMA ByKeyIsStrict ==
  ASSUME NEW key, NEW f \in Files, key[f] \in Nat
  PROVE  ~ByKey(key, f, f)
BY PathsAreOrdered DEF ByKey, InOrder

(* What an index holds of a revision is in the revision, and an index that *)
(* is not truncated holds every symbol.                                    *)
Faithful(I, tree) ==
  /\ DOMAIN I.body \subseteq I.files /\ I.files \subseteq Files
  /\ \A f \in DOMAIN I.body : tree[f].state = "parsed" /\ I.body[f] = tree[f].body
  /\ \A x \in I.references : \E i \in DOMAIN tree[x.path].refs : x.ref = tree[x.path].refs[i]
  /\ ~I.truncated => {f \in Files : tree[f].state = "parsed"} \subseteq DOMAIN I.body

(* Whatever the budgets cut off, what is left is the revision's.           *)
LEMMA IndexIsFaithful ==
  ASSUME NEW tree, NEW excluded, NEW priority, Sized(tree)
  PROVE  Faithful(BuildIndex(tree, excluded, priority), tree)
<1> DEFINE files == Selected(tree, excluded, priority)
           parsed == {f \in files : tree[f].state = "parsed"}
           references == UNION {{f} \X DOMAIN tree[f].refs : f \in parsed}
           key == [h \in Files |-> IF h \in priority THEN 1 ELSE 2]
           earlier(f, g) == ByKey(key, f, g)
           symbols == Leading(parsed, earlier, MaxSymbols)
           kept == Leading(references,
                           LAMBDA p, q : \/ earlier(p[1], q[1])
                                         \/ p[1] = q[1] /\ p[2] < q[2],
                           MaxReferences)
           I == BuildIndex(tree, excluded, priority)
<1>1. /\ I.files = {f \in files : tree[f].state # "undecodable"}
      /\ I.body = [f \in symbols |-> tree[f].body]
      /\ I.references = {[path |-> p[1], ref |-> tree[p[1]].refs[p[2]]] : p \in kept}
      /\ I.truncated = Partial(tree, parsed, references)
  BY DEF BuildIndex
<1>2. files \subseteq Files /\ \A f \in files : tree[f].state # "absent"
  BY SelectedAreCandidates DEF Candidates
<1>3. symbols \subseteq parsed /\ kept \subseteq references  BY DEF Leading
<1>4. ASSUME ~Partial(tree, parsed, references)
      PROVE  {f \in Files : tree[f].state = "parsed"} \subseteq symbols
  <2>1. {f \in Files : tree[f].state = "parsed"} \subseteq parsed
    <3>1. {f \in Files : tree[f].state # "absent"} = parsed  BY <1>4 DEF Partial
    <3> QED  BY <3>1
  <2>2. /\ IsFiniteSet(parsed) /\ Cardinality(parsed) \in Nat
        /\ Cardinality(parsed) <= MaxSymbols /\ MaxSymbols \in Nat
    <3>1. IsFiniteSet(parsed)  BY <1>2, FilesAreFinite, FS_Subset
    <3>2. Cardinality(parsed) \in Nat  BY <3>1, FS_CardinalityType
    <3>3. MaxSymbols \in Nat  BY IndexAssumption
    <3> QED  BY <1>4, <3>1, <3>2, <3>3 DEF Partial
  <2>3. ASSUME NEW f \in parsed  PROVE f \in symbols
    <3> DEFINE before == {g \in parsed : earlier(g, f)}
    <3>1. f \in Files /\ f \notin before
      BY <1>2, <2>3, ByKeyIsStrict
    <3>2. /\ before \in SUBSET parsed /\ before # parsed
      BY <2>3, <3>1
    <3> HIDE DEF before, parsed
    <3>3. Cardinality(before) \in Nat /\ Cardinality(before) <= Cardinality(parsed)
      BY <2>2, <3>2, FS_Subset, FS_CardinalityType
    <3>4. Cardinality(before) # Cardinality(parsed)
      BY <2>2, <3>2, FS_Subset
    <3>5. Cardinality(before) < MaxSymbols  BY <2>2, <3>3, <3>4
    <3> QED  BY <2>3, <3>5 DEF Leading, before
  <2> QED  BY <2>1, <2>3
<1> HIDE DEF files, symbols, kept, I
<1>5. ASSUME NEW x \in I.references
      PROVE  \E i \in DOMAIN tree[x.path].refs : x.ref = tree[x.path].refs[i]
  <2>1. PICK p \in kept : x = [path |-> p[1], ref |-> tree[p[1]].refs[p[2]]]
    BY <1>1, <1>5
  <2>2. PICK f \in parsed : p \in {f} \X DOMAIN tree[f].refs  BY <1>3, <2>1
  <2> QED  BY <2>1, <2>2
<1>6. /\ DOMAIN I.body = symbols
      /\ \A f \in symbols : tree[f].state = "parsed" /\ I.body[f] = tree[f].body
      /\ symbols \subseteq I.files /\ I.files \subseteq Files
  BY <1>1, <1>2, <1>3
<1> QED  BY <1>1, <1>4, <1>5, <1>6 DEF Faithful, I

(* Before a revision is indexed nothing is known of it.                    *)
LEMMA NoIndexIsFaithful ==
  ASSUME NEW tree
  PROVE  /\ DOMAIN NoIndex.body \subseteq NoIndex.files /\ NoIndex.files \subseteq Files
BY DEF NoIndex

(* The index of either revision is faithful to it.                         *)
LEMMA BuiltIndexes ==
  ASSUME NEW r \in Repositories, NEW v \in Rev
  PROVE  Faithful(IndexOf(r, v), r[v])
<1>1. Sized(r[v])  BY InvestigationAssumption DEF Sized
<1> QED  BY <1>1, IndexIsFaithful DEF IndexOf

-----------------------------------------------------------------------------
(* Every hop of _relevance_identities is a reference that the repository   *)
(* has: a relevant symbol leads to what the pull request touched.          *)
ChainOf(n, c, f) ==
  /\ c \in [0..n -> Files] /\ c[0] = f /\ Touched(c[n])
  /\ \A i \in 0..(n - 1) : (\A v \in Rev : InRevision(v, c[i])) /\ RefersTo(c[i], c[i + 1])

(* A shared symbol that refers to the start of a chain starts a longer     *)
(* one.                                                                    *)
LEMMA ChainExtended ==
  ASSUME NEW n \in Nat, NEW c, NEW f \in Files, NEW g, ChainOf(n, c, g),
         \A v \in Rev : InRevision(v, f), RefersTo(f, g)
  PROVE  \E d : ChainOf(n + 1, d, f)
<1> DEFINE d == [i \in 0..(n + 1) |-> IF i = 0 THEN f ELSE c[i - 1]]
<1>1. d \in [0..(n + 1) -> Files] /\ d[0] = f /\ d[n + 1] = c[n]  BY DEF ChainOf
<1>2. ASSUME NEW i \in 0..n
      PROVE  (\A v \in Rev : InRevision(v, d[i])) /\ RefersTo(d[i], d[i + 1])
  <2>1. CASE i = 0
    <3>1. d[i] = f /\ d[i + 1] = g  BY <2>1 DEF ChainOf
    <3> QED  BY <3>1
  <2>2. CASE i # 0
    <3>1. i - 1 \in 0..(n - 1) /\ d[i] = c[i - 1] /\ d[i + 1] = c[(i - 1) + 1]
      BY <2>2
    <3> QED  BY <3>1 DEF ChainOf
  <2> QED  BY <2>1, <2>2
<1>3. (n + 1) - 1 = n  OBVIOUS
<1> HIDE DEF d
<1>4. Touched(d[n + 1])  BY <1>1 DEF ChainOf
<1>5. ChainOf(n + 1, d, f)  BY <1>1, <1>2, <1>3, <1>4 DEF ChainOf
<1> QED  BY <1>5

(* With complete indexes, what the search reaches in n hops starts a chain *)
(* of at most n references.                                                *)
LEMMA RelevantLeadsToChange ==
  ASSUME Faithful(base, repo["BASE"]), Faithful(head, repo["HEAD"]),
         ~(base.truncated \/ head.truncated),
         NEW f \in RelevanceIdentities(base, head)
  PROVE  LeadsToChange(f)
<1> DEFINE R == Reached(base, head)
           Leads(g, n) == \E m \in 0..n : \E c : ChainOf(m, c, g)
           Fails == {n \in 0..Hops : \E g \in R[n] : ~Leads(g, n)}
<1>0. /\ Hops \in Nat
      /\ R[0] = {g \in Files : NewOnHead(base, head, g) \/ ImplementationChanged(base, head, g)}
      /\ \A n \in 1..Hops : R[n] = Widened(base, head, R[n - 1])
  BY ReachedSteps, IndexAssumption
<1>1. ASSUME NEW g \in R[0]  PROVE Leads(g, 0)
  <2>1. g \in Files /\ (NewOnHead(base, head, g) \/ ImplementationChanged(base, head, g))
    BY <1>0, <1>1
  <2>2. Touched(g)
    BY <2>1 DEF Touched, InRevision, NewOnHead, ImplementationChanged, PresentOnBoth, Defines,
                Faithful
  <2> DEFINE c == [i \in 0..0 |-> g]
  <2>3. c \in [0..0 -> Files] /\ c[0] = g /\ 0..(0 - 1) = {}  BY <2>1
  <2> HIDE DEF c
  <2>4. ChainOf(0, c, g)  BY <2>2, <2>3 DEF ChainOf
  <2> QED  BY <2>4
<1>2. ASSUME NEW n \in 1..Hops, \A h \in R[n - 1] : Leads(h, n - 1), NEW g \in R[n]
      PROVE  Leads(g, n)
  <2>1. CASE g \in R[n - 1]
    BY <1>0, <1>2, <2>1
  <2>2. CASE g \notin R[n - 1]
    <3>1. /\ g \in Files /\ PresentOnBoth(base, head, g)
          /\ Dependencies(head, g) \cap R[n - 1] # {}
      BY <1>0, <1>2, <2>2 DEF Widened
    <3>2. PICK h \in R[n - 1] : h \in Dependencies(head, g)  BY <3>1
    <3>3. RefersTo(g, h)
      BY <3>2 DEF Dependencies, RefersTo, Faithful
    <3>4. \A v \in Rev : InRevision(v, g)
      BY <3>1 DEF PresentOnBoth, Defines, Faithful, InRevision, Rev
    <3>5. PICK m \in 0..(n - 1) : \E c : ChainOf(m, c, h)  BY <1>2
    <3>6. PICK c : ChainOf(m, c, h)  BY <3>5
    <3>7. m \in Nat /\ m + 1 \in 0..n  BY <1>0, <3>5
    <3>8. \E d : ChainOf(m + 1, d, g)  BY <3>1, <3>3, <3>4, <3>6, <3>7, ChainExtended
    <3> QED  BY <3>7, <3>8
  <2> QED  BY <2>1, <2>2
<1> HIDE DEF Leads
<1>3. Fails = {}
  <2> SUFFICES ASSUME Fails # {}  PROVE FALSE
    OBVIOUS
  <2>1. PICK m \in Fails : \A n \in Fails : m <= n
    <3>1. Fails \in SUBSET Nat  BY <1>0
    <3> HIDE DEF Fails
    <3> QED  BY <3>1, LeastNumber
  <2>2. PICK g \in R[m] : ~Leads(g, m)  BY <2>1
  <2>3. m \in 1..Hops  BY <1>0, <1>1, <2>1, <2>2
  <2>4. \A h \in R[m - 1] : Leads(h, m - 1)  BY <1>0, <2>1, <2>3
  <2> QED  BY <1>2, <2>2, <2>3, <2>4
<1>4. Leads(f, Hops)  BY <1>0, <1>3 DEF RelevanceIdentities
<1> QED  BY <1>4 DEF Leads, ChainOf, LeadsToChange

-----------------------------------------------------------------------------
(* What the queries return are symbols of the index they search.           *)
IsIndex(I) == DOMAIN I.body \subseteq I.files /\ I.files \subseteq Files

(* Both indexes list the files of their symbols.                           *)
LEMMA IndexesAreIndexes ==
  ASSUME IndexInv
  PROVE  \A v \in Rev : IsIndex(index[v])
<1>1. \A v \in Rev : IsIndex(IndexOf(repo, v))
  BY BuiltIndexes DEF IndexInv, Faithful, IsIndex
<1>2. IsIndex(NoIndex)  BY NoIndexIsFaithful DEF IsIndex
<1> QED  BY <1>1, <1>2 DEF IndexInv

(* A tool returns symbols only.                                            *)
LEMMA ReturnsFiles ==
  ASSUME NEW I, IsIndex(I), NEW q, NEW n
  PROVE  Returned(I, q, n) \subseteq Files
<1>1. InspectSymbol(I, q.name, q.path, n) \subseteq DOMAIN I.body
  BY DEF InspectSymbol, Leading
<1>2. FindRelatedTests(I, q.name, q.path, n) \subseteq DOMAIN I.body
  BY DEF FindRelatedTests, Leading
<1> QED  BY <1>1, <1>2 DEF Returned, IsIndex

(* A caller that find_callers returns has the name in its source.          *)
LEMMA CallersAreNamed ==
  ASSUME Faithful(head, repo["HEAD"]), NEW g, NEW f \in CallersOf(g)
  PROVE  Names(f, g)
<1> DEFINE calls == {c \in (1..3) \X Files :
                       \E r \in head.references :
                         /\ r.path = c[2] /\ r.ref.name = Name[g]
                         /\ r.ref.call /\ Rank(r.ref.via) = c[1]}
<1>1. f \in {c[2] : c \in calls}  BY DEF CallersOf, FindCallers, Leading
<1>2. PICK r \in head.references : r.path = f /\ r.ref.name = Name[g]  BY <1>1
<1>3. PICK i \in DOMAIN repo["HEAD"][f].refs : r.ref = repo["HEAD"][f].refs[i]
  BY <1>2 DEF Faithful
<1> QED  BY <1>2, <1>3 DEF Names

(* A new investigation satisfies the invariant.                            *)
LEMMA InitHolds == Init => InvestigationInv
<1> SUFFICES ASSUME Init  PROVE InvestigationInv
  OBVIOUS
<1>1. IndexInv  BY DEF Init, IndexInv, base, head
<1>2. ContextInv  BY DEF Init, ContextInv
<1>3. ClaimInv  BY DEF Init, ClaimInv
<1>4. TurnInv
  <2>1. Recorded = 0 /\ Accepted = 0  BY DEF Init, Recorded, Accepted, Tools
  <2> QED  BY <2>1, BudgetsAreNumbers DEF Init, TurnInv, Ended, WithTranscript
<1> QED  BY <1>1, <1>2, <1>3, <1>4 DEF InvestigationInv

(* Every action keeps the indexes or builds the next one.                  *)
LEMMA IndexKept ==
  ASSUME IndexInv, TurnInv, [Next]_vars
  PROVE  IndexInv'
<1>1. CASE IndexBase
  <2>1. /\ phase = "base" /\ phase' = "head" /\ repo' = repo
        /\ index' = [index EXCEPT !["BASE"] = IndexOf(repo, "BASE")]
    BY <1>1 DEF IndexBase, IndexRevision
  <2> QED  BY <2>1 DEF IndexInv, Rev, base, head
<1>2. CASE IndexHead
  <2>1. /\ phase = "head" /\ phase' = "plan" /\ repo' = repo
        /\ index' = [index EXCEPT !["HEAD"] = IndexOf(repo, "HEAD")]
    BY <1>2 DEF IndexHead, IndexRevision
  <2> QED  BY <2>1 DEF IndexInv, Rev, base, head
<1>3. CASE /\ UNCHANGED <<repo, index>>
           /\ \/ phase' = "index_error"
              \/ phase \notin {"base", "head", "index_error"}
              \/ phase' = phase
  BY <1>3 DEF IndexInv, base, head
<1>4. ASSUME NEW q \in Queries, ToolCall(q)  PROVE IndexInv'
  BY <1>3, <1>4 DEF ToolCall
<1>5. ASSUME NEW f \in Files \cup {None}, Conclude(f)  PROVE IndexInv'
  BY <1>3, <1>5 DEF Conclude
<1> QED
  BY <1>1, <1>2, <1>3, <1>4, <1>5
     DEF Next, vars, IndexFails, StartingContext, Investigate, EndTurn,
         InvalidOutput, ProviderError

(* Nothing that Eligible reads changes once the indexes are built.         *)
LEMMA EligibleKept ==
  ASSUME UNCHANGED <<repo, index>>
  PROVE  \A f : Eligible(f)' <=> Eligible(f)
BY DEF Eligible, base, head, CallersOf

(* The starting context holds only what may be claimed, and stays.         *)
LEMMA ContextKept ==
  ASSUME IndexInv, ContextInv, [Next]_vars
  PROVE  ContextInv'
<1>1. CASE IndexBase \/ IndexHead
  BY <1>1 DEF IndexBase, IndexHead, IndexRevision, ContextInv
<1>2. CASE StartingContext
  <2> DEFINE seen == Observables(base, head)
             before(f, g) == Dealt(Groups(base, head), f, g)
             newHead == Leading({f \in seen : NewOnHead(base, head, f)}, before, MaxNewHead)
             tracing == Leading(newHead, before, MaxTraces)
             reaching == UNION {CallersOf(f) : f \in tracing}
             shared == {f \in seen : PresentOnBoth(base, head, f)}
  <2>1. /\ context' = [shared |-> RankShared(shared, reaching), newHead |-> newHead,
                       complete |-> Complete]
        /\ UNCHANGED <<repo, index>> /\ phase' = "model"
    BY <1>2 DEF StartingContext
  <2>2. seen \subseteq Files
    BY DEF Observables, Leading, Groups, Range
  <2>3. newHead \subseteq Files /\ \A f \in newHead : NewOnHead(base, head, f)
    BY <2>2 DEF Leading
  <2>4. tracing \subseteq newHead  BY DEF Leading
  <2>5. Complete \in BOOLEAN  BY DEF Complete
  <2>6. ASSUME NEW f \in RankShared(shared, reaching)  PROVE f \in Files /\ Eligible(f)
    <3>1. /\ f \in shared
          /\ \/ ImplementationChanged(base, head, f)
             \/ f \in RelevanceIdentities(base, head)
             \/ f \in reaching
      BY <2>6 DEF RankShared, Leading
    <3>2. f \in Files /\ PresentOnBoth(base, head, f)  BY <2>2, <3>1
    <3>3. ASSUME f \in reaching
          PROVE  \E g \in Files : NewOnHead(base, head, g) /\ f \in CallersOf(g)
      <4>1. PICK g \in tracing : f \in CallersOf(g)  BY <3>3
      <4> QED  BY <2>3, <2>4, <4>1
    <3> QED  BY <3>1, <3>2, <3>3 DEF Eligible
  <2> HIDE DEF newHead, shared, reaching
  <2>7. \A f \in context'.shared : f \in Files /\ Eligible(f)'
    BY <2>1, <2>6, EligibleKept
  <2> QED  BY <2>1, <2>3, <2>5, <2>7 DEF ContextInv
<1>3. CASE UNCHANGED <<repo, index, context>> /\ phase' \notin {"base", "head"}
  BY <1>3, EligibleKept DEF ContextInv
<1>4. CASE UNCHANGED <<repo, index, context, phase>>
  BY <1>4, EligibleKept DEF ContextInv
<1>5. ASSUME NEW q \in Queries, ToolCall(q)  PROVE ContextInv'
  BY <1>4, <1>5 DEF ToolCall
<1>6. ASSUME NEW f \in Files \cup {None}, Conclude(f)  PROVE ContextInv'
  <2>1. phase' \notin {"base", "head"}
    BY <1>6 DEF Conclude, Transcribed, Normalize, AdmitDiscovered
  <2> QED  BY <1>3, <1>6, <2>1 DEF Conclude
<1> QED
  BY <1>1, <1>2, <1>3, <1>4, <1>5, <1>6
     DEF Next, vars, IndexFails, Investigate, EndTurn, InvalidOutput, ProviderError,
         Transcribed

(* Only what may be claimed is selected.                                   *)
LEMMA ClaimKept ==
  ASSUME IndexInv, ContextInv, ClaimInv, [Next]_vars
  PROVE  ClaimInv'
<1>1. CASE IndexBase \/ IndexHead
  BY <1>1 DEF IndexBase, IndexHead, IndexRevision, ClaimInv
<1>2. CASE UNCHANGED <<discovered, claim>> /\ phase' # "selected"
  BY <1>2 DEF ClaimInv
<1>3. CASE UNCHANGED vars
  BY <1>3, EligibleKept DEF ClaimInv, vars
<1>4. ASSUME NEW q \in Queries, ToolCall(q)  PROVE ClaimInv'
  <2>1. /\ phase = "tools" /\ phase' = "tools" /\ claim' = claim
        /\ discovered' = discovered \/
           (q.rev \in Rev /\ discovered' = discovered \cup Returned(index[q.rev], q, MaxMatches))
    BY <1>4 DEF ToolCall, Serves
  <2>2. discovered' \subseteq Files
    BY <2>1, IndexesAreIndexes, ReturnsFiles DEF ClaimInv
  <2> QED  BY <2>1, <2>2 DEF ClaimInv
<1>5. ASSUME NEW f \in Files \cup {None}, Conclude(f)  PROVE ClaimInv'
  <2>1. /\ claim' = f /\ phase' \in {Normalize(f), "transcript_error"}
        /\ UNCHANGED <<repo, index, discovered>>
    BY <1>5 DEF Conclude, Transcribed
  <2>2. ASSUME Normalize(f) = "selected"  PROVE f \in Files /\ Eligible(f)
    <3>1. f # None  BY <2>2 DEF Normalize
    <3>2. CASE f \in context.shared  BY <3>2 DEF ContextInv
    <3>3. CASE f \notin context.shared
      <4>1. /\ PresentOnBoth(base, head, f)
            /\ ImplementationChanged(base, head, f) \/ f \in RelevanceIdentities(base, head)
        BY <2>2, <3>1, <3>3 DEF Normalize, AdmitDiscovered
      <4> QED  BY <3>1, <4>1 DEF Eligible
    <3> QED  BY <3>1, <3>2, <3>3 DEF ContextInv
  <2> QED  BY <2>1, <2>2, EligibleKept DEF ClaimInv
<1> QED
  BY <1>1, <1>2, <1>3, <1>4, <1>5
     DEF Next, IndexFails, StartingContext, Investigate, EndTurn, InvalidOutput, ProviderError,
         Transcribed

(* InvestigationInv holds of every investigation.                          *)
THEOREM InvestigationInvariant == Spec => []InvestigationInv
<1>1. InvestigationInv /\ [Next]_vars => InvestigationInv'
  BY IndexKept, ContextKept, ClaimKept, TurnKept DEF InvestigationInv
<1> QED  BY <1>1, InitHolds, PTL DEF Spec

(* Every variable of an investigation keeps its type.                      *)
THEOREM InvestigationTypeCorrect == Spec => []InvestigationTypeOK
<1>1. InvestigationInv => InvestigationTypeOK
  <2> SUFFICES ASSUME InvestigationInv  PROVE InvestigationTypeOK
    OBVIOUS
  <2>1. \A v \in Rev : DOMAIN index[v].body \subseteq index[v].files
    BY IndexesAreIndexes DEF InvestigationInv, IsIndex
  <2>2. context.shared \cup context.newHead \cup discovered \subseteq Files
    BY DEF InvestigationInv, ContextInv, ClaimInv
  <2>3. refused \in 0..(MaxTotal + CallsPerTurn - 1)
    <3>1. accepted \in [Tools -> Nat]  BY BudgetsAreNumbers DEF InvestigationInv, TurnInv
    <3>2. Accepted \in Nat  BY <3>1, AcceptedIsNumber
    <3> QED
      BY <3>2, BudgetsAreNumbers DEF InvestigationInv, TurnInv, Recorded
  <2>4. context.complete \in BOOLEAN /\ repo \in Repositories /\ claim \in Files \cup {None}
    BY DEF InvestigationInv, ContextInv, ClaimInv, IndexInv
  <2>5. /\ phase \in {"base", "head", "plan", "model", "tools", "final"} \cup Ended
        /\ turn \in 1..MaxTurns /\ turns \in 0..(MaxTurns + 1)
        /\ asked \in 0..CallsPerTurn /\ accepted \in [Tools -> Nat]
    BY BudgetsAreNumbers DEF InvestigationInv, TurnInv
  <2> QED  BY <2>1, <2>2, <2>3, <2>4, <2>5 DEF InvestigationTypeOK
<1> QED  BY <1>1, InvestigationInvariant, PTL

(* The budgets of the investigation hold, checked as they are only between *)
(* calls and between turns (InvestigationToolbox), with one turn more than *)
(* max_turns; a transcript is refused only after a decision has asked for  *)
(* more calls than were left.                                              *)
THEOREM InvestigationIsBounded == Spec => []BudgetsHold
<1>1. InvestigationInv => BudgetsHold
  <2> SUFFICES ASSUME InvestigationInv  PROVE BudgetsHold
    OBVIOUS
  <2>1. accepted \in [Tools -> Nat]  BY BudgetsAreNumbers DEF InvestigationInv, TurnInv
  <2>2. Accepted \in Nat  BY <2>1, AcceptedIsNumber
  <2>3. Recorded <= MaxTotal + CallsPerTurn - 1
    BY <2>2, BudgetsAreNumbers DEF InvestigationInv, TurnInv, Recorded
  <2>4. turns <= MaxTurns + 1 /\ \A t \in Tools : accepted[t] <= PerTool
    BY BudgetsAreNumbers DEF InvestigationInv, TurnInv
  <2> QED
    BY <2>3, <2>4 DEF InvestigationInv, TurnInv, BudgetsHold
<1> QED  BY <1>1, InvestigationInvariant, PTL

(* The interface of a selected claim is in both revisions, and when both   *)
(* indexes are complete its relation to the change is one the repository   *)
(* has: what the planner and _admit_discovered conclude is true of it.     *)
THEOREM ClaimsAreGrounded == Spec => []ClaimIsGrounded
<1>1. InvestigationInv => ClaimIsGrounded
  <2> SUFFICES ASSUME InvestigationInv, phase = "selected"  PROVE ClaimIsGrounded
    BY DEF ClaimIsGrounded
  <2>1. claim \in Files /\ Eligible(claim)  BY DEF InvestigationInv, ClaimInv
  <2>2. Faithful(base, repo["BASE"]) /\ Faithful(head, repo["HEAD"])
    BY BuiltIndexes DEF InvestigationInv, IndexInv, Rev
  <2>3. \A v \in Rev : InRevision(v, claim)
    BY <2>1, <2>2 DEF Eligible, PresentOnBoth, Defines, Faithful, InRevision, Rev
  <2>4. ASSUME ~(base.truncated \/ head.truncated)
        PROVE  \/ LeadsToChange(claim)
               \/ \E g \in Files : Touched(g) /\ ~InRevision("BASE", g) /\ Names(claim, g)
    <3>1. CASE claim \in RelevanceIdentities(base, head)
      BY <2>2, <2>4, <3>1, RelevantLeadsToChange
    <3>2. CASE ImplementationChanged(base, head, claim)
      <4>1. Touched(claim)
        BY <2>2, <3>2 DEF ImplementationChanged, PresentOnBoth, Defines, Faithful, Touched,
                          InRevision
      <4> DEFINE c == [i \in 0..0 |-> claim]
      <4>2. /\ c \in [0..0 -> Files] /\ c[0] = claim /\ 0..(0 - 1) = {}
            /\ 0 \in 0..Hops
        BY <2>1, IndexAssumption
      <4> HIDE DEF c
      <4> QED  BY <4>1, <4>2 DEF LeadsToChange
    <3>3. ASSUME NEW g \in Files, NewOnHead(base, head, g), claim \in CallersOf(g)
          PROVE  Touched(g) /\ ~InRevision("BASE", g) /\ Names(claim, g)
      <4>1. InRevision("HEAD", g) /\ ~InRevision("BASE", g)
        BY <2>2, <2>4, <3>3 DEF NewOnHead, Defines, Faithful, InRevision
      <4> QED  BY <2>2, <3>3, <4>1, CallersAreNamed DEF Touched
    <3> QED  BY <2>1, <3>1, <3>2, <3>3 DEF Eligible
  <2> QED  BY <2>3, <2>4 DEF ClaimIsGrounded
<1> QED  BY <1>1, InvestigationInvariant, PTL

-----------------------------------------------------------------------------
(* The groups of changes are disjoint, and dealing them in rounds is an    *)
(* order on all of them.                                                   *)
LEMMA GroupsAreDisjoint ==
  ASSUME NEW b, NEW h
  PROVE  /\ DOMAIN Groups(b, h) = 1..5
         /\ \A i \in 1..5 : Groups(b, h)[i] \subseteq Files
         /\ \A i, j \in 1..5 : i # j => Groups(b, h)[i] \cap Groups(b, h)[j] = {}
BY DEF Groups, NewOnHead, RemovedFromHead, ImplementationChanged, PresentOnBoth

(* Priority, then path, orders all symbols.                                *)
LEMMA ByPriorityIsOrder ==
  /\ \A f, g \in Files : f = g \/ ByKey(PriorityKey, f, g) \/ ByKey(PriorityKey, g, f)
  /\ \A f \in Files : ~ByKey(PriorityKey, f, f)
  /\ \A f, g, k \in Files : ByKey(PriorityKey, f, g) /\ ByKey(PriorityKey, g, k)
                              => ByKey(PriorityKey, f, k)
<1>1. \A f \in Files : PriorityKey[f] \in Nat
  BY DEF PriorityKey
<1>2. \A f \in Files : At[f] \in Nat /\ Paths[At[f]] = f
  BY PathsAreOrdered, IndexAssumption
<1> QED  BY <1>1, <1>2 DEF ByKey, InOrder

(* How many stand before a symbol is a number.                             *)
LEMMA StandingIsNumber ==
  ASSUME NEW G \in SUBSET Files, NEW f
  PROVE  Standing(G, f) \in Nat
<1>1. IsFiniteSet({g \in G : ByKey(PriorityKey, g, f)})
  BY FilesAreFinite, FS_Subset
<1> QED  BY <1>1, FS_CardinalityType DEF Standing

(* Who stands before another of the same group has fewer before it.        *)
LEMMA StandingGrows ==
  ASSUME NEW G \in SUBSET Files, NEW f \in G, NEW g \in G, ByKey(PriorityKey, f, g)
  PROVE  Standing(G, f) < Standing(G, g)
<1> DEFINE Before(k) == {x \in G : ByKey(PriorityKey, x, k)}
<1>1. /\ Before(f) \subseteq Before(g) /\ f \in Before(g) /\ f \notin Before(f)
  BY ByPriorityIsOrder
<1>2. IsFiniteSet(Before(g))  BY FilesAreFinite, FS_Subset
<1> HIDE DEF Before
<1>3. /\ Cardinality(Before(f)) <= Cardinality(Before(g))
      /\ Cardinality(Before(f)) # Cardinality(Before(g))
  BY <1>1, <1>2, FS_Subset
<1>4. Cardinality(Before(f)) \in Nat /\ Cardinality(Before(g)) \in Nat
  BY <1>1, <1>2, FS_Subset, FS_CardinalityType
<1>5. Cardinality(Before(f)) < Cardinality(Before(g))  BY <1>3, <1>4
<1> QED  BY <1>5 DEF Standing, Before

(* The dealing order is transitive across the groups.                      *)
LEMMA DealtIsTransitive ==
  ASSUME NEW b, NEW h, NEW f, NEW g, NEW k,
         Dealt(Groups(b, h), f, g), Dealt(Groups(b, h), g, k)
  PROVE  Dealt(Groups(b, h), f, k)
<1> DEFINE G == Groups(b, h)
<1>1. PICK i \in 1..5, j \in 1..5 :
        /\ f \in G[i] /\ g \in G[j]
        /\ \/ Round(G, i, f) < Round(G, j, g)
           \/ Round(G, i, f) = Round(G, j, g) /\ i < j
  BY DEF Dealt
<1>2. PICK m \in 1..5, n \in 1..5 :
        /\ g \in G[m] /\ k \in G[n]
        /\ \/ Round(G, m, g) < Round(G, n, k)
           \/ Round(G, m, g) = Round(G, n, k) /\ m < n
  BY DEF Dealt
<1>3. j = m  BY <1>1, <1>2, GroupsAreDisjoint
<1>4. \A p \in 1..5 : Round(G, p, f) \in Nat /\ Round(G, p, g) \in Nat /\ Round(G, p, k) \in Nat
  <2>1. Len(Paths) \in Nat  BY IndexAssumption
  <2>2. \A p \in 1..5 : G[p] \in SUBSET Files  BY GroupsAreDisjoint
  <2> HIDE DEF G
  <2>3. \A p \in 1..5 : \A x : Standing(G[p], x) \in Nat  BY <2>2, StandingIsNumber
  <2>4. ASSUME NEW p \in 1..5, NEW x  PROVE Round(G, p, x) \in Nat
    <3>1. Standing(G[p], x) \in Nat  BY <2>3
    <3> QED  BY <2>1, <3>1 DEF Round
  <2> QED  BY <2>4
<1> HIDE DEF G
<1>5. \/ Round(G, i, f) < Round(G, n, k)
      \/ Round(G, i, f) = Round(G, n, k) /\ i < n
  BY <1>1, <1>2, <1>3, <1>4
<1> QED  BY <1>1, <1>2, <1>5 DEF Dealt, G

(* What is dealt before a symbol that is kept is kept.                     *)
LEMMA KeptDownward ==
  ASSUME NEW b, NEW h, NEW g \in Observables(b, h),
         NEW f, Dealt(Groups(b, h), f, g)
  PROVE  f \in Observables(b, h)
<1> DEFINE G == Groups(b, h)
           All == UNION Range(G)
           Before(x) == {y \in All : Dealt(G, y, x)}
<1>1. Observables(b, h) = {x \in All : Cardinality(Before(x)) < MaxResults}
  BY DEF Observables, Leading
<1>2. All \subseteq Files /\ \A i \in 1..5 : G[i] \subseteq All
  BY GroupsAreDisjoint DEF Range
<1>3. f \in All  BY <1>2 DEF Dealt
<1>4. Before(f) \subseteq Before(g)  BY DealtIsTransitive
<1>5. IsFiniteSet(Before(g))  BY <1>2, FilesAreFinite, FS_Subset
<1>6. MaxResults \in Nat  BY IndexAssumption
<1> HIDE DEF Before, All, G
<1>7. /\ Cardinality(Before(f)) <= Cardinality(Before(g))
      /\ Cardinality(Before(f)) \in Nat /\ Cardinality(Before(g)) \in Nat
  BY <1>4, <1>5, FS_Subset, FS_CardinalityType
<1> QED  BY <1>1, <1>3, <1>6, <1>7

(* Let f be the first symbol of group i that is left out, r its standing.  *)
(* The r before it are kept, and no other group keeps one beyond r.        *)
LEMMA KindsShareResults ==
  ASSUME NEW b, NEW h, NEW i \in 1..4, NEW j \in 1..4,
         LET kept(k) == Cardinality(Groups(b, h)[k] \cap Observables(b, h))
         IN  kept(i) < Cardinality(Groups(b, h)[i])
  PROVE  LET kept(k) == Cardinality(Groups(b, h)[k] \cap Observables(b, h))
         IN  kept(j) <= kept(i) + 1
<1> DEFINE G == Groups(b, h)
           O == Observables(b, h)
           Kept(k) == G[k] \cap O
           Left == {Standing(G[i], x) : x \in G[i] \ O}
<1>0. /\ G[i] \in SUBSET Files /\ G[j] \in SUBSET Files
      /\ IsFiniteSet(G[i]) /\ IsFiniteSet(G[j])
      /\ IsFiniteSet(Kept(i)) /\ IsFiniteSet(Kept(j))
  <2>1. G[i] \in SUBSET Files /\ G[j] \in SUBSET Files  BY GroupsAreDisjoint
  <2> QED  BY <2>1, FilesAreFinite, FS_Subset
<1>1. \E x \in G[i] : x \notin O
  <2>1. SUFFICES ASSUME G[i] \subseteq O  PROVE FALSE
    OBVIOUS
  <2>2. Kept(i) = G[i]  BY <2>1
  <2>3. Cardinality(G[i]) \in Nat  BY <1>0, FS_CardinalityType
  <2> QED  BY <2>2, <2>3
<1>2. PICK f \in G[i] : /\ f \notin O
                        /\ \A x \in G[i] : x \notin O => Standing(G[i], f) <= Standing(G[i], x)
  <2>1. Left \in SUBSET Nat /\ Left # {}  BY <1>0, <1>1, StandingIsNumber
  <2>2. PICK m \in Left : \A n \in Left : m <= n
    <3> HIDE DEF Left
    <3> QED  BY <2>1, LeastNumber
  <2> QED  BY <2>2
<1> DEFINE r == Standing(G[i], f)
<1>3. r \in Nat  BY <1>0, StandingIsNumber
<1>4. r <= Cardinality(Kept(i)) /\ Cardinality(Kept(i)) \in Nat
  <2> DEFINE before == {x \in G[i] : ByKey(PriorityKey, x, f)}
  <2>1. before \subseteq Kept(i)
    <3> SUFFICES ASSUME NEW x \in before, x \notin O  PROVE FALSE
      OBVIOUS
    <3>1. r <= Standing(G[i], x)  BY <1>2
    <3>2. Standing(G[i], x) < r  BY <1>0, StandingGrows
    <3>3. Standing(G[i], x) \in Nat  BY <1>0, StandingIsNumber
    <3> QED  BY <1>3, <3>1, <3>2, <3>3
  <2>2. Cardinality(before) = r  BY DEF Standing
  <2> HIDE DEF before, r
  <2> QED  BY <1>0, <2>1, <2>2, FS_Subset, FS_CardinalityType
<1>5. ASSUME NEW g \in Kept(j)  PROVE Standing(G[j], g) \in 0..r
  <2>1. Standing(G[j], g) \in Nat  BY <1>0, StandingIsNumber
  <2>2. SUFFICES ASSUME r < Standing(G[j], g)  PROVE FALSE
    BY <1>3, <2>1
  <2>3. Round(G, i, f) = r /\ Round(G, j, g) = Standing(G[j], g)
    BY <1>3, <2>1 DEF Round
  <2>4. Dealt(G, f, g)  BY <2>2, <2>3 DEF Dealt
  <2>5. f \in O  BY <2>4, KeptDownward
  <2> QED  BY <1>2, <2>5
<1>6. Cardinality(Kept(j)) <= r + 1
  <2> DEFINE stand == [g \in Kept(j) |-> Standing(G[j], g)]
  <2>1. \A g, k \in Kept(j) : stand[g] = stand[k] => g = k
    <3> SUFFICES ASSUME NEW g \in Kept(j), NEW k \in Kept(j), g # k
                 PROVE  Standing(G[j], g) # Standing(G[j], k)
      OBVIOUS
    <3>1. g \in G[j] /\ k \in G[j] /\ g \in Files /\ k \in Files  BY <1>0
    <3>2. Standing(G[j], g) \in Nat /\ Standing(G[j], k) \in Nat  BY <1>0, StandingIsNumber
    <3>3. CASE ByKey(PriorityKey, g, k)
      <4>1. Standing(G[j], g) < Standing(G[j], k)  BY <1>0, <3>1, <3>3, StandingGrows
      <4> QED  BY <3>2, <4>1
    <3>4. CASE ByKey(PriorityKey, k, g)
      <4>1. Standing(G[j], k) < Standing(G[j], g)  BY <1>0, <3>1, <3>4, StandingGrows
      <4> QED  BY <3>2, <4>1
    <3> QED  BY <3>1, <3>3, <3>4, ByPriorityIsOrder
  <2>2. stand \in [Kept(j) -> 0..r]  BY <1>5
  <2> HIDE DEF stand, Kept, r
  <2>3. stand \in Injection(Kept(j), 0..r)  BY <2>1, <2>2 DEF Injection, IsInjective
  <2>4. IsFiniteSet(0..r) /\ Cardinality(0..r) = r + 1  BY <1>3, FS_Interval
  <2> QED  BY <2>3, <2>4, FS_Injection
<1>7. Cardinality(Kept(j)) \in Nat  BY <1>0, FS_CardinalityType
<1> HIDE DEF r
<1>8. Cardinality(Kept(j)) <= Cardinality(Kept(i)) + 1
  BY <1>3, <1>4, <1>6, <1>7
<1> QED  BY <1>8

(* One large kind of change never crowds another out of the observables    *)
(* that compare_observables returns, however many there are of each.       *)
THEOREM KindsAreBalanced == Spec => []NoKindCrowdedOut
<1>1. NoKindCrowdedOut  BY KindsShareResults DEF NoKindCrowdedOut
<1> QED  BY <1>1, PTL

=============================================================================
