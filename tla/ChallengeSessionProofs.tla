----------------------- MODULE ChallengeSessionProofs -----------------------
(***************************************************************************)
(* Theorems about ChallengeSession, for every pull request, every set of   *)
(* candidates and reports, and every number of candidates.                 *)
(*                                                                         *)
(* SessionInv says, for each point of a session, what the runner remembers *)
(* of its two worktrees, what is on disk in them and what is known of the  *)
(* result in hand.                                                         *)
(***************************************************************************)
EXTENDS ChallengeSession, TLAPS

(* The points at which an operation runs its artifact, those of them at    *)
(* which the artifact is injected, and those at which a process may have   *)
(* read it.                                                                *)
Active   == {"start", "hash", "launch", "running", "finish", "callback"}
Injected == {"hash", "launch", "running", "finish"}
Observed == {"launch", "running", "finish"}

(* The contract is the one of the pair, and so is an error of planning. *)
PlanInv ==
  /\ contract \in {NoContract, ResolvePlan(committed.base, committed.head)}
  /\ error = "planning" => PlanRaises(committed.base, committed.head)

(* Outside of a pair there is nothing on disk, unless an error says so. *)
Gone == ~root /\ \A r \in Rev : tree[r] = "absent"
PairInv ==
  /\ pc \in {"plan", "open"} => Gone
  /\ pc = "choose" /\ mode = "remote" => Gone
  /\ pc \in {"closed", "done"} /\ error = "none" => Gone

(* A local session has one pair; readiness comes first and uses the probe. *)
OrderInv ==
  /\ pc \in {"plan", "install"} => op = 0
  /\ mode = "local" /\ pc \in {"open", "add"} => op = 0
  /\ op = 0 => artifact = Probes
  /\ mode = "local" => artifact.parses
  /\ pc \in Observed => artifact.parses
  /\ pc = "callback" => rev = "HEAD" /\ mode = "local"

(* Where commands may still be run, they were not run before. *)
InstallInv ==
  /\ \A r \in Rev : installs[r] <= 1
  /\ pc = "add" => \A r \in Rev : installs[r] = 0
  /\ pc = "install" => installs[rev] = 0 /\ (rev = "BASE" => installs["HEAD"] = 0)
  /\ pc = "install" /\ rev = "HEAD" => "BASE" \in installed
  /\ pc = "start" => installs[rev] = 0 \/ rev \in installed
  /\ pc \in Active /\ rev = "BASE" => installs["HEAD"] = 0 \/ "HEAD" \in installed
  /\ pc \in Active /\ (op = 0 \/ mode = "local") => installed = Rev
  /\ pc = "choose" /\ mode = "local" => installed = Rev

(* The result s of a revision: an ordinary status with the artifact's      *)
(* bytes before and after is one of a process that read them.              *)
Comparable(s) ==
  /\ s \in Result
  /\ s.status \in OrdinaryStatus /\ s.after = artifact.bytes =>
       s.ran = artifact.bytes /\ s.cases = 1
  /\ mode = "local" => s.status # "ENVIRONMENT_SETUP_FAILED"

SideInv ==
  /\ pc \in Active /\ rev = "HEAD" => Comparable(side["BASE"])
  /\ pc \in Observed =>
       /\ side[rev] \in Result /\ side[rev].status # "ENVIRONMENT_SETUP_FAILED"
       /\ side[rev].status \in OrdinaryStatus => pc = "finish" /\ side[rev].cases = 1
       /\ pc = "running" \/ side[rev].status \in OrdinaryStatus =>
            (files[rev][artifact.path] = artifact.bytes => side[rev].ran = artifact.bytes)

(* The files of a pair. *)
InPair == pc \in Active \cup {"add", "install"} \/ (pc = "choose" /\ mode = "local")
FilesInv ==
  /\ InPair /\ artifact.parses =>
       \A r \in Rev : \A p \in Path \ Existing[r] :
         \/ files[r][p] = None \/ <<r, p>> \in strays
         \/ pc \in Injected /\ r = rev /\ p = artifact.path
  /\ pc \in Injected => files[rev][artifact.path] \in {artifact.bytes, "changed", None}

ChallengeInv ==
  /\ DiscriminatingIsComparable
  /\ mode = "local" /\ challenge # None => ~SetupFailed(challenge.observed)

SessionInv == SessionTypeOK /\ PlanInv /\ PairInv /\ OrderInv /\ InstallInv /\ SideInv
                /\ FilesInv /\ ChallengeInv
-----------------------------------------------------------------------------
(* A set of positions in a list of at most six names has a first.          *)
LEMMA FirstPosition ==
  ASSUME NEW S \in SUBSET (1 .. 6), S # {}
  PROVE  \E i \in S : \A j \in S : i <= j
<1>0. S \subseteq {1, 2, 3, 4, 5, 6}  OBVIOUS
<1>1. CASE 1 \in S  BY <1>0, <1>1
<1>2. CASE 1 \notin S /\ 2 \in S  BY <1>0, <1>2
<1>3. CASE S \cap {1, 2} = {} /\ 3 \in S  BY <1>0, <1>3
<1>4. CASE S \cap {1, 2, 3} = {} /\ 4 \in S  BY <1>0, <1>4
<1>5. CASE S \cap {1, 2, 3, 4} = {} /\ 5 \in S  BY <1>0, <1>5
<1>6. CASE S \cap {1, 2, 3, 4, 5} = {}
  <2>1. S = {6}  BY <1>0, <1>6
  <2> QED  BY <2>1
<1> QED  BY <1>1, <1>2, <1>3, <1>4, <1>5, <1>6

(* The first match is one of the names preferred, and declared, or none.   *)
LEMMA FirstMatchIsPreferred ==
  ASSUME NEW preference, DOMAIN preference \subseteq 1 .. 6, NEW declared,
         FirstMatch(preference, declared) # NoName
  PROVE  FirstMatch(preference, declared) \in Range(preference) \cap declared
<1> DEFINE hits == {i \in DOMAIN preference : preference[i] \in declared}
<1>1. hits # {} /\ hits \in SUBSET (1 .. 6)  BY DEF FirstMatch
<1>2. PICK i \in hits : \A j \in hits : i <= j  BY <1>1, FirstPosition
<1>3. DEFINE first == CHOOSE k \in hits : \A j \in hits : k <= j
<1>4. first \in hits  BY <1>2
<1>5. FirstMatch(preference, declared) = preference[first]  BY <1>1 DEF FirstMatch
<1> QED  BY <1>4, <1>5 DEF Range

(* A list of two to four valid commands is valid.                          *)
Valid(command)   == ValidCommand(command) /\ command \in InstallCommand
LEMMA ListIsValid ==
  ASSUME NEW a, NEW b, NEW c, NEW d, Valid(a), Valid(b), Valid(c), Valid(d)
  PROVE  \A list \in {<<a, b>>, <<a, b, c>>, <<a, b, c, d>>} :
           ValidInstall(list) /\ list \in Seq(InstallCommand)
<1> USE DEF Valid, ValidInstall
<1> HIDE DEF InstallCommand, ValidCommand
<1>1. ValidInstall(<<a, b>>) /\ <<a, b>> \in Seq(InstallCommand)  OBVIOUS
<1>2. ValidInstall(<<a, b, c>>) /\ <<a, b, c>> \in Seq(InstallCommand)  OBVIOUS
<1>3. ValidInstall(<<a, b, c, d>>) /\ <<a, b, c, d>> \in Seq(InstallCommand)  OBVIOUS
<1> QED  BY <1>1, <1>2, <1>3

(* What probing derives from a revision passes the validation of           *)
(* InstallPlan: planning never raises on its own output.                   *)
LEMMA ProbeIsValid ==
  ASSUME NEW files_ \in Committed, Probed(files_)
  PROVE  /\ ValidInstall(Probe(files_).commands)
         /\ Probe(files_).commands \in Seq(InstallCommand)
<1> DEFINE group == FirstMatch(TestGroups, Groups(files_))
           extra == FirstMatch(TestExtras, Extras(files_))
           reqs  == SelectRequirements(files_)
<1>1. group # NoName => group \in Range(TestGroups)
  <2>1. DOMAIN TestGroups \subseteq 1 .. 6  BY DEF TestGroups
  <2> QED  BY <2>1, FirstMatchIsPreferred
<1>2. extra # NoName => extra \in Range(TestExtras)
  <2>1. DOMAIN TestExtras \subseteq 1 .. 6  BY DEF TestExtras
  <2> QED  BY <2>1, FirstMatchIsPreferred
<1>3. reqs # NoName => reqs \in Range(Requirements)
  <2>1. DOMAIN Requirements \subseteq 1 .. 6  BY DEF Requirements
  <2> QED  BY <2>1, FirstMatchIsPreferred DEF SelectRequirements
<1> HIDE DEF group, extra, reqs
<1> USE DEF Command
<1>4. Valid(Venv) /\ Valid(Pytest) /\ Valid(Editable) /\ Valid(Command("sync", "frozen"))
  <2>1. /\ Venv \in InstallCommand /\ Pytest \in InstallCommand
        /\ Editable \in InstallCommand /\ Command("sync", "frozen") \in InstallCommand
    BY DEF Venv, Pytest, Editable, InstallCommand
  <2>2. /\ ValidCommand(Venv) /\ ValidCommand(Pytest) /\ ValidCommand(Editable)
        /\ ValidCommand(Command("sync", "frozen"))
    BY DEF ValidCommand
  <2> QED  BY <2>1, <2>2 DEF Valid
<1>5. ASSUME group # NoName  PROVE Valid(Command("group", group))
  <2>1. Command("group", group) \in InstallCommand  BY <1>5, <1>1 DEF InstallCommand
  <2>2. ValidCommand(Command("group", group)) BY <1>5, <1>1 DEF ValidCommand
  <2> QED  BY <2>1, <2>2 DEF Valid
<1>6. ASSUME extra # NoName  PROVE Valid(Command("editable", extra))
  <2>1. Command("editable", extra) \in InstallCommand  BY <1>6, <1>2 DEF InstallCommand
  <2>2. ValidCommand(Command("editable", extra)) BY <1>6, <1>2 DEF ValidCommand
  <2> QED  BY <2>1, <2>2 DEF Valid
<1>7. ASSUME reqs # NoName  PROVE Valid(Command("requirements", reqs))
  <2>1. Command("requirements", reqs) \in InstallCommand
    BY <1>7, <1>3 DEF InstallCommand
  <2>2. ValidCommand(Command("requirements", reqs)) BY <1>7, <1>3 DEF ValidCommand
  <2> QED  BY <2>1, <2>2 DEF Valid
<1> HIDE DEF Command
<1> DEFINE Good(commands) == ValidInstall(commands) /\ commands \in Seq(InstallCommand)
<1>8. Good(<<Command("sync", "frozen"), Pytest>>) /\ Good(<<Venv, Editable, Pytest>>)
  BY <1>4, ListIsValid
<1>9. group # NoName => Good(<<Venv, Editable, Command("group", group), Pytest>>)
  BY <1>4, <1>5, ListIsValid
<1>10. extra # NoName => Good(<<Venv, Command("editable", extra), Pytest>>)
  BY <1>4, <1>6, ListIsValid
<1>11. reqs # NoName => Good(<<Venv, Command("requirements", reqs), Editable, Pytest>>)
  BY <1>4, <1>7, ListIsValid
<1>12. Probe(files_).commands \in
         {<<Command("sync", "frozen"), Pytest>>, <<Venv, Editable, Pytest>>}
           \cup {c \in {<<Venv, Editable, Command("group", group), Pytest>>} :
                   group # NoName}
           \cup {c \in {<<Venv, Command("editable", extra), Pytest>>} : extra # NoName}
           \cup {c \in {<<Venv, Command("requirements", reqs), Editable, Pytest>>} :
                   reqs # NoName}
  <2> USE DEF Plan, group, extra, reqs
  <2>1. CASE files_.lock /\ files_.pyproject # "absent"  BY <2>1 DEF Probe
  <2>2. CASE ~(files_.lock /\ files_.pyproject # "absent")
    <3>1. Installable(files_) /\ files_.pyproject # "oversized"
      BY <2>2 DEF Probe, Probed
    <3>2. CASE group # NoName  BY <2>2, <3>1, <3>2 DEF Probe
    <3>3. CASE group = NoName /\ extra # NoName  BY <2>2, <3>1, <3>3 DEF Probe
    <3>4. CASE group = NoName /\ extra = NoName /\ reqs # NoName
      BY <2>2, <3>1, <3>4 DEF Probe
    <3>5. CASE group = NoName /\ extra = NoName /\ reqs = NoName
      BY <2>2, <3>1, <3>5 DEF Probe
    <3> QED  BY <3>2, <3>3, <3>4, <3>5
  <2> QED  BY <2>1, <2>2
<1> HIDE DEF Good
<1>13. Good(Probe(files_).commands)  BY <1>8, <1>9, <1>10, <1>11, <1>12
<1> QED  BY <1>13 DEF Good, InstallCommand

(* What PlanIsShared says of a contract and the two revisions.             *)
Shared(c, base, head) ==
  c # NoContract =>
    IF c.synthesized
    THEN /\ \A files_ \in {base, head} :
              files_.contract = "absent" /\ Probe(files_).commands = c.install
         /\ ValidInstall(c.install)
    ELSE Load(base.contract) = c /\ Load(head.contract) = c

(* A contract file loads as a contract, or as none.                        *)
LEMMA LoadIsContract ==
  ASSUME NEW contract_
  PROVE  Load(contract_) \in Contract
<1> DEFINE Loaded(flag, list) == [synthesized |-> flag, install |-> list]
<1>1. \A flag \in BOOLEAN : \A list \in Seq(InstallCommand) :
        Loaded(flag, list) \in Contract
  BY DEF Contract
<1>2. /\ Command("sync", "frozen") \in InstallCommand
      /\ Command("sync", "all-groups") \in InstallCommand
      /\ Venv \in InstallCommand /\ Editable \in InstallCommand
      /\ Pytest \in InstallCommand
  BY DEF Command, Venv, Editable, Pytest, InstallCommand
<1>3. /\ <<>> \in Seq(InstallCommand)
      /\ <<Command("sync", "frozen")>> \in Seq(InstallCommand)
      /\ <<Command("sync", "all-groups")>> \in Seq(InstallCommand)
      /\ <<Venv, Editable, Pytest>> \in Seq(InstallCommand)
  <2> HIDE DEF Command, Venv, Editable, Pytest, InstallCommand
  <2> QED  BY <1>2
<1> HIDE DEF Loaded
<1>4. /\ Loaded(FALSE, <<>>) \in Contract
      /\ Loaded(FALSE, <<Command("sync", "frozen")>>) \in Contract
      /\ Loaded(FALSE, <<Command("sync", "all-groups")>>) \in Contract
      /\ Loaded(TRUE, <<Venv, Editable, Pytest>>) \in Contract
  BY <1>1, <1>3
<1> QED  BY <1>4 DEF Load, NoContract, Loaded

(* The plan of a pull request is a contract that both revisions imply.     *)
LEMMA PlanOfPair ==
  ASSUME NEW base \in Committed, NEW head \in Committed
  PROVE  /\ ResolvePlan(base, head) \in Contract
         /\ Shared(ResolvePlan(base, head), base, head)
<1> DEFINE c == ResolvePlan(base, head)
<1>1. NoContract \in Contract /\ Shared(NoContract, base, head)
  BY DEF NoContract, Contract, Shared
<1>2. CASE ~Declares(base, head)
  <2>1. base.contract = "absent" /\ head.contract = "absent"  BY <1>2 DEF Declares
  <2>2. c = ResolveForPair(base, head)  BY <1>2 DEF ResolvePlan
  <2>3. CASE \/ ~Probed(base) \/ ~Probed(head)
             \/ Probe(base).commands # Probe(head).commands
    BY <2>2, <2>3, <1>1 DEF ResolveForPair
  <2>4. CASE /\ Probed(base) /\ Probed(head)
             /\ Probe(base).commands = Probe(head).commands
    <3>1. c = [synthesized |-> TRUE, install |-> Probe(head).commands]
      BY <2>2, <2>4 DEF ResolveForPair
    <3>2. /\ ValidInstall(Probe(head).commands)
          /\ Probe(head).commands \in Seq(InstallCommand)
      BY <2>4, ProbeIsValid
    <3>3. c \in Contract
      <4> DEFINE list == Probe(head).commands
      <4> HIDE DEF c, list
      <4>1. c = [synthesized |-> TRUE, install |-> list] /\ list \in Seq(InstallCommand)
        BY <3>1, <3>2 DEF list
      <4> QED  BY <4>1 DEF Contract
    <3>4. c.synthesized /\ c.install = Probe(head).commands  BY <3>1
    <3> HIDE DEF c
    <3>5. Shared(c, base, head)  BY <3>2, <3>4, <2>1, <2>4 DEF Shared
    <3> QED  BY <3>3, <3>5 DEF c
  <2> QED  BY <2>3, <2>4
<1>3. CASE Declares(base, head)
  <2>1. CASE \/ Load(head.contract).synthesized
             \/ Load(base.contract) # Load(head.contract)
    BY <1>1, <1>3, <2>1 DEF ResolvePlan
  <2>2. CASE /\ ~Load(head.contract).synthesized
             /\ Load(base.contract) = Load(head.contract)
    <3>1. c = Load(head.contract)  BY <1>3, <2>2 DEF ResolvePlan
    <3>2. Shared(c, base, head)  BY <3>1, <2>2 DEF Shared
    <3> QED  BY <3>1, <3>2, LoadIsContract
  <2> QED  BY <2>1, <2>2
<1> QED  BY <1>2, <1>3
(* A probe raises for an oversized manifest beside no lock file only, and  *)
(* then there is no plan.                                                  *)
LEMMA RaisedByOversized ==
  ASSUME NEW base \in Committed, NEW head \in Committed, PlanRaises(base, head)
  PROVE  /\ ResolvePlan(base, head) = NoContract
         /\ \E files_ \in {base, head} :
              files_.pyproject = "oversized" /\ ~files_.lock /\ files_.contract = "absent"
<1>1. ~Declares(base, head) /\ Raised \in {Probe(base), Probe(head)}  BY DEF PlanRaises
<1>2. base.contract = "absent" /\ head.contract = "absent"  BY <1>1 DEF Declares
<1>3. ResolvePlan(base, head) = NoContract
  BY <1>1 DEF ResolvePlan, ResolveForPair, Probed
<1>4. \A files_ \in {base, head} :
        Probe(files_) = Raised => files_.pyproject = "oversized" /\ ~files_.lock
  BY DEF Probe, Plan, Raised, Unsupported
<1> QED  BY <1>1, <1>2, <1>3, <1>4
-----------------------------------------------------------------------------
(* What the parts of a challenge are. *)
LEMMA ArtifactTypes ==
  ASSUME SessionTypeOK
  PROVE  /\ artifact.path \in Path /\ artifact.bytes \in Bytes
         /\ artifact.bytes # None /\ None \notin Bytes
         /\ artifact.bytes \notin Others /\ Others \subseteq Bytes
BY SessionAssumption DEF SessionTypeOK, Path, Bytes, Probes, Others

(* A result that comes without a process is of no ordinary status.         *)
LEMMA EarlyIsResult ==
  ASSUME NEW status \in TestExecutionStatus
  PROVE  /\ Early(status) \in Result /\ Early(status).status = status
         /\ Early(status).after = None
BY DEF Early, Result

(* The parser passes or fails a test only if the report holds exactly one. *)
LEMMA ParseIsStatus ==
  ASSUME NEW report \in Report
  PROVE  /\ Parse(report) \in TestExecutionStatus
         /\ Parse(report) # "ENVIRONMENT_SETUP_FAILED"
         /\ Parse(report) \in OrdinaryStatus => report.xml = "read" /\ report.cases = 1
<1> DEFINE Allowed == TestExecutionStatus \ {"ENVIRONMENT_SETUP_FAILED"}
<1>1. WithoutReport(report) \in Allowed /\ WithoutReport(report) \notin OrdinaryStatus
  BY DEF WithoutReport, TestExecutionStatus, OrdinaryStatus, InvalidTestStatus,
         EnvironmentalStatus
<1>2. report.cases \in Nat /\ report.xml \in {"missing", "unparsable", "read"}
  BY DEF Report
<1>3. Parse(report) \in Allowed
  BY <1>1 DEF Parse, TestExecutionStatus, OrdinaryStatus, InvalidTestStatus,
              EnvironmentalStatus
<1>4. ASSUME Parse(report) \in OrdinaryStatus
      PROVE  report.xml = "read" /\ report.cases = 1
  <2>1. report.xml # "unparsable"
    BY <1>4 DEF Parse, OrdinaryStatus
  <2>2. ~(report.xml = "missing" \/ report.cases = 0)
    BY <1>4, <2>1, <1>1 DEF Parse
  <2>3. ~(report.cases > 1)
    BY <1>4, <2>1, <2>2 DEF Parse, OrdinaryStatus
  <2> QED  BY <1>2, <2>1, <2>2, <2>3
<1> QED  BY <1>3, <1>4
-----------------------------------------------------------------------------
(* Both sides ordinary and unchanged is what DISCRIMINATING takes.         *)
LEMMA DiscriminatingIsOrdinary ==
  ASSUME NEW c \in ChallengeResult, Classify(c).mechanical = "DISCRIMINATING"
  PROVE  c.base \in OrdinaryStatus /\ c.head \in OrdinaryStatus /\ c.unchanged
<1>1. c.declared  BY DEF Classify, Assessment
<1>2. {c.base, c.head} \cap InvalidTestStatus = {}  BY <1>1 DEF Classify, Assessment
<1>3. ~OneSidedException(c)  BY <1>1, <1>2 DEF Classify, Assessment
<1>4. {c.base, c.head} \cap EnvironmentalStatus = {}
  BY <1>1, <1>2, <1>3 DEF Classify, Assessment
<1>5. c.unchanged  BY <1>1, <1>2, <1>3, <1>4 DEF Classify, Assessment
<1>6. c.base \in TestExecutionStatus /\ c.head \in TestExecutionStatus
  BY DEF ChallengeResult
<1> QED  BY <1>2, <1>4, <1>5, <1>6 DEF TestExecutionStatus

(* Two results that are Comparable are classified as their statuses say,   *)
(* and a discriminating classification compares the same bytes.            *)
LEMMA ClassifiedIsComparable ==
  ASSUME NEW sides \in [Rev -> Result \cup {None}],
         Comparable(sides["BASE"]), Comparable(sides["HEAD"])
  PROVE  /\ Classified(sides) \in [observed : ChallengeResult, comparable : BOOLEAN]
         /\ Classify(Classified(sides).observed).mechanical = "DISCRIMINATING"
              => Classified(sides).comparable
         /\ mode = "local" => ~SetupFailed(Classified(sides).observed)
<1> DEFINE b == sides["BASE"]
           h == sides["HEAD"]
           seen == [base |-> b.status, head |-> h.status, declared |-> TRUE,
                    unchanged |-> Unchanged(sides)]
           read == \A r \in Rev : sides[r].ran = artifact.bytes /\ sides[r].cases = 1
<1>1. b \in Result /\ h \in Result  BY DEF Comparable
<1>2. b.status \in TestExecutionStatus /\ h.status \in TestExecutionStatus
  BY <1>1 DEF Result
<1>3. Unchanged(sides) \in BOOLEAN /\ read \in BOOLEAN  BY DEF Unchanged
<1>4. seen \in ChallengeResult
  <2> DEFINE bs == b.status  hs == h.status  un == Unchanged(sides)
  <2>1. bs \in TestExecutionStatus /\ hs \in TestExecutionStatus /\ un \in BOOLEAN
    BY <1>2, <1>3
  <2> HIDE DEF bs, hs, un
  <2>2. [base |-> bs, head |-> hs, declared |-> TRUE, unchanged |-> un]
          \in ChallengeResult
    BY <2>1 DEF ChallengeResult
  <2> QED  BY <2>2 DEF bs, hs, un
<1>5. Classified(sides) = [observed |-> seen, comparable |-> read]  BY DEF Classified
<1>6. Classified(sides) \in [observed : ChallengeResult, comparable : BOOLEAN]
  <2> HIDE DEF seen, read
  <2> QED  BY <1>3, <1>4, <1>5
<1>7. ASSUME Classify(seen).mechanical = "DISCRIMINATING"  PROVE read
  <2>1. seen.base \in OrdinaryStatus /\ seen.head \in OrdinaryStatus /\ seen.unchanged
    <3> HIDE DEF seen
    <3> QED  BY <1>4, <1>7, DiscriminatingIsOrdinary
  <2>2. b.after = artifact.bytes /\ h.after = artifact.bytes
    BY <2>1 DEF Unchanged, Rev
  <2>3. b.status \in OrdinaryStatus /\ h.status \in OrdinaryStatus  BY <2>1
  <2> QED  BY <2>2, <2>3 DEF Comparable, Rev
<1>8. mode = "local" => ~SetupFailed(seen)  BY DEF Comparable, SetupFailed
<1> HIDE DEF seen, read
<1>9. Classified(sides).observed = seen /\ Classified(sides).comparable = read  BY <1>5
<1> QED  BY <1>6, <1>7, <1>8, <1>9

(* A result of an operation that runs its artifact leads to the other      *)
(* side, to the next operation or to the end, and keeps what is known of   *)
(* the results.                                                            *)
LEMMA GivesKeepsResults ==
  ASSUME SessionInv, NEW result, Comparable(result), pc \in Active, pc # "callback",
         Gives(result), UNCHANGED <<plan, op, artifact>>
  PROVE  /\ \/ pc' = "remove"
            \/ pc' = "choose" /\ mode = "local"
            \/ pc' = "start" /\ rev = "BASE" /\ rev' = "HEAD"
            \/ pc' = "callback" /\ rev = "BASE" /\ rev' = "HEAD" /\ mode = "local"
         /\ rev' \in Rev /\ side' \in [Rev -> Result \cup {None}]
         /\ challenge' \in [observed : ChallengeResult, comparable : BOOLEAN] \cup {None}
         /\ SideInv' /\ ChallengeInv'
<1> DEFINE sides == [side EXCEPT ![rev] = result]
<1>0. rev \in Rev /\ side \in [Rev -> Result \cup {None}] /\ mode \in {"local", "remote"}
  BY DEF SessionInv, SessionTypeOK
<1>1. sides \in [Rev -> Result \cup {None}] /\ sides[rev] = result
  BY <1>0 DEF Comparable
<1>2. NoResults \in [Rev -> Result \cup {None}]  BY DEF NoResults
<1>3. /\ ChallengeInv
      /\ challenge \in [observed : ChallengeResult, comparable : BOOLEAN] \cup {None}
  BY DEF SessionInv, SessionTypeOK
<1>4. mode' = mode /\ op' = op /\ artifact' = artifact  BY DEF plan
<1>5. challenge' = challenge => ChallengeInv'
  BY <1>3, <1>4 DEF ChallengeInv, DiscriminatingIsComparable
<1>6. pc' \notin Active => SideInv'
  BY DEF SideInv, Active, Observed
<1>7. CASE op = 0 /\ result.status # "PASSED"
  <2>1. pc' = "remove" /\ rev' = "BASE" /\ side' = NoResults /\ challenge' = challenge
    BY <1>7 DEF Gives
  <2> QED  BY <2>1, <1>2, <1>3, <1>5, <1>6 DEF Rev, Active
<1>8. CASE ~(op = 0 /\ result.status # "PASSED") /\ rev = "BASE"
  <2>1. /\ pc' = IF op > 0 /\ mode = "local" THEN "callback" ELSE "start"
        /\ rev' = "HEAD" /\ side' = sides /\ challenge' = challenge
    BY <1>8 DEF Gives
  <2>2. pc' = "start" \/ (pc' = "callback" /\ mode = "local")  BY <2>1
  <2>3. side'["BASE"] = result  BY <2>1, <1>8, <1>1
  <2>4. Comparable(result)'
    <3>1. PICK r \in Result : r = result  BY DEF Comparable
    <3> QED  BY <3>1, <1>4 DEF Comparable
  <2>5. Comparable(side["BASE"])'
    BY <2>3, <2>4, <1>4 DEF Comparable
  <2>6. SideInv'  BY <2>2, <2>5 DEF SideInv, Observed
  <2> QED  BY <2>1, <2>2, <2>6, <1>1, <1>3, <1>5, <1>8 DEF Rev
<1>9. CASE ~(op = 0 /\ result.status # "PASSED") /\ rev # "BASE"
  <2>1. /\ challenge' = Classified(sides)
        /\ pc' = After(~SetupFailed(challenge'.observed))
        /\ rev' = "BASE" /\ side' = NoResults
    BY <1>9 DEF Gives
  <2>2. rev = "HEAD" /\ sides["HEAD"] = result /\ sides["BASE"] = side["BASE"]
    BY <1>9, <1>0, <1>1 DEF Rev
  <2>3. Comparable(side["BASE"])  BY <2>2 DEF SessionInv, SideInv
  <2>4. /\ Classified(sides) \in [observed : ChallengeResult, comparable : BOOLEAN]
        /\ Classify(Classified(sides).observed).mechanical = "DISCRIMINATING"
             => Classified(sides).comparable
        /\ mode = "local" => ~SetupFailed(Classified(sides).observed)
    <3>1. Comparable(sides["BASE"]) /\ Comparable(sides["HEAD"])  BY <2>2, <2>3
    <3> HIDE DEF sides
    <3> QED  BY <1>1, <3>1, ClassifiedIsComparable
  <2> HIDE DEF sides
  <2>5. pc' = "remove" \/ (pc' = "choose" /\ mode = "local")
    BY <2>1, <1>0 DEF After
  <2>6. ChallengeInv'
    BY <2>1, <2>4, <1>4 DEF ChallengeInv, DiscriminatingIsComparable
  <2> QED  BY <2>1, <2>4, <2>5, <2>6, <1>2, <1>6 DEF Rev, Active
<1> QED  BY <1>7, <1>8, <1>9
-----------------------------------------------------------------------------
(* How the actions change one file, and one field of a result.             *)
Disk == [Rev -> [Path -> Bytes \cup {None}]]

LEMMA WriteFile ==
  ASSUME NEW f \in Disk, NEW r \in Rev, NEW p \in Path, NEW b \in Bytes \cup {None},
         NEW g, g = [f EXCEPT ![r][p] = b]
  PROVE  g \in Disk
<1> DEFINE Row == [Path -> Bytes \cup {None}]
           row == [f[r] EXCEPT ![p] = b]
<1>1. f[r] \in Row  BY DEF Disk
<1>2. row \in Row  BY <1>1
<1>3. g = [f EXCEPT ![r] = row]  OBVIOUS
<1>4. f \in [Rev -> Row]  BY DEF Disk
<1> HIDE DEF Row, row
<1>5. g \in [Rev -> Row]  BY <1>2, <1>3, <1>4
<1> QED  BY <1>5 DEF Disk, Row

(* A fresh checkout is a state of the disk.                                *)
LEMMA CheckoutIsDisk == Checkout \in Disk
BY DEF Checkout, Disk, Bytes, Others

(* What the process read changes nothing else.                             *)
LEMMA ReadResult ==
  ASSUME NEW s \in Result, NEW b \in Bytes \cup {None}, NEW t, t = [s EXCEPT !.ran = b]
  PROVE  t \in Result /\ t.ran = b /\ t.status = s.status
BY DEF Result

(* The bytes after the run change nothing else.                            *)
LEMMA FinalResult ==
  ASSUME NEW s \in Result, NEW b \in Bytes \cup {None}, NEW t, t = [s EXCEPT !.after = b]
  PROVE  /\ t \in Result /\ t.after = b /\ t.status = s.status /\ t.ran = s.ran
         /\ t.cases = s.cases
BY DEF Result

(* A number of cases changes nothing else.                                 *)
LEMMA CountedResult ==
  ASSUME NEW s \in Result, NEW n \in Nat, NEW t, t = [s EXCEPT !.cases = n]
  PROVE  t \in Result /\ t.status = s.status /\ t.cases = n /\ t.ran = s.ran
BY DEF Result

(* A status changes nothing else.                                          *)
LEMMA KilledResult ==
  ASSUME NEW s \in Result, NEW status \in TestExecutionStatus, NEW t,
         t = [s EXCEPT !.status = status]
  PROVE  t \in Result /\ t.status = status /\ t.ran = s.ran
BY DEF Result

(* A result put down for the current side. *)
LEMMA SideWith ==
  ASSUME SessionTypeOK, NEW s \in Result, NEW sides, sides = [side EXCEPT ![rev] = s]
  PROVE  /\ sides \in [Rev -> Result \cup {None}] /\ sides[rev] = s
         /\ rev = "HEAD" => sides["BASE"] = side["BASE"]
BY DEF SessionTypeOK, Rev
-----------------------------------------------------------------------------
(* A new pair starts with nothing installed and the commits' own files.    *)
LEMMA OpenKeeps ==
  ASSUME SessionInv, Open  PROVE SessionInv'
<1>0. SessionTypeOK /\ PlanInv /\ PairInv /\ OrderInv /\ InstallInv /\ SideInv
        /\ FilesInv /\ ChallengeInv
  BY DEF SessionInv
<1> USE DEF Open, plan, pair, content, results
<1>1. SessionTypeOK'
  <2>1. files' \in Disk  BY CheckoutIsDisk
  <2> QED  BY <1>0, <2>1 DEF SessionTypeOK, Rev, Disk
<1>2. PlanInv'  BY <1>0 DEF PlanInv
<1>3. PairInv'  BY DEF PairInv
<1>4. OrderInv'  BY <1>0 DEF OrderInv, Observed
<1>5. InstallInv'  BY DEF InstallInv, Active
<1>6. SideInv'
  BY DEF SideInv, Observed
<1>7. FilesInv'
  BY DEF FilesInv, Injected, Checkout
<1>8. ChallengeInv'  BY <1>0 DEF ChallengeInv, DiscriminatingIsComparable
<1> QED  BY <1>1, <1>2, <1>3, <1>4, <1>5, <1>6, <1>7, <1>8 DEF SessionInv

(* Nothing was made yet, and the error is set.                             *)
LEMMA OpenFailsKeeps ==
  ASSUME SessionInv, OpenFails  PROVE SessionInv'
<1>0. SessionTypeOK /\ PlanInv /\ PairInv /\ OrderInv /\ InstallInv /\ SideInv
        /\ FilesInv /\ ChallengeInv
  BY DEF SessionInv
<1> USE DEF OpenFails, plan, pair, content, results
<1>1. SessionTypeOK'
  BY <1>0 DEF SessionTypeOK
<1>2. PlanInv'  BY <1>0 DEF PlanInv
<1>3. PairInv'  BY DEF PairInv
<1>4. OrderInv'  BY <1>0 DEF OrderInv, Observed
<1>5. InstallInv'  BY <1>0 DEF InstallInv, Active
<1>6. SideInv'
  BY DEF SideInv, Active, Observed
<1>7. FilesInv'
  BY DEF FilesInv, InPair, Active, Injected
<1>8. ChallengeInv'  BY <1>0 DEF ChallengeInv, DiscriminatingIsComparable
<1> QED  BY <1>1, <1>2, <1>3, <1>4, <1>5, <1>6, <1>7, <1>8 DEF SessionInv

(* A worktree is added before anything is installed in it.                 *)
LEMMA AddWorktreeKeeps ==
  ASSUME SessionInv, AddWorktree  PROVE SessionInv'
<1>0. SessionTypeOK /\ PlanInv /\ PairInv /\ OrderInv /\ InstallInv /\ SideInv
        /\ FilesInv /\ ChallengeInv
  BY DEF SessionInv
<1> USE DEF AddWorktree, plan, pair, content, results
<1>1. SessionTypeOK'
  BY <1>0 DEF SessionTypeOK, Rev
<1>2. PlanInv'  BY <1>0 DEF PlanInv
<1>3. PairInv'  BY DEF PairInv
<1>4. OrderInv'  BY <1>0 DEF OrderInv, Observed
<1>5. InstallInv'  BY <1>0 DEF InstallInv, Active, Rev, OrderInv
<1>6. SideInv'
  BY DEF SideInv, Active, Observed
<1>7. FilesInv'
  BY <1>0 DEF FilesInv, InPair, Injected
<1>8. ChallengeInv'  BY <1>0 DEF ChallengeInv, DiscriminatingIsComparable
<1> QED  BY <1>1, <1>2, <1>3, <1>4, <1>5, <1>6, <1>7, <1>8 DEF SessionInv

(* A pair that is not complete is removed without being used.              *)
LEMMA AddWorktreeFailsKeeps ==
  ASSUME SessionInv, AddWorktreeFails  PROVE SessionInv'
<1>0. SessionTypeOK /\ PlanInv /\ PairInv /\ OrderInv /\ InstallInv /\ SideInv
        /\ FilesInv /\ ChallengeInv
  BY DEF SessionInv
<1> USE DEF AddWorktreeFails, plan, pair, content, results
<1>1. SessionTypeOK'
  BY <1>0 DEF SessionTypeOK
<1>2. PlanInv'  BY <1>0 DEF PlanInv
<1>3. PairInv'  BY DEF PairInv
<1>4. OrderInv'  BY <1>0 DEF OrderInv, Observed
<1>5. InstallInv'  BY <1>0 DEF InstallInv, Active
<1>6. SideInv'
  BY DEF SideInv, Active, Observed
<1>7. FilesInv'
  BY <1>0 DEF FilesInv, InPair, Injected
<1>8. ChallengeInv'  BY <1>0 DEF ChallengeInv, DiscriminatingIsComparable
<1> QED  BY <1>1, <1>2, <1>3, <1>4, <1>5, <1>6, <1>7, <1>8 DEF SessionInv

(* Both worktrees are installed, BASE first, before the probe is run.      *)
LEMMA PrepareEnvironmentKeeps ==
  ASSUME SessionInv, PrepareEnvironment  PROVE SessionInv'
<1>0. SessionTypeOK /\ PlanInv /\ PairInv /\ OrderInv /\ InstallInv /\ SideInv
        /\ FilesInv /\ ChallengeInv
  BY DEF SessionInv
<1> USE DEF PrepareEnvironment, Installs, NeedsInstall, plan, pair, content, results
<1>11. PICK ok \in (IF NeedsInstall(rev) THEN BOOLEAN ELSE {TRUE}) :
         /\ IF NeedsInstall(rev) THEN Installs(rev, ok)
            ELSE UNCHANGED <<installed, installs>>
         /\ pc' = IF ~ok THEN "remove" ELSE IF rev = "BASE" THEN pc ELSE "start"
         /\ rev' = IF ok /\ rev = "BASE" THEN "HEAD" ELSE "BASE"
  OBVIOUS
<1>12. installs' \in [Rev -> Nat] /\ installed' \subseteq Rev
  BY <1>0 DEF SessionTypeOK
<1>1. SessionTypeOK'  BY <1>0, <1>12 DEF SessionTypeOK, Rev
<1>2. PlanInv'  BY <1>0 DEF PlanInv
<1>3. PairInv'  BY DEF PairInv
<1>4. OrderInv'  BY <1>0 DEF OrderInv, Observed
<1>5. InstallInv'
  <2>1. rev \in Rev /\ installs \in [Rev -> Nat] /\ installed \subseteq Rev
    BY <1>0 DEF SessionTypeOK
  <2>2. CASE rev = "BASE"
    BY <1>0, <2>1, <2>2 DEF InstallInv, Active, Rev
  <2>3. CASE rev = "HEAD"
    <3>1. installs["HEAD"] = 0 /\ "BASE" \in installed  BY <1>0, <2>3 DEF InstallInv
    <3>2. \A r \in Rev : installs'[r] <= 1
      BY <1>0, <2>1 DEF InstallInv
    <3>3. pc' = "remove" \/ (pc' = "start" /\ installed' = Rev /\ rev' = "BASE")
      BY <2>1, <2>3, <3>1 DEF Rev
    <3> QED  BY <3>2, <3>3 DEF InstallInv, Active, Rev
  <2> QED  BY <2>1, <2>2, <2>3 DEF Rev
<1>6. SideInv'
  BY DEF SideInv, Active, Observed
<1>7. FilesInv'
  BY <1>0 DEF FilesInv, InPair, Injected, OrderInv
<1>8. ChallengeInv'  BY <1>0 DEF ChallengeInv, DiscriminatingIsComparable
<1> QED  BY <1>1, <1>2, <1>3, <1>4, <1>5, <1>6, <1>7, <1>8 DEF SessionInv

(* Setup before an injection is the first in its worktree.                 *)
LEMMA InstallsOnceAtStart ==
  ASSUME SessionTypeOK, InstallInv, pc = "start", NEW ok \in BOOLEAN,
         IF NeedsInstall(rev) THEN Installs(rev, ok) ELSE UNCHANGED <<installed, installs>>
  PROVE  /\ installed' \subseteq Rev /\ installs' \in [Rev -> Nat]
         /\ \A r \in Rev : r # rev => installs'[r] = installs[r]
         /\ \A r \in Rev : installs'[r] <= 1
         /\ installed \subseteq installed'
<1>1. rev \in Rev /\ installed \subseteq Rev /\ installs \in [Rev -> Nat]
  BY DEF SessionTypeOK
<1>2. NeedsInstall(rev) => installs[rev] = 0  BY DEF InstallInv, NeedsInstall
<1>3. \A r \in Rev : installs[r] <= 1  BY DEF InstallInv
<1> QED  BY <1>1, <1>2, <1>3 DEF Installs

(* The one action that puts an artifact's file into a worktree.            *)
LEMMA InjectKeeps ==
  ASSUME SessionInv, Inject  PROVE SessionInv'
<1>0. SessionTypeOK /\ PlanInv /\ PairInv /\ OrderInv /\ InstallInv /\ SideInv
        /\ FilesInv /\ ChallengeInv
  BY DEF SessionInv
<1>12. installs' \in [Rev -> Nat] /\ installed' \subseteq Rev
  <2>1. /\ pc = "start"
        /\ IF NeedsInstall(rev) THEN Installs(rev, TRUE)
           ELSE UNCHANGED <<installed, installs>>
    BY DEF Inject
  <2> QED  BY <1>0, <2>1, InstallsOnceAtStart
<1> USE DEF Inject, Installs, NeedsInstall, Refuses, plan, pair, content, results
<1>11. files' \in Disk
  BY <1>0, ArtifactTypes DEF SessionTypeOK, Disk
<1>1. SessionTypeOK'  BY <1>0, <1>11 DEF SessionTypeOK, Disk
<1>2. PlanInv'  BY <1>0 DEF PlanInv
<1>3. PairInv'  BY DEF PairInv
<1>4. OrderInv'  BY <1>0 DEF OrderInv, Observed
<1>5. InstallInv'  BY <1>0 DEF InstallInv, SessionTypeOK, Active, Rev
<1>6. SideInv'
  BY <1>0 DEF SideInv, Active, Observed, Comparable
<1>7. FilesInv'
  BY <1>0 DEF FilesInv, InPair, Active, Injected
<1>8. ChallengeInv'  BY <1>0 DEF ChallengeInv, DiscriminatingIsComparable
<1> QED  BY <1>1, <1>2, <1>3, <1>4, <1>5, <1>6, <1>7, <1>8 DEF SessionInv

(* The process reads what is in the file at that moment.                   *)
LEMMA LaunchKeeps ==
  ASSUME SessionInv, Launch  PROVE SessionInv'
<1>0. SessionTypeOK /\ PlanInv /\ PairInv /\ OrderInv /\ InstallInv /\ SideInv
        /\ FilesInv /\ ChallengeInv
  BY DEF SessionInv
<1> USE DEF Launch, plan, pair, content, results
<1>10. files[rev][artifact.path] \in Bytes \cup {None} /\ side[rev] \in Result
  BY <1>0, ArtifactTypes DEF SessionTypeOK, SideInv, Observed
<1> DEFINE read == [side[rev] EXCEPT !.ran = files[rev][artifact.path]]
<1>11. /\ read \in Result /\ read.ran = files[rev][artifact.path]
       /\ read.status = side[rev].status
  BY <1>10, ReadResult
<1>12. \/ pc' = "running" /\ side' = [side EXCEPT ![rev] = read]
       \/ pc' = "finish" /\ side' = side
  OBVIOUS
<1> HIDE DEF read, Launch
<1>13. /\ pc = "launch"
       /\ UNCHANGED <<plan, op, artifact, rev, pair, content, challenge, error>>
  BY DEF Launch
<1>14. /\ side' \in [Rev -> Result \cup {None}]
       /\ rev = "HEAD" => side'["BASE"] = side["BASE"]
       /\ \/ pc' = "running" /\ side'[rev] = read
          \/ pc' = "finish" /\ side'[rev] = side[rev]
  BY <1>0, <1>11, <1>12, SideWith DEF SessionTypeOK
<1>1. SessionTypeOK'  BY <1>0, <1>13, <1>14 DEF SessionTypeOK
<1>2. PlanInv'  BY <1>0, <1>13 DEF PlanInv
<1>3. PairInv'  BY <1>12 DEF PairInv
<1>4. OrderInv'  BY <1>0, <1>12, <1>13 DEF OrderInv, Observed
<1>5. InstallInv'
  BY <1>0, <1>12, <1>13 DEF InstallInv, Active
<1>6. SideInv'
  <2>1. rev = "HEAD" => Comparable(side["BASE"])
    BY <1>0, <1>13 DEF SideInv, Active
  <2>2. rev = "HEAD" => Comparable(side'["BASE"])
    BY <1>14, <2>1
  <2>3. rev' = "HEAD" => Comparable(side["BASE"])'
    BY <1>13, <2>2 DEF Comparable
  <2>4. side[rev] \in Result /\ side[rev].status # "ENVIRONMENT_SETUP_FAILED"
        /\ side[rev].status \notin OrdinaryStatus
    BY <1>0, <1>13 DEF SideInv, Observed
  <2>5. \E s \in Result : s = side'[rev] /\ s.status = side[rev].status
          /\ (pc' = "running" => s.ran = files[rev][artifact.path])
          /\ pc' \in {"running", "finish"}
    BY <1>11, <1>14, <2>4
  <2> QED  BY <1>13, <2>3, <2>4, <2>5 DEF SideInv
<1>7. FilesInv'
  BY <1>0, <1>12, <1>13 DEF FilesInv, InPair, Active, Injected
<1>8. ChallengeInv'  BY <1>0, <1>13 DEF ChallengeInv, DiscriminatingIsComparable
<1> QED  BY <1>1, <1>2, <1>3, <1>4, <1>5, <1>6, <1>7, <1>8 DEF SessionInv

(* What a finished process reports is of an ordinary status only when it   *)
(* selected one test.                                                      *)
LEMMA ExitKeeps ==
  ASSUME SessionInv, Exit  PROVE SessionInv'
<1>0. SessionTypeOK /\ PlanInv /\ PairInv /\ OrderInv /\ InstallInv /\ SideInv
        /\ FilesInv /\ ChallengeInv
  BY DEF SessionInv
<1> USE DEF Exit, plan, pair, content, results
<1>10. side[rev] \in Result  BY <1>0 DEF SideInv, Observed
<1>11. PICK report \in Reports :
         side' = [side EXCEPT ![rev].status = Parse(report),
                              ![rev].cases =
                                IF report.xml = "read" THEN report.cases ELSE 0]
  OBVIOUS
<1> DEFINE n == IF report.xml = "read" THEN report.cases ELSE 0
           s == [side[rev] EXCEPT !.status = Parse(report), !.cases = n]
<1>12. report \in Report  BY SessionAssumption
<1>13. /\ Parse(report) \in TestExecutionStatus
       /\ Parse(report) # "ENVIRONMENT_SETUP_FAILED"
       /\ Parse(report) \in OrdinaryStatus => n = 1
       /\ n \in Nat
  <2>1. report.cases \in Nat  BY <1>12 DEF Report
  <2> QED  BY <1>12, <2>1, ParseIsStatus
<1> HIDE DEF n
<1>14. /\ s \in Result /\ s.status = Parse(report) /\ s.cases = n
       /\ s.ran = side[rev].ran
  <2> DEFINE result == side[rev]
             status == Parse(report)
  <2>1. result \in Result /\ status \in TestExecutionStatus /\ n \in Nat
    BY <1>10, <1>13
  <2> DEFINE ended == [result EXCEPT !.status = status]
  <2>2. s = [ended EXCEPT !.cases = n]  OBVIOUS
  <2> HIDE DEF result, status
  <2>4. ended \in Result /\ ended.status = status /\ ended.ran = result.ran
    BY <2>1, KilledResult
  <2> HIDE DEF s, ended
  <2>3. s \in Result /\ s.status = status /\ s.cases = n /\ s.ran = result.ran
    BY <2>1, <2>2, <2>4, CountedResult
  <2> QED  BY <2>3 DEF result, status
<1>15. side' = [side EXCEPT ![rev] = s]
  BY <1>11 DEF n
<1> HIDE DEF s, Exit
<1>16. /\ pc = "running" /\ pc' = "finish" /\ alive' \in {alive, alive \cup {rev}}
       /\ UNCHANGED <<plan, op, artifact, rev, pair, files, strays, installed, installs,
                      challenge, error>>
  BY DEF Exit
<1>17. /\ side' \in [Rev -> Result \cup {None}] /\ side'[rev] = s
       /\ rev = "HEAD" => side'["BASE"] = side["BASE"]
  BY <1>0, <1>14, <1>15, SideWith
<1>1. SessionTypeOK'  BY <1>0, <1>16, <1>17 DEF SessionTypeOK
<1>2. PlanInv'  BY <1>0, <1>16 DEF PlanInv
<1>3. PairInv'  BY <1>16 DEF PairInv
<1>4. OrderInv'  BY <1>0, <1>16 DEF OrderInv, Observed
<1>5. InstallInv'  BY <1>0, <1>16 DEF InstallInv, Active
<1>6. SideInv'
  <2>1. rev = "HEAD" => Comparable(side["BASE"])
    BY <1>0, <1>16 DEF SideInv, Active
  <2>2. rev = "HEAD" => Comparable(side'["BASE"])
    BY <1>17, <2>1
  <2>3. rev' = "HEAD" => Comparable(side["BASE"])'
    BY <1>16, <2>2 DEF Comparable
  <2>4. files[rev][artifact.path] = artifact.bytes => side[rev].ran = artifact.bytes
    BY <1>0, <1>16 DEF SideInv, Observed
  <2> QED  BY <1>13, <1>14, <1>16, <1>17, <2>3, <2>4 DEF SideInv
<1>7. FilesInv'
  BY <1>0, <1>16 DEF FilesInv, InPair, Active, Injected
<1>8. ChallengeInv'  BY <1>0, <1>16 DEF ChallengeInv, DiscriminatingIsComparable
<1> QED  BY <1>1, <1>2, <1>3, <1>4, <1>5, <1>6, <1>7, <1>8 DEF SessionInv

(* A process that is killed leaves no ordinary status.                     *)
LEMMA TimeoutKeeps ==
  ASSUME SessionInv, Timeout  PROVE SessionInv'
<1>0. SessionTypeOK /\ PlanInv /\ PairInv /\ OrderInv /\ InstallInv /\ SideInv
        /\ FilesInv /\ ChallengeInv
  BY DEF SessionInv
<1> USE DEF Timeout, Expires, plan, pair, content, results
<1>10. side[rev] \in Result  BY <1>0 DEF SideInv, Observed
<1> DEFINE s == [side[rev] EXCEPT !.status = "TIMED_OUT"]
<1>11. s \in Result /\ s.status = "TIMED_OUT" /\ s.ran = side[rev].ran
  <2>1. "TIMED_OUT" \in TestExecutionStatus
    BY DEF TestExecutionStatus, EnvironmentalStatus
  <2> QED  BY <1>10, <2>1, KilledResult
<1>12. side' = [side EXCEPT ![rev] = s]  BY <1>0
<1>13. /\ pc = "running" /\ pc' = "finish"
       /\ UNCHANGED <<plan, op, artifact, rev, pair, content, challenge, error>>
  OBVIOUS
<1> HIDE DEF s, Timeout
<1>14. /\ side' \in [Rev -> Result \cup {None}] /\ side'[rev] = s
       /\ rev = "HEAD" => side'["BASE"] = side["BASE"]
  BY <1>0, <1>11, <1>12, SideWith
<1>1. SessionTypeOK'  BY <1>0, <1>13, <1>14 DEF SessionTypeOK
<1>2. PlanInv'  BY <1>0, <1>13 DEF PlanInv
<1>3. PairInv'  BY <1>13 DEF PairInv
<1>4. OrderInv'  BY <1>0, <1>13 DEF OrderInv, Observed
<1>5. InstallInv'  BY <1>0, <1>13 DEF InstallInv, Active
<1>6. SideInv'
  <2>1. rev = "HEAD" => Comparable(side["BASE"])
    BY <1>0, <1>13 DEF SideInv, Active
  <2>2. rev = "HEAD" => Comparable(side'["BASE"])
    BY <1>14, <2>1
  <2>3. rev' = "HEAD" => Comparable(side["BASE"])'
    BY <1>13, <2>2 DEF Comparable
  <2>4. s.status \notin OrdinaryStatus /\ s.status # "ENVIRONMENT_SETUP_FAILED"
    BY <1>11 DEF OrdinaryStatus
  <2> QED  BY <1>11, <1>13, <1>14, <2>3, <2>4 DEF SideInv
<1>7. FilesInv'
  BY <1>0, <1>13 DEF FilesInv, InPair, Active, Injected
<1>8. ChallengeInv'  BY <1>0, <1>13 DEF ChallengeInv, DiscriminatingIsComparable
<1> QED  BY <1>1, <1>2, <1>3, <1>4, <1>5, <1>6, <1>7, <1>8 DEF SessionInv

(* The session ends with an error; the file is removed or listed as left.  *)
LEMMA KillFailsKeeps ==
  ASSUME SessionInv, KillFails  PROVE SessionInv'
<1>0. SessionTypeOK /\ PlanInv /\ PairInv /\ OrderInv /\ InstallInv /\ SideInv
        /\ FilesInv /\ ChallengeInv
  BY DEF SessionInv
<1> USE DEF KillFails, Expires, Unlinks, Remaining, Left, plan, pair, content, results
<1>10. /\ artifact.path \in Path /\ None \in Bytes \cup {None} /\ rev \in Rev
       /\ files \in Disk /\ strays \subseteq Rev \X Path
  BY <1>0, ArtifactTypes DEF SessionTypeOK, Disk
<1>11. files' \in Disk /\ strays' \subseteq Rev \X Path
  BY <1>10, WriteFile
<1>1. SessionTypeOK'  BY <1>0, <1>11 DEF SessionTypeOK, Disk, NoResults
<1>2. PlanInv'  BY <1>0 DEF PlanInv
<1>3. PairInv'  BY DEF PairInv
<1>4. OrderInv'  BY <1>0 DEF OrderInv, Observed
<1>5. InstallInv'  BY <1>0 DEF InstallInv, Active
<1>6. SideInv'
  BY DEF SideInv, Active, Observed
<1>7. FilesInv'
  BY DEF FilesInv, InPair, Active, Injected
<1>8. ChallengeInv'  BY <1>0 DEF ChallengeInv, DiscriminatingIsComparable
<1> QED  BY <1>1, <1>2, <1>3, <1>4, <1>5, <1>6, <1>7, <1>8 DEF SessionInv

(* A process may write any file; what it makes is one of strays, and never *)
(* the artifact's bytes.                                                   *)
LEMMA TamperKeeps ==
  ASSUME SessionInv, Tamper  PROVE SessionInv'
<1>0. SessionTypeOK /\ PlanInv /\ PairInv /\ OrderInv /\ InstallInv /\ SideInv
        /\ FilesInv /\ ChallengeInv
  BY DEF SessionInv
<1>1. rev \in Rev /\ files \in Disk /\ strays \subseteq Rev \X Path
      /\ artifact.bytes \notin Others /\ artifact.bytes # None /\ "changed" \in Bytes
  BY <1>0, ArtifactTypes DEF SessionTypeOK, Disk, Others
<1>2. PICK p \in Path : \E bytes \in {"changed", None} :
        /\ Looked(p) /\ files[rev][p] # bytes
        /\ files' = [files EXCEPT ![rev][p] = bytes]
        /\ Left(rev, p, \/ p \in Existing[rev]
                        \/ bytes # None /\ (files[rev][p] = None \/ <<rev, p>> \in strays))
  BY DEF Tamper
<1>3. PICK bytes \in {"changed", None} :
        /\ Looked(p) /\ files[rev][p] # bytes
        /\ files' = [files EXCEPT ![rev][p] = bytes]
        /\ Left(rev, p, \/ p \in Existing[rev]
                        \/ bytes # None /\ (files[rev][p] = None \/ <<rev, p>> \in strays))
  BY <1>2
<1>4. UNCHANGED <<plan, pc, op, artifact, rev, pair, installed, installs, alive, results,
                  error>>
  BY DEF Tamper
<1>5. strays' \in {strays \cup {<<rev, p>>}, strays \ {<<rev, p>>}}
      /\ (\/ p \in Existing[rev]
          \/ bytes # None /\ (files[rev][p] = None \/ <<rev, p>> \in strays)
          => <<rev, p>> \in strays')
  BY <1>3 DEF Left
<1>6. bytes \in Bytes \cup {None} /\ bytes # artifact.bytes
  BY <1>1, <1>3 DEF Others
<1>7. files' \in Disk  BY <1>1, <1>3, <1>6, WriteFile
<1>8. /\ files'[rev][p] = bytes
      /\ \A r \in Rev : \A q \in Path :
           r # rev \/ q # p => files'[r][q] = files[r][q]
                              /\ (<<r, q>> \in strays => <<r, q>> \in strays')
  <2>1. files'[rev][p] = bytes  BY <1>1, <1>3 DEF Disk
  <2>2. \A r \in Rev : \A q \in Path : r # rev \/ q # p => files'[r][q] = files[r][q]
    BY <1>1, <1>3 DEF Disk
  <2>3. \A r \in Rev : \A q \in Path :
          (r # rev \/ q # p) /\ <<r, q>> \in strays => <<r, q>> \in strays'
    BY <1>5
  <2> QED  BY <2>1, <2>2, <2>3
<1> USE DEF plan, pair, content, results
<1>9. strays' \subseteq Rev \X Path  BY <1>1, <1>5
<1>10. SessionTypeOK'  BY <1>0, <1>4, <1>7, <1>9 DEF SessionTypeOK, Disk
<1>11. PlanInv'  BY <1>0, <1>4 DEF PlanInv
<1>12. PairInv'  BY <1>0, <1>4 DEF PairInv, Gone
<1>13. OrderInv'  BY <1>0, <1>4 DEF OrderInv
<1>14. InstallInv'  BY <1>0, <1>4 DEF InstallInv
<1>15. SideInv'
  <2>1. artifact.path \in Path  BY <1>0, ArtifactTypes
  <2>2. files'[rev][artifact.path] = artifact.bytes
          => files[rev][artifact.path] = artifact.bytes
    BY <1>1, <1>6, <1>8, <2>1
  <2> HIDE DEF plan, pair, content, results
  <2>3. UNCHANGED <<pc, rev, side, artifact, mode>>  BY <1>4 DEF plan, results
  <2> QED  BY <1>0, <2>2, <2>3 DEF SideInv, Comparable
<1>16. FilesInv'
  <2>1. artifact.path \in Path  BY <1>0, ArtifactTypes
  <2>2. pc \in Injected => files'[rev][artifact.path] \in {artifact.bytes, "changed", None}
    BY <1>0, <1>1, <1>3, <1>8, <2>1 DEF FilesInv
  <2>3. ASSUME InPair, artifact.parses, NEW r \in Rev, NEW q \in Path \ Existing[r]
        PROVE  \/ files'[r][q] = None \/ <<r, q>> \in strays'
               \/ pc \in Injected /\ r = rev /\ q = artifact.path
    <3>1. \/ files[r][q] = None \/ <<r, q>> \in strays
          \/ pc \in Injected /\ r = rev /\ q = artifact.path
      BY <1>0, <2>3 DEF FilesInv
    <3>2. CASE r # rev \/ q # p  BY <1>8, <3>1, <3>2
    <3>3. CASE r = rev /\ q = p  BY <1>5, <1>8, <3>1, <3>3
    <3> QED  BY <3>2, <3>3
  <2> QED  BY <1>4, <2>2, <2>3 DEF FilesInv, InPair
<1>17. ChallengeInv'  BY <1>0, <1>4 DEF ChallengeInv, DiscriminatingIsComparable
<1> QED
  BY <1>10, <1>11, <1>12, <1>13, <1>14, <1>15, <1>16, <1>17 DEF SessionInv

(* HEAD is run after the callback, in an environment that is installed.    *)
LEMMA CallbackKeeps ==
  ASSUME SessionInv, Callback  PROVE SessionInv'
<1>0. SessionTypeOK /\ PlanInv /\ PairInv /\ OrderInv /\ InstallInv /\ SideInv
        /\ FilesInv /\ ChallengeInv
  BY DEF SessionInv
<1> USE DEF Callback, plan, pair, content, results
<1>1. SessionTypeOK'
  BY <1>0 DEF SessionTypeOK, NoResults
<1>2. PlanInv'  BY <1>0 DEF PlanInv
<1>3. PairInv'  BY DEF PairInv
<1>4. OrderInv'  BY <1>0 DEF OrderInv
<1>5. InstallInv'  BY <1>0 DEF InstallInv, SessionTypeOK, Active, OrderInv
<1>6. SideInv'
  BY <1>0 DEF SideInv, Active, Observed, Comparable
<1>7. FilesInv'
  BY <1>0 DEF FilesInv, InPair, Active, Injected
<1>8. ChallengeInv'  BY <1>0 DEF ChallengeInv, DiscriminatingIsComparable
<1> QED  BY <1>1, <1>2, <1>3, <1>4, <1>5, <1>6, <1>7, <1>8 DEF SessionInv

(* The next candidate meets the files the last one left.                   *)
LEMMA ChooseKeeps ==
  ASSUME SessionInv, Choose  PROVE SessionInv'
<1>0. SessionTypeOK /\ PlanInv /\ PairInv /\ OrderInv /\ InstallInv /\ SideInv
        /\ FilesInv /\ ChallengeInv
  BY DEF SessionInv
<1> USE DEF Choose, plan, pair, content, results
<1>1. SessionTypeOK'
  BY <1>0, SessionAssumption DEF SessionTypeOK, Rev, NoResults
<1>2. PlanInv'  BY <1>0 DEF PlanInv
<1>3. PairInv'  BY <1>0 DEF PairInv, Gone, SessionTypeOK
<1>4. OrderInv'  BY <1>0 DEF OrderInv, SessionTypeOK, Observed
<1>5. InstallInv'  BY <1>0 DEF InstallInv, Active, Rev
<1>6. SideInv'
  BY DEF SideInv, Observed
<1>7. FilesInv'
  BY <1>0 DEF FilesInv, InPair, Active, Injected, OrderInv
<1>8. ChallengeInv'  BY DEF ChallengeInv, DiscriminatingIsComparable
<1> QED  BY <1>1, <1>2, <1>3, <1>4, <1>5, <1>6, <1>7, <1>8 DEF SessionInv

(* A session of its own pair ends by removing it.                          *)
LEMMA StopKeeps ==
  ASSUME SessionInv, Stop  PROVE SessionInv'
<1>0. SessionTypeOK /\ PlanInv /\ PairInv /\ OrderInv /\ InstallInv /\ SideInv
        /\ FilesInv /\ ChallengeInv
  BY DEF SessionInv
<1> USE DEF Stop, plan, pair, content, results
<1>1. SessionTypeOK'
  BY <1>0 DEF SessionTypeOK
<1>2. PlanInv'  BY <1>0 DEF PlanInv
<1>3. PairInv'  BY <1>0 DEF PairInv, Gone, SessionTypeOK
<1>4. OrderInv'  BY <1>0 DEF OrderInv, Observed
<1>5. InstallInv'  BY <1>0 DEF InstallInv, Active
<1>6. SideInv'
  BY DEF SideInv, Active, Observed
<1>7. FilesInv'
  BY DEF FilesInv, InPair, Active, Injected
<1>8. ChallengeInv'  BY <1>0 DEF ChallengeInv, DiscriminatingIsComparable
<1> QED  BY <1>1, <1>2, <1>3, <1>4, <1>5, <1>6, <1>7, <1>8 DEF SessionInv

(* Removal says nothing of the session's results.                          *)
LEMMA RemoveWorktreeKeeps ==
  ASSUME SessionInv, RemoveWorktree  PROVE SessionInv'
<1>0. SessionTypeOK /\ PlanInv /\ PairInv /\ OrderInv /\ InstallInv /\ SideInv
        /\ FilesInv /\ ChallengeInv
  BY DEF SessionInv
<1> USE DEF RemoveWorktree, plan, pair, content, results
<1>1. SessionTypeOK'
  BY <1>0, SessionAssumption DEF SessionTypeOK, Rev
<1>2. PlanInv'  BY <1>0 DEF PlanInv
<1>3. PairInv'  BY DEF PairInv
<1>4. OrderInv'  BY <1>0 DEF OrderInv
<1>5. InstallInv'  BY <1>0 DEF InstallInv
<1>6. SideInv'
  BY <1>0 DEF SideInv, Active
<1>7. FilesInv'
  BY <1>0 DEF FilesInv, InPair
<1>8. ChallengeInv'  BY <1>0 DEF ChallengeInv, DiscriminatingIsComparable
<1> QED  BY <1>1, <1>2, <1>3, <1>4, <1>5, <1>6, <1>7, <1>8 DEF SessionInv

(* What is left of a pair is reported unless an error is active.           *)
LEMMA RemoveRootKeeps ==
  ASSUME SessionInv, RemoveRoot  PROVE SessionInv'
<1>0. SessionTypeOK /\ PlanInv /\ PairInv /\ OrderInv /\ InstallInv /\ SideInv
        /\ FilesInv /\ ChallengeInv
  BY DEF SessionInv
<1> USE DEF RemoveRoot, Reported, plan, pair, content, results
<1>1. SessionTypeOK'
  BY <1>0 DEF SessionTypeOK
<1>2. PlanInv'  BY <1>0 DEF PlanInv
<1>3. PairInv'  BY DEF PairInv, Gone
<1>4. OrderInv'  BY <1>0 DEF OrderInv, Observed
<1>5. InstallInv'  BY <1>0 DEF InstallInv, Active
<1>6. SideInv'
  BY DEF SideInv, Active, Observed
<1>7. FilesInv'
  BY DEF FilesInv, InPair, Active, Injected
<1>8. ChallengeInv'  BY <1>0 DEF ChallengeInv, DiscriminatingIsComparable
<1> QED  BY <1>1, <1>2, <1>3, <1>4, <1>5, <1>6, <1>7, <1>8 DEF SessionInv

(* An exception of the cleanup is an error of the session.                 *)
LEMMA CleanupTimeoutKeeps ==
  ASSUME SessionInv, CleanupTimeout  PROVE SessionInv'
<1>0. SessionTypeOK /\ PlanInv /\ PairInv /\ OrderInv /\ InstallInv /\ SideInv
        /\ FilesInv /\ ChallengeInv
  BY DEF SessionInv
<1> USE DEF CleanupTimeout, plan, pair, content, results
<1>1. SessionTypeOK'
  BY <1>0 DEF SessionTypeOK
<1>2. PlanInv'  BY <1>0 DEF PlanInv
<1>3. PairInv'  BY DEF PairInv
<1>4. OrderInv'  BY <1>0 DEF OrderInv, Observed
<1>5. InstallInv'  BY <1>0 DEF InstallInv, Active
<1>6. SideInv'
  BY DEF SideInv, Active, Observed
<1>7. FilesInv'
  BY DEF FilesInv, InPair, Active, Injected
<1>8. ChallengeInv'  BY <1>0 DEF ChallengeInv, DiscriminatingIsComparable
<1> QED  BY <1>1, <1>2, <1>3, <1>4, <1>5, <1>6, <1>7, <1>8 DEF SessionInv

(* Only a session without an error goes on or ends in silence.             *)
LEMMA CloseKeeps ==
  ASSUME SessionInv, Close  PROVE SessionInv'
<1>0. SessionTypeOK /\ PlanInv /\ PairInv /\ OrderInv /\ InstallInv /\ SideInv
        /\ FilesInv /\ ChallengeInv
  BY DEF SessionInv
<1> USE DEF Close, GoesOn, plan, pair, content, results
<1>1. SessionTypeOK'
  BY <1>0 DEF SessionTypeOK
<1>2. PlanInv'  BY <1>0 DEF PlanInv
<1>3. PairInv'  BY <1>0 DEF PairInv, Gone
<1>4. OrderInv'  BY <1>0 DEF OrderInv, Observed
<1>5. InstallInv'  BY <1>0 DEF InstallInv, Active
<1>6. SideInv'
  BY DEF SideInv, Active, Observed
<1>7. FilesInv'
  BY DEF FilesInv, InPair, Active, Injected
<1>8. ChallengeInv'  BY <1>0 DEF ChallengeInv, DiscriminatingIsComparable
<1> QED  BY <1>1, <1>2, <1>3, <1>4, <1>5, <1>6, <1>7, <1>8 DEF SessionInv
-----------------------------------------------------------------------------
(* A session starts in SessionInv.                                         *)
LEMMA SessionInit == Init => SessionInv
<1> SUFFICES ASSUME Init  PROVE SessionInv
  OBVIOUS
<1> USE DEF Init, Fresh
<1>1. files \in Disk  BY CheckoutIsDisk
<1>2. NoContract \in Contract  BY DEF NoContract, Contract
<1>3. SessionTypeOK
  <2>1. op \in 0 .. MaxCandidates  BY SessionAssumption
  <2>2. installs \in [Rev -> Nat] /\ tree \in [Rev -> {"absent", "partial", "present"}]
    OBVIOUS
  <2>3. side \in [Rev -> Result \cup {None}]  BY DEF NoResults
  <2> HIDE DEF Fresh
  <2> QED  BY <1>1, <1>2, <2>1, <2>2, <2>3 DEF SessionTypeOK, Rev, Disk, Fresh
<1>4. PlanInv /\ PairInv  BY DEF PlanInv, PairInv, Gone
<1>5. OrderInv  BY DEF OrderInv, Probes, Observed
<1>6. InstallInv  BY DEF InstallInv, Rev, Active
<1>7. SideInv  BY DEF SideInv, Active, Observed
<1>8. FilesInv  BY DEF FilesInv, InPair, Active, Injected
<1>9. ChallengeInv  BY DEF ChallengeInv, DiscriminatingIsComparable
<1> QED  BY <1>3, <1>4, <1>5, <1>6, <1>7, <1>8, <1>9 DEF SessionInv

(* The two revisions of a pull request. *)
LEMMA CommittedPair ==
  ASSUME SessionTypeOK
  PROVE  /\ committed.base \in Committed /\ committed.head \in Committed
         /\ ResolvePlan(committed.base, committed.head) \in Contract
<1>1. committed.base \in Committed /\ committed.head \in Committed
  BY SessionAssumption DEF SessionTypeOK
<1> QED  BY <1>1, PlanOfPair

(* Nothing is executed before the plan is made.                            *)
LEMMA MakePlanKeeps ==
  ASSUME SessionInv, MakePlan  PROVE SessionInv'
<1>0. SessionTypeOK /\ PlanInv /\ PairInv /\ OrderInv /\ InstallInv /\ SideInv
        /\ FilesInv /\ ChallengeInv
  BY DEF SessionInv
<1> DEFINE resolved == ResolvePlan(committed.base, committed.head)
<1>1. resolved \in Contract  BY <1>0, CommittedPair
<1>2. /\ pc = "plan" /\ pc' \in {"done", "open"} /\ contract' = resolved
      /\ error' = IF PlanRaises(committed.base, committed.head) THEN "planning" ELSE error
      /\ UNCHANGED <<committed, mode, op, artifact, rev, pair, content, results>>
  BY DEF MakePlan
<1>3. PlanInv'  BY <1>0, <1>2 DEF PlanInv
<1> HIDE DEF resolved
<1> USE DEF pair, content, results
<1>4. SessionTypeOK'  BY <1>0, <1>1, <1>2 DEF SessionTypeOK
<1>5. PairInv'  BY <1>0, <1>2 DEF PairInv, Gone
<1>6. OrderInv'  BY <1>0, <1>2 DEF OrderInv, Observed
<1>7. InstallInv'  BY <1>0, <1>2 DEF InstallInv, Active
<1>8. SideInv'  BY <1>2 DEF SideInv, Active, Observed
<1>9. FilesInv'  BY <1>2 DEF FilesInv, InPair, Active, Injected
<1>10. ChallengeInv'  BY <1>0, <1>2 DEF ChallengeInv, DiscriminatingIsComparable
<1> QED  BY <1>3, <1>4, <1>5, <1>6, <1>7, <1>8, <1>9, <1>10 DEF SessionInv

(* A step that gives a result leaves the pair as it was.  What it does to  *)
(* files and installations is for each action to justify.                  *)
LEMMA GivesKeeps ==
  ASSUME SessionInv, NEW result, Comparable(result), pc \in Active, pc # "callback",
         Gives(result), UNCHANGED <<plan, op, artifact, pair, alive, error>>,
         files' \in Disk, strays' \subseteq Rev \X Path,
         installed' \subseteq Rev, installs' \in [Rev -> Nat],
         \A r \in Rev : r # rev => installs'[r] = installs[r],
         \A r \in Rev : installs'[r] <= 1,
         installed \subseteq installed',
         artifact.parses => \A r \in Rev : \A p \in Path \ Existing[r] :
           files'[r][p] = None \/ <<r, p>> \in strays'
  PROVE  SessionInv'
<1>0. SessionTypeOK /\ PlanInv /\ PairInv /\ OrderInv /\ InstallInv
  BY DEF SessionInv
<1> USE DEF plan, pair
<1>1. /\ \/ pc' = "remove"
         \/ pc' = "choose" /\ mode = "local"
         \/ pc' = "start" /\ rev = "BASE" /\ rev' = "HEAD"
         \/ pc' = "callback" /\ rev = "BASE" /\ rev' = "HEAD" /\ mode = "local"
      /\ rev' \in Rev /\ side' \in [Rev -> Result \cup {None}]
      /\ challenge' \in [observed : ChallengeResult, comparable : BOOLEAN] \cup {None}
      /\ SideInv' /\ ChallengeInv'
  <2> HIDE DEF plan, pair
  <2> QED  BY GivesKeepsResults
<1>2. SessionTypeOK'  BY <1>0, <1>1 DEF SessionTypeOK, Disk
<1>3. PlanInv'  BY <1>0 DEF PlanInv
<1>4. PairInv'  BY <1>0, <1>1 DEF PairInv, SessionTypeOK
<1>5. OrderInv'  BY <1>0, <1>1 DEF OrderInv, Observed
<1>6. InstallInv'
  <2>1. rev \in Rev /\ installed \subseteq Rev  BY <1>0 DEF SessionTypeOK
  <2>2. op = 0 \/ mode = "local" => installed' = Rev
    BY <1>0, <2>1 DEF InstallInv
  <2>3. rev = "BASE" => installs'["HEAD"] = 0 \/ "HEAD" \in installed'
    BY <1>0 DEF InstallInv, Rev
  <2> QED  BY <1>1, <2>2, <2>3 DEF InstallInv, Active
<1>7. FilesInv'  BY <1>1 DEF FilesInv, Injected
<1> QED  BY <1>1, <1>2, <1>3, <1>4, <1>5, <1>6, <1>7 DEF SessionInv

(* A refused artifact leaves no file and no ordinary status.               *)
LEMMA RefuseKeeps ==
  ASSUME SessionInv, Refuse  PROVE SessionInv'
<1> DEFINE status == IF tree[rev] # "present" THEN "PROCESS_ERROR" ELSE "INVALID_ARTIFACT"
<1>1. /\ pc = "start" /\ Gives(Early(status))
      /\ UNCHANGED <<plan, op, artifact, pair, content, error>>
  BY DEF Refuse
<1>2. Comparable(Early(status))
  <2>1. /\ status \in TestExecutionStatus /\ status \notin OrdinaryStatus
        /\ status # "ENVIRONMENT_SETUP_FAILED"
    BY DEF TestExecutionStatus, OrdinaryStatus, EnvironmentalStatus, InvalidTestStatus
  <2> QED  BY <2>1, EarlyIsResult DEF Comparable
<1> HIDE DEF status
<1>3. SessionTypeOK /\ InstallInv /\ FilesInv  BY DEF SessionInv
<1>4. /\ files' \in Disk /\ strays' \subseteq Rev \X Path /\ installed' \subseteq Rev
      /\ installs' \in [Rev -> Nat] /\ alive' = alive
      /\ installs' = installs /\ installed' = installed
      /\ \A r \in Rev : installs'[r] <= 1
  BY <1>1, <1>3 DEF SessionTypeOK, InstallInv, Disk, content
<1>5. artifact.parses => \A r \in Rev : \A p \in Path \ Existing[r] :
        files'[r][p] = None \/ <<r, p>> \in strays'
  BY <1>1, <1>3 DEF FilesInv, InPair, Active, Injected, content
<1> QED  BY <1>1, <1>2, <1>4, <1>5, GivesKeeps DEF Active

(* A file that is written in part is one of strays.                        *)
LEMMA InjectFailsKeeps ==
  ASSUME SessionInv, InjectFails  PROVE SessionInv'
<1>1. /\ pc = "start" /\ Gives(Early("INVALID_ARTIFACT"))
      /\ IF NeedsInstall(rev) THEN Installs(rev, TRUE) ELSE UNCHANGED <<installed, installs>>
      /\ \/ UNCHANGED <<files, strays>>
         \/ /\ files' = [files EXCEPT ![rev][artifact.path] = "partial"]
            /\ Left(rev, artifact.path, TRUE)
      /\ UNCHANGED <<plan, op, artifact, pair, alive, error>>
  BY DEF InjectFails
<1>2. SessionTypeOK /\ InstallInv /\ FilesInv  BY DEF SessionInv
<1>3. Comparable(Early("INVALID_ARTIFACT"))
  <2>1. "INVALID_ARTIFACT" \in TestExecutionStatus \ OrdinaryStatus
    BY DEF TestExecutionStatus, OrdinaryStatus, InvalidTestStatus
  <2> QED  BY <2>1, EarlyIsResult DEF Comparable
<1>4. /\ installed' \subseteq Rev /\ installs' \in [Rev -> Nat]
      /\ \A r \in Rev : r # rev => installs'[r] = installs[r]
      /\ \A r \in Rev : installs'[r] <= 1
      /\ installed \subseteq installed'
  BY <1>1, <1>2, InstallsOnceAtStart
<1>5. /\ artifact.path \in Path /\ "partial" \in Bytes \cup {None} /\ rev \in Rev
      /\ files \in Disk /\ strays \subseteq Rev \X Path
  BY <1>2, ArtifactTypes DEF SessionTypeOK, Disk, Others
<1>6. artifact.parses => \A r \in Rev : \A p \in Path \ Existing[r] :
        files[r][p] = None \/ <<r, p>> \in strays
  BY <1>1, <1>2 DEF FilesInv, InPair, Active, Injected
<1>7. /\ files' \in Disk /\ strays' \subseteq Rev \X Path
      /\ artifact.parses => \A r \in Rev : \A p \in Path \ Existing[r] :
           files'[r][p] = None \/ <<r, p>> \in strays'
  <2>1. CASE UNCHANGED <<files, strays>>  BY <1>5, <1>6, <2>1
  <2>2. CASE /\ files' = [files EXCEPT ![rev][artifact.path] = "partial"]
             /\ Left(rev, artifact.path, TRUE)
    <3>1. files' \in Disk  BY <1>5, <2>2, WriteFile
    <3>2. strays' = strays \cup {<<rev, artifact.path>>}  BY <2>2 DEF Left
    <3>3. \A r \in Rev : \A q \in Path :
            r # rev \/ q # artifact.path => files'[r][q] = files[r][q]
      BY <1>5, <2>2 DEF Disk
    <3> QED  BY <1>5, <1>6, <3>1, <3>2, <3>3
  <2> QED  BY <1>1, <2>1, <2>2
<1> QED  BY <1>1, <1>3, <1>4, <1>7, GivesKeeps DEF Active

(* An installation that fails is one of an executor's fresh pair.          *)
LEMMA SetupFailsKeeps ==
  ASSUME SessionInv, SetupFails  PROVE SessionInv'
<1>1. /\ pc = "start" /\ Gives(Early("ENVIRONMENT_SETUP_FAILED"))
      /\ NeedsInstall(rev) /\ Installs(rev, FALSE)
      /\ UNCHANGED <<plan, op, artifact, pair, files, strays, alive, error>>
  BY DEF SetupFails
<1>2. SessionTypeOK /\ InstallInv /\ FilesInv  BY DEF SessionInv
<1>3. Comparable(Early("ENVIRONMENT_SETUP_FAILED"))
  <2>1. "ENVIRONMENT_SETUP_FAILED" \in TestExecutionStatus \ OrdinaryStatus
    BY DEF TestExecutionStatus, OrdinaryStatus, EnvironmentalStatus
  <2>2. mode # "local"
    BY <1>1, <1>2 DEF InstallInv, Active, SessionTypeOK, NeedsInstall
  <2> QED  BY <2>1, <2>2, EarlyIsResult DEF Comparable
<1>4. /\ installed' \subseteq Rev /\ installs' \in [Rev -> Nat]
      /\ \A r \in Rev : r # rev => installs'[r] = installs[r]
      /\ \A r \in Rev : installs'[r] <= 1
      /\ installed \subseteq installed'
  BY <1>1, <1>2, InstallsOnceAtStart
<1>5. files' \in Disk /\ strays' \subseteq Rev \X Path
  BY <1>1, <1>2 DEF SessionTypeOK, Disk
<1>6. artifact.parses => \A r \in Rev : \A p \in Path \ Existing[r] :
        files'[r][p] = None \/ <<r, p>> \in strays'
  BY <1>1, <1>2 DEF FilesInv, InPair, Active, Injected
<1> QED  BY <1>1, <1>3, <1>4, <1>5, <1>6, GivesKeeps DEF Active

(* The file read before the process starts belongs to the result; one that *)
(* does not parse is never started.                                        *)
LEMMA HashKeeps ==
  ASSUME SessionInv, Hash  PROVE SessionInv'
<1>0. SessionTypeOK /\ PlanInv /\ PairInv /\ OrderInv /\ InstallInv /\ SideInv
        /\ FilesInv /\ ChallengeInv
  BY DEF SessionInv
<1> DEFINE bytes == files[rev][artifact.path]
<1>1. bytes \in Bytes \cup {None}  BY <1>0, ArtifactTypes DEF SessionTypeOK
<1>2. pc = "hash" /\ UNCHANGED <<plan, op, artifact, pair, content, error>>
  BY DEF Hash
<1>3. CASE artifact.parses
  <2> DEFINE begun == [Early("PROCESS_ERROR") EXCEPT !.before = bytes]
  <2>1. side' = [side EXCEPT ![rev] = begun] /\ pc' = "launch"
        /\ rev' = rev /\ challenge' = challenge
    BY <1>3 DEF Hash
  <2>2. begun \in Result /\ begun.status = "PROCESS_ERROR"
    BY <1>1 DEF Early, Result, TestExecutionStatus, EnvironmentalStatus
  <2> HIDE DEF begun, bytes
  <2>3. /\ side' \in [Rev -> Result \cup {None}] /\ side'[rev] = begun
        /\ rev = "HEAD" => side'["BASE"] = side["BASE"]
    BY <1>0, <2>1, <2>2, SideWith
  <2> USE DEF plan, pair, content
  <2>4. SessionTypeOK'  BY <1>0, <1>2, <2>1, <2>3 DEF SessionTypeOK
  <2>5. PlanInv' /\ PairInv'  BY <1>0, <1>2, <2>1 DEF PlanInv, PairInv
  <2>6. OrderInv'  BY <1>0, <1>2, <1>3, <2>1 DEF OrderInv
  <2>7. InstallInv'  BY <1>0, <1>2, <2>1 DEF InstallInv, Active
  <2>8. SideInv'
    <3>1. rev = "HEAD" => Comparable(side["BASE"])  BY <1>0, <1>2 DEF SideInv, Active
    <3>2. rev = "HEAD" => Comparable(side'["BASE"])  BY <2>3, <3>1
    <3>3. rev' = "HEAD" => Comparable(side["BASE"])'
      BY <1>2, <2>1, <3>2 DEF Comparable
    <3>4. begun.status \notin OrdinaryStatus /\ begun.status # "ENVIRONMENT_SETUP_FAILED"
      BY <2>2 DEF OrdinaryStatus
    <3> QED  BY <2>1, <2>2, <2>3, <3>3, <3>4 DEF SideInv
  <2>9. FilesInv'  BY <1>0, <1>2, <2>1 DEF FilesInv, InPair, Active, Injected
  <2>10. ChallengeInv'
    BY <1>0, <1>2, <2>1 DEF ChallengeInv, DiscriminatingIsComparable
  <2> QED  BY <2>4, <2>5, <2>6, <2>7, <2>8, <2>9, <2>10 DEF SessionInv
<1>4. CASE ~artifact.parses
  <2> DEFINE refused == [Early("INVALID_ARTIFACT") EXCEPT !.before = bytes,
                                                          !.after = bytes]
  <2>1. Gives(refused)  BY <1>4 DEF Hash
  <2>2. refused \in Result /\ refused.status = "INVALID_ARTIFACT"
    BY <1>1 DEF Early, Result, TestExecutionStatus, InvalidTestStatus
  <2>3. Comparable(refused)
    <3> HIDE DEF refused
    <3> QED  BY <2>2 DEF Comparable, OrdinaryStatus
  <2> HIDE DEF refused
  <2>4. /\ files' \in Disk /\ strays' \subseteq Rev \X Path /\ installed' \subseteq Rev
        /\ installs' \in [Rev -> Nat] /\ alive' = alive
        /\ installs' = installs /\ installed' = installed
        /\ \A r \in Rev : installs'[r] <= 1
    BY <1>0, <1>2 DEF SessionTypeOK, InstallInv, Disk, content
  <2> QED  BY <1>2, <1>4, <2>1, <2>3, <2>4, GivesKeeps DEF Active
<1> QED  BY <1>3, <1>4

(* The file is removed, or listed as one of strays.                         *)
LEMMA UnlinksKeepsFiles ==
  ASSUME SessionInv, pc \in Injected, artifact.parses, Unlinks
  PROVE  /\ files' \in Disk /\ strays' \subseteq Rev \X Path
         /\ \A r \in Rev : \A p \in Path \ Existing[r] :
              files'[r][p] = None \/ <<r, p>> \in strays'
<1>0. SessionTypeOK /\ FilesInv  BY DEF SessionInv
<1>1. /\ artifact.path \in Path /\ None \in Bytes \cup {None} /\ rev \in Rev
      /\ files \in Disk /\ strays \subseteq Rev \X Path
  BY <1>0, ArtifactTypes DEF SessionTypeOK, Disk
<1>2. \A r \in Rev : \A p \in Path \ Existing[r] :
        \/ files[r][p] = None \/ <<r, p>> \in strays
        \/ r = rev /\ p = artifact.path
  BY <1>0 DEF FilesInv, InPair, Active, Injected
<1>3. PICK removed \in BOOLEAN :
        /\ files' = Remaining(rev, removed)
        /\ strays' = IF ~removed THEN strays \cup {<<rev, artifact.path>>}
                                  ELSE strays \ {<<rev, artifact.path>>}
  BY DEF Unlinks, Left
<1>4. CASE removed
  <2>1. /\ files' = [files EXCEPT ![rev][artifact.path] = None]
        /\ strays' = strays \ {<<rev, artifact.path>>}
    BY <1>3, <1>4 DEF Remaining
  <2>2. /\ files' \in Disk /\ files'[rev][artifact.path] = None
        /\ \A s \in Rev : \A q \in Path :
             s # rev \/ q # artifact.path => files'[s][q] = files[s][q]
    <3>1. files' \in Disk  BY <1>1, <2>1, WriteFile
    <3>2. files'[rev][artifact.path] = None  BY <1>1, <2>1 DEF Disk
    <3>3. \A s \in Rev : \A q \in Path :
             s # rev \/ q # artifact.path => files'[s][q] = files[s][q]
      BY <1>1, <2>1 DEF Disk
    <3> QED  BY <3>1, <3>2, <3>3
  <2> QED  BY <1>1, <1>2, <2>1, <2>2
<1>5. CASE ~removed
  <2>1. files' = files /\ strays' = strays \cup {<<rev, artifact.path>>}
    BY <1>3, <1>5 DEF Remaining
  <2> QED  BY <1>1, <1>2, <2>1
<1> QED  BY <1>4, <1>5

(* The result that is handed on is one of the bytes the process read.      *)
LEMMA FinishKeeps ==
  ASSUME SessionInv, Finish  PROVE SessionInv'
<1>0. SessionTypeOK /\ OrderInv /\ InstallInv /\ SideInv /\ FilesInv
  BY DEF SessionInv
<1> DEFINE ended == side[rev]
           bytes == files[rev][artifact.path]
           result == [ended EXCEPT !.after = bytes]
<1>1. /\ pc = "finish" /\ Gives(result) /\ Unlinks
      /\ UNCHANGED <<plan, op, artifact, pair, alive, installed, installs, error>>
  BY DEF Finish
<1>2. /\ ended \in Result /\ ended.status # "ENVIRONMENT_SETUP_FAILED"
      /\ ended.status \in OrdinaryStatus =>
           ended.cases = 1 /\ (bytes = artifact.bytes => ended.ran = artifact.bytes)
  BY <1>0, <1>1 DEF SideInv, Observed
<1>3. bytes \in Bytes \cup {None}  BY <1>0, ArtifactTypes DEF SessionTypeOK
<1> HIDE DEF ended, bytes
<1>4. /\ result \in Result /\ result.after = bytes /\ result.status = ended.status
      /\ result.ran = ended.ran /\ result.cases = ended.cases
  BY <1>2, <1>3, FinalResult
<1> HIDE DEF result
<1>5. Comparable(result)  BY <1>2, <1>4 DEF Comparable
<1>6. artifact.parses  BY <1>0, <1>1 DEF OrderInv, Observed
<1>7. /\ files' \in Disk /\ strays' \subseteq Rev \X Path
      /\ \A r \in Rev : \A p \in Path \ Existing[r] :
           files'[r][p] = None \/ <<r, p>> \in strays'
  BY <1>1, <1>6, UnlinksKeepsFiles DEF Injected
<1>8. /\ installed' \subseteq Rev /\ installs' \in [Rev -> Nat]
      /\ installs' = installs /\ installed' = installed
      /\ \A r \in Rev : installs'[r] <= 1
  BY <1>0, <1>1 DEF SessionTypeOK, InstallInv
<1> QED  BY <1>1, <1>5, <1>7, <1>8, GivesKeeps DEF Active
-----------------------------------------------------------------------------
(* Every step of the program, of a test or of nobody keeps SessionInv.     *)
LEMMA SessionNext == SessionInv /\ [Next]_vars => SessionInv'
<1> SUFFICES ASSUME SessionInv, [Next]_vars  PROVE SessionInv'
  OBVIOUS
<1>1. CASE MakePlan  BY <1>1, MakePlanKeeps
<1>2. CASE Open \/ OpenFails  BY <1>2, OpenKeeps, OpenFailsKeeps
<1>3. CASE AddWorktree \/ AddWorktreeFails
  BY <1>3, AddWorktreeKeeps, AddWorktreeFailsKeeps
<1>4. CASE PrepareEnvironment  BY <1>4, PrepareEnvironmentKeeps
<1>5. CASE Refuse \/ Inject \/ InjectFails \/ SetupFails
  BY <1>5, RefuseKeeps, InjectKeeps, InjectFailsKeeps, SetupFailsKeeps
<1>6. CASE Hash \/ Launch  BY <1>6, HashKeeps, LaunchKeeps
<1>7. CASE Timeout \/ KillFails \/ Finish
  BY <1>7, TimeoutKeeps, KillFailsKeeps, FinishKeeps
<1>8. CASE Callback \/ Choose \/ Stop  BY <1>8, CallbackKeeps, ChooseKeeps, StopKeeps
<1>9. CASE RemoveWorktree \/ RemoveRoot \/ CleanupTimeout \/ Close
  BY <1>9, RemoveWorktreeKeeps, RemoveRootKeeps, CleanupTimeoutKeeps, CloseKeeps
<1>10. CASE Exit \/ Tamper  BY <1>10, ExitKeeps, TamperKeeps
<1>11. CASE UNCHANGED vars
  <2> USE <1>11 DEF vars, plan, pair, content, results
  <2>0. SessionTypeOK /\ PlanInv /\ PairInv /\ OrderInv /\ InstallInv /\ SideInv
          /\ FilesInv /\ ChallengeInv
    BY DEF SessionInv
  <2>1. SessionTypeOK'  BY <2>0 DEF SessionTypeOK
  <2>2. PlanInv' /\ PairInv'  BY <2>0 DEF PlanInv, PairInv, Gone
  <2>3. OrderInv'  BY <2>0 DEF OrderInv
  <2>4. InstallInv'  BY <2>0 DEF InstallInv
  <2>5. SideInv'  BY <2>0 DEF SideInv, Comparable
  <2>6. FilesInv'  BY <2>0 DEF FilesInv, InPair
  <2>7. ChallengeInv'  BY <2>0 DEF ChallengeInv, DiscriminatingIsComparable
  <2> QED  BY <2>1, <2>2, <2>3, <2>4, <2>5, <2>6, <2>7 DEF SessionInv
<1> QED
  BY <1>1, <1>2, <1>3, <1>4, <1>5, <1>6, <1>7, <1>8, <1>9, <1>10, <1>11 DEF Next, Step

(* SessionInv holds in every session. *)
THEOREM SessionInvariant == Spec => []SessionInv
BY SessionInit, SessionNext, PTL DEF Spec

(* Every variable of a session keeps its type: what the runner leaves is a *)
(* result of the model's shape, and a plan is a contract.                  *)
THEOREM SessionTypeCorrect == Spec => []SessionTypeOK
<1>1. SessionInv => SessionTypeOK  BY DEF SessionInv
<1> QED  BY <1>1, SessionInvariant, PTL

(* A pull request executes only under the one contract that both of its    *)
(* revisions imply (resolve_product_execution_plan), a probed contract     *)
(* passes the validation of InstallPlan, and planning raises for nothing   *)
(* but an oversized manifest that it reads.                                *)
THEOREM PlansAreShared == Spec => []PlanIsShared
<1>1. SessionInv => PlanIsShared
  <2> SUFFICES ASSUME SessionInv  PROVE PlanIsShared
    OBVIOUS
  <2>1. SessionTypeOK /\ PlanInv  BY DEF SessionInv
  <2>2. committed.base \in Committed /\ committed.head \in Committed
    BY <2>1, CommittedPair
  <2>3. contract # NoContract => Shared(contract, committed.base, committed.head)
    BY <2>1, <2>2, PlanOfPair DEF PlanInv
  <2>4. ASSUME error = "planning"
        PROVE  /\ contract = NoContract
               /\ \E files_ \in {committed.base, committed.head} :
                    /\ files_.pyproject = "oversized" /\ ~files_.lock
                    /\ files_.contract = "absent"
    BY <2>1, <2>2, <2>4, RaisedByOversized DEF PlanInv
  <2> QED  BY <2>3, <2>4 DEF Shared, PlanIsShared
<1> QED  BY <1>1, SessionInvariant, PTL

(* create_pair never ends without its worktrees and its directory being    *)
(* gone or its caller getting an error.                                    *)
THEOREM NothingIsLeftSilently == Spec => []NothingLeftSilently
<1>1. SessionInv => NothingLeftSilently
  BY DEF SessionInv, PairInv, Gone, NothingLeftSilently
<1> QED  BY <1>1, SessionInvariant, PTL

(* A worktree's install commands run once at most, however many candidates *)
(* use it, and a candidate of a shared pair never fails in its setup.      *)
THEOREM InstallsOnce == Spec => []InstalledOnce
<1>1. SessionInv => InstalledOnce
  BY DEF SessionInv, InstallInv, ChallengeInv, InstalledOnce
<1> QED  BY <1>1, SessionInvariant, PTL

(* A discriminating classification compares two processes that read the    *)
(* same bytes and selected one test each, whatever tests do to their file. *)
THEOREM DiscriminationIsComparable == Spec => []DiscriminatingIsComparable
<1>1. SessionInv => DiscriminatingIsComparable  BY DEF SessionInv, ChallengeInv
<1> QED  BY <1>1, SessionInvariant, PTL

(* A running test shares its worktree with no file of another attempt,     *)
(* except where its removal or its writing failed or a process made it:    *)
(* those the runner leaves, and no others.                                 *)
THEOREM AttemptsAreIsolated == Spec => []AttemptsIsolated
<1>1. SessionInv => AttemptsIsolated
  <2> SUFFICES ASSUME SessionInv, pc = "running",
                      NEW p \in Path \ Existing[rev]
               PROVE  IF p = artifact.path
                      THEN files[rev][p] \in {artifact.bytes, "changed", None}
                      ELSE files[rev][p] = None \/ <<rev, p>> \in strays
    BY DEF AttemptsIsolated
  <2>1. FilesInv /\ rev \in Rev /\ artifact.parses
    BY DEF SessionInv, SessionTypeOK, OrderInv, Observed
  <2>2. InPair /\ pc \in Injected  BY DEF InPair, Active, Injected
  <2> QED  BY <2>1, <2>2 DEF FilesInv
<1> QED  BY <1>1, SessionInvariant, PTL
=============================================================================
