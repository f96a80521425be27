------------------------------ MODULE Planning ------------------------------
(***************************************************************************)
(* How a revision pair gets its execution contract: the install commands   *)
(* that DependencyInstallProber derives from committed files               *)
(* (install_strategy.py), the validation a contract passes                 *)
(* (execution_contract.py) and resolve_product_execution_plan              *)
(* (product_preparation.py), which lets a pair execute only when both      *)
(* revisions imply the same contract.                                      *)
(*                                                                         *)
(* A command is its template and the one value the template may carry.    *)
(***************************************************************************)
EXTENDS Naturals, Sequences, Functions

TestGroups == <<"test", "tests", "dev", "testing">>
TestExtras == <<"test", "tests", "testing", "dev", "develop", "development">>

(* Committed requirements files, shorter names first, and those whose name *)
(* carries a development marker.                                           *)
Requirements == <<"requirements.txt", "requirements-dev.txt",
                  "requirements/base.txt", "requirements/extra.txt">>
Development  == {"requirements-dev.txt"}

(* What probing and contract loading read of one revision.  "malformed"    *)
(* stands for a pyproject.toml that is undecodable or no TOML, "oversized" *)
(* for one beyond the probe's byte budget.                                 *)
Committed ==
  [lock: BOOLEAN, setup: BOOLEAN,
   pyproject: {"absent", "malformed", "oversized", "project", "build", "neither"},
   groups: SUBSET Range(TestGroups), extras: SUBSET Range(TestExtras),
   requirements: SUBSET Range(Requirements),
   contract: {"absent", "invalid", "locked", "all-groups", "synthesized"}]

Command(do, of) == [do |-> do, of |-> of]
Venv     == Command("venv", "")
Pytest   == Command("install", "pytest")
Editable == Command("editable", "")
-----------------------------------------------------------------------------
(* _project_metadata: a malformed manifest counts as an absent one, and    *)
(* only a [project] table can declare extras.                              *)
Readable(files)    == files.pyproject \in {"project", "build", "neither"}
Installable(files) == files.setup \/ files.pyproject \in {"project", "build"}
Extras(files)      == IF files.pyproject = "project" THEN files.extras ELSE {}
Groups(files)      == IF Readable(files) THEN files.groups ELSE {}

(* _first_match: the first name that is declared, or None. *)
NoName == ""
FirstMatch(preference, declared) ==
  LET hits == {i \in DOMAIN preference : preference[i] \in declared}
  IN  IF hits = {} THEN NoName
      ELSE preference[CHOOSE i \in hits : \A j \in hits : i <= j]

(* _select_requirements_path: the exact name first, else the shortest.     *)
SelectRequirements(files) == FirstMatch(Requirements, files.requirements \ Development)

(* _read_pyproject refuses an oversized manifest with an error that it     *)
(* does not catch, and neither does its caller: probing raises.            *)
Unsupported == [strategy |-> "UNSUPPORTED", commands |-> <<>>]
Raised      == [strategy |-> "RAISED", commands |-> <<>>]
Plan(strategy, commands) == [strategy |-> strategy, commands |-> commands]

(* DependencyInstallProber.probe *)
Probe(files) ==
  LET group == FirstMatch(TestGroups, Groups(files))
      extra == FirstMatch(TestExtras, Extras(files))
      reqs  == SelectRequirements(files)
  IN  IF files.lock /\ files.pyproject # "absent"
      THEN Plan("UV_SYNC_LOCKED", <<Command("sync", "frozen"), Pytest>>)
      ELSE IF files.pyproject = "oversized" THEN Raised
      ELSE IF ~Installable(files) THEN Unsupported
      ELSE IF group # NoName
      THEN Plan("UV_PIP_EDITABLE_WITH_TEST_EXTRA",
                <<Venv, Editable, Command("group", group), Pytest>>)
      ELSE IF extra # NoName
      THEN Plan("UV_PIP_EDITABLE_WITH_TEST_EXTRA",
                <<Venv, Command("editable", extra), Pytest>>)
      ELSE IF reqs # NoName
      THEN Plan("UV_PIP_EDITABLE_WITH_REQUIREMENTS",
                <<Venv, Command("requirements", reqs), Editable, Pytest>>)
      ELSE Plan("UV_PIP_EDITABLE", <<Venv, Editable, Pytest>>)
-----------------------------------------------------------------------------
(* ExecutionContractLoader.load_bytes and validate_install_commands: a     *)
(* repository may only declare a frozen sync.  NoContract: it is refused.  *)
InstallCommand ==
  [do: {"venv", "install", "editable", "group", "requirements", "sync"},
   of: {"", "pytest", "frozen", "all-groups"}
         \cup UNION {Range(l) : l \in {TestGroups, TestExtras, Requirements}}]
Contract   == [synthesized: BOOLEAN, install: Seq(InstallCommand)]
NoContract == [synthesized |-> FALSE, install |-> <<>>]
Load(contract) ==
  CASE contract = "locked" ->
         [synthesized |-> FALSE, install |-> <<Command("sync", "frozen")>>]
    [] contract = "all-groups" ->
         [synthesized |-> FALSE, install |-> <<Command("sync", "all-groups")>>]
    [] contract = "synthesized" ->       \* a file that claims the flag itself
         [synthesized |-> TRUE, install |-> <<Venv, Editable, Pytest>>]
    [] OTHER -> NoContract

(* InstallPlan.__post_init__ and validate_probed_install_command: the      *)
(* templates whose variable token is allowlisted.                          *)
ValidCommand(command) ==
  \/ command \in {Venv, Pytest, Editable, Command("sync", "frozen")}
  \/ command.do = "group" /\ command.of \in Range(TestGroups)
  \/ command.do = "editable" /\ command.of \in Range(TestExtras)
  \/ command.do = "requirements" /\ command.of \in Range(Requirements)
ValidInstall(commands) ==
  Len(commands) \in 1 .. 4 /\ \A i \in DOMAIN commands : ValidCommand(commands[i])

(* resolve_contract_for_pair and synthesize_contract. *)
Probed(files) == Probe(files) \notin {Unsupported, Raised}

SynthesizeHead(base, head) ==                     \* variant: HEAD's plan alone
  IF ~Probed(head) THEN NoContract
  ELSE [synthesized |-> TRUE, install |-> Probe(head).commands]
ResolveForPair(base, head) ==
  LET install == Probe(head).commands
  IN  IF ~Probed(base) \/ ~Probed(head) \/ Probe(base).commands # install
      THEN NoContract
      ELSE [synthesized |-> TRUE, install |-> install]

(* resolve_product_execution_plan: NoContract stands for its               *)
(* UnsupportedExecutionPlanError, and for the error of a probe that raises *)
(* (both revisions are probed when neither declares a contract).           *)
Declares(base, head)  == {base.contract, head.contract} # {"absent"}
PlanRaises(base, head) ==
  ~Declares(base, head) /\ Raised \in {Probe(base), Probe(head)}

ResolvePlan(base, head) ==
  LET declared == Load(head.contract)
  IN  IF ~Declares(base, head)
      THEN ResolveForPair(base, head)
      ELSE IF declared.synthesized \/ Load(base.contract) # declared
      THEN NoContract
      ELSE declared
=============================================================================
