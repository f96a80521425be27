------------------------- MODULE ChallengeSessionMC -------------------------
(* A small instance of ChallengeSession for TLC. *)
EXTENDS ChallengeSession, TLC

Bare == [lock |-> FALSE, setup |-> FALSE, pyproject |-> "absent", groups |-> {},
         extras |-> {}, requirements |-> {}, contract |-> "absent"]

Project     == [Bare EXCEPT !.pyproject = "project"]
Locked      == [Project EXCEPT !.lock = TRUE]
Malformed   == [Locked EXCEPT !.pyproject = "malformed", !.lock = FALSE]
Oversized   == [Malformed EXCEPT !.pyproject = "oversized", !.setup = TRUE]
OversizedLocked == [Oversized EXCEPT !.lock = TRUE, !.setup = FALSE]
Grouped     == [Project EXCEPT !.groups = {"dev", "test"}]
WithExtra   == [Project EXCEPT !.extras = {"dev", "testing"}]
BuildOnly   == [WithExtra EXCEPT !.pyproject = "build"]
Legacy      == [Bare EXCEPT !.setup = TRUE,
                  !.requirements = {"requirements-dev.txt", "requirements/base.txt"}]
LegacyDev   == [Bare EXCEPT !.setup = TRUE, !.requirements = {"requirements-dev.txt"}]
Declaring(c) == [Locked EXCEPT !.contract = c]

(* Every kind of repository against every other. *)
Kinds == {Bare, Project, Locked, Malformed, Oversized, OversizedLocked, Grouped,
          WithExtra, BuildOnly, Legacy, LegacyDev, Declaring("locked"),
          Declaring("all-groups"), Declaring("synthesized"), Declaring("invalid")}
MCPairs    == [base: Kinds, head: Kinds]
MCExplored == [base: {Project}, head: {LegacyDev}]

Candidate(path, bytes, parses) == [path |-> path, bytes |-> bytes, parses |-> parses]
MCArtifacts == {Candidate("p", "x", TRUE), Candidate("q", "y", TRUE),
                Candidate("p", "y", FALSE)}

(* The pull request deleted q: its path is taken on BASE only. *)
MCExisting == [r \in Rev |-> IF r = "BASE" THEN {"q"} ELSE {}]

Ended(exit, xml, cases, child, marks) ==
  [exit |-> exit, xml |-> xml, cases |-> cases, child |-> child, marks |-> marks]
MCReports ==
  {Ended(0, "read", 1, "none", {}), Ended(1, "read", 1, "failure", {"assertion"}),
   Ended(0, "read", 2, "none", {}), Ended(5, "missing", 0, "none", {})}
=============================================================================
