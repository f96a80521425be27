--------------------------- MODULE TaskPipelineMC ---------------------------
(* Small instances of TaskPipeline for TLC. *)
EXTENDS TaskPipeline, TLC

CONSTANTS r1, r2, p1, va, vb, d1, d2, app, w1, w2, c1, c2, c3

Event(d, rev, at, installation) ==
  [delivery |-> d, pr |-> p1, revision |-> rev, head_updated_at |-> at,
   installation |-> installation]

(* One webhook event. *)
OneEvent     == {Event(d1, va, 1, app)}
(* A second event: a newer HEAD (from the product API, which has no        *)
(* installation), or the same HEAD with a newer timestamp.                 *)
NewerHead    == OneEvent \cup {Event(d2, vb, 2, None)}
Relabel      == OneEvent \cup {Event(d2, va, 2, app)}

(* The verdicts that matter to the pipeline. *)
MCDocuments ==
  {[mechanical |-> verdict[1], outcome |-> verdict[2], by |-> w] :
     verdict \in {<<"DISCRIMINATING", "CLAIM_SUPPORTED_FOR_SCENARIO">>,
                  <<"ENVIRONMENTAL", "INSUFFICIENT_EVIDENCE">>,
                  <<"INVALID_TEST", "INSUFFICIENT_EVIDENCE">>},
     w \in Worker}
MCPayloads == {FormatGithubCheck(r, report) : r \in RunId, report \in MCDocuments}

(* At most so many faults of each kind. *)
Faults(crashes, deadlines, exceptions, dispatches, delistings) ==
  [crash |-> crashes, deadline |-> deadlines, exception |-> exceptions,
   dispatch |-> dispatches, delisting |-> delistings]
NoFaults     == Faults(0, 0, 0, 0, 0)
Restarts     == Faults(3, 1, 0, 1, 1)
Overlaps     == Faults(0, 1, 1, 0, 1)
OneCrash     == Faults(1, 0, 0, 0, 0)

MCSymmetry == Permutations(RunId) \cup Permutations(Worker) \cup Permutations(CheckId)
=============================================================================
