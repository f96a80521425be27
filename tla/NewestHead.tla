----------------------------- MODULE NewestHead -----------------------------
(***************************************************************************)
(* What the run store promises about a pull request, whatever the order in *)
(* which its events arrive: the revision under verification is a register  *)
(* that only an event with a strictly newer timestamp may write.  Late and *)
(* duplicate events change nothing.                                        *)
(***************************************************************************)
CONSTANTS PullRequest, Revision, HeadTime, Unknown

VARIABLE newest      \* pull request -> newest known head, or Unknown

LOCAL INSTANCE Integers

Head == [revision: Revision, at: HeadTime]

TypeOK == newest \in [PullRequest -> Head \cup {Unknown}]

Init == newest = [pr \in PullRequest |-> Unknown]

Observe(pr, head) ==
  /\ newest[pr] = Unknown \/ head.at > newest[pr].at
  /\ newest' = [newest EXCEPT ![pr] = head]

Next == \E pr \in PullRequest, head \in Head : Observe(pr, head)

Spec == Init /\ [][Next]_newest
=============================================================================
