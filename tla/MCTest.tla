------------------------------- MODULE MCTest -------------------------------
(* PromoteTest on the statuses that preflight tells apart. *)
EXTENDS PromoteTest

CONSTANTS r1, r2  \* the releases

Ready == [suspended |-> FALSE, released |-> TRUE, lagging |-> FALSE]
SomeStatuses == {Ready, [Ready EXCEPT !.suspended = TRUE], [Ready EXCEPT !.released = FALSE],
                 [Ready EXCEPT !.lagging = TRUE]}

Rank(state) == CASE state = "Absent" -> 0 [] state = "Stale" -> 1 [] OTHER -> 2

\* A release that is ready and has no pods, and one that may be anything.  Nobody looks at
\* the pods of a release that preflight stops, and which of two pods is which makes no
\* difference: those starts are taken once.
MCInit ==
  /\ TestInit
  /\ status[r1] = Ready /\ \A p \in PodNames : pods[r1][p] = "Absent"
  /\ status[r2] # Ready => \A p \in PodNames : pods[r2][p] = "Absent"
  /\ Rank(pods[r2]["p"]) <= Rank(pods[r2]["q"])

MCFairSpec == MCInit /\ [][TestNext]_vars /\ Fairness
=============================================================================
