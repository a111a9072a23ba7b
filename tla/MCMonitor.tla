----------------------------- MODULE MCMonitor -----------------------------
(* PromoteMonitor on a cluster with a few telling statuses. *)
EXTENDS PromoteMonitor, TLC

Symmetric == Permutations(Releases)

MCVersion == "new"

Healthy == [suspended |-> FALSE, stalled |-> FALSE, ready |-> "True", reason |-> "UpgradeSucceeded",
            testFailed |-> FALSE, testReason |-> "", released |-> TRUE,
            generation |-> 2, observed |-> 2, history |-> MCVersion]
\* The spec was changed, and Flux has not seen it yet.
Lagging == [Healthy EXCEPT !.observed = 1, !.history = "old"]
\* Flux is upgrading; then the new version is in the history, and not yet ready.
Upgrading == [Healthy EXCEPT !.ready = "Unknown", !.reason = "Progressing", !.history = "old"]
Installed == [Upgrading EXCEPT !.history = MCVersion]
Failed == [Healthy EXCEPT !.ready = "False", !.reason = "UpgradeFailed", !.history = "old"]
Stalled == [Failed EXCEPT !.stalled = TRUE]
TestsRed == [Installed EXCEPT !.testFailed = TRUE]
Suspended == [Healthy EXCEPT !.suspended = TRUE]

\* Statuses that end a watch, or do not; and statuses on the way to Healthy.
EndStatuses == {Upgrading, Healthy, Failed, Stalled, TestsRed, Suspended}
WayStatuses == {Lagging, Installed, Healthy}
FewStatuses == {Healthy, Failed, Suspended}

SomeRollouts == {Unread, Listed({}), Listed({"web"})}
=============================================================================
