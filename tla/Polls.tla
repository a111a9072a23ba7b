------------------------------- MODULE Polls --------------------------------
(***************************************************************************)
(* One poll of a release after the other: a status of its HelmRelease, and *)
(* what the listing of its workloads answers if it is asked for.           *)
(***************************************************************************)
EXTENDS Classify

CONSTANTS
  Statuses,  \* what a HelmRelease may show
  Listings,  \* what the workload listing may answer
  Version    \* the version that is promoted

ASSUME PollsAssumption ==
  /\ \A s \in Statuses : {s.suspended, s.stalled, s.testFailed, s.released} \subseteq BOOLEAN
  /\ Unread \in Listings /\ \A l \in Listings : l.read \in BOOLEAN /\ (~l.read => l = Unread)

VARIABLES
  status,  \* the HelmRelease
  listing  \* its workloads

pollVars == <<status, listing>>

PollInit == status \in Statuses /\ listing = Unread

\* A poll reads any status, and the workload listing answers anything.
Poll == status' \in Statuses /\ listing' \in Listings

PollSpec == PollInit /\ [][Poll]_pollVars

Decision == Evaluate(status, Version, listing)

\* A READY decision rests on everything it claims: the spec is reconciled, the
\* requested version is installed, Ready is True, nothing says otherwise, and a
\* listing that was really read shows every workload converged.
ReadyMeansConverged ==
  Decision.terminal /\ Decision.verdict = "READY" =>
    /\ ~status.suspended /\ ~status.stalled
    /\ ~(status.testFailed /\ status.released)
    /\ status.generation = status.observed
    /\ status.history = Version
    /\ status.ready = "True"
    /\ listing.read /\ listing.pending = {}

\* Asking in two steps loses nothing: listing the workloads of every release,
\* converged or not, and deciding once would give the same decision.
TwoStepsDecideAsOne ==
  LET once == Classify(status, Version, listing)
  IN listing.read => Decision = once

\* classify: READY is said of what has converged, and asking for the workloads only when it
\* matters changes no decision.
PollsAreJudged == ReadyMeansConverged /\ TwoStepsDecideAsOne
=============================================================================
