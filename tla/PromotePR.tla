----------------------------- MODULE PromotePR -----------------------------
(***************************************************************************)
(* `promote pr` (commands/promote/pr.py) against one flux repository: an   *)
(* invocation clones the base branch, finds the HelmRelease files whose    *)
(* version drifted, pushes a branch that sets them and opens a PR.         *)
(*                                                                         *)
(* Invocations overlap, fail at any step and are killed between steps; a   *)
(* later invocation is the re-run.  The remote, GitHub and its reviewers   *)
(* are the environment: they merge, close, amend and edit while the        *)
(* invocations work on what they cloned.  The event that says how an       *)
(* invocation ended is written last, and may be lost.                      *)
(***************************************************************************)
EXTENDS EventLedger

CONSTANTS
  Invocations,   \* runs of `promote pr`, for one chart and environment
  Files,         \* the HelmRelease files of that chart
  Versions,      \* versions, ordered as numbers; 0 is a string that is no version
  MaxCommits,    \* bound on the commits
  MaxActive      \* how many invocations overlap

ASSUME PRAssumption ==
  /\ IsFiniteSet(Invocations) /\ IsFiniteSet(Files)
  /\ Versions \subseteq Nat
  /\ MaxCommits \in Nat /\ MaxActive \in Nat \ {0}

VARIABLES
  commits,  \* number of commits made; the next one has this id
  base,     \* the version each file has on the base branch
  remote,   \* the pushed promotion branches, by name
  prs,      \* the open PRs
  pc,       \* where each invocation is, or how it ended
  want,     \* the version it promotes
  clone,    \* what it cloned of the base branch
  consent,  \* whether a downgrade was agreed to
  opened,   \* how many PRs were opened for each version
  status,   \* the PromoteStatus that it reports in the end
  ledger,   \* the stored events
  lost      \* whether its event was not written

reporting == <<status, ledger, lost>>
vars == <<commits, base, remote, prs, pc, want, clone, consent, opened, reporting>>

\* Every file at one version.
AllAt(v) == [f \in Files |-> v]

\* A promotion branch: its own commits, what it started from, what it leads to, and
\* whether its downgrades were agreed to.
NewBranch(id, from, to, agreed) == [log |-> {id}, from |-> from, to |-> to, agreed |-> agreed]

\* A PR is known by its version and its number among the PRs of that version.
NewPR(n, b, v) == [number |-> n, branch |-> b, version |-> v]

\* Two strings that are not both versions are not compared.
Newer(v, w) == v # 0 /\ w # 0 /\ v > w

\* Mutant: every invocation has a branch of its own.
BranchName_Unique(p, v) == <<p, v>>

\* promote/<environment>/<chart>-<version>: the same request, the same branch.
BranchName(p, v) == <<v>>

Branch(p) == BranchName(p, want[p])
Pushed(b) == b \in DOMAIN remote
OpenPR(b) == \E pr \in prs : pr.branch = b
Forget(b) == [x \in DOMAIN remote \ {b} |-> remote[x]]
Hold(b, r) == [x \in DOMAIN remote \union {b} |-> IF x = b THEN r ELSE remote[x]]

Statuses == {"NO_CHANGES", "DRY_RUN", "ABORTED", "ALREADY_OPEN", "PR_OPENED", "PUSHED"}
Final == {"done", "failed", "rejected", "orphaned"}
Active == {p \in Invocations : pc[p] \notin Final \union {"idle"}}

-----------------------------------------------------------------------------
Init ==
  /\ commits = 0
  /\ base \in [Files -> Versions]
  /\ remote = << >>
  /\ prs = {}
  /\ pc = [p \in Invocations |-> "idle"]
  /\ want \in [Invocations -> Versions]
  /\ clone = [p \in Invocations |-> base]
  /\ consent = [p \in Invocations |-> FALSE]
  /\ opened = [v \in Versions |-> 0]
  /\ status = [p \in Invocations |-> "NO_CHANGES"]
  /\ ledger = {} /\ lost = [p \in Invocations |-> FALSE]

GoTo(p, label) == pc' = [pc EXCEPT ![p] = label]

\* It is over but for the event.
Report(p, end) == GoTo(p, "emit") /\ status' = [status EXCEPT ![p] = end] /\ UNCHANGED <<ledger, lost>>

\* git, gh, the scan or an edit fails, or the process is killed: nothing is undone.
Fail(p) ==
  /\ p \in Active
  /\ GoTo(p, "failed")
  /\ UNCHANGED <<commits, base, remote, prs, want, clone, consent, opened, reporting>>

\* A fresh clone of the base branch.
Clone(p) ==
  /\ pc[p] = "idle"
  /\ Cardinality(Active) < MaxActive
  /\ clone' = [clone EXCEPT ![p] = base]
  /\ GoTo(p, "cloned")
  /\ UNCHANGED <<commits, base, remote, prs, want, consent, opened, reporting>>

Drift(p) == {f \in Files : clone[p][f] # want[p]}

\* Mutant: no version is newer than another.
Downgrades_None(p) == {}

Downgrades(p) == {f \in Drift(p) : Newer(clone[p][f], want[p])}

\* The clone is scanned.  No drift wins over a dry run; a downgrade is put to the
\* operator, who is refused a prompt when there is no terminal.
Decide(p) ==
  /\ pc[p] = "cloned"
  /\ \/ Drift(p) = {} /\ Report(p, "NO_CHANGES") /\ UNCHANGED consent
     \/ Drift(p) # {} /\ Report(p, "DRY_RUN") /\ UNCHANGED consent
     \/ Drift(p) # {} /\ Downgrades(p) # {} /\ Report(p, "ABORTED") /\ UNCHANGED consent
     \/ /\ Drift(p) # {}
        /\ consent' = [consent EXCEPT ![p] = Downgrades(p) # {}]
        /\ GoTo(p, "look") /\ UNCHANGED reporting
  /\ UNCHANGED <<commits, base, remote, prs, want, clone, opened>>

\* An open PR from this branch makes the request done.
FindPR(p) ==
  /\ pc[p] = "look"
  /\ IF OpenPR(Branch(p)) THEN Report(p, "ALREADY_OPEN") ELSE GoTo(p, "push") /\ UNCHANGED reporting
  /\ UNCHANGED <<commits, base, remote, prs, want, clone, consent, opened>>

\* Mutant: the push is forced.
Push_Force(p) ==
  /\ pc[p] = "push"
  /\ commits < MaxCommits
  /\ remote' = Hold(Branch(p), NewBranch(commits, clone[p], AllAt(want[p]), consent[p]))
  /\ commits' = commits + 1
  /\ GoTo(p, "create")
  /\ UNCHANGED <<base, prs, want, clone, consent, opened, reporting>>

\* The drifted files are edited, committed on a branch that starts from the clone,
\* and pushed without force.  A shallow clone knows no commit of a branch of that
\* name that is on the remote already, so that the push is refused.
Push(p) ==
  /\ pc[p] = "push"
  /\ commits < MaxCommits
  /\ \/ /\ ~Pushed(Branch(p))
        /\ remote' = Hold(Branch(p), NewBranch(commits, clone[p], AllAt(want[p]), consent[p]))
        /\ commits' = commits + 1
        /\ GoTo(p, "create")
     \/ /\ Pushed(Branch(p))
        /\ GoTo(p, "rejected")
        /\ UNCHANGED <<remote, commits>>
  /\ UNCHANGED <<base, prs, want, clone, consent, opened, reporting>>

\* GitHub opens the PR unless the branch is gone or has one.  The answer may carry
\* no URL, and the call may fail whether or not the PR was opened.
CreatePR(p) ==
  /\ pc[p] = "create"
  /\ \/ /\ Pushed(Branch(p)) /\ ~OpenPR(Branch(p))
        /\ prs' = prs \union {NewPR(opened[want[p]] + 1, Branch(p), want[p])}
        /\ opened' = [opened EXCEPT ![want[p]] = @ + 1]
        /\ \/ \E end \in {"PR_OPENED", "PUSHED"} : Report(p, end)
           \/ GoTo(p, "orphaned") /\ UNCHANGED reporting
     \/ GoTo(p, "orphaned") /\ UNCHANGED <<prs, opened, reporting>>
  /\ UNCHANGED <<commits, base, remote, want, clone, consent>>

None == "none"

\* Mutant: who finds the PR open has nothing to say.
PromotePhase_OpenIsSilent(end) ==
  CASE end = "ABORTED" -> "ABANDONED"
    [] end \in {"PR_OPENED", "PUSHED"} -> "FLUX_PR_OPEN" [] OTHER -> None

\* What each status is on the timeline; no changes and a dry run leave no mark.
PromotePhase(end) ==
  CASE end = "ABORTED" -> "ABANDONED" [] end = "ALREADY_OPEN" -> "AWAITING_MERGE"
    [] end \in {"PR_OPENED", "PUSHED"} -> "FLUX_PR_OPEN" [] OTHER -> None

\* The event is appended, or lost without a word of it in the result.
Emit(p) ==
  /\ pc[p] = "emit" /\ GoTo(p, "done")
  /\ LET phase == PromotePhase(status[p])
     IN \/ phase = None /\ UNCHANGED <<ledger, lost>>
        \/ /\ phase # None
           /\ ledger' = Write(ledger, Event("chart", want[p], phase, Stamp(0, 0), Branch(p), NoKey, p), p)
           /\ UNCHANGED lost
        \/ phase # None /\ lost' = [lost EXCEPT ![p] = TRUE] /\ UNCHANGED ledger
  /\ UNCHANGED <<commits, base, remote, prs, want, clone, consent, opened, status>>

-----------------------------------------------------------------------------
(***************************************************************************)
(* The remote and its reviewers.                                           *)
(***************************************************************************)

\* git merges a file that the branch changed only when the base still has what the
\* branch started from, or already what it leads to.
Changed(b) == {f \in Files : remote[b].to[f] # remote[b].from[f]}
Mergeable(b) == \A f \in Changed(b) : base[f] \in {remote[b].from[f], remote[b].to[f]}

\* The PR is merged and the branch kept or not.
Merge(b) ==
  /\ OpenPR(b)
  /\ Mergeable(b)
  /\ base' = [f \in Files |-> IF f \in Changed(b) THEN remote[b].to[f] ELSE base[f]]
  /\ prs' = {pr \in prs : pr.branch # b}
  /\ remote' \in {remote, Forget(b)}
  /\ UNCHANGED <<commits, pc, want, clone, consent, opened, reporting>>

\* The PR is closed unmerged, or the branch deleted under it.
ClosePR(b) ==
  /\ prs' = {pr \in prs : pr.branch # b}
  /\ remote' \in {remote, Forget(b)}
  /\ UNCHANGED <<commits, base, pc, want, clone, consent, opened, reporting>>

\* A reviewer pushes a commit of their own on top of the branch.
Amend(b) ==
  /\ commits < MaxCommits
  /\ remote' = [remote EXCEPT ![b].log = @ \union {commits}]
  /\ commits' = commits + 1
  /\ UNCHANGED <<base, prs, pc, want, clone, consent, opened, reporting>>

\* Somebody sets a file on the base branch by hand.
EditBase ==
  /\ commits < MaxCommits
  /\ \E f \in Files, v \in Versions : v # base[f] /\ base' = [base EXCEPT ![f] = v]
  /\ commits' = commits + 1
  /\ UNCHANGED <<remote, prs, pc, want, clone, consent, opened, reporting>>

-----------------------------------------------------------------------------
Invoke(p) ==
  \/ Clone(p)
  \/ Decide(p)
  \/ FindPR(p)
  \/ Push(p)
  \/ CreatePR(p)
  \/ Emit(p)
  \/ Fail(p)

Next ==
  \/ \E p \in Invocations : Invoke(p)
  \/ \E b \in DOMAIN remote : Merge(b) \/ ClosePR(b) \/ Amend(b)
  \/ EditBase

Spec == Init /\ [][Next]_vars

-----------------------------------------------------------------------------
(***************************************************************************)
(* Properties.                                                             *)
(***************************************************************************)

\* Every variable keeps its type.
TypeOK ==
  /\ commits \in 0 .. MaxCommits
  /\ base \in [Files -> Versions]
  /\ \A b \in DOMAIN remote : remote[b].from \in [Files -> Versions] /\ remote[b].to \in [Files -> Versions]
  /\ prs \subseteq [number : Nat, branch : DOMAIN remote, version : Versions]
  /\ pc \in [Invocations -> Final \union {"idle", "cloned", "look", "push", "create", "emit"}]
  /\ status \in [Invocations -> Statuses] /\ lost \in [Invocations -> BOOLEAN]
  /\ opened \in [Versions -> Nat]
  /\ want \in [Invocations -> Versions]
  /\ clone \in [Invocations -> [Files -> Versions]]
  /\ consent \in [Invocations -> BOOLEAN]

\* Same request, same branch, one PR: however invocations overlap, are killed and run
\* again, and whoever pushed the branch that a PR is opened from, no two PRs of a version
\* are open, and an open one leads every file to its version.
OnePRPerRequest ==
  /\ \A x, y \in prs : x.version = y.version => x.number = y.number
  /\ \A x \in prs : remote[x.branch].to = AllAt(x.version)

\* Merging a promotion lowers the version of a file only if its downgrade was
\* agreed to, although the downgrade was looked for in a clone that the base has
\* since moved on from.
NoSilentDowngrade ==
  [][\A b \in DOMAIN remote :
       Merge(b) => \A f \in Files : Newer(base[f], base'[f]) => remote[b].agreed]_vars

\* What reviewers or earlier invocations committed on a promotion branch stays in
\* it until the branch is deleted: no later invocation rewrites it.
BranchIsNeverRewritten ==
  [][\A b \in DOMAIN remote : b \in DOMAIN remote' => remote[b].log \subseteq remote'[b].log]_vars

\* The timeline of a version has no more openings than PRs were opened for it, and nothing
\* waits to be merged before one was, whoever opened it.
EventsAreTrue ==
  \A v \in Versions :
    LET Told(phase) == {e \in ledger : e.version = v /\ e.phase = phase}
    IN /\ Cardinality(Told("FLUX_PR_OPEN")) <= opened[v]
       /\ Told("AWAITING_MERGE") # {} => opened[v] > 0

\* An invocation that ends with a PR leaves the version's PR on the timeline, also when it
\* finds one of an invocation that was killed before it could, unless its event is lost.
OpenIsOnRecord ==
  \A p \in Invocations :
    pc[p] = "done" /\ status[p] \in {"ALREADY_OPEN", "PR_OPENED", "PUSHED"} /\ ~lost[p] =>
      \E e \in ledger : e.version = want[p] /\ e.phase \in {"FLUX_PR_OPEN", "AWAITING_MERGE"}

\* _emit: the timeline of a version tells what became of its PRs, nothing more, and nothing
\* less than the invocations that say that they recorded it.
OnTheTimeline == EventsAreTrue /\ OpenIsOnRecord
=============================================================================
