------------------------------ MODULE Upgrade ------------------------------
(***************************************************************************)
(* `chart upgrade` (commands/upgrade/run.py), which lets Renovate propose  *)
(* the updates of a wrapper chart, and `upgrade-finalize` (finalize.py),   *)
(* which Renovate calls in its checkout to bump the version of the wrapper *)
(* and to write its changelog.                                             *)
(*                                                                         *)
(* Runs may be killed, and finalize may be, between its two writes.  A     *)
(* branch of an earlier run is built upon or made anew.  Renovate, GitHub, *)
(* upstream and the reviewers are modelled by what the code relies on.     *)
(***************************************************************************)
EXTENDS EventLedger

CONSTANTS
  Updates,    \* the kinds of updates that may come out
  MaxRuns,    \* invocations of `chart upgrade`, numbered in the order in which they start
  MaxActive,  \* how many overlap
  MaxPRs      \* bound on the pull requests that are opened

ASSUME UpgradeAssumption ==
  /\ Updates \subseteq {"image", "dependency", "other"}
  /\ MaxRuns \in Nat /\ MaxActive \in Nat /\ MaxPRs \in Nat

Runs == 1 .. MaxRuns

\* What a lookup, and the reading of a version, leave when they fail.
Unknown == MaxPRs + 1
Unread == <<>>

\* Updates are of an image, of a Helm dependency to a new major version, or "other": of no
\* concern to the wrapper's version.
WrapperVersions == Nat \X Nat
Wrapper(v, log) == [version |-> v, log |-> log]
Fresh == Wrapper(<<0, 0>>, {})
NoBranch == [pushed |-> FALSE]
NoPR == 0

VARIABLES
  upstream,  \* the updates that are out and not in main
  main,      \* the version and the changelog of the chart on the main branch
  branch,    \* what was last pushed to the upgrade branch
  pr,        \* the number of its open pull request
  prs,       \* how many were opened
  events,    \* the stored events
  step,      \* where each run is
  existing,  \* the pull request it found before Renovate ran, or Unknown
  prior,     \* the version that one proposed, as far as it could be read
  base,      \* main, as Renovate checked it out
  tree,      \* its checkout
  applied,   \* the updates it applied
  told,      \* the updates that finalize knows of
  current,   \* the pull request found after
  proposed,  \* the version that one proposes, as far as it could be read
  blind,     \* whether a lookup or a read before Renovate failed
  pushed,    \* every version that was on an upgrade branch
  turn,      \* how often a push changed what is proposed
  seen,      \* at which turn a run read the version that it reports
  unsaid     \* the versions that a run left on the branch and could not put on record

world == <<upstream, main, branch, pr, prs, pushed, turn>>
looking == <<existing, prior, current, proposed, blind, seen>>
record == <<events, unsaid>>
checkout == <<base, tree, applied, told>>
upgradeVars == <<world, record, step, looking, checkout>>

UpgradeInit ==
  /\ upstream = {} /\ main = Fresh /\ branch = NoBranch /\ pr = NoPR /\ prs = 0
  /\ events = {} /\ unsaid = {} /\ pushed = {} /\ turn = 0
  /\ step = [p \in Runs |-> "idle"]
  /\ existing = [p \in Runs |-> Unknown] /\ prior = [p \in Runs |-> Unread]
  /\ current = [p \in Runs |-> Unknown] /\ proposed = [p \in Runs |-> Unread]
  /\ base = [p \in Runs |-> Fresh] /\ tree = [p \in Runs |-> Fresh]
  /\ applied = [p \in Runs |-> {}] /\ told = [p \in Runs |-> {}]
  /\ blind = [p \in Runs |-> FALSE]
  /\ seen = [p \in Runs |-> 0]

Active == {p \in Runs : step[p] \notin {"idle", "over"}}
Moves(p, label) == step' = [step EXCEPT ![p] = label]

\* A run whose Renovate is over has no checkout any more.
Leave(p) ==
  /\ base' = [base EXCEPT ![p] = Fresh] /\ tree' = [tree EXCEPT ![p] = Fresh]
  /\ applied' = [applied EXCEPT ![p] = {}] /\ told' = [told EXCEPT ![p] = {}]

\* A run that ends forgets what it knew.
Forget(p) ==
  /\ existing' = [existing EXCEPT ![p] = Unknown] /\ prior' = [prior EXCEPT ![p] = Unread]
  /\ current' = [current EXCEPT ![p] = Unknown] /\ proposed' = [proposed EXCEPT ![p] = Unread]
  /\ Leave(p)

\* A run that pushed, and that ends without having seen what, leaves it without an event.
LeaveUnsaid(left) == unsaid' = unsaid \union (IF left.pushed THEN {left.tree.version} ELSE {})

\* Without an event, nothing is left of what one would have rested on.
Unreported(p) == blind' = [blind EXCEPT ![p] = FALSE] /\ seen' = [seen EXCEPT ![p] = 0]

-----------------------------------------------------------------------------
(***************************************************************************)
(* Before Renovate.                                                        *)
(***************************************************************************)

\* The inputs are resolved and clean, or the run raises; a dry run looks for no pull
\* request, pushes nothing and leaves no event, and is over.
StartRun(p) ==
  /\ step[p] = "idle" /\ (\A q \in 1 .. p - 1 : step[q] # "idle") /\ Cardinality(Active) < MaxActive
  /\ Moves(p, "find") \/ Moves(p, "over")
  /\ UNCHANGED <<world, record, looking, checkout>>

\* The open pull request of the chart, or none, or no answer.
FindExisting(p) ==
  /\ step[p] = "find"
  /\ \/ existing' = [existing EXCEPT ![p] = pr] /\ UNCHANGED blind
     \/ existing' = [existing EXCEPT ![p] = Unknown] /\ blind' = [blind EXCEPT ![p] = TRUE]
  /\ Moves(p, "prior")
  /\ UNCHANGED <<world, record, prior, current, proposed, seen, checkout>>

\* What may be read: the version on the branch, if there is a pull request, or nothing.
Readable(found) ==
  {Unread} \union IF found \notin {Unknown, NoPR} /\ branch.pushed THEN {branch.tree.version} ELSE {}

\* Read before Renovate can rewrite the branch.
ReadPrior(p) ==
  /\ step[p] = "prior"
  /\ \E version \in Readable(existing[p]) :
       /\ prior' = [prior EXCEPT ![p] = version]
       /\ blind' = [blind EXCEPT ![p] = @ \/ (existing[p] # NoPR /\ version = Unread)]
  /\ Moves(p, "renovate")
  /\ UNCHANGED <<world, record, existing, current, proposed, seen, checkout>>

-----------------------------------------------------------------------------
(***************************************************************************)
(* Renovate's checkout, and finalize in it.                                *)
(***************************************************************************)

\* Mutant: finalize is handed the updates of another run.
Renovate_Stale(p) ==
  /\ step[p] = "renovate"
  /\ base' = [base EXCEPT ![p] = main] /\ applied' = [applied EXCEPT ![p] = upstream]
  /\ tree' = [tree EXCEPT ![p] = main] /\ told' = [told EXCEPT ![p] = Updates]
  /\ Moves(p, IF upstream = {} THEN "push" ELSE "decide")
  /\ UNCHANGED <<world, record, looking>>

\* Renovate starts from main, or from a branch that still fits it, applies what is out,
\* and hands finalize the metadata, or none: then it sees the dependencies alone.
Renovate(p) ==
  /\ step[p] = "renovate"
  /\ base' = [base EXCEPT ![p] = main] /\ applied' = [applied EXCEPT ![p] = upstream]
  /\ \E from \in {main} \union (IF branch.pushed /\ branch.base = main THEN {branch.tree} ELSE {}) :
       tree' = [tree EXCEPT ![p] = from]
  /\ \E known \in {upstream, upstream \intersect {"dependency"}} : told' = [told EXCEPT ![p] = known]
  /\ Moves(p, IF upstream = {} THEN "push" ELSE "decide")
  /\ UNCHANGED <<world, record, looking>>

Qualifying(updates) == updates \intersect {"image", "dependency"}

\* Mutant: every run bumps the version it finds.
TargetVersion_FromTree(p) ==
  LET v == tree[p].version
  IN IF "dependency" \in told[p] THEN <<v[1] + 1, 0>> ELSE <<v[1], v[2] + 1>>

\* One bump above the baseline: major if an update is.
TargetVersion(p) ==
  LET v == base[p].version
  IN IF "dependency" \in told[p] THEN <<v[1] + 1, 0>> ELSE <<v[1], v[2] + 1>>

\* _decide refuses a version that is neither the baseline nor the target.
Refused(p) ==
  IF Qualifying(told[p]) = {} THEN tree[p].version # base[p].version
  ELSE tree[p].version \notin {base[p].version, TargetVersion(p)}

\* finalize decides; refused, or without anything that qualifies, it writes nothing, and
\* Renovate pushes what it has.
Decide(p) ==
  /\ step[p] = "decide"
  /\ Moves(p, IF Refused(p) \/ Qualifying(told[p]) = {} THEN "push" ELSE "chart")
  /\ UNCHANGED <<world, record, looking, checkout>>

\* The first write: the version.
WriteChart(p) ==
  /\ step[p] = "chart"
  /\ tree' = [tree EXCEPT ![p].version = TargetVersion(p)] /\ Moves(p, "changelog")
  /\ UNCHANGED <<world, record, looking, base, applied, told>>

Section(p) == [version |-> TargetVersion(p), updates |-> Qualifying(told[p])]

\* The section of the target is written anew.
Logged(p) == {s \in tree[p].log : s.version # TargetVersion(p)} \union {Section(p)}

\* The second write: the changelog.
WriteChangelog(p) ==
  /\ step[p] = "changelog"
  /\ tree' = [tree EXCEPT ![p].log = Logged(p)] /\ Moves(p, "finalized")
  /\ UNCHANGED <<world, record, looking, base, applied, told>>

\* finalize fails, before or between its writes; Renovate notes it and goes on.
FinalizeFails(p) ==
  /\ step[p] \in {"decide", "chart", "changelog"}
  /\ Moves(p, "push")
  /\ UNCHANGED <<world, record, looking, checkout>>

\* Renovate pushes the checkout and opens a pull request, prunes the branch when nothing
\* is out, or does neither, at a limit of its own.  It may also fail or report an error.
PushBranch(p) ==
  /\ step[p] \in {"push", "finalized"}
  /\ \/ UNCHANGED <<branch, pr, prs, pushed, turn>>
     \/ /\ applied[p] = {}
        /\ branch' = NoBranch /\ pr' = NoPR /\ UNCHANGED <<prs, pushed, turn>>
     \/ /\ applied[p] # {} /\ (pr # NoPR \/ prs < MaxPRs)
        /\ branch' = [pushed |-> TRUE, base |-> base[p], tree |-> tree[p], told |-> told[p],
                      finalized |-> step[p] = "finalized"]
        /\ pushed' = pushed \union {tree[p].version}
        /\ turn' = IF branch.pushed /\ branch.tree.version = tree[p].version THEN turn ELSE turn + 1
        /\ IF pr = NoPR THEN pr' = prs + 1 /\ prs' = prs + 1 ELSE UNCHANGED <<pr, prs>>
  /\ \/ Moves(p, "lookup") /\ Leave(p) /\ UNCHANGED <<looking, unsaid>>
     \/ Moves(p, "over") /\ Forget(p) /\ Unreported(p) /\ LeaveUnsaid(branch')
  /\ UNCHANGED <<upstream, main, events>>

-----------------------------------------------------------------------------
(***************************************************************************)
(* After Renovate.                                                         *)
(***************************************************************************)

\* The pull request that is open now.
FindCurrent(p) ==
  /\ step[p] = "lookup" /\ Moves(p, "read")
  /\ \E found \in {pr, Unknown} : current' = [current EXCEPT ![p] = found]
  /\ UNCHANGED <<world, record, existing, prior, proposed, blind, seen, checkout>>

\* The version that it proposes.
ReadProposed(p) ==
  /\ step[p] = "read" /\ Moves(p, "emit")
  /\ \E version \in Readable(current[p]) : proposed' = [proposed EXCEPT ![p] = version]
  /\ seen' = [seen EXCEPT ![p] = turn]
  /\ UNCHANGED <<world, record, existing, prior, current, blind, checkout>>

Status(p) ==
  IF Unknown \in {existing[p], current[p]} THEN "status_unknown"
  ELSE IF current[p] = NoPR THEN "no_changes"
  ELSE IF existing[p] = NoPR THEN "pr_open" ELSE "pr_updated"

Proposes(p) == Status(p) \in {"pr_open", "pr_updated"} /\ proposed[p] # Unread

\* An event is written, or is lost.
PutOnRecord(p) ==
  \/ /\ events' = Write(events, Event("chart", proposed[p], "pr_open", Stamp(0, 0), current[p], NoKey, p), p)
     /\ UNCHANGED <<unsaid, blind, seen>>
  \/ UNCHANGED events /\ unsaid' = unsaid \union {proposed[p]} /\ Unreported(p)

\* Mutant: a re-run is a transition too.
EmitPrOpen_Rerun(p) ==
  /\ step[p] = "emit" /\ Moves(p, "over") /\ Forget(p) /\ UNCHANGED world
  /\ IF Proposes(p) THEN PutOnRecord(p)
     ELSE UNCHANGED events /\ Unreported(p) /\ IF Status(p) = "no_changes" THEN UNCHANGED unsaid ELSE LeaveUnsaid(branch)

\* emit_pr_open: a proposal that has changed is appended to the ledger.
EmitPrOpen(p) ==
  /\ step[p] = "emit" /\ Moves(p, "over") /\ Forget(p) /\ UNCHANGED world
  /\ IF Proposes(p) /\ prior[p] # proposed[p] THEN PutOnRecord(p)
     ELSE /\ UNCHANGED events /\ Unreported(p)
          /\ IF Proposes(p) \/ Status(p) = "no_changes" THEN UNCHANGED unsaid ELSE LeaveUnsaid(branch)

KillRun(p) ==
  /\ p \in Active /\ Moves(p, "over") /\ Forget(p) /\ Unreported(p)
  /\ IF step[p] \in {"lookup", "read", "emit"} THEN LeaveUnsaid(branch) ELSE UNCHANGED unsaid
  /\ UNCHANGED <<world, events>>

Running(p) ==
  \/ StartRun(p) \/ FindExisting(p) \/ ReadPrior(p) \/ Renovate(p) \/ Decide(p) \/ WriteChart(p)
  \/ WriteChangelog(p) \/ FinalizeFails(p) \/ PushBranch(p) \/ FindCurrent(p)
  \/ ReadProposed(p) \/ EmitPrOpen(p)

-----------------------------------------------------------------------------
(***************************************************************************)
(* Everybody else.                                                         *)
(***************************************************************************)

\* An update comes out.
Released ==
  /\ \E u \in Updates \ upstream : upstream' = upstream \union {u}
  /\ UNCHANGED <<main, branch, pr, prs, pushed, turn>>

\* A branch that still fits main is merged.
Merged ==
  /\ pr # NoPR /\ branch.base = main
  /\ main' = branch.tree /\ upstream' = {} /\ pr' = NoPR /\ branch' = NoBranch
  /\ UNCHANGED <<prs, pushed, turn>>

\* A pull request is closed, and its branch goes with it or stays.
Closed ==
  /\ pr # NoPR /\ pr' = NoPR /\ branch' \in {branch, NoBranch}
  /\ UNCHANGED <<upstream, main, prs, pushed, turn>>

Others == (Released \/ Merged \/ Closed) /\ UNCHANGED <<record, step, looking, checkout>>

UpgradeNext == (\E p \in Runs : Running(p) \/ KillRun(p)) \/ Others

UpgradeSpec == UpgradeInit /\ [][UpgradeNext]_upgradeVars

-----------------------------------------------------------------------------
(***************************************************************************)
(* Properties.                                                             *)
(***************************************************************************)

\* Every variable keeps its type.
UpgradeTypeOK ==
  /\ upstream \subseteq Updates /\ main.version \in WrapperVersions /\ branch.pushed \in BOOLEAN
  /\ prs \in 0 .. MaxPRs /\ pr \in 0 .. prs
  /\ pushed \subseteq WrapperVersions /\ unsaid \subseteq pushed
  /\ turn \in Nat
  /\ \A p \in Runs :
       /\ {existing[p], current[p]} \subseteq {Unknown} \union 0 .. prs
       /\ {prior[p], proposed[p]} \subseteq {Unread} \union WrapperVersions
       /\ base[p].version \in WrapperVersions /\ tree[p].version \in WrapperVersions
       /\ told[p] \subseteq applied[p] /\ applied[p] \subseteq Updates
       /\ blind[p] \in BOOLEAN /\ seen[p] \in 0 .. turn
  /\ Cardinality(Active) <= MaxActive

\* finalize.py, _decide: the versions that are one bump above a version.
Bumps(v) == {<<v[1] + 1, 0>>, <<v[1], v[2] + 1>>}

\* finalize.py: a branch on which finalize came to its end adds to main one bump and one
\* section, which holds the updates it was told of, whatever earlier runs left on the
\* branch: other updates, or half of the writes.
FinalizedOnce ==
  branch.pushed /\ branch.finalized =>
    \E v \in Bumps(branch.base.version) :
      branch.tree = Wrapper(v, branch.base.log \union {[version |-> v, updates |-> Qualifying(branch.told)]})

\* finalize.py: no branch is two bumps above main, whether finalize came to its end on it,
\* failed in it, or refused it because an earlier run had left it at the other target.
BumpedOnce == branch.pushed => branch.tree.version \in {branch.base.version} \union Bumps(branch.base.version)

\* telemetry.py: an event of the ledger names a version that was on an upgrade branch.
EventsAreProposals == \A e \in events : e.phase = "pr_open" => e.version \in pushed

\* telemetry.py: "An unchanged proposal is a re-run, not a transition."  While a pull request
\* proposes a version it has one event of it, unless runs overlap, or one could not see the
\* other's.  A version that is proposed again after another one is a transition.
RerunIsSilent ==
  MaxActive = 1 =>
    \A e, f \in events :
      e # f /\ e.version = f.version /\ e.detail = f.detail /\ seen[e.id[2]] = seen[f.id[2]] =>
        blind[e.id[2]] \/ blind[f.id[2]]

\* telemetry.py: "every version's timeline must start with `PR_OPEN`."  A run that stays
\* silent about the version it finds proposed, because it found it proposed before, may: the
\* version is on record.  The exception is exact, and the ledger never makes up for it: the
\* run that pushed the version was killed, failed, lost its event or could not look.
SilenceIsEarned ==
  MaxActive = 1 =>
    \A p \in Runs :
      step[p] = "emit" /\ Proposes(p) /\ prior[p] = proposed[p] =>
        proposed[p] \in {e.version : e \in events} \union unsaid

\* finalize.py: what is pushed is finalized once and bumped once.
BranchIsFinalized == FinalizedOnce /\ BumpedOnce

\* telemetry.py: the ledger follows the pull request: an event names what was proposed, what
\* was proposed has an event, and a re-run adds none.
ProposalsAreOnRecord == EventsAreProposals /\ RerunIsSilent /\ SilenceIsEarned
=============================================================================
