# lab-charts: a verification of chart-manager

`chart-manager` (`src/src/chart_manager`, about 21 500 lines of Python) takes a Helm
chart from a working tree to a running release: it validates and tests charts on a kind cluster,
publishes them, promotes a version through a Flux repository, watches and tests what Flux makes of
it, and proposes upgrades with Renovate. Around it, `src/charts` and the workflows are data and
callers. Paths below are relative to `src/src/chart_manager` unless they start with `src/`.

This directory holds TLA+ modules translated from that source, the TLC configurations that check
them on small instances, and theorems that hold for every instance, proved with TLAPS.
`PROJECT.json` lists the runs, the lines each definition models, a mutant of the code that breaks
each property, the hazards of the code, and the disagreements with its comments and tests that the
models brought to light.

## Inventory

| Component | State | Operations | What makes it correct |
|---|---|---|---|
| promote: vocabulary (`commands/promote/state.py`) | none | fold of verdicts, phase tables | no bad verdict is folded away; every opened interval has a closing row |
| promote: fan-out (`fanout.py`, `telemetry.py`) | thread pool, `cancel_event`, outcomes, emitted events | match, open, submit, consume, crash, join, close, Ctrl-C | one verdict per release; the interval closes after the last worker, in agreement with the outcomes; the run ends |
| promote monitor (`monitor.py`, `classify.py`) | one `_WatchState` per release | jitter, poll, list workloads, budget checks, cancel | READY rests on everything it claims; a time-out blames the budget that was spent; the display tells the story of the verdict |
| promote test (`test.py`) | test pods in the cluster, budgets | preflight, list, reap, `helm test`, classify | helm starts on nothing that was listed; reaping ends no test that ran at the listing; the subprocess ends with the run |
| promote pr (`pr.py`, `integrations/git.py`, `github.py`) | clone, remote branches, PRs, ledger | clone, scan, confirm, look up, edit, push, create, emit | one PR per request; no silent downgrade; nobody's commits are rewritten; a re-run recovers and puts the PR on record |
| Flux files (`scanner.py`, `editor.py`, `matching.py`) | none | scan, edit, match | the three agree on which HelmReleases a promotion is about, but for charts that YAML reads as numbers |
| cluster reads (`integrations/kubectl.py`) | none | read HelmReleases, workloads, test pods | what is incomplete is waited for, never called ready |
| lifecycle events (`shared/events`, `commands/events`, `integrations/cosmos.py`, `dynamodb.py`) | the ledger | compose, write (append or upsert), list newest first | a re-run writes no second build event; a listing has the newest; failures never change a result |
| publish (`commands/publish`) | registry, ledger | prepare all, push each, emit | nothing is pushed when a preparation fails; one event per digest and at most one without; a strict success is on record |
| cluster (`shared/cluster`, `integrations/kind.py`, `helm.py`) | nodes, releases | provision, converge, bootstrap, stop, delete | a command that is killed half way is recovered by the next |
| local (`commands/local`) | the persistent cluster | up, reset, down, status | what is reported installed is; a reset ends on a new cluster; nothing else loses a release |
| chart test (`commands/test`) | a test cluster | select, plan, run, teardown | requirements first; nothing runs after a failure; cleanups in reverse, all of them |
| validate (`commands/validate/run.py`, `select.py`, `integrations/kubeconform`, `kyverno.py`) | rows, shared dependency updates, schemas | select, render, schema, policy | one update per chart; one schema load; no row lost; a pass is earned |
| schemas (`commands/validate/schemas`) | lock file, shared snapshot store, cache of generated schemas | sync, update, inspect, prepare, generate | a snapshot is complete or absent, whoever is killed; a cache entry is of the bytes in its name |
| charts (`shared/charts`) | vendored dependencies | install plan, freshness, update | requirements first, once each, cycles refused; what is rendered without an update is a resolution of what is declared |
| upgrade (`commands/upgrade`, `integrations/renovate.py`) | upgrade branch, its pull request, ledger | run Renovate, finalize, find the PR, emit | a finalized branch has one bump; an unchanged proposal is no second event, and a silent run finds its version on record |
| plan, doctor, catalog, grafana, plumbing, configuration | none of their own | reads, parsing, wiring | tested per function |

How they interact: every command is one process. Commands share the world outside it: the Flux
remote and GitHub (promote pr, upgrade), the cluster (promote monitor and test, chart test, local),
the ledger (publish, promote, upgrade, `event emit`), the schema store and the lock file (validate,
schemas, doctor), the vendored dependencies of a chart (validate, publish, chart test). Inside a
process there is concurrency in two places only: the thread pool of `promote monitor` and
`promote test` (`run_matched`), with a shared cancel flag, and the row pool of `validate`, with
a lock per chart and one for the schemas.

The hard behaviours: threads that finish, fail and crash in any order while the main thread decides
on a shared flag; three nested time budgets; Ctrl-C at any point; reads that are stale when they are
acted on; commands that overlap or are killed between two external effects; event writes that are
lost; guesses made before anything is rendered. `PROJECT.json` lists them one by one under `hazards`,
at the line where each bites, with the properties that would catch it going wrong.

## Modules

Each module is about one part, and names its definitions after the source's where TLA+ allows it.

| Module | Models | Built on |
|---|---|---|
| `PromotionState` | `state.py`: verdicts, `run_verdict`, `START_PHASE`, `TERMINAL_PHASES` | |
| `Fanout` | `fanout.py`, `telemetry.py`: one stage over its matched releases, with abstract workers | `PromotionState` |
| `Classify`, `Polls` | `classify.py`; the two-step question of `monitor.py` | |
| `PromoteMonitor` | `monitor.py`: the watchers, composed with the fan-out; implements `Fanout` | `Fanout`, `Classify` |
| `PromoteTest` | `test.py`: the testers and the test pods; implements `Fanout` | `Fanout` |
| `EventLedger` | `shared/events`: keys, stamps, writes, selectors, pages | |
| `Timeline` | `event emit`, `event list` | `EventLedger` |
| `PromotePR` | `pr.py` with git, GitHub, reviewers and the ledger | `EventLedger` |
| `Publish` | `chart publish` | `EventLedger` |
| `Upgrade` | `chart upgrade` and `upgrade-finalize` with Renovate and GitHub | `EventLedger` |
| `SnapshotStore`, `SchemaStore` | what a reader of the schema store is promised; `store.py`, `lock.py` and git, which implement it | |
| `Validate` | `validate/run.py` with `schemas/generated.py`: threads, locks, edits | |
| `Cluster` | kind, helm and the commands of `local` and `test` over one cluster | |
| `InstallPlan` | `install_plan.py`, `test/plan.py`: the walk, the merge, the steps | |
| `Freshness` | `dependencies.py`, `dependency_update.py` | |
| `Selection` | `validate/select.py`, `test/select.py`, `publish/select.py`, patterns | |
| `Conformance` | kubeconform's and kyverno's reports, and the verdicts made of them | |
| `CrdSchemas`, `Providers` | `crd.py`, `inventory.py`; which charts may contain a CRD (`generated.py`) | |
| `Observed` | what `kubectl.py` makes of objects; `matching.py` | |
| `FluxFiles` | `scanner.py`, `editor.py` | |
| `LocalPlan` | what `local` installs, what `--dry-run` shows, `drift.py` | |
| `Decisions` | one question to one of the functions it is built on, with any input, and what the answer must be | `Classify`, `Selection`, `Conformance`, `Observed`, `FluxFiles`, `LocalPlan` |
| `Fanout_proofs`, `PromoteMonitor_proofs`, `PromoteTest_proofs`, `PromotePR_proofs`, `Cluster_proofs` | the theorems about the module of the same name | |
| `Publish_proofs` | the theorems about `Publish` and `Upgrade` | |
| `Validate_proofs` | the theorems about `Validate` and `SchemaStore` | |
| `Decisions_proofs` | the theorems about `Decisions`, `InstallPlan`, `Polls`, `Timeline` and `Freshness` | |
| `MC*` | small sets of inputs, symmetry sets; `MCDecisions` composes the modules from `InstallPlan` on, with `Polls` and `Timeline` | |

Definitions whose comment begins with "Mutant" are plausible mistakes in the definition they stand
next to. No specification uses them.

### Fanout

`main` is where the thread of `run_matched` is: `matching`, `opening` (before `telemetry.started`),
`waiting` (in the loop over `as_completed`), `shutdown` (leaving the `with` block, which joins the
pool), `closing` (`telemetry.finished`, one write at a time), `done`. `task[r]` is the future of a
release, `result[r]` what it holds, `head` the pool's FIFO position, `outcomes` what the main thread
has appended, `cancel` the `cancel_event`, `raised` the exception that unwinds. An event write is an
attempt: `written` is chosen freely, since `emit_non_fatal` swallows a failure.

A worker is abstract: it returns any verdict of its stage, or raises, at any time. It may blame the
total budget only when it timed out and the flag is set or the total deadline is past. That is the
contract between pool and worker. `WorkerReturns` is the step with this contract as its guard;
`Returned` is what the step does to the pool, and promises nothing. `PromoteMonitor` and `PromoteTest`
extend `Fanout`, share its variables, and end their workers with `Returned`: that these only return
what the contract allows is therefore a fact about the watchers and testers, and `ImplementsFanout`
(`Spec` of `Fanout`, with the identity as the refinement mapping and the workers' own variables
hidden) states it. It is checked by TLC and proved, so that what is proved of `Fanout` holds of both
commands.

A Ctrl-C is an action of its own, enabled everywhere. In the wait for the next future it unwinds
through the join of the pool. Anywhere else it ends the run: in `shutdown` it interrupts the join and
the threads outlive the loop until the interpreter joins them, which is why the end of a run is
`main = "done"` and no task live.

### Classify, Polls and PromoteMonitor

A status is a record of the fields `classify` reads; texts and messages are left out. `Classify` is the
order of the tests in the code. A watcher's `pc` is its place in `_poll_until_terminal`: the jitter,
the listing of workloads inside `_evaluate`, the budget checks, the sleep, the read, the return. The
cancel flag is read at the places the code reads it and nowhere else; a read of the cluster that was
begun is finished. The cluster answers anything in `Statuses` and `Rollouts` at every read.

### PromoteTest

A test pod is known by its name, as it is to kubectl. `OtherRun` is somebody else who starts the same
tests after this tester has listed the pods; the names that they took are in `taken`, at most `MaxTaken`
of them in a run. What they ran before is in the pods of the start, which may be live or stale. `PodEnds`
is the kubelet. `helm test` is what its hook delete policy makes it: pods of the same name are replaced,
or make it fail. Once a tester has its verdict nobody looks at its locals, and `Leave` clears them.

### EventLedger, PromotePR, Publish, Upgrade

A ledger is a set of documents, written by id: an event with a key replaces the one it repeats, an
event without one is new. `PromotePR`, `Publish` and `Upgrade` write through the same `Write`, and
each may lose what it writes (`lost`).

`PromotePR`: a PR has a number, so that two of one version can be told apart. The clone is shallow (`git
clone --depth 1`), so that a push to a branch that exists on the remote is never a fast-forward, and is
refused. `Fail` is a failure or a kill between any two steps; a later invocation is the re-run.
Reviewers merge, close, delete branches, push commits of their own and edit the base branch. `Versions`
are numbers in SemVer order, and 0 stands for a string that is no version.

`Publish`: `pc` goes through `prepare`, `push` and `emit`, each over `todo`, the charts it has not
reached; packaging yields any of `Digests`, so that a re-run may package other bytes; helm may or may not
tell the digest of what it pushed, and without one the event is known by the reference; `registry`
remembers every artifact, `tags` what a version points to now.

`Upgrade`: one wrapper chart and its upgrade branch. A run looks for the pull request and the version
it proposes, lets Renovate apply any of the updates that are out to a branch that is built upon or
made anew, `finalize` bumps `Chart.yaml` and then writes the changelog, and the run looks again and
emits. It may be killed between the two writes; either look may fail (`blind`). A pull request that
proposes a version, then another, then the first again (an update that is closed and comes back) has
made two transitions, and gets an event for each. To say so the model counts the pushes that changed
what is proposed (`turn`), notes the count at which a run read what it reports (`seen`), and the versions
whose run ended without an event for them (`unsaid`): killed, failed, refused, its event lost, or blind.
No guard reads any of them.

### SnapshotStore and SchemaStore

`SnapshotStore` is what a reader is promised: a path holds a whole snapshot or nothing, until a hand
outside the program touches it. Hands are counted, and a step that damages or removes a snapshot counts
one, so that no step of the program, which leaves the count alone, can pass for it. `SchemaStore` has
the processes: `sync` and `sync --update` resolve the heads, take `.sync.lock`, check out into a staging
directory, rename, and write the lock file; validations and `doctor` inspect. A process may be killed at
each step, and the lock is the kernel's, which frees it. `ImplementsSnapshots` is the refinement
(`INSTANCE SnapshotStore`, with `held` the disk and `hands` the changes from outside).

### Validate

`Rows` are pairs of a chart and an environment, taken in order by threads. Each goes through the
dependency lock of its chart, `helm template`, the schemas (one loader, whose outcome is memoised; the
loader fingerprints each provider, renders it, and fingerprints again before it caches), and the two
tools, any of which may be missing, fail, or break without a word. What the request asks for and what
each chart enables are settings (`Settings`): a check that is not asked for leaves no trace, one that is
disabled, comes after a failure, or has no manifests is skipped (`Runs`, `Skips`). `Edit` changes the
bytes of a chart at any time. The main thread consumes the answers in order.

### Cluster

Nodes are absent, stopped or running; releases have the status that helm keeps. A command is a
sequence of calls: `Find`, `Create`, `Start`, `Apiserver`, `Snapshot` (for `--skip-installed`), then
for each entry `Prepare`, `Install`, `Wait`, `Exercise`. A deletion lists the clusters once more (`List`),
and a listing that fails is an empty one there as everywhere. The entries that have a helm test are
`HelmTests`. A plan has a chart once per profile, so that one release may have two entries, the later of
which upgrades it. Each call may fail; a kill leaves what its
call had done so far, which `Interrupted` lists call by call. A command that failed or was killed is
followed by any other.

### The functions

`MCDecisions` asks one question at a time. Some take several steps: the walk of `InstallPlan`, the
edits, publications, updates and kills of `Freshness`, the events of `Timeline`, the poll of `Polls`. The
others are functions of an input, which is chosen in one step (`Ask` of `Decisions`). Which inputs there
are is a constant, `Inputs`: any that meet `InputsAssumption` in the theorems, and in the run sets that
cover each distinction the code makes. The assumption says what an input is, not what is done with it:
that an API server has one condition of a type and counts that are numbers, that documents are lists and
a HelmRelease has a name, that a chart that does not load has no rows, that a plan is as
`install_plan` returns it for one root, with the root last and a profile after all that it requires
(`RequirementsComeFirst`).

The properties compare the answer with a definition of what was meant, which does not follow the code:
that a plan has what every root needs (`Closed`), that a pattern is fitted by a cut of the path
(`Fits`), that a strict schema accepts exactly what the API server would keep, that a workload counts as
available only if as many of its pods are ready and available as it wants and its generation was seen
(which is less than kubectl's own rollout rule: that waits for `updatedReplicas` too, see below). A
matcher that recurses over a pattern is a recursive function (`FitsFrom`); where what is installed
matters in its order, a place is a release and an entry of its plan, as in the nested steps of `run.py`.

## Runs

Most runs check a few properties, each the conjunction of what one sentence of the code promises;
their parts are definitions of their own, next to them in the module.

| Run | Bounds | Shows |
|---|---|---|
| `fanout` | stage `HELM_TEST`, 3 releases, 2 threads, clock 0..1, 2 Ctrl-C | `ResultIsTrue`: every matched release is accounted for, and a spent budget is reported. `TerminalEventIsTrue`: the closing event comes after the last worker, and its phase and count agree with the outcomes. `IntervalClosed`: what was opened is closed, crash or not, unless somebody interrupts or the run is inconclusive |
| `monitor` | 2 releases, 2 threads, fail-fast, 3 statuses, 3 listings, faults, clock 0..2, 1 Ctrl-C | refinement of `Fanout`; who was cancelled, and why; verdict, display and budget agree; the run ends |
| `test` | 2 releases of 2 test pods, 1 thread, 4 statuses, clock 0..2, 1 Ctrl-C, 1 pod taken by another run | refinement of `Fanout`; no listed pod is in helm's way and no test that ran at the listing is ended; the run ends |
| `pr` | 2 invocations, 2 files, versions 0..2, 3 commits | one PR per request; the timeline tells what became of the PRs; no silent downgrade; no rewritten branch |
| `publish` | 2 invocations, 2 charts, 2 digests, 6 requests | nothing is pushed unprepared; the ledger is of the registry, once per digest and at most once without one, and takes no preview for a release; a strict success is on record |
| `schemas` | 2 processes, 2 commits of each repository, 2 Kubernetes versions, 1 step from outside | lock files select what is cached; what was served stays whole; refinement of `SnapshotStore`; every process ends |
| `validate` | 2 threads, 2 rows of one chart, 2 providers, 1 edit; all checks, kubeconform disabled, or policies only | success is earned, for every row that nothing excuses, and fail-fast stops; what threads share is settled before it is used; the run ends |
| `cluster` | 2 nodes, 1 bootstrap release, 3 entries of the target, one of them the bootstrap's release again, 2 helm tests, 4 commands | what ends well has converged, in order; tests and teardowns are complete; nothing but a reset or teardown loses a release; commands end |
| `upgrade` | 3 runs, one after the other, 2 kinds of updates, 2 PRs | a finalized branch has one bump and one section, whatever was left on it, and none has two bumps; events are of proposals, a re-run is silent, and only about what is on record |
| `decisions` | every input of a small size, per question | ten properties of the functions, below |
| `monitor_interrupt`, `validate_broken` | as small as the case allows | two sentences of the sources that do not hold, see below |

What `decisions` asks:

| Property | Question |
|---|---|
| `PlanIsRight` | Has a plan all that its roots require, once, requirements first, and nothing else; is it refused only for a real cycle; and do the steps of a chart test keep that order, test what was selected, and clean up in reverse? |
| `PollsAreJudged` | Is READY said only of what has converged, and does asking in two steps lose nothing? |
| `ObservedIsTrue` | Is an object that is incomplete, or of another release, ever taken for ready? |
| `PromotionIsWatched` | Do the scan, the edit and the match agree on what a promotion is about? |
| `DependenciesAreFresh` | Is what is rendered without an update, and the archives after one, a resolution of what is declared, after any edits, publications and kills; and what keeps an update from being believed? |
| `ListingIsRight` | Does a listing have the newest events in the order of their instants? |
| `SelectionIsComplete` | Does a change select its direct dependents and nothing else, and never go by in silence? |
| `CheckIsHonest` | Is a pass earned, a failure the chart's, and a finding kept? |
| `SchemasAreTrue` | Is a generated schema as strict as the API server, a conflict found, and no chart with a CRD missed? |
| `LocalInstallIsSafe` | Is what a workstation gets complete, in order, installed once by the target, as the dry run shows, on ports that work? |

Why the bounds are enough. Workers of the fan-out interact only through the queue, the cancel flag and
the clock: with two threads and three releases there is one that runs, one that fails and one that
waits. Two Ctrl-C are the most that have an effect, since the second one ends the loop. The clock
reaches the total deadline in every run (the assumptions of `PromoteMonitor` and `PromoteTest` ask
for it). In `test` one thread takes two releases, so that one waits in the queue while the other is tested;
one of them is ready and starts without pods, the other starts with any, and one pod that somebody else
starts is enough to be deleted by name. Two invocations are what it takes to overlap
in `pr`, `publish` and `schemas`, and the second of them is also the re-run of the first; two commits
are needed for a promotion and a conflicting one, and the third is a reviewer's. Two rows of one chart
meet at one dependency lock, and two providers give the loader one to be at while the other is edited.
In `cluster` the fourth command is the one that finds what a recovery of a recovery left. In `upgrade`
the second run finds the branch of the first open, merged, closed, half written or with other updates,
and the third is the one that may go back to what the first proposed. Two runs would not tell a version
that is proposed again from a re-run. `MaxActive` is 1: runs that overlap are not in this run, since with
them an event may repeat, and the two properties that say otherwise say so (`MaxActive = 1 =>`); the
others are proved for any `MaxActive`. In `cluster` the chart `cni` is the bootstrap's and is required again
in another profile, so that its second entry takes away for a while that it is ready.

The inputs of `decisions` vary each field that the code tests, and every pair of elements where the
code compares two: three profiles of two charts with up to two requirements each; the fields of a
HelmRelease status against four listings; patterns and paths of up to three segments; and so on, with
the sets and the reasons at the top of `MCDecisions`. `Symmetric` is used in runs without liveness
only.

Fairness. `MonitorFairSpec` and `TestFairSpec`: time passes, and every thread that can go on does. The
operator may or may not press Ctrl-C, helm may or may not answer (`ThreadStep` leaves its answers
out), somebody else may or may not start tests, a pod may run for ever. What ends a subprocess that
never answers is its time-out, which the models have as an action of the thread. `Validate`: the pool
schedules its threads and each tool has a time-out; which of those that wait for a lock comes next is
open. `SchemaStore`: processes that were not killed go on, and requests have a time-out; a kill frees
the lock. `Cluster`: a call that was begun ends, well or not; nobody has to begin a command. Nothing is
assumed of Flux, of helm, of GitHub or of reviewers.

Runs with `CHECK_DEADLOCK FALSE` are those in which every process may be over: `pr`, `publish`,
`schemas`, `validate`, `cluster`, `upgrade` and `decisions`. The fan-out has an explicit `Terminated`
step, so that a thread or a main thread that is stuck anywhere else is reported.

### Disagreements between code and text

The quotes are in `PROJECT.json`. Two are runs, whose one property states what a test or a comment
says and which TLC refutes:

1. `monitor_interrupt`: a Ctrl-C in the wait for the next future does not set the cancel flag, so that the
   peers of an interrupted run poll on until their budgets are spent.
2. `validate_broken`: a kyverno that fails without a word on stdout reads as one that found nothing,
   and its row has no error.

Others were met while modelling. The models have the behaviour; the properties say what does hold, and
no run refutes the sentence:

- promote monitor: a workload listing that keeps failing is recorded at every poll, because the decision
  that follows resets the signature (`monitor.py:446`, against the docstring at 457-461).
- promote test: a release that is not ready leaves open the interval of a run in which others were
  tested (the comments at `state.py:167` and `telemetry.py:87` name other verdicts only);
  `IntervalClosed` names the case. A pod that another run started after the listing is deleted by name,
  live or not (`test.py:374`, against the comment at 45-47), and helm replaces or trips over it; the run
  `test` reaches both, and `ReapingIsSafe` excepts exactly the names that were taken after the listing.
  A release without tests counts as passed (`test.py:481-488`), so that `PROMOTED` does not say that a
  test ran.
- promote pr: `set_version` says that it rewrites "every matching HelmRelease" and compares the chart as
  YAML reads it (`editor.py:25`), while the scan compares its text (`scanner.py:54`, `82`): a chart that
  is written as a bare number is found, listed in the body of the PR, and not changed.
  `PromotionIsComplete` says that such drift stays, and no other. A branch that was left on the remote
  makes a re-run fail at the push (`git.py:88`, against the comment at 74-76): a `checkout -B` resets
  the local branch, not the remote's.
- local: `down` may say that the cluster was stopped already when the listing of nodes failed; a dry run
  leaves out the bootstrap's releases that are no charts (`local/run.py:157`); a failed docker
  inspection, or a stopped container, reads as every port missing (`kind.py:227`); a chart that
  bootstrap has in one profile may be installed again by the target in another, or by a later bootstrap
  step without its runtime values: "the same chart under two identities is an error"
  (`local/run.py:361`), but what bootstrap has is left out of the comparison (`372`). With bootstrap
  `db:minimal` and a stack of `db:big` and of a chart that requires `db:minimal`, that chart is
  installed on `db:big`; `RequirementsAreInstalled` excepts what bootstrap installed, and nothing else.
- kind: `delete_cluster` returns "False if it didn't exist" (`kind.py:152`), and also when the listing
  failed: a teardown then ends well and the cluster stays. `TeardownIsComplete` names the case.
- upgrade: "every version's timeline must start with `PR_OPEN`" (`telemetry.py:3-5`), but a version
  whose run was killed, failed after the push, could not look or lost its event has none, and the runs
  that find it proposed take it for reported. `SilenceIsEarned` says that these are all the cases. A
  branch that an earlier run left at the other of the two bumps is refused (`finalize.py:230-234`) by
  every later run until somebody deletes it: finalizing is safe to repeat, and need not ever succeed.
- kubectl: a rollout is judged without `updatedReplicas` (`kubectl.py:808-831`), so that a Deployment in
  the middle of a rollout counts as ready while enough pods of its former template are;
  `AvailableMeansConverged` says that it is not waited for.
- validate: `_skip_reason` looks for `*.yaml` only, and kyverno never sees `.json`, while kubeconform
  does; a field with `x-kubernetes-embedded-resource` is closed like any other object (`crd.py`).
- validate: `select()` describes dependents for Chart.yaml, the lifecycle file and chart-wide files, and
  the chart's own triggers "otherwise" (`select.py:88-93`); the code adds the dependents for any file of
  a validated chart (`204-206`), ignored ones too. `DependentsAreValidated` has what the code does. Only
  direct dependents are selected.
- dependencies: freshness compares names and versions, as its docstring says, so that an edited
  `file://` dependency of the same version is not seen. "A redundant dependency update is safer than
  rendering with the wrong dependency" (`dependencies.py:5-6`), but an update replaces archives only,
  and what follows it is not checked again (`dependency_update.py:22-23`): a chart directory of another
  version under `charts/` is rendered, after a fruitless update each time. `UpdateMakesFresh` says
  exactly when.

## Proofs

Each proof module states at its top what it proves and on what it rests. Assumptions are the ASSUME of
the component's module: types of the constants, and little else.

### The pool

`Fanout_proofs` proves, for any finite set of releases, any stage, number of threads, budget and number of
interruptions, the parts of `ResultIsTrue` (`Accounting`, `BudgetReported`) and of
`TerminalEventIsTrue` (`ClosedLast`, `GreenIsEarned`, `CountsAgree`), and `TypeCorrect`.

The first follow from the inductive invariant `IInv`. None of them is inductive alone. That a run
returns with every outcome needs to know that the loop was left without an exception
(`LoopIsComplete`), that only matched releases have tasks (`TasksAreTargets`) and that what was
appended is a verdict and no crash (`OutcomesAreDone`). That a worker's blame is matched by the flag
goes through a state in which it is not yet: the worker saw the deadline, and the flag is set when its
outcome is consumed (`BlameIsJustified`), which needs the clock never to run back. That the terminal
event comes last needs the join (`ClosingIsJoined`).

`IntervalsAreClosed` rests on what the main thread still owes the timeline at each of its places
(`Owing`): the opening comes before any submission, closing writes every terminal phase, and none of
them is an opening. A run that somebody interrupts is excepted, as it is in `IntervalClosed`.

`GreenIsEarned` and `CountsAgree` need a second invariant, `Agreement`, relative to the first: what
waits in `closing` agrees with the outcomes it was computed from. Its centre is `ClosingPhases`, a lemma
on the fold and the phase table: a stage closes with a green phase exactly when nothing failed, and
then something did more than be suspended. That a crashed run counts at least one failure
(`Unreported # {}`) rests on the crashed release itself being a target without an outcome.

A third, `Caused`, accounts for the cancel flag: it is set because the deadline passed, because an
exception unwinds, or because a consumed release failed by itself. `FailuresStay` keeps the last
reason alive: a consumed outcome is never overwritten. `CancelExplained` below rests on it.

### The two commands

`MonitorImplements` and `TestImplements` prove `ImplementsFanout`. Every step of a watcher or tester
leaves the pool alone or is a step of `Fanout`; only `Finalize` needs an argument. Its worker may return
what it concluded some steps ago, when a verdict that blames the total budget must be matched by the
flag or the deadline *now*. `Contract` says so of every worker on its way to `Finalize`; it is kept since
the flag is never cleared and the clock never runs back (`BudgetGrows`). With the refinement, a
theorem about `Fanout` is one about the command: `CancelExplained` combines `IInv` and `Caused` with the
refinement.

`TInv` adds `Swept`: every pod that is left after the listing, but those whose names were taken since, is
stale, and in the list of what is still to be deleted or in the list of what could not be. So a tester
that goes on to `helm test` with an empty residue has only newcomers in its way (`SlateStaysSwept`), and of
the live tests it deletes at most those (`ListedTestsAreSpared`). `ReapingIsHarmless` has both, for any
number of other runs. `MInv` strengthens `DisplayAgreesWithVerdict` by the shape of a
watch state (`Bounded`), and needs `NobodyWatched`: matching resets the watch states, and would tear
display and verdict apart if a watcher were already under way. `OwnBudgetWasSpent` is inductive with the
bounds on the clocks (`Clocks`). `VerdictsAreExplained` has both.

### The ledger's writers

`PromotePR_proofs` proves everything that `pr` checks, for any invocations, files and versions. Its
`IInv` has `Named` (a PR's branch is named after its version, a branch has one PR, whatever their numbers,
and leads every file to the version it is named after, whoever pushed it), `Agreed` (a
branch carries whether its downgrades, against what it started from, were agreed to, and git merges a
file only where the base still has what the branch started from), `Found` and `Counted` (each
invocation opens one PR at most, and finds only what was opened; the cardinalities need finite sets),
and `Written` (every stored event is the last word of an invocation).

`Publish_proofs` proves everything that `publish` checks. What makes it inductive is what each phase
may rely on: a run that pushes had prepared everything (`Staged`), a row that says pushed is in the
registry (`Delivered`), the charts still to be recorded were pushed (`Due`), what a finished run has no
record of was lost (`Recorded`), and documents are known by their key (`Keyed`), which is why
publishing again adds nothing where helm told the digest. `EventsAreCounted` bounds what it adds where
helm did not: events with a digest map one to one into the artifacts of the registry, and there is one
event without.

The same module proves both properties of `upgrade`, for any updates, runs and pull requests. The
invariant (`UpgradeIInv`) has two halves. The first is about what is written. No changelog is ahead of
its version (`Chronological`), so that a bump's section is new in `main`; a checkout is what Renovate
started from, or that with one bump, whatever earlier runs left in it (`Bumped`); how far finalize got
follows from where the run is (`Sound`); and what is on the branch was such a checkout (`Branched`). So
writing a section anew replaces only that of the bump. The second is about what is read. What a run may
know follows from where it is (`Asked`), an event says what the branch proposed at its turn (`Filed`),
and while runs do not overlap, whatever a run read before Renovate agrees with the events of that turn
(`Told`). An event it adds at the same turn is therefore one that could not be known to repeat. And what
is proposed is on record, or its run ended without an event, except while the run that may have pushed
it still looks (`Said`): that is what a run relies on that stays silent (`SilenceIsEarned`).

### Schemas and validation

`Validate_proofs` proves `StoreIsWhole` and the refinement of `SnapshotStore`, for any number of
processes, commits, versions and outside steps. The refinement rests on the lock: whoever has
a staging directory holds it, and what is about to be renamed there is still absent (`Staging`). No step of
a process counts as a hand, so that the refinement says that a process never damages or removes a
snapshot. What an
answer is worth rests on what lies behind it (`Behind`).

For `Validate` it proves `VerdictIsEarned` and `SharedIsSettled`, for any threads, charts, rows, providers
and edits. A row is with one thread until it is answered, and rows are taken in order (`Rowing`). The
one loader of the schemas is the thread that is at them, and as long as there is one nothing is memoised
(`Working`). A chart's lock is held by the thread that updates it, and then only, and a chart that is
rendered has fresh dependencies (`Settled`). What the loader rendered lies between the fingerprints it
took and the bytes as they are, so that equal fingerprints before and after make the cache true
(`Printed`). What is known of a row follows from where its thread is (`Judging`): an answered row was
checked by each check that runs, and of a run that succeeds the skipped ones are those that the request,
the chart or an empty rendering excuses. With `--fail-fast` the only row under way is the one that
the main thread waits for (`Stopping`), which is why none is checked after one that failed.

### The cluster

`Cluster_proofs` proves `ConvergesInOrder`, `TestIsEarned` and `ClusterIsKept` for any nodes, plans and
number of commands. Each speaks of the end of a command, so that the invariant says what was done on the
way: what the entries behind `at` have become (`Behind`), where a test goes when it
reuses a cluster (`Ahead`: it is at its own entry, the last), and what was seen of the cluster when it was
looked for (`Seen`). Nothing is assumed of which releases a plan has, or how often: an entry whose release
comes again is ready but while the later entry waits (`Handled`).

### The deciders

`Decisions_proofs` has five parts. `InstallPlan`: `PlanIsRight`, for any set of
profiles, whatever they require and whatever is asked for. What is planned of one root is in order, since
a profile leaves the path only when all that it requires has left it before (`PathOf`, `SortedOf`); the
merge keeps the order across roots, since what it has not merged yet requires only what is merged or
comes before (`PendsOn`). A plan is refused for a cycle only if the path has come back to itself, and a
path is one of requirements. `Polls`: `PollsAreJudged`, for every set of statuses, listings and versions,
by the cases of `Classify`. `Timeline`: `ListingIsRight`, for any events, page size and offsets: a page is
as long as it can be, in order, and nothing outside it is newer. `Freshness`: `DependenciesAreFresh`, for
any declarations and any sequence of edits, publications, updates, losses and kills. Chart.yaml may
change, the vendored archives and the lock may be lost or half written, and an archive may be unpacked to
a directory, at any time; `Believed` says what holds nevertheless: a digest is written last, and of what
was resolved, and the archives that an update has left are a resolution. That set equality, once each,
makes as many files as declarations (`ResolutionIsWhole`) is where finite sets come in.

`Decisions`: the answer to a question is right, whatever the input (`AskInvariant`, and one lemma for each
sentence of a property).

- `WhatIsReadIsTrue`: READY needs a condition that says so, of the generation that is shown, and no
  workload of the release that lags in its ready and available replicas. A count that is not printed is
  read as 0, so that it can only delay.
- `PromotionsAreWatched`: an edit changes versions only, and those of the documents whose chart is text,
  so that a scan finds the same documents before and after it, the drift that stays is that of the others,
  and what the monitor matches in the cluster has the same names and namespaces: the API refuses a chart
  that is no text.
- `SelectionsAreComplete`: for any triggers, dependencies and requests. That the matcher agrees with what
  a pattern means is an induction over the pattern and the path. It is done without the library's
  theorems: what is left to fit satisfies the recursion of the matcher (`RemainsRecurs`), and no two
  functions satisfy it (`RecursionIsUnique`), since where they differ with the least left (`Least`) they
  agree on all that is asked for there.
- `ChecksAreHonest`: every verdict of a resource is in the report under one of the statuses that count.
- `LocalInstallsAreSafe`: what an entry of a plan requires is before it in the plan. If the target
  leaves it out, bootstrap has it, or the first place of the target that does (`FirstPlace`), which is
  no later, and nothing between puts the chart in another profile. Two entries of one chart that the target
  keeps would be one entry twice, or a conflict.

### Model-checked only

Every safety property, action property and refinement of a passing run is proved, but for one:
`SchemasAreTrue`. The functions of `CrdSchemas` and `Providers` recurse over schemas, documents and
archives, which are trees of any depth, so that they are RECURSIVE operators, which the prover does not
take; TLC compares them with their reference definitions on every tree of a small size. Liveness
(`RunEnds` of three runs, `ProcessesEnd`, `CommandsEnd`) and whatever needs ENABLED is out of the prover's
reach: TLC checks it under the fairness above. The two runs that expect a violation are counterexamples,
and stay with TLC.

## Not modelled, and why

- Command lines, report layout, progress displays, logging and the schemas of documents: no state and no
  order of effects.
- Parsing of YAML, SemVer and durations: below the abstraction of the models. Where a conversion matters
  to a property, as for versions that are no versions or stamps with an offset, the model has its
  outcome.
- Subprocess handling (`plumbing/commands.py`): its time-outs and kills are in the models as calls that
  answer, fail or are cut short.
- `local status`, access, `plan`, `doctor`, `catalog`, `grafana`: single reads for display.
- Helm, kind, kubectl, git, gh, Renovate, kubeconform, kyverno, the event backends and Flux themselves:
  external, modelled as what they may answer.
- Helm charts, dashboards and workflow files: data.

## What could come next

`CrdSchemas` over a graph of nodes instead of trees, so that what closing a schema does could be proved by
the argument of the matcher. Larger instances of `upgrade` with runs that overlap, whose events may
repeat: how often is not stated yet. In `fanout` three releases queue behind two threads and in `test` two
behind one; `monitor` has a thread for each release.
