------------------------------ MODULE Cluster ------------------------------
(***************************************************************************)
(* The commands that act on the kind cluster of a workstation: `local up`, *)
(* `reset` and `down` (commands/local/run.py), `chart test` and `chart     *)
(* teardown` (commands/test/run.py), over one cluster (shared/cluster/)    *)
(* that outlives them.                                                     *)
(*                                                                         *)
(* One command runs at a time.  Any call may fail, and the process may be  *)
(* killed in the middle of one: what the call had done stays.  kind,       *)
(* docker and helm are modelled by what the code relies on.                *)
(***************************************************************************)
EXTENDS Naturals, Sequences, FiniteSets

CONSTANTS
  Nodes,       \* node containers of the kind config
  Control,     \* the one that runs the apiserver
  Bootstrap,   \* the bootstrap releases, in order
  Targets,     \* the releases of the target, requirements first
  HelmTests,   \* the entries of the plan whose profile has helmTest
  MaxCommands  \* bound on the commands that are run

\* A plan has every chart once per profile: a chart that is required under two profiles of one
\* namespace has two entries and one release, which the later entry upgrades.
Plan == Bootstrap \o Targets

ASSUME ClusterAssumption ==
  /\ Control \in Nodes /\ Bootstrap \in Seq(STRING) /\ Targets \in Seq(STRING) /\ Targets # <<>>
  /\ HelmTests \subseteq DOMAIN Plan
  /\ MaxCommands \in Nat

Releases == {Plan[i] : i \in DOMAIN Plan}
Last == Len(Plan)
InBootstrap(i) == i <= Len(Bootstrap)

\* opt is --skip-installed, --skip-requires or --keep-cluster.
Commands == [kind : {"up", "test", "teardown"}, opt : BOOLEAN] \union
            [kind : {"reset", "down"}, opt : {FALSE}]

VARIABLES
  nodes,     \* the state of each container
  formed,    \* the control plane was initialised: kind's create came to its end
  gen,       \* how many clusters were created
  release,   \* the status of each release in the cluster, as helm keeps it
  ready,     \* the releases whose workloads were waited for since they were installed
  commands,  \* how many commands were begun
  cmd,       \* the command that runs, or the last one
  pc,        \* where it is
  at,        \* the entry of the plan, or the number of cleanup hooks left
  found,     \* whether it found the cluster when it looked
  known,     \* installed_keys: what --skip-installed leaves alone
  failed,    \* an entry has failed
  tested,    \* the entries of the plan whose helm test passed
  cleaned,   \* the cleanup hooks that were run
  blind,     \* a listing failed, and was taken for an empty one
  since,     \* gen when the command began
  exit       \* how it ended

cluster == <<nodes, formed, gen, release, ready>>
memory == <<found, known, failed, tested, cleaned>>
request == <<commands, cmd, since>>
vars == <<cluster, memory, request, pc, at, blind, exit>>

Init ==
  /\ nodes = [n \in Nodes |-> "absent"] /\ formed = FALSE /\ gen = 0
  /\ release = [r \in Releases |-> "none"] /\ ready = {}
  /\ commands = 0 /\ cmd = [kind |-> "down", opt |-> FALSE] /\ pc = "idle" /\ at = 0
  /\ found = FALSE /\ known = {} /\ failed = FALSE /\ tested = {} /\ cleaned = <<>>
  /\ blind = FALSE /\ since = 0 /\ exit = "none"

Exists == \E n \in Nodes : nodes[n] # "absent"
Local == cmd.kind \in {"up", "reset"}

GoTo(label) == pc' = label /\ UNCHANGED exit
Finish(how) == pc' = "idle" /\ exit' = how

\* The containers that are gone take the cluster with them when the control plane is one.
Remove(gone) ==
  /\ nodes' = [n \in Nodes |-> IF n \in gone THEN "absent" ELSE nodes[n]]
  /\ UNCHANGED gen
  /\ IF Control \in gone \/ gone = Nodes
     THEN formed' = FALSE /\ release' = [r \in Releases |-> "none"] /\ ready' = {}
     ELSE UNCHANGED <<formed, release, ready>>

\* Some containers start or stop.
Switch(some, state) ==
  /\ nodes' = [n \in Nodes |-> IF n \in some THEN state ELSE nodes[n]]
  /\ UNCHANGED <<formed, gen, release, ready>>

In(state) == {n \in Nodes : nodes[n] = state}

\* Kind.clusters: a listing that fails is an empty one.
Lists(answer) ==
  \/ answer = Exists /\ UNCHANGED blind
  \/ answer = FALSE /\ blind' = TRUE

-----------------------------------------------------------------------------
(***************************************************************************)
(* Before the cluster is touched.                                          *)
(***************************************************************************)

Begin ==
  /\ pc = "idle" /\ commands < MaxCommands
  /\ commands' = commands + 1 /\ cmd' \in Commands /\ since' = gen
  /\ GoTo(CASE cmd'.kind = "down" -> "stop" [] cmd'.kind \in {"test", "teardown"} -> "find"
            [] OTHER -> "resolve")
  /\ at' = 0 /\ found' = TRUE /\ known' = {} /\ failed' = FALSE /\ tested' = {} /\ cleaned' = <<>>
  /\ blind' = FALSE /\ UNCHANGED cluster

\* A test that skips what it requires, and a teardown, look for the cluster first.
Find ==
  /\ pc = "find"
  /\ IF cmd.kind = "test" /\ ~cmd.opt THEN UNCHANGED <<found, blind>> ELSE Lists(found')
  /\ IF cmd.kind = "teardown" THEN GoTo("cleanup") /\ at' = Len(Targets) ELSE GoTo("resolve") /\ UNCHANGED at
  /\ UNCHANGED <<cluster, request, known, failed, tested, cleaned>>

\* Everything authored is resolved, and the preProvision hook runs.
Resolve ==
  /\ pc = "resolve"
  /\ Finish("raised") \/ GoTo(IF cmd.kind = "reset" THEN "listing" ELSE "ensure")
  /\ UNCHANGED <<cluster, memory, request, at, blind>>

-----------------------------------------------------------------------------
(***************************************************************************)
(* kind: delete, create, start, stop.                                      *)
(***************************************************************************)

\* Whether there is a cluster to delete.  A reset goes on without one, and so does a teardown:
\* it ends.
List ==
  /\ pc = "listing"
  /\ \E here \in BOOLEAN :
       /\ Lists(here)
       /\ IF here THEN GoTo("delete")
          ELSE IF cmd.kind = "reset" THEN GoTo("ensure")
          ELSE Finish(IF failed THEN "failed" ELSE "ok")
  /\ UNCHANGED <<cluster, memory, request, at>>

\* kind delete.
Delete ==
  /\ pc = "delete"
  /\ \/ /\ Remove(Nodes)
        /\ IF cmd.kind = "reset" THEN GoTo("ensure") ELSE Finish(IF failed THEN "failed" ELSE "ok")
     \/ /\ \E gone \in SUBSET Nodes : Remove(gone)
        /\ Finish(IF cmd.kind = "reset" THEN "raised" ELSE "failed")
  /\ UNCHANGED <<memory, request, at, blind>>

\* Whether there is a cluster to start.
Ensure ==
  /\ pc = "ensure"
  /\ \E here \in BOOLEAN : Lists(here) /\ GoTo(IF here THEN "start" ELSE "create")
  /\ UNCHANGED <<cluster, memory, request, at>>

\* docker start of the containers that are stopped, of none when they cannot be listed.
Start ==
  /\ pc = "start"
  /\ \/ Switch(In("stopped"), "running") /\ GoTo("apiserver") /\ UNCHANGED blind
     \/ blind' = TRUE /\ GoTo("apiserver") /\ UNCHANGED cluster
     \/ (\E some \in SUBSET In("stopped") : Switch(some, "running")) /\ Finish("raised") /\ UNCHANGED blind
  /\ UNCHANGED <<memory, request, at>>

\* kind create refuses a name in use, and removes what it made when it fails.
Create ==
  /\ pc = "create"
  /\ \/ /\ ~Exists /\ gen' = gen + 1 /\ formed' = TRUE
        /\ nodes' = [n \in Nodes |-> "running"] /\ GoTo("apiserver") /\ UNCHANGED <<release, ready>>
     \/ Finish("raised") /\ UNCHANGED cluster
  /\ UNCHANGED <<memory, request, at, blind>>

\* docker stop of the containers that run, of none when they cannot be listed.
Stop ==
  /\ pc = "stop"
  /\ \/ Switch(In("running"), "stopped") /\ Finish("ok") /\ UNCHANGED blind
     \/ blind' = TRUE /\ Finish("ok") /\ UNCHANGED cluster
     \/ (\E some \in SUBSET In("running") : Switch(some, "stopped")) /\ Finish("raised") /\ UNCHANGED blind
  /\ UNCHANGED <<memory, request, at>>

\* Mutant: a test bootstraps whatever it was asked to skip.
Apiserver_Bootstraps ==
  /\ pc = "apiserver"
  /\ \/ /\ formed /\ nodes[Control] = "running"
        /\ IF Local THEN GoTo("snapshot") /\ UNCHANGED at ELSE GoTo("prepare") /\ at' = 1
     \/ Finish("raised") /\ UNCHANGED at
  /\ UNCHANGED <<cluster, memory, request, blind>>

\* Mutant: the apiserver is waited for without end.
Apiserver_Waits ==
  /\ pc = "apiserver" /\ formed /\ nodes[Control] = "running"
  /\ IF Local THEN GoTo("snapshot") /\ UNCHANGED at
     ELSE IF cmd.opt /\ found THEN GoTo("verify") /\ UNCHANGED at
     ELSE GoTo("prepare") /\ at' = 1
  /\ UNCHANGED <<cluster, memory, request, blind>>

\* The apiserver answers in time, before and after the postProvision hook.
Apiserver ==
  /\ pc = "apiserver"
  /\ \/ /\ formed /\ nodes[Control] = "running"
        /\ IF Local THEN GoTo("snapshot") /\ UNCHANGED at
           ELSE IF cmd.opt /\ found THEN GoTo("verify") /\ UNCHANGED at
           ELSE GoTo("prepare") /\ at' = 1
     \/ Finish("raised") /\ UNCHANGED at
  /\ UNCHANGED <<cluster, memory, request, blind>>

-----------------------------------------------------------------------------
(***************************************************************************)
(* Releases.                                                               *)
(***************************************************************************)

\* What --skip-installed leaves alone.
Settled == {r \in Releases : release[r] \in {"deployed", "failed"}}

\* helm list, once and before the bootstrap.
Snapshot ==
  /\ pc = "snapshot" /\ at' = 1 /\ GoTo("prepare")
  /\ known' \in {Settled, {}}
  /\ UNCHANGED <<cluster, request, found, failed, tested, cleaned, blind>>

\* Mutant: the requirements of the chart are not looked for.
Verified_Bootstrap == \A i \in DOMAIN Plan : InBootstrap(i) => release[Plan[i]] # "none"

\* Bootstrap and the requirements are installed, in any state.
Verified == \A i \in DOMAIN Plan : i < Last => release[Plan[i]] # "none"

\* A test that skips its requirements goes on to its own chart.
Verify ==
  /\ pc = "verify"
  /\ \/ Verified /\ at' = Last /\ GoTo("prepare")
     \/ Finish("raised") /\ UNCHANGED at
  /\ UNCHANGED <<cluster, memory, request, blind>>

\* The next entry, or the end.
Advance(broken) ==
  /\ failed' = broken
  /\ IF at < Last THEN at' = at + 1 /\ GoTo("prepare")
     ELSE UNCHANGED at /\ Finish(IF broken THEN "failed" ELSE "ok")

\* A failed bootstrap release ends the command; a failed target is recorded, and only
\* `local` carries on with the rest.
Fails ==
  IF InBootstrap(at) THEN Finish("raised") /\ UNCHANGED <<at, failed>>
  ELSE IF Local THEN Advance(TRUE)
  ELSE Finish("failed") /\ failed' = TRUE /\ UNCHANGED at

\* What comes before the install: dependencies, the namespace, lint, the preInstall hook.
Prepare ==
  /\ pc = "prepare"
  /\ IF Local /\ cmd.opt /\ ~InBootstrap(at) /\ Plan[at] \in known
     THEN Advance(failed)
     ELSE Fails \/ (GoTo("install") /\ UNCHANGED <<at, failed>>)
  /\ UNCHANGED <<cluster, request, found, known, tested, cleaned, blind>>

\* helm upgrade --install.  helm refuses a release whose last operation never ended.
Install ==
  LET r == Plan[at]
  IN /\ pc = "install"
     /\ \/ /\ release[r] # "pending"
           /\ release' = [release EXCEPT ![r] = "deployed"] /\ GoTo("wait") /\ UNCHANGED <<at, failed>>
        \/ /\ release' \in {release, [release EXCEPT ![r] = IF @ = "pending" THEN @ ELSE "failed"]}
           /\ Fails
     /\ ready' = ready \ {r}
     /\ UNCHANGED <<nodes, formed, gen, request, found, known, tested, cleaned, blind>>

\* Mutant: a rollout that takes too long is only a warning.
Wait_Warns ==
  /\ pc = "wait" /\ known' = known \union {Plan[at]} /\ ready' \in {ready, ready \union {Plan[at]}}
  /\ IF Local \/ InBootstrap(at) THEN Advance(failed) ELSE GoTo("exercise") /\ UNCHANGED <<at, failed>>
  /\ UNCHANGED <<nodes, formed, gen, release, request, found, tested, cleaned, blind>>

\* Its workloads roll out and its CRDs are established; for bootstrap, the authored gates.
Wait ==
  /\ pc = "wait"
  /\ \/ /\ ready' = ready \union {Plan[at]} /\ known' = known \union {Plan[at]}
        /\ IF Local \/ InBootstrap(at) THEN Advance(failed) ELSE GoTo("exercise") /\ UNCHANGED <<at, failed>>
     \/ Fails /\ UNCHANGED <<ready, known>>
  /\ UNCHANGED <<nodes, formed, gen, release, request, found, tested, cleaned, blind>>

\* Whether an entry has a helm test that this command runs: on a new cluster only the
\* selected chart is tested.
Tests(i) == i \in HelmTests /\ (i = Last \/ ~cmd.opt)

\* The postInstall hook and helm test.
Exercise ==
  /\ pc = "exercise"
  /\ \/ Advance(failed) /\ tested' = IF Tests(at) THEN tested \union {at} ELSE tested
     \/ Fails /\ UNCHANGED tested
  /\ UNCHANGED <<cluster, request, found, known, cleaned, blind>>

-----------------------------------------------------------------------------
(***************************************************************************)
(* Teardown, and the end of a process.                                     *)
(***************************************************************************)

\* Every cleanup hook runs, the last entry first; then the cluster is deleted.  An entry that
\* names no hook has one that does nothing.
Cleanup ==
  /\ pc = "cleanup"
  /\ IF at > 0
     THEN /\ cleaned' = Append(cleaned, Targets[at]) /\ at' = at - 1
          /\ failed' \in {failed, TRUE} /\ UNCHANGED <<pc, exit>>
     ELSE /\ UNCHANGED <<at, cleaned, failed>>
          /\ IF found /\ ~cmd.opt THEN GoTo("listing") ELSE Finish(IF failed THEN "failed" ELSE "ok")
  /\ UNCHANGED <<cluster, request, found, known, tested, blind>>

\* What a call has done when its process is killed.
Interrupted ==
  CASE pc = "delete" -> \E gone \in SUBSET Nodes : Remove(gone)
    [] pc = "create" /\ ~Exists ->
         /\ \E some \in SUBSET Nodes : nodes' = [n \in Nodes |-> IF n \in some THEN "running" ELSE "absent"]
         /\ UNCHANGED <<formed, gen, release, ready>>
    [] pc = "start" -> \E some \in SUBSET In("stopped") : Switch(some, "running")
    [] pc = "stop" -> \E some \in SUBSET In("running") : Switch(some, "stopped")
    [] pc = "install" -> /\ release' \in {release, [release EXCEPT ![Plan[at]] = "pending"]}
                         /\ ready' = ready \ {Plan[at]} /\ UNCHANGED <<nodes, formed, gen>>
    [] OTHER -> UNCHANGED cluster

Kill ==
  /\ pc # "idle" /\ Interrupted /\ Finish("killed")
  /\ UNCHANGED <<memory, request, at, blind>>

Working ==
  \/ Find \/ Resolve \/ List \/ Delete \/ Ensure \/ Start \/ Create \/ Stop \/ Apiserver
  \/ Snapshot \/ Verify \/ Prepare \/ Install \/ Wait \/ Exercise \/ Cleanup

Next == Begin \/ Working \/ Kill

\* Every call has a time-out or is waited for by an operator; nobody has to begin a command.
Spec == Init /\ [][Next]_vars /\ WF_vars(Working)

-----------------------------------------------------------------------------
(***************************************************************************)
(* Properties.                                                             *)
(***************************************************************************)

\* Every variable keeps its type, and a cluster that never came up has no releases.
TypeOK ==
  /\ nodes \in [Nodes -> {"absent", "stopped", "running"}] /\ formed \in BOOLEAN /\ gen \in 0 .. MaxCommands
  /\ release \in [Releases -> {"none", "pending", "deployed", "failed"}] /\ ready \subseteq Releases
  /\ commands \in 0 .. MaxCommands /\ cmd \in Commands /\ at \in 0 .. Last
  /\ {found, failed, blind} \subseteq BOOLEAN /\ known \subseteq Releases /\ tested \subseteq DOMAIN Plan
  /\ exit \in {"none", "ok", "failed", "raised", "killed"}
  /\ ~formed => ready = {} /\ \A r \in Releases : release[r] = "none"

BootstrapReleases == {Bootstrap[i] : i \in DOMAIN Bootstrap}
Ended(kind, how) == pc = "idle" /\ cmd.kind = kind /\ exit = how

\* local/run.py: an `up` or a `reset` that ends well has every release in the cluster, and
\* has seen it ready; with --skip-installed, what it skipped has at least an end in helm.
ConvergedMeansReady ==
  (Ended("up", "ok") \/ Ended("reset", "ok")) =>
    \A r \in Releases :
      \/ release[r] = "deployed" /\ r \in ready
      \/ cmd.opt /\ r \notin BootstrapReleases /\ release[r] \in {"deployed", "failed"}

\* bootstrap(): whatever commands fail or are killed, and in whatever order they run, no
\* release that bootstrap does not install is tried in a cluster before every bootstrap
\* release is in it.
BootstrapComesFirst ==
  (\E r \in Releases \ BootstrapReleases : release[r] # "none") =>
    \A r \in BootstrapReleases : release[r] # "none"

\* test/run.py: a chart test that ends well has installed its chart and seen it ready, in a
\* cluster that holds all that it requires, and every entry that has a helm test has passed
\* it, unless --skip-requires asked for the chart's own alone.
PassedMeansTested ==
  Ended("test", "ok") =>
    /\ Plan[Last] \in ready
    /\ \A r \in Releases : release[r] # "none"
    /\ \A i \in DOMAIN Plan : ~InBootstrap(i) /\ Tests(i) => i \in tested

\* test/run.py: a teardown runs every cleanup hook, the last release first, although some
\* fail, and one that ends well leaves no cluster.  The exceptions are exact: it was told to
\* keep the cluster, or one of the two listings failed and was taken for an empty one.
TeardownIsComplete ==
  (Ended("teardown", "ok") \/ Ended("teardown", "failed")) =>
    /\ cleaned = [i \in DOMAIN Targets |-> Targets[Len(Targets) + 1 - i]]
    /\ exit = "ok" /\ ~cmd.opt /\ ~blind => ~Exists

\* local/run.py: a reset that ends well converged onto a cluster that it created, or a
\* listing failed and was taken for an empty one.
ResetIsNew == Ended("reset", "ok") /\ ~blind => gen > since

\* local/cli.py, `down`: "Installed Helm releases ... survive."  Only a reset or a
\* teardown loses a release, however an up, a down or a test ends.
ReleasesSurvive ==
  [][\A r \in Releases :
       release[r] # "none" /\ release'[r] = "none" => cmd.kind \in {"reset", "teardown"}]_vars

\* test/cli.py, --skip-requires: "Reuse installed prerequisites without upgrading them."  In
\* a cluster that it found, no release but the chart's own is touched.  The exception is
\* exact: a listing that fails is taken for no cluster, and then all of them are upgraded.
SkippedAreReused ==
  [][cmd.kind = "test" /\ cmd.opt /\ found /\ pc # "idle" =>
       \A r \in Releases : r # Plan[Last] => release'[r] = release[r]]_vars

\* Every command comes to an end.
CommandsEnd == []<>(pc = "idle")

\* session.py: releases come into a cluster in order, and a command that ends well saw them
\* ready.
ConvergesInOrder == TypeOK /\ ConvergedMeansReady /\ BootstrapComesFirst

\* test/run.py: a test that ends well has tested, and its teardown leaves nothing undone.
TestIsEarned == PassedMeansTested /\ TeardownIsComplete

\* Commands keep what others rely on: a reset starts anew, only a reset or a teardown loses a
\* release, and what a test is told to skip stays as it is.
ClusterIsKept == []ResetIsNew /\ ReleasesSurvive /\ SkippedAreReused
=============================================================================
