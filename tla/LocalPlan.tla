------------------------------ MODULE LocalPlan ------------------------------
(***************************************************************************)
(* What `local up` and `reset` install of what is authored: the bootstrap  *)
(* of the LocalCluster and a chart or a LocalStack (commands/local/run.py, *)
(* shared/cluster/bootstrap.py, and the models of both); what --dry-run    *)
(* shows of it; and the check of port mappings (commands/local/drift.py).  *)
(*                                                                         *)
(* What is given is a record:                                              *)
(*   bootstrap, stack   lists of releases                                  *)
(*   profile            --profile, "" without it                           *)
(*   only               the chart that is the target, "" for the stack     *)
(*   plans              what install_plan returns for each chart and       *)
(*                      profile for which it does                          *)
(*   hooked             the charts with chart-test hooks                   *)
(* A release has a type, "lifecycle", "local", "oci" or "repo"; the pins   *)
(* that it gives; the runtime values that it asks for; and whether its     *)
(* files exist.  The chart of a lifecycle release is a key, a chart and a  *)
(* profile; the others have the name of a chart.  A release is installed   *)
(* under the name of its chart, in one namespace for all its profiles.     *)
(***************************************************************************)
EXTENDS Naturals, FiniteSets, Sequences

Authored(type, key) == [type |-> type, key |-> key, pins |-> {}, runtime |-> {}, files |-> TRUE]

-----------------------------------------------------------------------------
(***************************************************************************)
(* What is accepted.                                                       *)
(***************************************************************************)

\* _KIND_RUNTIME_PLACEHOLDERS: what a runtime value may stand for.
Placeholders == {"name", "context", "host", "port"}

\* _exactly_one_pin, and the version that a repository chart must have.
Pinned(r) ==
  CASE r.type = "oci" -> Cardinality(r.pins) = 1
    [] r.type = "repo" -> r.pins = {"version"}
    [] OTHER -> r.pins = {}

\* BootstrapRelease and StackRelease: a stack has no local charts and no runtime values.
Accepted(r, where) ==
  /\ Pinned(r) /\ r.runtime \subseteq Placeholders
  /\ where = "stack" => r.type # "local" /\ r.runtime = {}

\* validate_release: the chart, its profile and its values are there.
Valid(given, r) ==
  /\ r.files
  /\ r.type = "lifecycle" => r.key \in DOMAIN given.plans

LoadedAll(given, list, where) ==
  \A i \in DOMAIN list : Accepted(list[i], where) /\ Valid(given, list[i])

\* _target_releases: a chart is a stack of one; --profile is for a chart.
TargetReleases(given) ==
  IF given.only = "" THEN given.stack
  ELSE <<Authored("lifecycle", <<given.only, IF given.profile = "" THEN "minimal" ELSE given.profile>>)>>

-----------------------------------------------------------------------------
(***************************************************************************)
(* What is installed.                                                      *)
(***************************************************************************)

Installs(key, runtime, by) == [key |-> key, runtime |-> runtime, by |-> by]

\* _releases: what one release installs; runtime values go to the last of its plan.
Planned(given, r) ==
  IF r.type # "lifecycle" THEN <<Installs(r.key, r.runtime, r)>>
  ELSE LET plan == given.plans[r.key]
       IN [i \in DOMAIN plan |-> Installs(plan[i], IF i = Len(plan) THEN r.runtime ELSE {}, r)]

\* A place in what is installed: a release, by its number, and an entry of its plan.
Before(p, q) == p[1] < q[1] \/ (p[1] = q[1] /\ p[2] < q[2])

PlannedAll(given, list) ==
  [p \in UNION {{i} \X DOMAIN Planned(given, list[i]) : i \in DOMAIN list} |-> Planned(given, list[p[1]])[p[2]]]
Lifecycle(install) == install.by.type = "lifecycle"

\* preflight: a list that resolves, without hooks, which bootstrap does not run.
Bootstraps(given) == PlannedAll(given, given.bootstrap)
BootstrapResolves(given) ==
  /\ LoadedAll(given, given.bootstrap, "bootstrap")
  /\ LET all == Bootstraps(given) IN \A p \in DOMAIN all : Lifecycle(all[p]) => all[p].key[1] \notin given.hooked

\* Mutant: a chart that bootstrap installs is its own in any profile.
BootstrapOwns_Charts(given) ==
  {k \in DOMAIN given.plans :
     \E p \in DOMAIN Bootstraps(given) : Lifecycle(Bootstraps(given)[p]) /\ Bootstraps(given)[p].key[1] = k[1]}

\* owned: the charts and profiles that bootstrap installs.
BootstrapOwns(given) ==
  LET all == Bootstraps(given) IN {all[p].key : p \in {q \in DOMAIN all : Lifecycle(all[q])}}

\* The lifecycle entries of the target that are not bootstrap's.
Own(given, all) ==
  LET owned == BootstrapOwns(given)
  IN {p \in DOMAIN all : Lifecycle(all[p]) /\ all[p].key \notin owned}

\* One chart in two profiles.
Conflicting(given, all) ==
  \E p, q \in Own(given, all) : all[p].key[1] = all[q].key[1] /\ all[p].key # all[q].key

\* _preflight: every entry once, as an earlier release has it, and without bootstrap's.
Keeps(given, all) ==
  LET own == Own(given, all)
  IN {p \in DOMAIN all :
        ~Lifecycle(all[p]) \/ (p \in own /\ \A q \in own : Before(q, p) => all[q].key # all[p].key)}
Kept(given, all) == [p \in Keeps(given, all) |-> all[p]]

\* A target that resolves: a chart is named by the caller, a stack is loaded.
TargetResolves(given) ==
  IF given.only = "" THEN given.profile = "" /\ LoadedAll(given, given.stack, "stack")
  ELSE TargetReleases(given)[1].key \in DOMAIN given.plans

Nowhere == [refused |-> TRUE, bootstrap |-> <<>>, target |-> <<>>]

\* _prepare: everything is resolved before the cluster is touched.
Prepared(given) ==
  IF ~BootstrapResolves(given) \/ ~TargetResolves(given) THEN Nowhere
  ELSE LET all == PlannedAll(given, TargetReleases(given))
       IN IF Conflicting(given, all) THEN Nowhere
          ELSE [refused |-> FALSE, bootstrap |-> Bootstraps(given), target |-> Kept(given, all)]

\* plan: the lifecycle releases of bootstrap, and the target in its order.
DryRun(given) ==
  LET prepared == Prepared(given)
  IN [refused |-> prepared.refused,
      bootstrap |-> IF prepared.refused THEN {} ELSE BootstrapOwns(given),
      target |-> [p \in DOMAIN prepared.target |-> prepared.target[p].key]]

\* _runtime_values: what each stands for, a host only if one is asked for.
Facts(runtime) == {"port", "name", "context"} \union (IF "host" \in runtime THEN {"host"} ELSE {})

-----------------------------------------------------------------------------
(***************************************************************************)
(* Port mappings.  A cluster has the ports that its kind config declares,  *)
(* or none of an unreadable one, and node containers: the ports that each  *)
(* was created with, whether it runs, and whether docker can inspect it.   *)
(***************************************************************************)

\* kind_config_host_ports.
Expected(cluster) == IF cluster.readable THEN cluster.declared ELSE {}

\* docker shows the ports of a container that runs.
Bound(node) == IF node.runs THEN node.ports ELSE {}

\* container_host_ports: a container that cannot be inspected has none.
LivePorts(cluster) == IF cluster.listed THEN UNION {Bound(n) : n \in {m \in cluster.nodes : m.inspected}} ELSE {}

\* port_mapping_drift.
PortDrift(cluster) == Expected(cluster) \ LivePorts(cluster)
=============================================================================
