------------------------------ MODULE Observed ------------------------------
(***************************************************************************)
(* How what kubectl prints is read (integrations/kubectl.py): references   *)
(* to HelmReleases, their statuses, the rollouts of their workloads, and   *)
(* their test pods; and which HelmReleases a monitor acts on               *)
(* (commands/promote/matching.py).  A field that an object does not have   *)
(* is Absent.                                                              *)
(*                                                                         *)
(* A HelmRelease has api, "other" for a group that is not Flux's; name,    *)
(* namespace, releaseName, target and storage, "" for none; chart and      *)
(* version; suspended; generation and observed; history, the attempts,     *)
(* newest first; conditions, a set of types with status and reason.        *)
(***************************************************************************)
EXTENDS Naturals, Sequences

CONSTANT Absent

Given(value, default) == IF value = Absent THEN default ELSE value
Called(name, default) == IF name = "" THEN default ELSE name

-----------------------------------------------------------------------------
(***************************************************************************)
(* HelmReleases.                                                           *)
(***************************************************************************)

\* _ref_from_item: any version of the group, and an identity.
IsRef(item) == item.api # "other" /\ item.name # "" /\ item.namespace # ""

\* With the name that Flux gives to the release of Helm, and the namespaces of its objects
\* and of its storage.
RefOf(item) ==
  [name |-> item.name, namespace |-> item.namespace,
   release |-> IF item.releaseName # "" THEN <<item.releaseName>>
               ELSE IF item.target # "" THEN <<item.target, item.name>> ELSE <<item.name>>,
   target |-> Called(item.target, item.namespace),
   storage |-> Called(item.storage, Called(item.target, item.namespace))]

\* list_helmreleases: of one namespace, or of all; what is no reference is left out.
Seen(items, namespace) == {i \in items : IsRef(i) /\ (namespace = "" \/ i.namespace = namespace)}

Condition(item, type) == {c \in item.conditions : c.type = type}
ConditionStatus(item, type) ==
  IF Condition(item, type) = {} THEN "absent" ELSE (CHOOSE c \in Condition(item, type) : TRUE).status
ConditionReason(item, type) ==
  IF Condition(item, type) = {} THEN "" ELSE (CHOOSE c \in Condition(item, type) : TRUE).reason

\* The latest attempt.
Newest(history) == IF history = <<>> THEN Absent ELSE history[1]

\* _status_from_item, as the decision reads it: no generation is 0, and none observed is
\* one that there cannot be.
StatusOf(item) ==
  [suspended |-> item.suspended,
   stalled |-> ConditionStatus(item, "Stalled") = "True",
   ready |-> ConditionStatus(item, "Ready"), reason |-> ConditionReason(item, "Ready"),
   testFailed |-> ConditionStatus(item, "TestSuccess") = "False",
   testReason |-> ConditionReason(item, "TestSuccess"),
   released |-> ConditionStatus(item, "Released") = "True",
   generation |-> Given(item.generation, 0), observed |-> item.observed,
   history |-> Newest(item.history)]

\* filter_matched_statuses: those that want the chart in the version.
MatchedBy(items, namespace, chart, version) ==
  {RefOf(i) : i \in {j \in Seen(items, namespace) : j.chart = chart /\ j.version = version}}

-----------------------------------------------------------------------------
(***************************************************************************)
(* Workloads: how many pods are wanted, ready, available, and of the       *)
(* present template, and the generation that their controller has          *)
(* observed.                                                               *)
(***************************************************************************)

\* An API server leaves out most counts that are 0, and an old one what is available of a
\* StatefulSet.
Wire(w, old) ==
  LET counted(n) == IF n = 0 THEN Absent ELSE n
  IN [w EXCEPT !.ready = IF w.kind = "DaemonSet" THEN @ ELSE counted(@),
               !.available = IF w.kind # "StatefulSet" THEN counted(@) ELSE IF old THEN Absent ELSE @,
               !.updated = counted(@), !.observed = counted(@)]

\* Mutant: whatever does not say what is available has available what is ready.
Available_Ready(object) == Given(object.available, Given(object.ready, 0))

Available(object) ==
  Given(object.available, IF object.kind = "StatefulSet" THEN Given(object.ready, 0) ELSE 0)

\* _rollout_from_item, which does not look at what is updated.
HasConverged(object) ==
  /\ Given(object.observed, 0) = Given(object.generation, 0)
  /\ Given(object.ready, 0) = Given(object.wanted, IF object.kind = "DaemonSet" THEN 0 ELSE 1)
  /\ Available(object) = Given(object.wanted, IF object.kind = "DaemonSet" THEN 0 ELSE 1)

\* _flux_owner_selector.
OwnedBy(object, ref) == object.owner = <<ref.name, ref.namespace>>

\* list_owned_workloads: of all namespaces.
Rollouts(objects, ref) == {o \in objects : OwnedBy(o, ref) /\ o.kind \in {"Deployment", "StatefulSet", "DaemonSet"}}
Pending(objects, ref) == {o.name : o \in {p \in Rollouts(objects, ref) : ~HasConverged(p)}}

\* list_test_pods: of the target namespace, by the hook and its old name, each once.
TestPods(pods, ref) ==
  {[namespace |-> p.namespace, name |-> p.name, phase |-> p.phase] :
     p \in {q \in pods : q.namespace = ref.target /\ OwnedBy(q, ref) /\ q.hook \in {"test", "test-success"}}}
=============================================================================
