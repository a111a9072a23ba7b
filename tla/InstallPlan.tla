---------------------------- MODULE InstallPlan ----------------------------
(***************************************************************************)
(* What is installed for a target, and in which order: the depth-first     *)
(* walk over the requirements of chart profiles (shared/charts/            *)
(* install_plan.py), the merge of one walk per requested release, and the  *)
(* steps that are compiled for `chart test` (commands/test/plan.py).       *)
(* `local up` merges by other rules (_preflight of commands/local/run.py). *)
(*                                                                         *)
(* A key is a chart and one of its profiles.  What the charts require, and *)
(* what is asked for, is any.                                              *)
(***************************************************************************)
EXTENDS Naturals, Sequences

CONSTANTS
  Keys,    \* pairs of a chart and a profile
  Lists,   \* the lists of requirements that a profile may have
  Roots    \* the lists of releases that may be asked for

ASSUME PlanAssumption == Lists \subseteq Seq(Keys) /\ Roots \subseteq Seq(Keys) \ {<<>>}

VARIABLES
  requires,  \* what each profile requires, in order
  request,   \* who asks, for which roots, and whether with --namespace
  owned,     \* what bootstrap installs
  mode,      \* what becomes of what is required: compile_plan's requires
  root,      \* the root that is walked
  visiting,  \* the path of the walk: a key and what is left of its requirements
  plan,      \* the plan of this root; then what of it is not yet merged
  entries,   \* the merged plan
  at,        \* the entry that is compiled
  steps,     \* the steps so far
  cleanups,  \* the cleanup hooks so far, the last entry first
  skipped,   \* what is left out, and has to be found installed
  pc         \* where it is, or how it ended

inputs == <<requires, request, owned, mode>>
walk == <<root, visiting, plan>>
compiled == <<at, steps, cleanups, skipped>>
vars == <<inputs, walk, entries, compiled, pc>>

Elements(s) == {s[i] : i \in DOMAIN s}
ChartOf(k) == k[1]
OnPath == {visiting[i].key : i \in DOMAIN visiting}
EntryKeys == {entries[i].key : i \in DOMAIN entries}
Selected == Elements(request.roots)

\* A set of profiles that holds what each of them requires.
Closed(S) == \A k \in S : Elements(requires[k]) \subseteq S

Init ==
  /\ requires \in [Keys -> Lists]
  /\ request \in [by : {"test"}, roots : Roots, moved : BOOLEAN] \union
                 [by : {"local"}, roots : Roots, moved : {FALSE}]
  /\ owned \in {S \in SUBSET Keys : Closed(S)}
  /\ mode \in {"install", "skip", "install-untested"}
  /\ request.by = "local" => mode = "install"
  /\ root = 1 /\ visiting = <<>> /\ plan = <<>> /\ entries = <<>>
  /\ at = 1 /\ steps = <<>> /\ cleanups = <<>> /\ skipped = {}
  /\ pc = "open"

-----------------------------------------------------------------------------
(***************************************************************************)
(* The walk: visit().                                                      *)
(***************************************************************************)

\* A profile is looked up, with its chart; unknown or disabled, it ends the plan.
Enter(k) ==
  \/ visiting' = Append(visiting, [key |-> k, left |-> requires[k]]) /\ pc' = "walk"
  \/ pc' = "spec" /\ UNCHANGED visiting

\* The walk of the next root begins.
Open ==
  /\ pc = "open" /\ Enter(request.roots[root])
  /\ UNCHANGED <<inputs, root, plan, entries, compiled>>

Top == visiting[Len(visiting)]

\* The path, with its last requirement taken up.
Taken == [visiting EXCEPT ![Len(visiting)].left = Tail(@)]

\* The next requirement of the profile at the end of the path: planned already, on the
\* path, which is a cycle, or new.
Visit ==
  /\ pc = "walk" /\ Top.left # <<>>
  /\ LET k == Head(Top.left)
     IN \/ k \in Elements(plan) /\ visiting' = Taken /\ UNCHANGED pc
        \/ k \notin Elements(plan) /\ k \in OnPath /\ pc' = "cycle" /\ UNCHANGED visiting
        \/ /\ k \notin Elements(plan) \union OnPath
           /\ \/ visiting' = Append(Taken, [key |-> k, left |-> requires[k]]) /\ UNCHANGED pc
              \/ pc' = "spec" /\ UNCHANGED visiting
  /\ UNCHANGED <<inputs, root, plan, entries, compiled>>

\* Mutant: a profile is planned before what it requires.
Leave_First ==
  /\ pc = "walk" /\ Top.left = <<>>
  /\ plan' = <<Top.key>> \o plan
  /\ visiting' = SubSeq(visiting, 1, Len(visiting) - 1)
  /\ pc' = IF Len(visiting) = 1 THEN "merge" ELSE "walk"
  /\ UNCHANGED <<inputs, root, entries, compiled>>

\* Everything that the last profile requires is planned, and so it is; a values file that
\* is missing ends the plan.
Leave ==
  /\ pc = "walk" /\ Top.left = <<>>
  /\ \/ /\ plan' = Append(plan, Top.key)
        /\ visiting' = SubSeq(visiting, 1, Len(visiting) - 1)
        /\ pc' = IF Len(visiting) = 1 THEN "merge" ELSE "walk"
     \/ pc' = "spec" /\ UNCHANGED <<plan, visiting>>
  /\ UNCHANGED <<inputs, root, entries, compiled>>

-----------------------------------------------------------------------------
(***************************************************************************)
(* The merge, entry by entry.                                              *)
(***************************************************************************)

\* --namespace moves the root, which is the last entry of its plan.
Namespace(k) == IF request.moved /\ Len(plan) = 1 THEN "moved" ELSE "home"

\* chart test: one chart and profile in two namespaces.  local: one chart in two profiles.
Clashes(k) ==
  \E i \in DOMAIN entries :
    IF request.by = "test"
    THEN entries[i].key = k /\ entries[i].namespace # Namespace(k)
    ELSE ChartOf(entries[i].key) = ChartOf(k) /\ entries[i].key # k

\* The next entry of the plan joins the merged plan, unless it is there, or `local`
\* leaves it to bootstrap.
Merge ==
  /\ pc = "merge" /\ plan # <<>>
  /\ LET k == Head(plan)
         left == request.by = "local" /\ k \in owned
     IN \/ left /\ plan' = Tail(plan) /\ UNCHANGED <<entries, pc>>
        \/ ~left /\ Clashes(k) /\ pc' = "conflict" /\ UNCHANGED <<entries, plan>>
        \/ /\ ~left /\ ~Clashes(k) /\ plan' = Tail(plan) /\ UNCHANGED pc
           /\ entries' = IF k \in EntryKeys THEN entries
                         ELSE Append(entries, [key |-> k, namespace |-> Namespace(k)])
  /\ UNCHANGED <<inputs, root, visiting, compiled>>

\* The plan of this root is merged: the next root, or the steps.
Merged ==
  /\ pc = "merge" /\ plan = <<>>
  /\ IF root < Len(request.roots)
     THEN root' = root + 1 /\ pc' = "open"
     ELSE UNCHANGED root /\ pc' = IF request.by = "test" THEN "compile" ELSE "done"
  /\ UNCHANGED <<inputs, visiting, plan, entries, compiled>>

-----------------------------------------------------------------------------
(***************************************************************************)
(* The steps of chart test.                                                *)
(***************************************************************************)

\* The identity that bootstrap has installed: it knows nothing of --namespace.
Owned(e) == e.key \in owned /\ e.namespace = "home"

Step(kind, e) == [kind |-> kind, entry |-> e]
Preparation(e) == <<Step("namespace", e), Step("lint", e), Step("preInstall", e), Step("install", e), Step("postInstall", e)>>

\* What --skip-requires leaves out.
LeftOut(e) == mode = "skip" /\ e.key \notin Selected

\* The table of compile_plan; every profile has all the hooks and a helm test.
StepsOf(e) ==
  IF Owned(e) THEN IF e.key \in Selected THEN <<Step("ready", e), Step("test", e)>> ELSE <<>>
  ELSE IF LeftOut(e) THEN <<>>
  ELSE IF e.key \in Selected \/ mode = "install" THEN Preparation(e) \o <<Step("test", e)>>
  ELSE Preparation(e)

\* Every entry that is installed adds its cleanup hook before those of the entries before.
CleanupsOf(e) == IF Owned(e) \/ LeftOut(e) THEN cleanups ELSE <<Step("cleanup", e)>> \o cleanups

\* The next entry gets its steps; a hook that is not executable ends the plan.
Compile ==
  /\ pc = "compile" /\ at <= Len(entries)
  /\ LET e == entries[at]
     IN \/ /\ steps' = steps \o StepsOf(e) /\ cleanups' = CleanupsOf(e) /\ at' = at + 1
           /\ skipped' = IF ~Owned(e) /\ LeftOut(e) THEN skipped \union {e.key} ELSE skipped
           /\ UNCHANGED pc
        \/ ~Owned(e) /\ ~LeftOut(e) /\ pc' = "spec" /\ UNCHANGED compiled
  /\ UNCHANGED <<inputs, walk, entries>>

\* The cleanup hooks come last.
Compiled ==
  /\ pc = "compile" /\ at > Len(entries)
  /\ steps' = steps \o cleanups /\ pc' = "done"
  /\ UNCHANGED <<inputs, walk, entries, at, cleanups, skipped>>

Next == Open \/ Visit \/ Leave \/ Merge \/ Merged \/ Compile \/ Compiled

Spec == Init /\ [][Next]_vars

-----------------------------------------------------------------------------
(***************************************************************************)
(* Properties.                                                             *)
(***************************************************************************)

\* Every variable keeps its type.
TypeOK ==
  /\ requires \in [Keys -> Lists] /\ owned \subseteq Keys
  /\ request \in [by : {"test", "local"}, roots : Roots, moved : BOOLEAN]
  /\ mode \in {"install", "skip", "install-untested"}
  /\ root \in DOMAIN request.roots
  /\ visiting \in Seq([key : Keys, left : Seq(Keys)]) /\ plan \in Seq(Keys)
  /\ entries \in Seq([key : Keys, namespace : {"home", "moved"}])
  /\ at \in Nat /\ skipped \subseteq Keys
  /\ pc \in {"open", "walk", "merge", "compile", "done", "spec", "cycle", "conflict"}

\* install_plan: whatever requires what, and whatever is asked for at the same time, an
\* entry of the merged plan comes after everything it requires that is not bootstrap's.
RequirementsFirst ==
  \A j \in DOMAIN entries :
    \A k \in Elements(requires[entries[j].key]) :
      \/ request.by = "local" /\ k \in owned
      \/ \E i \in 1 .. j - 1 : entries[i].key = k

\* "chart:profile once": no entry is planned twice, by whichever roots it is required.
EachOnce == \A i, j \in DOMAIN entries : entries[i].key = entries[j].key => i = j

\* Nothing is installed that no root requires: what is merged is in every set that holds
\* the roots and what its members require.
NothingElse ==
  \A S \in SUBSET Keys : Selected \subseteq S /\ Closed(S) => EntryKeys \subseteq S

\* DependencyCycleError: a plan is refused as cyclic only if some profiles require each
\* other in a circle, so that no order would do.
CycleIsReal ==
  pc = "cycle" =>
    \E S \in SUBSET Keys : S # {} /\ \A k \in S : Elements(requires[k]) \intersect S # {}

\* What was merged before a plan is done holds every root, or bootstrap does.
RootsArePlanned ==
  pc \in {"compile", "done"} =>
    \A k \in Selected : k \in EntryKeys \/ (request.by = "local" /\ k \in owned)

\* "request.namespace relocates each selected chart, never what it requires."
OnlySelectedMove ==
  \A i \in DOMAIN entries : entries[i].namespace = "moved" => entries[i].key \in Selected

Done == pc = "done" /\ request.by = "test"
Position(kind, k) == {i \in DOMAIN steps : steps[i].kind = kind /\ steps[i].entry.key = k}

\* The steps: a chart is installed and tested only after all that it requires is in the
\* cluster: by an earlier step, by bootstrap, or because the run looks for it.
StepsAreOrdered ==
  Done =>
    \A i \in DOMAIN steps :
      steps[i].kind # "cleanup" =>
        \A k \in Elements(requires[steps[i].entry.key]) :
          k \in owned \union skipped \/ \E j \in 1 .. i - 1 : j \in Position("install", k)

\* Every selected release is tested whatever owns or requires it, and on a new cluster no
\* other is.
SelectedAreTested ==
  Done =>
    /\ \A k \in Selected : Position("test", k) # {}
    /\ mode # "install" => \A i \in DOMAIN steps : steps[i].kind = "test" => steps[i].entry.key \in Selected

\* Cleanup hooks come last, one for each release that was installed, in the reverse order.
CleanupsMirrorInstalls ==
  Done =>
    \A i, j \in DOMAIN steps :
      steps[i].kind = "cleanup" =>
        /\ i < j => steps[j].kind = "cleanup"
        /\ Position("install", steps[i].entry.key) # {}
        /\ i < j => \A a \in Position("install", steps[i].entry.key),
                       b \in Position("install", steps[j].entry.key) : b < a

\* compile_install_plan: a plan has all that its roots require, each profile once and what it
\* requires before it, nothing else, nothing that was not selected moved, and it is refused
\* only for a real cycle.
EntriesAreRight ==
  /\ RequirementsFirst
  /\ EachOnce
  /\ NothingElse
  /\ RootsArePlanned
  /\ OnlySelectedMove
  /\ CycleIsReal

\* compile_test_plan: the steps keep the order of the plan, test what was selected, and undo
\* in reverse what they installed.
StepsAreRight == StepsAreOrdered /\ SelectedAreTested /\ CleanupsMirrorInstalls

\* install_plan and compile_plan: both are right.
PlanIsRight == EntriesAreRight /\ StepsAreRight
=============================================================================
