----------------------------- MODULE Decisions ------------------------------
(***************************************************************************)
(* The functions that decide at once what they are asked: how what kubectl *)
(* prints is read (Observed), what a promotion edits (FluxFiles), what a   *)
(* changed file selects and what a pattern matches (Selection), how        *)
(* manifests are judged (Conformance), and what is installed on a          *)
(* workstation (LocalPlan).  A question is put once, with any input.       *)
(***************************************************************************)
EXTENDS Classify, Selection, Conformance, Observed, FluxFiles, LocalPlan

CONSTANT Inputs  \* of each question, the inputs that it may be put with

VARIABLES
  question,  \* which is
  asked,     \* whether it was put
  case       \* its input

askVars == <<question, asked, case>>

NoCase == <<>>
IsList(s) == Len(s) \in Nat /\ s = [i \in 1 .. Len(s) |-> s[i]]

\* The inputs of one question.
Of(q) == IF q \in DOMAIN Inputs THEN Inputs[q] ELSE {}

-----------------------------------------------------------------------------
(***************************************************************************)
(* What an input is.                                                       *)
(***************************************************************************)

\* An object and the version that is asked for: an API server keeps a generation of every
\* object, and one condition of a type.
IsObject(shown) ==
  /\ shown.item.generation # Absent /\ shown.version # Absent
  /\ \A c, d \in shown.item.conditions : c.type = d.type => c = d

\* Workloads in full, as the server has them, and whether it is an old one; pods; and
\* references to releases.
WorkloadKinds == {"Deployment", "StatefulSet", "DaemonSet"}
IsWorkload(w) ==
  /\ w = [kind |-> w.kind, name |-> w.name, owner |-> w.owner, wanted |-> w.wanted, ready |-> w.ready,
          available |-> w.available, updated |-> w.updated, generation |-> w.generation, observed |-> w.observed]
  /\ w.kind \in WorkloadKinds
  /\ {w.wanted, w.ready, w.available, w.updated, w.generation, w.observed} \subseteq Nat
IsCluster(shown) == shown.old \in BOOLEAN /\ \A w \in shown.workloads : IsWorkload(w)

\* Files, a chart and a version of it: every HelmRelease has a name.
IsDoc(doc) ==
  /\ doc = [api |-> doc.api, name |-> doc.name, namespace |-> doc.namespace, chart |-> doc.chart,
            version |-> doc.version, text |-> doc.text]
  /\ IsHelmRelease(doc) => doc.name # ""
IsFile(f) ==
  /\ f = [suffix |-> f.suffix, parses |-> f.parses, docs |-> f.docs]
  /\ IsList(f.docs) /\ \A i \in DOMAIN f.docs : IsDoc(f.docs[i])
AreFiles(given) ==
  given.files = [p \in DOMAIN given.files |-> given.files[p]] /\ \A p \in DOMAIN given.files : IsFile(given.files[p])

\* A repository: a chart has a name and validates in environments that there are, and of
\* one that does not load nothing is known.
IsRepository(repo) ==
  /\ "" \notin repo.charts
  /\ \A c \in repo.charts :
       /\ repo.rows[c] \subseteq AllEnvs
       /\ repo.depends[c] = Unloadable => repo.rows[c] = {} /\ repo.profiles[c] = {}

\* A pattern of at least one segment, and a path.
IsMatch(given) == IsList(given.pattern) /\ IsList(given.path) /\ given.pattern # <<>>

\* Plans as install_plan makes them: a plan ends with the profile that it is for, and what
\* a profile requires comes before it.
IsPlan(given, k) ==
  LET plan == given.plans[k]
  IN /\ IsList(plan) /\ plan # <<>> /\ plan[Len(plan)] = k
     /\ \A j \in DOMAIN plan : \A r \in given.requires[plan[j]] : \E i \in 1 .. j - 1 : plan[i] = r
IsLocal(given) ==
  /\ IsList(given.bootstrap) /\ IsList(given.stack)
  /\ \A k \in DOMAIN given.plans : IsPlan(given, k)

ASSUME InputsAssumption ==
  /\ Absent \notin Nat
  /\ \A shown \in Of("object") : IsObject(shown)
  /\ \A shown \in Of("workloads") : IsCluster(shown)
  /\ \A given \in Of("files") : AreFiles(given)
  /\ \A given \in Of("select") \union Of("request") : IsRepository(given.repo)
  /\ \A given \in Of("match") : IsMatch(given)
  /\ \A given \in Of("local") : IsLocal(given)

-----------------------------------------------------------------------------
AskInit == question \in DOMAIN Inputs /\ asked = FALSE /\ case = NoCase

\* A question is put once, and answered at once.
Ask == ~asked /\ asked' = TRUE /\ case' \in Of(question) /\ UNCHANGED question

AskSpec == AskInit /\ [][Ask]_askVars

Put(q) == question = q /\ asked

-----------------------------------------------------------------------------
(***************************************************************************)
(* What kubectl prints.                                                    *)
(***************************************************************************)

\* _status_from_item: a HelmRelease that its controller has not seen, or has seen only a
\* part of, is not ready, whatever its object lacks.
IncompleteIsNotReady(item, version) ==
  LET decision == Evaluate(StatusOf(item), version, Listed({}))
  IN decision.terminal /\ decision.verdict = "READY" =>
       /\ item.observed = item.generation /\ ~item.suspended
       /\ item.history # <<>> /\ item.history[1] = version
       /\ \E c \in item.conditions : c.type = "Ready" /\ c.status = "True"
       /\ ~\E c \in item.conditions : c.type = "Stalled" /\ c.status = "True"

Printed(shown) == {Wire(w, shown.old) : w \in shown.workloads}

\* _rollout_from_item: when nothing of a release is pending, as many pods of every workload
\* are ready and available as it wants, and its controller has seen its present generation,
\* although counts of 0 are not printed.  What is available of a StatefulSet an old server
\* never prints.
ConvergedMeansAvailable(shown) ==
  \A ref \in shown.refs :
    Pending(Printed(shown), ref) = {} =>
      \A w \in shown.workloads :
        OwnedBy(w, ref) =>
          /\ w.ready = w.wanted /\ w.observed = w.generation
          /\ w.available = w.wanted \/ (w.kind = "StatefulSet" /\ shown.old)

\* _rollout_from_item: and no workload of which that is so is waited for, even while pods of
\* its former template are among them: the code reads the replicas that are ready and
\* available, and not those that are updated, for which kubectl's own rollout rule waits.
AvailableMeansConverged(shown) ==
  \A w \in shown.workloads :
    w.observed = w.generation /\ {w.ready, w.available} = {w.wanted} => HasConverged(Wire(w, shown.old))

\* _flux_owner_selector: a release waits for no workload, and deletes no test pod, of a
\* release of its name in another namespace.
OnlyItsOwn(shown) ==
  \A ref \in shown.refs :
    /\ Pending(Printed(shown), ref) \subseteq {w.name : w \in {v \in shown.workloads : v.owner = <<ref.name, ref.namespace>>}}
    /\ \A p \in shown.pods : TestPods({p}, ref) # {} => p.owner = <<ref.name, ref.namespace>>

\* kubectl.py: an object of which parts are missing is not taken for ready, a workload is
\* waited for until its pods are available, of whatever template, and releases are kept apart.
ObservedIsTrue ==
  /\ Put("object") => IncompleteIsNotReady(case.item, case.version)
  /\ Put("workloads") => 
       ConvergedMeansAvailable(case) /\ AvailableMeansConverged(case) /\ OnlyItsOwn(case)

-----------------------------------------------------------------------------
(***************************************************************************)
(* What a promotion edits.                                                 *)
(***************************************************************************)

PlacesOf(matches) == {<<m.path, m.index>> : m \in matches}

\* scan and set_version: of the releases that promote pr finds in drift, those whose chart
\* YAML does not read as text stay there, and no other; and no other document changes.
PromotionIsComplete(files, chart, version) ==
  LET after == Promoted(files, chart, version)
  IN /\ PlacesOf(Drift(after, chart, version))
          = {x \in PlacesOf(Drift(files, chart, version)) : ~files[x[1]].docs[x[2]].text}
     /\ PlacesOf(Scan(after, chart)) = PlacesOf(Scan(files, chart))
     /\ \A p \in DOMAIN files : \A i \in DOMAIN files[p].docs :
          after[p].docs[i] # files[p].docs[i] => <<p, i>> \in PlacesOf(Scan(files, chart))

\* The object of a document that was just applied: Flux has a namespace for one without,
\* and the API takes no chart but text.
Item(doc, ns) ==
  [api |-> doc.api, name |-> doc.name, namespace |-> Called(doc.namespace, ns), releaseName |-> "", target |-> "",
   storage |-> "", chart |-> doc.chart, version |-> doc.version, suspended |-> FALSE, generation |-> 1,
   observed |-> Absent, history |-> <<>>, conditions |-> {}]
Applied(files) ==
  UNION {{Item(files[p].docs[i], "default") :
            i \in {j \in DOMAIN files[p].docs : files[p].docs[j].api # "none" /\ files[p].docs[j].text}} :
           p \in YamlFiles(files)}

\* filter_matched_statuses: once Flux has applied the files, the monitor of a version
\* watches exactly the releases that promote pr found, in the namespaces of the files, but
\* for those whose chart is no text.
PromotedAreWatched(files, chart, version) ==
  {<<r.name, r.namespace>> : r \in MatchedBy(Applied(Promoted(files, chart, version)), "", chart, version)}
    = {<<m.name, Called(m.namespace, "default")>> :
         m \in {x \in Scan(files, chart) : files[x.path].docs[x.index].text}}

\* scanner.py, editor.py, matching.py: the scan, the edit and the match of a promotion
\* agree on which releases it is about, except that only the edit tells a chart that is a
\* number from its text.
PromotionIsWatched ==
  Put("files") /\ ~ScanFails(case.files) =>
    /\ PromotionIsComplete(case.files, case.chart, case.version)
    /\ PromotedAreWatched(case.files, case.chart, case.version)

-----------------------------------------------------------------------------
(***************************************************************************)
(* What a change selects.                                                  *)
(***************************************************************************)

ValidatedOwner(repo, file) == file.chart \in repo.charts /\ repo.rows[file.chart] # {}

\* validate: no change of a validated chart goes by in silence.  It selects rows of the
\* chart, or is reported, or an authored trigger takes it for granted.
NoSilentChange(repo, file) ==
  ValidatedOwner(repo, file) =>
    \/ \E r \in ValidateRows(repo, file) : r[1] = file.chart
    \/ Reported(repo, file) # "nothing"
    \/ \E t \in repo.triggers[file.chart] : file.place \in t.places

\* _reasons_for: a chart that declares a local dependency is validated in all its
\* environments when any file of that chart changes, ignored or not, even if the chart that
\* has the file is not validated itself.  What depends on the dependent is not: direct
\* dependents are all (OthersStayOut).
DependentsAreValidated(repo, file) ==
  file.chart \in repo.charts /\ (ValidatedOwner(repo, file) \/ file.place # "lifecycle") =>
    \A d \in repo.charts \ {file.chart} :
      <<file.chart, "local">> \in repo.depends[d] => RowsOf(repo, {d}) \subseteq ValidateRows(repo, file)

\* build_helm_dependency_index: a file of one environment selects no other, although the
\* chart depends on an upstream chart of its own name; and of other charts only those that
\* declare a local dependency on it, no remote and no indirect dependents.
OthersStayOut(repo, file) ==
  file \notin Fanout =>
    \A r \in ValidateRows(repo, file) :
      \/ r[1] = file.chart /\ (ChartWide(file) \/ r[2] \in Triggered(repo, file))
      \/ r[1] # file.chart /\ <<file.chart, "local">> \in repo.depends[r[1]]

\* test: what is selected exists and is enabled, and every dependent test that a changed
\* chart names is selected, or an error.
TestsExist(repo, file) ==
  AllLoad(repo) =>
    /\ \A t \in ChartTests(repo, file) : Exists(repo, t)
    /\ file.chart \in Enabled(repo) =>
         repo.dependents[file.chart] \subseteq ChartTests(repo, file) \union TestErrors(repo, file)

\* publish and test: a change publishes only charts that there are, and tests those that
\* it publishes, if they have tests.
PublishedIsTested(repo, file) ==
  AllLoad(repo) =>
    \A c \in Published(repo, {file}) :
      /\ c \in repo.charts
      /\ c \in Enabled(repo) => \E p \in repo.profiles[c] : <<c, p>> \in ChartTests(repo, file)

\* _selection: --chart, --env and --changed each narrow what is validated, in whatever
\* combination, an empty list of changes to nothing; and a chart that is named is
\* validated, or an error, or refused.
RequestsNarrow(repo, ask) ==
  LET given == Requested(repo, ask)
      named == IF ask.charts = {} THEN repo.charts ELSE ask.charts
      candidates == {r \in RowsOf(repo, named \intersect repo.charts) : ask.envs = {} \/ r[2] \in ask.envs}
  IN ~given.refused =>
       /\ given.rows = {r \in candidates : ask.changes = NotGiven \/ \E f \in ask.changes : r \in ValidateRows(repo, f)}
       /\ \A c \in ask.charts : c \in given.errors \/ (c \in repo.charts /\ repo.rows[c] # {})

HasStar(pattern) == \E i \in DOMAIN pattern : pattern[i] \in {"*", "**"}

\* pattern_matches: the matcher, segment by segment with its two alternatives for **,
\* agrees with what a pattern says; one without a star matches what is below it.
PatternsMean(pattern, path) ==
  Matches(pattern, path) <=>
    IF HasStar(pattern) THEN Fits(pattern, path)
    ELSE \E i \in 1 .. Len(path) : Fits(pattern, SubSeq(path, 1, i))

\* select.py: what a change selects to validate, to test and to publish is the chart's and its
\* direct dependents', none is dropped without a word, and it is no more than was asked for.
SelectionIsComplete ==
  /\ Put("select") =>
       /\ NoSilentChange(case.repo, case.file)
       /\ DependentsAreValidated(case.repo, case.file)
       /\ OthersStayOut(case.repo, case.file)
       /\ TestsExist(case.repo, case.file)
       /\ PublishedIsTested(case.repo, case.file)
  /\ Put("request") => RequestsNarrow(case.repo, case.ask)
  /\ Put("match") => PatternsMean(case.pattern, case.path)

-----------------------------------------------------------------------------
(***************************************************************************)
(* How manifests are judged.                                               *)
(***************************************************************************)

\* What a configuration excepts: it names the kind, or the pair, and there is no schema.
Excepted(row, r) == Gvk(r) \notin row.covered /\ (r.kind \in row.kinds \/ Gvk(r) \in row.pairs)
HasSchema(row, r) == Gvk(r) \in row.covered \ row.damaged

\* _schema: a row passes only if every file was parsed, and every resource was found good
\* under a schema or is excepted, whatever the report calls it.
PassIsEarned(row) ==
  SchemaCheck(row).status = "passed" =>
    /\ \A f \in row.files : f.parses
    /\ \A r \in Everything(row) : r.fault # "unreadable" /\ (Excepted(row, r) \/ (HasSchema(row, r) /\ r.fault # "invalid"))

\* _is_schema_unavailable: a row fails for what its manifests say; that a schema is missing
\* or damaged is an error of the configuration.
FailureIsTheCharts(row) ==
  row.tool = "json" /\ SchemaCheck(row).status = "failed" =>
    \A r \in Everything(row) : r.fault # "unreadable" /\ ~Excepted(row, r) => HasSchema(row, r)

\* scan_rendered_directory: a CRD is found wherever kubeconform finds resources.
DiscoverySeesTheSame(row) ==
  ~Inventory(row).raised =>
    Inventory(row).crds = {e.of : e \in {d \in Report(row) : d.of \in Everything(row) /\ d.of.kind = "CRD"}}

\* _parse of kyverno: whatever verdicts a report has, and however it groups them, no fail and
\* no error is lost; a warn is no finding.
NoFindingIsDropped(row) ==
  row.tool \in {"json", "new"} /\ ~NoManifests(row) =>
    \A p \in row.policies : \A r \in In(row, {"yaml", "yml"}) :
      r.policy[p] \in {"fail", "error"} =>
        /\ PolicyCheck(row).status = "failed"
        /\ \E f \in PolicyCheck(row).findings : f.policy = p /\ f.of = r

\* runner.py, kyverno.py: a check passes what it has looked at in full, and fails a chart
\* for what the chart does.
CheckIsHonest ==
  /\ Put("conform") => PassIsEarned(case) /\ FailureIsTheCharts(case) /\ DiscoverySeesTheSame(case)
  /\ Put("policy") => NoFindingIsDropped(case)

-----------------------------------------------------------------------------
(***************************************************************************)
(* What is installed on a workstation.                                     *)
(***************************************************************************)

\* All that is installed, and its places: bootstrap's (0), and then the target's (1).
InstalledBy(given) ==
  LET prepared == Prepared(given)
  IN [p \in ({0} \X DOMAIN prepared.bootstrap) \union ({1} \X DOMAIN prepared.target) |->
        IF p[1] = 0 THEN prepared.bootstrap[p[2]] ELSE prepared.target[p[2]]]
Precedes(p, q) == p[1] < q[1] \/ (p[1] = q[1] /\ Before(p[2], q[2]))

\* _preflight: whatever is left to bootstrap, or to an earlier release, what a chart
\* requires is installed before it, in the profile that it requires, and unless bootstrap
\* installed it, no lifecycle release has put the chart in another profile since.  What
\* bootstrap installed a target may put in another profile, which is not checked.
RequirementsAreInstalled(given) ==
  LET all == InstalledBy(given)
  IN \A q \in DOMAIN all :
       Lifecycle(all[q]) =>
         \A k \in given.requires[all[q].key] :
           \E p \in DOMAIN all :
             /\ Precedes(p, q) /\ Lifecycle(all[p]) /\ all[p].key = k
             /\ \/ p[1] = 0
                \/ \A o \in DOMAIN all :
                     Precedes(p, o) /\ Precedes(o, q) /\ Lifecycle(all[o]) /\ all[o].key[1] = k[1] => all[o].key = k

\* "the same chart under two identities is an error", among the lifecycle releases of the
\* target: none of them is installed again, as it was or otherwise, by another one.
TargetInstallsOnce(given) ==
  LET target == Prepared(given).target
  IN \A p, q \in DOMAIN target :
       p # q /\ Lifecycle(target[p]) /\ Lifecycle(target[q]) => target[p].key[1] # target[q].key[1]

\* _releases: only the release that asks for them gets runtime values, all of them known;
\* it keeps them, unless something else installs its chart again.
RuntimeValuesStay(given) ==
  LET all == InstalledBy(given)
  IN \A p \in DOMAIN all :
       /\ all[p].runtime # {} => all[p].key = all[p].by.key /\ all[p].runtime \subseteq Facts(all[p].runtime)
       /\ all[p].key = all[p].by.key /\ ~(\E q \in DOMAIN all : Precedes(p, q) /\ all[q].key[1] = all[p].key[1]) =>
            all[p].runtime = all[p].by.runtime

\* plan: a dry run shows, in the order of the target, releases that are installed, and what
\* it does not show is a release of bootstrap that has no lifecycle.
DryRunTellsTheTruth(given) ==
  LET shown == DryRun(given)
      prepared == Prepared(given)
  IN /\ shown.bootstrap \subseteq {prepared.bootstrap[p].key : p \in DOMAIN prepared.bootstrap}
     /\ shown.target = [p \in DOMAIN prepared.target |-> prepared.target[p].key]
     /\ \A p \in DOMAIN prepared.bootstrap :
          prepared.bootstrap[p].key \in shown.bootstrap \/ ~Lifecycle(prepared.bootstrap[p])

\* port_mapping_drift: when nothing is missing of a config that declares ports, running
\* containers serve them all.
CleanMeansServed(cluster) ==
  Expected(cluster) # {} /\ PortDrift(cluster) = {} =>
    \A p \in cluster.declared : \E n \in cluster.nodes : n.runs /\ p \in n.ports

\* local/run.py, bootstrap.py, drift.py: what a local environment is made of is complete and
\* in order, its target does not overwrite itself, a dry run shows it, and no drift means
\* that its ports work.
LocalInstallIsSafe ==
  /\ Put("local") =>
       /\ RequirementsAreInstalled(case)
       /\ TargetInstallsOnce(case)
       /\ RuntimeValuesStay(case)
       /\ DryRunTellsTheTruth(case)
  /\ Put("ports") => CleanMeansServed(case)
=============================================================================
