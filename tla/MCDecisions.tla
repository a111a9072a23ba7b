---------------------------- MODULE MCDecisions -----------------------------
(***************************************************************************)
(* The deciders that run alone, one question at a time: those of           *)
(* Decisions, and which order a plan has (InstallPlan), whether            *)
(* dependencies are believed (Freshness), what a poll of a release says    *)
(* (Polls), what a listing of events answers (Timeline), how a CRD becomes *)
(* a schema (CrdSchemas) and which charts may contain one (Providers).     *)
(* The variables of the others rest.                                       *)
(***************************************************************************)
EXTENDS Decisions, InstallPlan, Freshness, Polls, Timeline, CrdSchemas, Providers

-----------------------------------------------------------------------------
\* Three profiles, two of them of one chart, each with up to two requirements, in one order.
MCKeys == {<<"a", "p">>, <<"a", "q">>, <<"b", "p">>}
Singles == {<<k>> : k \in MCKeys}
MCLists == {<<>>} \union Singles \union
  {<< <<"a", "p">>, <<"a", "q">> >>, << <<"a", "q">>, <<"b", "p">> >>}
MCRoots == Singles \union {<< <<"a", "p">>, <<"a", "q">> >>, << <<"a", "q">>, <<"b", "p">> >>, << <<"b", "p">>, <<"a", "p">> >>}

\* Every combination of the fields; a Ready condition that is absent has no
\* reason, and a generation runs at most one ahead of what Flux observed.
MCStatuses ==
  {[suspended |-> sus, stalled |-> sta, ready |-> rdy[1], reason |-> rdy[2],
    testFailed |-> tst # "none", testReason |-> IF tst = "none" THEN "" ELSE tst, released |-> rel,
    generation |-> gen, observed |-> 1, history |-> his] :
     sus \in BOOLEAN, sta \in BOOLEAN, tst \in {"none", "", "PodFailed"}, rel \in BOOLEAN,
     rdy \in {<<"absent", "">>, <<"True", "UpgradeSucceeded">>, <<"False", "UpgradeFailed">>,
              <<"False", "DependencyNotReady">>, <<"Unknown", "Progressing">>},
     gen \in {1, 2}, his \in {"old", "new"}}
MCListings == {Unread, Listed({}), Listed({"web"}), Listed({"web", "db"})}

\* A wrapper of an upstream chart of its name, that builds upon a library and may be built
\* upon; z was deleted.
Repositories == {r \in
  {[charts |-> {"a", "b", "l"},
    depends |-> [a |-> {<<"a", "remote">>, <<"l", "local">>}, b |-> needs, l |-> {}],
    rows |-> [a |-> envs[1], b |-> envs[2], l |-> {}],
    triggers |-> [a |-> authoredA, b |-> {}, l |-> {}],
    ignores |-> [a |-> ignored, b |-> {}, l |-> {}], catchAll |-> all,
    profiles |-> [a |-> tests[1], b |-> tests[2], l |-> {}],
    dependents |-> [a |-> names, b |-> {}, l |-> {}]] :
     needs \in {{<<"l", "remote">>}, {<<"a", "local">>}, Unloadable},
     envs \in {AllEnvs, {"prod"}} \X {{"ci"}, {}},
     authoredA \in {{}, {[places |-> {"ci values", "prod values"}, envs |-> ByName]},
                    {[places |-> {"template"}, envs |-> {"prod"}]}, {[places |-> {"other"}, envs |-> {}]}},
     ignored \in {{}, {"other"}}, all \in {{}, {"a"}},
     tests \in {{}, {"default", "x"}, {"x"}} \X {{}, {"default"}},
     names \in {{}, {<<"b", "default">>}, {<<"b", "x">>, <<"z", "default">>}}} :
  r.depends["b"] = Unloadable => r.rows["b"] = {} /\ r.profiles["b"] = {}}
Places == {"Chart.yaml", "lifecycle", "ci values", "prod values", "template", "test", "other"}
ChangedFiles == [chart : {"a", "b", "l", "z"}, place : Places] \union Fanout
PlainRepositories ==
  {r \in Repositories : r.triggers["a"] = {} /\ r.ignores["a"] = {} /\ r.catchAll = {}
                        /\ r.profiles["a"] = {} /\ r.profiles["b"] = {} /\ r.dependents["a"] = {}}
SomeChanges == {File("a", "template"), File("a", "ci values"), File("b", "Chart.yaml"), File("l", "other"), File("z", "other")} \union Fanout
Asks == [charts : SUBSET {"a", "b", "z"}, envs : SUBSET {"ci", "prod", "none"},
         changes : {NotGiven, {}} \union {{f, g} : f, g \in SomeChanges}]

SeqsUpTo3(S) == {<<x>> : x \in S} \union S \X S \union S \X S \X S

\* Two releases of one chart and one of another.
MCReleases == {<<"a", 1>>, <<"a", 2>>, <<"b", 1>>}

\* A resource of each of three types, with a schema or not.
Resource(type, fault, policy) == [group |-> type[1], kind |-> type[2], fault |-> fault, policy |-> policy]
Types == {<<"g", "CRD">>, <<"g", "K">>, <<"h", "K">>}
SchemaFiles(suffixes) ==
  {[suffix |-> s, parses |-> TRUE, resources |-> {Resource(t, f, <<>>)}] :
     s \in suffixes, t \in Types, f \in {"none", "invalid", "unreadable"}}
  \union {[suffix |-> s, parses |-> FALSE, resources |-> {}] : s \in suffixes}
SchemaCases ==
  {[files |-> {f, g}, covered |-> known[1], damaged |-> known[1] \intersect known[2], kinds |-> kinds, pairs |-> pairs,
    policies |-> {}, tool |-> tool] :
     f \in SchemaFiles({"yaml", "json"}), g \in SchemaFiles(Manifests),
     known \in {{<<"g", "CRD">>} \union x : x \in SUBSET {<<"g", "K">>, <<"h", "K">>}} \X {{}, {<<"g", "K">>}},
     kinds \in {{}, {"K"}}, pairs \in {{}, {<<"h", "K">>}}, tool \in {"json", "new", "garbage", "nothing"}}

\* Two resources under two policies, in one file or in two.
Judged == {[p |-> p, q |-> q] : p \in {"pass", "fail", "warn", "skip", "error"}, q \in {"pass", "fail"}}
PolicyCases ==
  {[files |-> {[suffix |-> "yaml", parses |-> TRUE, resources |-> {Resource(<<"g", "K">>, "none", a)}],
               [suffix |-> s, parses |-> TRUE, resources |-> {Resource(<<"h", "K">>, "none", b)}]},
    covered |-> {}, damaged |-> {}, kinds |-> {}, pairs |-> {}, policies |-> policies, tool |-> tool] :
     a \in Judged, b \in Judged, s \in {"yaml", "yml", "json"},
     policies \in SUBSET {"p", "q"}, tool \in {"json", "new", "garbage", "nothing"}}

\* The schemas that Kubernetes takes: fields or others but not both, a type unless
\* anything is kept, and fragments that only restrict fields that there are.
Plain(type, fields) == Node(type, fields, {}, FALSE, FALSE, FALSE, {})
Leaves ==
  {[Plain("string", NoFields) EXCEPT !.nullable = n, !.enum = e] : n, e \in BOOLEAN}
    \union {[Anything EXCEPT !.keep = TRUE]}
Inner ==
  {[Plain("object", fields) EXCEPT !.keep = k, !.nullable = n] :
     fields \in {NoFields} \union {"x" :> l : l \in Leaves}, k, n \in BOOLEAN}
  \union {[Plain("object", NoFields) EXCEPT !.others = o] : o \in {AnyOther} \union {{l} : l \in Leaves}}
  \union Leaves
Metadata == {NoFields, "metadata" :> Plain("object", NoFields), "metadata" :> Plain("any", "name" :> [Plain("string", NoFields) EXCEPT !.enum = TRUE])}
CrdRoots ==
  {[Plain("object", ("spec" :> inner) @@ metadata) EXCEPT !.keep = k, !.allOf = fragments] :
     inner \in Inner, metadata \in Metadata, k \in BOOLEAN,
     fragments \in {{}, {Plain("any", "spec" :> [Anything EXCEPT !.enum = TRUE])},
                    {Plain("any", "spec" :> Plain("any", "x" :> [Anything EXCEPT !.enum = TRUE]))}}}
Fielded(f, values) == {<<>>} \union {f :> v : v \in values}
Texts == {Null, Chosen, Text}
Specs == Texts \union {Object(x @@ y) : x \in Fielded("x", Texts \union {Object(<<>>)}), y \in Fielded("y", {Null, Text})}
Documents ==
  {Object(("metadata" :> Object(name @@ label)) @@ s @@ o) :
     name \in Fielded("name", {Chosen, Text}), label \in Fielded("label", {Text}),
     s \in Fielded("spec", Specs), o \in Fielded("z", {Text})}

\* CRDs of two kinds; a schema is a number, that of its content.
MCCrds == {[kind |-> k, versions |-> {[name |-> "v1", served |-> v, schema |-> s], [name |-> "v2", served |-> TRUE, schema |-> t]}] :
             k \in {"A", "B"}, v \in BOOLEAN, s \in {{}, {1}, {2}}, t \in {{}, {1}}}

\* A chart with one file besides a static one: written, linked, or in archives.
Text1(place, docs) == [place |-> place, is |-> "text", docs |-> docs, inner |-> {}, huge |-> FALSE]
Packed(files, huge) == [place |-> "other", is |-> "archive", docs |-> {}, inner |-> files, huge |-> huge]
ChartDocs == [kind : {"none", "templated", "CRD", "ConfigMap"}, actions : SUBSET {"control", "whole", "nested", "inline"}]
ChartFiles ==
  {Text1(p, {d}) : p \in {"crds", "templates", "partial", "notes", "other"}, d \in ChartDocs} \union {Text1("crds", {})}
    \union {[Text1("templates", {d}) EXCEPT !.is = i] : d \in ChartDocs, i \in {"link", "unreadable"}}
ProviderCharts ==
  {[loads |-> l, validated |-> v, deps |-> deps, files |-> {Text1("templates", {[kind |-> "ConfigMap", actions |-> {"inline"}]}), f}] :
     l \in BOOLEAN, v \in BOOLEAN, deps \in {"none", "fresh", "stale", "local"},
     f \in ChartFiles \union {Packed({g}, h) : g \in ChartFiles, h \in BOOLEAN} \union {Packed({Packed({g}, FALSE)}, FALSE) : g \in ChartFiles}}

\* A HelmRelease at any moment of its life.
MCConditions ==
  {[type |-> "Ready", status |-> s, reason |-> r] : s \in {"True", "False"}, r \in {"UpgradeSucceeded", "UpgradeFailed"}}
    \union {[type |-> "Stalled", status |-> "True", reason |-> ""], [type |-> "Released", status |-> "True", reason |-> ""],
            [type |-> "TestSuccess", status |-> "False", reason |-> "PodFailed"]}
Items ==
  {[Item([api |-> "v2", name |-> "r", namespace |-> "n", chart |-> "c", version |-> Version, text |-> TRUE], "") EXCEPT
      !.suspended = s, !.generation = g[1], !.observed = g[2], !.history = h, !.conditions = c] :
     s \in BOOLEAN, g \in {<<1, Absent>>, <<1, 1>>, <<2, 1>>, <<2, 2>>},
     h \in {<<>>} \union SeqsUpTo3({"old", Version}),
     c \in {d \in SUBSET MCConditions : \A x, y \in d : x.type = y.type => x = y}}

\* Two files that are scanned, and one that is not, or that cannot be parsed.
FluxDocs == {[api |-> a, name |-> "", namespace |-> "n", chart |-> c, version |-> v, text |-> TRUE] :
               a \in {"v2", "other", "none"}, c \in {"c", "d", ""}, v \in {"", "old"}}
            \union {[api |-> "v2", name |-> "", namespace |-> "m", chart |-> "c", version |-> Version, text |-> TRUE],
                    [api |-> "v2beta1", name |-> "", namespace |-> "", chart |-> "c", version |-> "old", text |-> TRUE],
                    [api |-> "v2", name |-> "", namespace |-> "n", chart |-> "c", version |-> "old", text |-> FALSE]}
FluxRepositories ==
  {[first |-> [suffix |-> "yaml", parses |-> TRUE, docs |-> <<[a EXCEPT !.name = "a"], [b EXCEPT !.name = "b"]>>],
    second |-> [suffix |-> s, parses |-> p, docs |-> <<[c EXCEPT !.name = "c"]>>]] :
     a \in FluxDocs, b \in FluxDocs, c \in FluxDocs, s \in {"yml", "txt"}, p \in BOOLEAN}

\* Workloads of two releases of one name, and their pods.
Owners == {<<"r", "n">>, <<"r", "m">>}
WorkloadsOf(owner, wanted, counts, updates, gens) ==
  {[kind |-> k, name |-> owner, owner |-> owner, wanted |-> w, ready |-> c[1], available |-> c[2],
    updated |-> u, generation |-> g[1], observed |-> g[2]] :
     k \in {"Deployment", "StatefulSet", "DaemonSet"}, w \in wanted, c \in counts, u \in updates, g \in gens}
ShownByCluster ==
  {[workloads |-> {v, w}, pods |-> pods, old |-> old,
    refs |-> {[name |-> o[1], namespace |-> o[2], target |-> "n"] : o \in Owners}] :
     v \in WorkloadsOf(<<"r", "n">>, 0 .. 2, {c \in (0 .. 2) \X (0 .. 2) : c[2] <= c[1]}, {0, 2}, {<<1, 0>>, <<1, 1>>, <<2, 1>>, <<2, 2>>}),
     w \in WorkloadsOf(<<"r", "m">>, {1}, {<<0, 0>>, <<1, 1>>}, {1}, {<<1, 1>>}), old \in BOOLEAN,
     pods \in {{}} \union {{[name |-> "x", namespace |-> n, owner |-> o, hook |-> h, phase |-> "Running"]} :
                            n \in {"n", "m"}, o \in Owners, h \in {"test", "test-success", "none"}}}

\* Charts that require each other; what is authored names up to two of them in each place.
LocalPlans ==
  [k \in {<<"cni", "minimal">>, <<"db", "minimal">>, <<"db", "big">>, <<"app", "minimal">>, <<"app", "ha">>} |->
     CASE k = <<"app", "minimal">> -> << <<"cni", "minimal">>, <<"db", "minimal">>, k >>
       [] k = <<"app", "ha">> -> << <<"db", "big">>, k >>
       [] OTHER -> <<k>>]
Requires == [k \in DOMAIN LocalPlans |-> Elements(LocalPlans[k]) \ {k}]
Pinned1(type, chart, p) == [Authored(type, <<chart, "">>) EXCEPT !.pins = {p}]
Cni(runtime) == [Authored("lifecycle", <<"cni", "minimal">>) EXCEPT !.runtime = runtime]
Bad == {[Authored("oci", <<"db", "">>) EXCEPT !.pins = p] : p \in {{}, {"version", "digest"}}}
         \union {Pinned1("repo", "x", "digest"), [Pinned1("oci", "db", "version") EXCEPT !.files = FALSE], Cni({"unknown"})}
BootstrapReleases ==
  {Cni({}), Cni({"host", "name"}), [Authored("lifecycle", <<"app", "minimal">>) EXCEPT !.runtime = {"context"}],
   Authored("lifecycle", <<"db", "minimal">>),
   [Authored("local", <<"cni", "">>) EXCEPT !.runtime = {"port"}], Pinned1("oci", "db", "version"), Pinned1("repo", "x", "version")}
StackReleases == {Authored("lifecycle", k) : k \in DOMAIN LocalPlans} \union {Pinned1("oci", "db", "digest")}
Bootstrapped == {<<>>} \union {<<a>> : a \in BootstrapReleases \union Bad} \union BootstrapReleases \X BootstrapReleases
Stacks == {<<a>> : a \in StackReleases \union Bad \union {Authored("local", <<"cni", "">>), Authored("lifecycle", <<"app", "none">>)}}
            \union StackReleases \X StackReleases
LocalCase(b, s, p, c, h) == [bootstrap |-> b, stack |-> s, profile |-> p, only |-> c, plans |-> LocalPlans, requires |-> Requires, hooked |-> h]
LocalCases ==
  {LocalCase(b, s, "", "", h) : b \in Bootstrapped, s \in Stacks, h \in {{}, {"db"}}}
    \union {LocalCase(b, <<>>, p, c, {}) : b \in Bootstrapped, p \in {"", "ha", "none"}, c \in {"app", "db"}}
    \union {LocalCase(<<>>, s, "minimal", "", {}) : s \in Stacks}

\* Two node containers of a cluster, and a kind config that may have been edited.
PortClusters ==
  {[declared |-> d, readable |-> r, listed |-> l, nodes |-> {a, b}] :
     d \in SUBSET {80, 443}, r \in BOOLEAN, l \in BOOLEAN,
     a \in [ports : SUBSET {80, 443}, runs : BOOLEAN, inspected : BOOLEAN],
     b \in [ports : {{}, {80}}, runs : BOOLEAN, inspected : BOOLEAN]}

MCInputs ==
  [select |-> [repo : Repositories, file : ChangedFiles],
   request |-> [repo : PlainRepositories, ask : Asks],
   match |-> [pattern : SeqsUpTo3({"a", "*", "**"}), path : SeqsUpTo3({"a", "b"})],
   conform |-> SchemaCases, policy |-> PolicyCases,
   object |-> [item : Items, version : {Version}], workloads |-> ShownByCluster,
   files |-> [files : FluxRepositories, chart : {"c"}, version : {Version}],
   local |-> LocalCases, ports |-> PortClusters,
   strict |-> CrdRoots, crds |-> SeqsUpTo3(MCCrds), providers |-> {{c} : c \in ProviderCharts}]

-----------------------------------------------------------------------------
\* The questions with steps of their own.
Stepwise == {"plan", "fresh", "poll", "events"}

PlanRests ==
  /\ requires = [k \in Keys |-> <<>>] /\ request = [by |-> "local", roots |-> <<CHOOSE k \in Keys : TRUE>>, moved |-> FALSE]
  /\ owned = {} /\ Init
PollsRest == status = (CHOOSE s \in Statuses : TRUE) /\ listing = Unread
TimelineRests ==
  backend = "none" /\ stored = {} /\ emitted = 0 /\ told = {} /\ answer = NoAnswer

MCInit ==
  /\ AskInit \/ (question \in Stepwise /\ asked = FALSE /\ case = NoCase)
  /\ FreshInit /\ PollsRest /\ PollInit
  /\ IF question = "events" THEN TimelineInit ELSE TimelineRests
  /\ IF question = "plan" THEN Init ELSE PlanRests

\* One poll after any other is one poll: what it decides depends on what it reads alone.
MCNext ==
  \/ question \notin Stepwise /\ Ask /\ UNCHANGED <<vars, freshVars, pollVars, timelineVars>>
  \/ question = "plan" /\ Next /\ UNCHANGED <<askVars, freshVars, pollVars, timelineVars>>
  \/ question = "fresh" /\ FreshNext /\ UNCHANGED <<askVars, vars, pollVars, timelineVars>>
  \/ question = "poll" /\ PollsRest /\ Poll /\ UNCHANGED <<askVars, vars, freshVars, timelineVars>>
  \/ question = "events" /\ TimelineNext /\ UNCHANGED <<askVars, vars, freshVars, pollVars>>

MCSpec == MCInit /\ [][MCNext]_<<askVars, vars, freshVars, pollVars, timelineVars>>

-----------------------------------------------------------------------------
\* _strict_schema: kubeconform accepts, under the schema of a CRD, what the API server
\* admits and nothing that it would prune or refuse.
StrictMeansKnown(crd) ==
  LET schema == SchemaOf(crd)
  IN \A doc \in Documents : Accepts(schema, doc) <=> AdmitsResource(crd, doc)

\* generate_crd_schemas: in whatever order CRDs are rendered, two that disagree of a served
\* version are a conflict, and otherwise every schema is there once.
ConflictsAreFound(crds) ==
  LET given == {crds[i] : i \in DOMAIN crds}
      served == UNION {{<< <<c.kind, v.name>>, s>> : s \in v.schema} :
                         <<c, v>> \in {p \in given \X UNION {c.versions : c \in given} :
                                         p[2] \in p[1].versions /\ p[2].served}}
      result == Generated(crds)
  IN IF \E a, b \in served : a[1] = b[1] /\ a[2] # b[2] THEN result.conflict
     ELSE ~result.conflict /\ {<<g, result.of[g]>> : g \in DOMAIN result.of} = served

\* _possible_crd_provider: no chart that may render a CRD is passed over, in whatever form
\* the CRD is in it.
NoProviderIsMissed(charts) ==
  ~ProvidersAmong(charts).raised =>
    \A c \in charts : c.validated /\ (\E f \in c.files : HasCrd(f)) => c \in ProvidersAmong(charts).of

\* crd.py, generate.py: every CRD that a chart may have is found, its conflicts too, and its
\* schema accepts what the API server admits.
SchemasAreTrue ==
  /\ Put("strict") => StrictMeansKnown(case)
  /\ Put("crds") => ConflictsAreFound(case)
  /\ Put("providers") => NoProviderIsMissed(case)
=============================================================================
