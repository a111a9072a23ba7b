----------------------------- MODULE Validate ------------------------------
(***************************************************************************)
(* `chart validate` (commands/validate/run.py): every chart in every       *)
(* selected environment is a row, and threads check rows side by side.     *)
(* Rows of a chart share one dependency update, and all rows share the     *)
(* schemas, which the first row that needs them prepares (schemas/         *)
(* generated.py) from the CRDs that other charts render.                   *)
(*                                                                         *)
(* An editor may change charts while the run reads them.                   *)
(***************************************************************************)
EXTENDS Naturals, Sequences, FiniteSets

CONSTANTS
  Threads,    \* workers of the pool
  Charts,     \* charts of the workspace
  Rows,       \* the selected rows, in order: pairs of a chart and an environment
  Providers,  \* the charts that may render CRDs
  Settings,   \* which checks the request asks for, and which each chart enables
  MaxChanges  \* bound on the edits during the run

None == "none"

ASSUME ValidateAssumption ==
  /\ Rows \in Seq(Charts \X {"ci", "prod"})
  /\ Providers \subseteq Charts /\ Charts # {}
  /\ Settings \subseteq [asked : SUBSET {"render", "schema", "policy"},
                          enabled : [Charts -> SUBSET {"schema", "policy"}]]
  /\ None \notin Threads /\ MaxChanges \in Nat

Unknown == MaxChanges + 1   \* no fingerprint
Failing == {"failed", "error"}
Blank == [render |-> "-", schema |-> "-", policy |-> "-"]
Statuses == {"-", "passed", "failed", "error", "skipped"}
NoJob == [chart |-> None, crd |-> FALSE]

VARIABLES
  failfast,   \* rows are checked one at a time, and the first failure stops the rest
  asked,      \* the checks that the request asks for
  enabled,    \* the checks that chart-lifecycle.yaml leaves enabled, by chart
  bytes,      \* how often each chart was edited: its authored content
  fresh,      \* whether the vendored dependencies of each chart agree with its lock
  cache,      \* charts/<fingerprint>.json: chart, fingerprint, and what was rendered
  next,       \* the first row that no thread has taken
  row,        \* the row of each thread, 0 without one
  at,         \* where each thread is
  job,        \* the chart that it renders, for its row or for its CRDs
  held,       \* who holds the dependency lock of each chart
  ready,      \* the charts whose dependencies this run brought up to date
  loader,     \* who holds schemas_lock
  memo,       \* what the first loading of the schemas came to
  print,      \* the fingerprints that the loader took first
  rendered,   \* the CRDs that it rendered
  tree,       \* what each row left in its render directory
  checks,     \* the results of each row so far
  broke,      \* the rows for which a tool broke
  answer,     \* how each row ended
  consumed,   \* how many answers the main thread took
  raised      \* whether one of them was an exception

choices == <<failfast, asked, enabled>>
dependencies == <<fresh, held, ready>>
loading == <<cache, loader, memo, print, rendered>>
results == <<tree, checks, broke, answer>>
validateVars == <<choices, bytes, dependencies, loading, results, next, row, at, job, consumed, raised>>

Indices == 1 .. Len(Rows)
ChartOf(i) == Rows[i][1]

NoPrint == [c \in Providers |-> [full |-> Unknown, authored |-> 0]]
NotRendered == [c \in Providers |-> [status |-> None, bytes |-> 0]]

\* What chart() hashes: nothing is known of a chart with stale dependencies.
Fingerprint(c) == IF fresh[c] THEN bytes[c] ELSE Unknown

ValidateInit ==
  /\ failfast \in BOOLEAN /\ \E s \in Settings : asked = s.asked /\ enabled = s.enabled
  /\ bytes = [c \in Charts |-> 0]
  /\ fresh \in [Charts -> BOOLEAN]
  /\ cache = {} /\ next = 1
  /\ row = [t \in Threads |-> 0] /\ at = [t \in Threads |-> "idle"]
  /\ job = [t \in Threads |-> NoJob]
  /\ held = [c \in Charts |-> None] /\ ready = {}
  /\ loader = None /\ memo = None
  /\ print = NoPrint /\ rendered = NotRendered
  /\ tree = [i \in Indices |-> None] /\ checks = [i \in Indices |-> Blank] /\ broke = {}
  /\ answer = [i \in Indices |-> None]
  /\ consumed = 0 /\ raised = FALSE

GoOn(t, label) == at' = [at EXCEPT ![t] = label]
Set(t, check, status) ==
  /\ checks' = [checks EXCEPT ![row[t]][check] = status]
  /\ broke' = IF status = "error" THEN broke \union {row[t]} ELSE broke

\* The row is answered, and the thread takes another.
Answer(t, kind) ==
  /\ answer' = [answer EXCEPT ![row[t]] = kind]
  /\ row' = [row EXCEPT ![t] = 0] /\ job' = [job EXCEPT ![t] = NoJob] /\ GoOn(t, "idle")

\* The same row goes on.
Continue(t, label) == GoOn(t, label) /\ UNCHANGED <<answer, row, job>>

-----------------------------------------------------------------------------
(***************************************************************************)
(* Taking rows.                                                            *)
(***************************************************************************)

FailedRow(i) == answer[i] = "row" /\ \E k \in DOMAIN Blank : checks[i][k] \in Failing

\* A row before has failed, and that is enough; one that its author's error left out has not.
Stopped == failfast /\ \E i \in Indices : FailedRow(i)

\* Threads take rows in order; one at a time, when the row before has been looked at.
Take(t) ==
  /\ at[t] = "idle" /\ next \in Indices
  /\ failfast => consumed = next - 1
  /\ next' = next + 1
  /\ IF Stopped
     THEN /\ checks' = [checks EXCEPT ![next] = [k \in DOMAIN Blank |->
                                                       IF k \in asked THEN "skipped" ELSE "-"]]
          /\ answer' = [answer EXCEPT ![next] = "row"]
          /\ UNCHANGED <<row, job, at>>
     ELSE /\ row' = [row EXCEPT ![t] = next]
          /\ job' = [job EXCEPT ![t] = [chart |-> ChartOf(next), crd |-> FALSE]]
          /\ GoOn(t, "values") /\ UNCHANGED <<checks, answer>>
  /\ UNCHANGED <<choices, bytes, dependencies, loading, tree, broke, consumed, raised>>

\* The values files are looked for: a missing one is the author's error, and the row is
\* left out.  The render directory is emptied.
Values(t) ==
  /\ at[t] = "values"
  /\ \/ Answer(t, "spec") /\ UNCHANGED tree
     \/ Continue(t, "deps") /\ tree' = [tree EXCEPT ![row[t]] = None]
  /\ UNCHANGED <<choices, bytes, dependencies, loading, checks, broke, next, consumed, raised>>

-----------------------------------------------------------------------------
(***************************************************************************)
(* Dependencies, for a row or for the CRDs of a provider.                  *)
(***************************************************************************)

\* What a failed render means to whoever asked for it.
RenderEnds(t, status) ==
  IF job[t].crd
  THEN /\ rendered' = [rendered EXCEPT ![job[t].chart] = [status |-> status, bytes |-> bytes[job[t].chart]]]
       /\ GoOn(t, "crds") /\ UNCHANGED <<checks, broke>>
  ELSE Set(t, "render", status) /\ GoOn(t, "schema") /\ UNCHANGED rendered

\* Mutant: nobody waits for the rows of the same chart.
LockDeps_NoLock(t) ==
  LET c == job[t].chart
  IN /\ at[t] = "deps"
     /\ IF c \in ready \/ fresh[c]
        THEN ready' = ready \union {c} /\ GoOn(t, "template") /\ UNCHANGED held
        ELSE held' = [held EXCEPT ![c] = t] /\ GoOn(t, "updating") /\ UNCHANGED ready
     /\ UNCHANGED <<choices, bytes, fresh, loading, results, next, row, job, consumed, raised>>

\* A row waits while another row of its chart updates, and updates only what is stale.
LockDeps(t) ==
  LET c == job[t].chart
  IN /\ at[t] = "deps" /\ held[c] = None
     /\ IF c \in ready \/ fresh[c]
        THEN ready' = ready \union {c} /\ GoOn(t, "template") /\ UNCHANGED held
        ELSE held' = [held EXCEPT ![c] = t] /\ GoOn(t, "updating") /\ UNCHANGED ready
     /\ UNCHANGED <<choices, bytes, fresh, loading, results, next, row, job, consumed, raised>>

\* helm dependency update.  A failed one says nothing about the chart: the row has an
\* error, and the next row of the chart tries again.
UpdateDeps(t) ==
  LET c == job[t].chart
  IN /\ at[t] = "updating"
     /\ held' = [held EXCEPT ![c] = None]
     /\ \/ /\ fresh' = [fresh EXCEPT ![c] = TRUE] /\ ready' = ready \union {c}
           /\ GoOn(t, "template") /\ UNCHANGED <<checks, broke, rendered>>
        \/ RenderEnds(t, "error") /\ UNCHANGED <<fresh, ready>>
     /\ UNCHANGED <<choices, bytes, cache, loader, memo, print, tree, answer, next, row, job,
                    consumed, raised>>

\* helm template renders the tree, which may hold no manifest, rejects the chart, or is
\* stopped half way.
Template(t) ==
  /\ at[t] = "template"
  /\ \/ /\ RenderEnds(t, "passed")
        /\ \E left \in {"whole", "empty"} :
             tree' = IF job[t].crd THEN tree ELSE [tree EXCEPT ![row[t]] = left]
     \/ RenderEnds(t, "failed") /\ UNCHANGED tree
     \/ RenderEnds(t, "error") /\ tree' \in {tree, IF job[t].crd THEN tree ELSE [tree EXCEPT ![row[t]] = "part"]}
  /\ UNCHANGED <<choices, bytes, dependencies, cache, loader, memo, print, answer, next, row, job,
                 consumed, raised>>

-----------------------------------------------------------------------------
(***************************************************************************)
(* Schemas.                                                                *)
(***************************************************************************)

\* A check that is asked for is skipped when the chart disables it, something failed before
\* it, or there is nothing to check; an error does not keep it from a tree that was left.
Skips(i, check) ==
  \/ check \notin enabled[ChartOf(i)]
  \/ \E k \in DOMAIN Blank : checks[i][k] = "failed"
  \/ tree[i] \in {None, "empty"}
Runs(i, check) == check \in asked /\ ~Skips(i, check)

\* The schema check is not asked for, is skipped, or waits for schemas_lock.
Schema(t) ==
  /\ at[t] = "schema"
  /\ IF Runs(row[t], "schema")
     THEN loader = None /\ loader' = t /\ GoOn(t, "schemas") /\ UNCHANGED <<checks, broke>>
     ELSE /\ IF "schema" \in asked THEN Set(t, "schema", "skipped") ELSE UNCHANGED <<checks, broke>>
          /\ GoOn(t, "policy") /\ UNCHANGED loader
  /\ UNCHANGED <<choices, bytes, dependencies, cache, memo, print, rendered, tree, answer, next,
                 row, job, consumed, raised>>

\* The outcome is remembered, and the row goes on or raises.
Remember(t, outcome) ==
  /\ memo' = outcome /\ loader' = None /\ print' = NoPrint /\ rendered' = NotRendered
  /\ IF outcome = "ok"
     THEN /\ GoOn(t, "kubeconform") /\ UNCHANGED <<answer, row>>
          /\ job' = [job EXCEPT ![t] = [chart |-> ChartOf(row[t]), crd |-> FALSE]]
     ELSE Answer(t, "raised")

\* The fingerprints of the providers are taken.
TakePrints(t) ==
  /\ print' = [c \in Providers |-> [full |-> Fingerprint(c), authored |-> bytes[c]]]
  /\ Continue(t, "crds") /\ UNCHANGED <<memo, loader, rendered>>

\* The first row inspects the upstream schemas and looks at the providers; a later one
\* finds what the first remembered.
Schemas(t) ==
  /\ at[t] = "schemas"
  /\ \/ memo # None /\ Remember(t, memo)
     \/ memo = None /\ (Remember(t, "error") \/ TakePrints(t))
  /\ UNCHANGED <<choices, bytes, dependencies, cache, tree, checks, broke, next, consumed, raised>>

\* A provider whose schemas are cached for its fingerprint is not rendered.
Cached(c) == \E e \in cache : e.chart = c /\ e.print = print[c].full

\* The next provider without cached schemas is rendered.
NextProvider(t) ==
  /\ at[t] = "crds"
  /\ \E c \in Providers :
       /\ ~Cached(c) /\ rendered[c].status = None
       /\ job' = [job EXCEPT ![t] = [chart |-> c, crd |-> TRUE]]
  /\ GoOn(t, "deps")
  /\ UNCHANGED <<choices, bytes, dependencies, loading, results, next, row, consumed, raised>>

\* Whether a rendered chart is what it was before: by its full fingerprint, or, when its
\* dependencies were stale then, by what is authored.
Stable(c) ==
  /\ rendered[c].status = "passed" /\ Fingerprint(c) # Unknown
  /\ IF print[c].full # Unknown THEN print[c].full = Fingerprint(c) ELSE print[c].authored = bytes[c]

\* Every provider is rendered or cached: what is stable enters the cache.  Two providers
\* that define one CRD differently end the run; otherwise a generation is published.
PublishGeneration(t) ==
  /\ at[t] = "crds"
  /\ \A c \in Providers : Cached(c) \/ rendered[c].status # None
  /\ cache' = cache \union {[chart |-> c, print |-> Fingerprint(c), bytes |-> rendered[c].bytes] :
                            c \in {p \in Providers : Stable(p)}}
  /\ \E outcome \in {"ok", "error"} : Remember(t, outcome)
  /\ UNCHANGED <<choices, bytes, dependencies, tree, checks, broke, next, consumed, raised>>

-----------------------------------------------------------------------------
(***************************************************************************)
(* The checks on a rendered tree.                                          *)
(***************************************************************************)

\* kubeconform finds the tree valid or not, or breaks; a directory of schemas that the
\* chart names and that is not there is the author's error.
Conform(t) ==
  /\ at[t] = "kubeconform"
  /\ \/ /\ \E status \in {"passed", "failed", "error"} : Set(t, "schema", status)
        /\ Continue(t, "policy")
     \/ Answer(t, "spec") /\ UNCHANGED <<checks, broke>>
  /\ UNCHANGED <<choices, bytes, dependencies, loading, tree, next, consumed, raised>>

\* kyverno judges the tree.  Broken, it leaves output that cannot be read, or none: no
\* output is an empty report, whatever the exit code.
Kyverno(t) ==
  \/ \E status \in {"passed", "failed", "skipped", "error"} : Set(t, "policy", status)
  \/ /\ checks' = [checks EXCEPT ![row[t]].policy = "passed"]
     /\ broke' = broke \union {row[t]}

\* The policy check; a directory of policies that is not there is the author's error.
Policy(t) ==
  /\ at[t] = "policy"
  /\ \/ "policy" \notin asked /\ Answer(t, "row") /\ UNCHANGED <<checks, broke>>
     \/ /\ "policy" \in asked /\ Skips(row[t], "policy")
        /\ Set(t, "policy", "skipped") /\ Answer(t, "row")
     \/ Runs(row[t], "policy") /\ Kyverno(t) /\ Answer(t, "row")
     \/ Runs(row[t], "policy") /\ Answer(t, "spec") /\ UNCHANGED <<checks, broke>>
  /\ UNCHANGED <<choices, bytes, dependencies, loading, tree, next, consumed, raised>>

\* Mutant: the exception leaves the lock of the dependencies behind.
ToolMissing_KeepsLock(t) ==
  /\ at[t] \in {"updating", "template", "kubeconform", "policy"}
  /\ at[t] = "policy" => Runs(row[t], "policy")
  /\ IF loader = t THEN Remember(t, "error") ELSE Answer(t, "raised") /\ UNCHANGED <<memo, loader, print, rendered>>
  /\ UNCHANGED <<choices, bytes, dependencies, cache, tree, checks, broke, next, consumed, raised>>

\* A tool is missing: the row raises, or the preparation that it runs fails for all.
\* Whichever lock it holds is free again.
ToolMissing(t) ==
  /\ at[t] \in {"updating", "template", "kubeconform", "policy"}
  /\ at[t] = "policy" => Runs(row[t], "policy")
  /\ held' = [c \in Charts |-> IF held[c] = t THEN None ELSE held[c]]
  /\ IF loader = t THEN Remember(t, "error") ELSE Answer(t, "raised") /\ UNCHANGED <<memo, loader, print, rendered>>
  /\ UNCHANGED <<choices, bytes, fresh, ready, cache, tree, checks, broke, next, consumed, raised>>

-----------------------------------------------------------------------------
(***************************************************************************)
(* The main thread.                                                        *)
(***************************************************************************)

\* Answers are taken in order of the rows; an exception drops the rows nobody has begun.
Consume ==
  /\ ~raised /\ consumed < Len(Rows) /\ answer[consumed + 1] # None
  /\ consumed' = consumed + 1
  /\ raised' = (answer[consumed + 1] = "raised")
  /\ next' = IF raised' THEN Len(Rows) + 1 ELSE next
  /\ UNCHANGED <<choices, bytes, dependencies, loading, results, row, at, job>>

\* An author edits a chart; only the schemas remember what it was.
Edit ==
  /\ \E c \in Providers : bytes[c] < MaxChanges /\ bytes' = [bytes EXCEPT ![c] = @ + 1]
  /\ UNCHANGED <<choices, dependencies, loading, results, next, row, at, job, consumed, raised>>

Checking(t) ==
  \/ Take(t) \/ Values(t) \/ LockDeps(t) \/ UpdateDeps(t) \/ Template(t) \/ Schema(t)
  \/ Schemas(t) \/ NextProvider(t) \/ PublishGeneration(t) \/ Conform(t) \/ Policy(t)
  \/ ToolMissing(t)

ValidateNext == (\E t \in Threads : Checking(t)) \/ Consume \/ Edit

\* Threads are scheduled, and every tool has a time-out; of the threads that wait for a
\* lock any may be next.
ValidateSpec ==
  /\ ValidateInit /\ [][ValidateNext]_validateVars
  /\ WF_validateVars(Consume) /\ \A t \in Threads : WF_validateVars(Checking(t))

-----------------------------------------------------------------------------
(***************************************************************************)
(* Properties.                                                             *)
(***************************************************************************)

\* Every variable keeps its type, and a lock is held by a thread that uses it.
ValidateTypeOK ==
  /\ failfast \in BOOLEAN /\ bytes \in [Charts -> Nat] /\ fresh \in [Charts -> BOOLEAN]
  /\ row \in [Threads -> 0 .. Len(Rows)] /\ next \in 1 .. Len(Rows) + 1
  /\ held \in [Charts -> Threads \union {None}] /\ ready \subseteq Charts
  /\ \A c \in Charts : held[c] # None => at[held[c]] = "updating" /\ job[held[c]].chart = c
  /\ loader \in Threads \union {None} /\ memo \in {None, "ok", "error"}
  /\ tree \in [Indices -> {None, "part", "empty", "whole"}]
  /\ checks \in [Indices -> [{"render", "schema", "policy"} -> Statuses]]
  /\ answer \in [Indices -> {None, "row", "spec", "raised"}]
  /\ broke \subseteq Indices /\ consumed \in 0 .. Len(Rows) /\ raised \in BOOLEAN

\* _ensure_dependencies: no thread renders a chart, for its row or for its CRDs, while
\* another replaces the dependencies of that chart, and none renders stale ones.
TemplatesSettledDeps ==
  \A t, u \in Threads :
    at[t] = "template" =>
      /\ fresh[job[t].chart]
      /\ ~(at[u] = "updating" /\ job[u].chart = job[t].chart)

\* generated.py: cached schemas are those of the bytes in their name, although charts are
\* edited and their dependencies fetched while they render.
CacheIsTrue == \A e \in cache : e.print = e.bytes

\* _schemas: the schemas are prepared once, and every row sees the same outcome.
LoadedOnce == [][memo # None => memo' = memo]_validateVars

\* Mutant: an error does not spoil a run.
Succeeds_OnErrors ==
  /\ consumed = Len(Rows) /\ ~raised
  /\ \A i \in Indices : answer[i] = "row" /\ \A k \in DOMAIN Blank : checks[i][k] # "failed"

\* The run exits 0.
Succeeds ==
  /\ consumed = Len(Rows) /\ ~raised
  /\ \A i \in Indices : answer[i] = "row" /\ \A k \in DOMAIN Blank : checks[i][k] \notin Failing

\* What lets a row go unchecked and still succeed: the request does not ask for the check,
\* the chart disables it, or it renders no manifest.
Excused(i, check) == check \notin asked \/ check \notin enabled[ChartOf(i)] \/ tree[i] = "empty"

\* A run that exits 0 has rendered every selected row in full, and kubeconform has passed
\* each row that nothing excuses, with schemas that were all there: no row was lost on a
\* thread, and none was left out after an error.
SuccessIsEarned ==
  Succeeds => \A i \in Indices :
    /\ tree[i] \in {"whole", "empty"}
    /\ Excused(i, "schema") \/ (checks[i].schema = "passed" /\ memo = "ok")

\* With --fail-fast no row is checked after one that failed.
FailFastStops ==
  failfast => \A i, j \in Indices :
    i < j /\ FailedRow(i) => checks[j].render \in {"-", "skipped"}

\* validate/models.py: "`error`: the tool itself broke."  A row whose tool broke says so.
BrokenToolIsError ==
  \A i \in broke : answer[i] = "row" => \E k \in DOMAIN Blank : checks[i][k] = "error"

\* The threads never wait for each other for ever, whoever holds which of the locks, and
\* the main thread hears of every row it waits for.
RunEnds == <>(raised \/ consumed = Len(Rows))

\* What the threads share settles before it is used: dependencies before they are rendered,
\* the cached schemas under the name of their bytes, and one outcome of the preparation for
\* all rows.
SharedIsSettled == [](ValidateTypeOK /\ TemplatesSettledDeps /\ CacheIsTrue) /\ LoadedOnce

\* Whoever exits 0 has checked every row that nothing excuses, and whoever stops at a
\* failure stops there.
VerdictIsEarned == SuccessIsEarned /\ FailFastStops
=============================================================================
