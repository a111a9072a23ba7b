----------------------------- MODULE Selection ------------------------------
(***************************************************************************)
(* What a set of changed files calls for: the rows to validate             *)
(* (commands/validate/select.py, over build_helm_dependency_index), the    *)
(* charts to test (commands/test/select.py) and to publish                 *)
(* (commands/publish/select.py), and the patterns of the workspace         *)
(* (pattern_matches, shared/workspace.py).                                 *)
(*                                                                         *)
(* A repository is a record:                                               *)
(*   charts        the charts there are                                    *)
(*   depends       what each declares: pairs of a name and "local" or      *)
(*                 "remote"; Unloadable for a chart that does not load     *)
(*   rows          the environments that each validates, {} for none       *)
(*   triggers      the authored triggers of each: records of the places    *)
(*                 that a pattern matches and the environments it names,   *)
(*                 or ByName for the one that the file is named after      *)
(*   ignores       the places that triggerIgnores of each matches          *)
(*   catchAll      the charts with unmatchedChanges: all-environments      *)
(*   profiles      the test profiles of each, {} without enabled tests     *)
(*   dependents    the dependentTests of each: pairs of chart and profile  *)
(* and a changed file has a chart, "" outside of the charts, and a place.  *)
(***************************************************************************)
EXTENDS Naturals, Sequences, FiniteSets

ByName == {"by name"}
Unloadable == {<<"", "unloadable">>}
File(chart, place) == [chart |-> chart, place |-> place]
Fanout == {File("", "fanout")}

\* The environment that a file is named after.
Stem(place) == IF place = "ci values" THEN "ci" ELSE IF place = "prod values" THEN "prod" ELSE "none"

-----------------------------------------------------------------------------
(***************************************************************************)
(* Rows to validate.                                                       *)
(***************************************************************************)

\* build_helm_dependency_index: who builds upon the files of a chart.
Dependents(repo, chart) ==
  {d \in repo.charts \ {chart} : repo.depends[d] # Unloadable /\ <<chart, "local">> \in repo.depends[d]}

AllEnvs == {"ci", "prod"}
DefaultTriggers ==
  {[places |-> {"ci values"}, envs |-> {"ci"}], [places |-> {"template"}, envs |-> AllEnvs],
   [places |-> {"test"}, envs |-> {"ci"}]}

\* An authored trigger replaces the default of the same pattern.
Triggers(repo, chart) ==
  repo.triggers[chart] \union
    {t \in DefaultTriggers : \A a \in repo.triggers[chart] : a.places # t.places}

\* What one trigger selects of the chart.
Named(repo, file, t) ==
  repo.rows[file.chart] \intersect (IF t.envs = ByName THEN {Stem(file.place)} ELSE t.envs)

Hits(repo, file) == {t \in Triggers(repo, file.chart) : file.place \in t.places}

\* Mutant: a default counts even when it selects nothing.
Matched_AnyHit(repo, file) == Hits(repo, file) # {}

\* An authored trigger counts even when it selects nothing, a default only when it does.
Matched(repo, file) ==
  \E t \in Hits(repo, file) : t \in repo.triggers[file.chart] \/ Named(repo, file, t) # {}

\* _triggered: what the triggers of the chart select, or all when none is matched and the
\* chart says so.
Triggered(repo, file) ==
  IF ~Matched(repo, file) /\ file.chart \in repo.catchAll THEN repo.rows[file.chart]
  ELSE UNION {Named(repo, file, t) : t \in Hits(repo, file)}

RowsOf(repo, charts) == {r \in charts \X AllEnvs : r[2] \in repo.rows[r[1]]}

ChartWide(file) == file.place \in {"Chart.yaml", "lifecycle"}

\* A file outside of the charts, or a lifecycle of a chart that is not validated.
SelectsNothing(repo, file) ==
  file.chart \notin repo.charts \/ (repo.rows[file.chart] = {} /\ file.place = "lifecycle")

\* What a changed file of a chart selects of that chart.
OwnRows(repo, file) ==
  IF ChartWide(file) THEN RowsOf(repo, {file.chart})
  ELSE IF file.place \in repo.ignores[file.chart] THEN {}
  ELSE {<<file.chart, e>> : e \in Triggered(repo, file) \intersect repo.rows[file.chart]}

\* _reasons_for: the rows that one file selects, and how it is reported when it may not.
ValidateRows(repo, file) ==
  IF file \in Fanout THEN RowsOf(repo, repo.charts)
  ELSE IF SelectsNothing(repo, file) THEN {}
  ELSE RowsOf(repo, Dependents(repo, file.chart)) \union OwnRows(repo, file)

Reported(repo, file) ==
  IF file.chart \notin repo.charts \/ repo.rows[file.chart] = {} \/ ChartWide(file) THEN "nothing"
  ELSE IF file.place \in repo.ignores[file.chart] THEN "ignored"
  ELSE IF ~Matched(repo, file) THEN "unmatched" ELSE "nothing"

\* select: without --changed every row of every chart that loads; a chart that does not
\* load is an error of any selection.
NotGiven == {File("", "not given")}
Loaded(repo) == {c \in repo.charts : repo.depends[c] # Unloadable}
Select(repo, changes) ==
  [rows |-> IF changes = NotGiven THEN RowsOf(repo, Loaded(repo)) ELSE UNION {ValidateRows(repo, f) : f \in changes},
   errors |-> repo.charts \ Loaded(repo)]

\* _named: a chart that there is not, or that is not validated, ends the run; one that does
\* not load is an error.
NamesNothing(repo, names) == \E n \in names : n \notin repo.charts \/ (n \in Loaded(repo) /\ repo.rows[n] = {})

\* _selection: the named charts, or only what the changes select of them.
Asked(repo, ask) ==
  LET named == ask.charts \intersect Loaded(repo)
  IN IF ask.charts = {} THEN Select(repo, ask.changes)
     ELSE [rows |-> IF ask.changes = NotGiven THEN RowsOf(repo, named)
                    ELSE {r \in Select(repo, ask.changes).rows : r[1] \in named},
           errors |-> ask.charts \ named]

\* run: the environments are those that a selected chart declares.
Requested(repo, ask) ==
  LET charts == IF ask.charts = {} THEN Loaded(repo) ELSE ask.charts \intersect Loaded(repo)
      plain == Asked(repo, ask)
  IN [refused |-> NamesNothing(repo, ask.charts) \/ ~(ask.envs \subseteq UNION {repo.rows[c] : c \in charts}),
      rows |-> {r \in plain.rows : ask.envs = {} \/ r[2] \in ask.envs}, errors |-> plain.errors]

-----------------------------------------------------------------------------
(***************************************************************************)
(* Charts to test, and to publish.                                         *)
(***************************************************************************)

\* _default_profile.
DefaultProfile(repo, chart) ==
  IF "default" \in repo.profiles[chart] THEN "default" ELSE CHOOSE p \in repo.profiles[chart] : TRUE

Enabled(repo) == {c \in repo.charts : repo.profiles[c] # {}}
Exists(repo, t) == t[1] \in Enabled(repo) /\ t[2] \in repo.profiles[t[1]]

\* The dependent tests that there are; the others are errors.
Dependable(repo, chart) == {t \in repo.dependents[chart] : Exists(repo, t)}

AllLoad(repo) == \A c \in repo.charts : repo.depends[c] # Unloadable

\* A chart that does not load fails the selection; otherwise a file selects all tests, or
\* that of its chart and those that it names.
ChartTests(repo, file) ==
  IF ~AllLoad(repo) THEN {}
  ELSE IF file \in Fanout THEN {<<c, DefaultProfile(repo, c)>> : c \in Enabled(repo)}
  ELSE IF file.chart \notin Enabled(repo) THEN {}
  ELSE {<<file.chart, DefaultProfile(repo, file.chart)>>} \union Dependable(repo, file.chart)

TestErrors(repo, file) ==
  IF file.chart \in Enabled(repo) THEN repo.dependents[file.chart] \ Dependable(repo, file.chart) ELSE {}

\* The current charts that own a changed file.
Published(repo, changes) == {f.chart : f \in changes} \intersect repo.charts

-----------------------------------------------------------------------------
(***************************************************************************)
(* Patterns.                                                               *)
(***************************************************************************)

SegmentFits(segment, part) == segment = "*" \/ segment = part

\* match: whether what is left of a pattern fits what is left of a path, when so much of each
\* is done; ** stands for any number of segments.
FitsFrom(pattern, path) ==
  LET fits[done \in (0 .. Len(pattern)) \X (0 .. Len(path))] ==
        LET p == done[1]
            q == done[2]
        IN IF p = Len(pattern) THEN q = Len(path)
           ELSE IF pattern[p + 1] = "**" THEN fits[<<p + 1, q>>] \/ (q < Len(path) /\ fits[<<p, q + 1>>])
           ELSE q < Len(path) /\ SegmentFits(pattern[p + 1], path[q + 1]) /\ fits[<<p + 1, q + 1>>]
  IN fits

\* pattern_matches: without a star a pattern is a directory or a file.
Matches(pattern, path) ==
  IF \A i \in DOMAIN pattern : pattern[i] \notin {"*", "**"}
  THEN Len(pattern) <= Len(path) /\ SubSeq(path, 1, Len(pattern)) = pattern
  ELSE FitsFrom(pattern, path)[<<0, 0>>]

\* What a pattern says: the path can be cut into one piece for each of its segments, of
\* one segment that fits, or of any number for a **.
Fits(pattern, path) ==
  \E cut \in [0 .. Len(pattern) -> 0 .. Len(path)] :
    /\ cut[0] = 0 /\ cut[Len(pattern)] = Len(path)
    /\ \A i \in DOMAIN pattern :
         IF pattern[i] = "**" THEN cut[i - 1] <= cut[i]
         ELSE cut[i] = cut[i - 1] + 1 /\ SegmentFits(pattern[i], path[cut[i]])
=============================================================================
