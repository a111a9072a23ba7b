----------------------------- MODULE FluxFiles ------------------------------
(***************************************************************************)
(* The files of a Flux repository that a promotion reads and edits: the    *)
(* scan (commands/promote/scanner.py), the edit (editor.py), and what      *)
(* promote pr changes (pr.py).                                             *)
(*                                                                         *)
(* Files are a function from paths to records of the suffix, of whether    *)
(* they can be parsed, and of their documents.  A document has api, "none" *)
(* if it is no HelmRelease; name and namespace, "" for none; chart and     *)
(* version as str() has them, "" for none, as in a HelmRelease that takes  *)
(* its chart from elsewhere; and text, whether YAML reads the chart as     *)
(* text, and not as a number.                                              *)
(***************************************************************************)
EXTENDS Naturals, Sequences, FiniteSets

\* is_helmrelease: any version of the API.
IsHelmRelease(doc) == doc.api \notin {"none", "other"}

\* scan: those of a chart, as str() has it.
ReleasesOf(docs, chart) == {i \in DOMAIN docs : IsHelmRelease(docs[i]) /\ docs[i].chart = chart}

\* set_version: those of a chart, as YAML reads it.
EditableOf(docs, chart) == {i \in ReleasesOf(docs, chart) : docs[i].text}

\* _iter_yaml_files: below the path that is scanned.
YamlFiles(files) == {p \in DOMAIN files : files[p].suffix \in {"yaml", "yml"}}

\* scan: it ends when a file cannot be parsed.
ScanFails(files) == \E p \in YamlFiles(files) : ~files[p].parses
Scan(files, chart) ==
  UNION {{[path |-> p, index |-> i, name |-> files[p].docs[i].name, namespace |-> files[p].docs[i].namespace,
           version |-> files[p].docs[i].version] :
            i \in ReleasesOf(files[p].docs, chart)} : p \in YamlFiles(files)}

\* Mutant: the edit stops at the first match.
SetVersion_First(docs, chart, version) ==
  [i \in DOMAIN docs |->
     IF i \in EditableOf(docs, chart) /\ \A j \in EditableOf(docs, chart) : i <= j
     THEN [docs[i] EXCEPT !.version = version] ELSE docs[i]]

\* set_version: every match of a file.
SetVersion(docs, chart, version) ==
  [i \in DOMAIN docs |->
     IF i \in EditableOf(docs, chart) THEN [docs[i] EXCEPT !.version = version] ELSE docs[i]]

Drift(files, chart, version) == {m \in Scan(files, chart) : m.version # version}

\* promote pr: the files with drift are edited.
Promoted(files, chart, version) ==
  [p \in DOMAIN files |->
     IF \E m \in Drift(files, chart, version) : m.path = p
     THEN [files[p] EXCEPT !.docs = SetVersion(@, chart, version)] ELSE files[p]]
=============================================================================
