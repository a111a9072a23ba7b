---------------------------- MODULE Conformance -----------------------------
(***************************************************************************)
(* How the rendered manifests of a row are judged: which kinds kubeconform *)
(* is told to skip and what its report says                                *)
(* (integrations/kubeconform/runner.py), what kyverno's says               *)
(* (integrations/kyverno.py), the result of the two checks                 *)
(* (commands/validate/run.py), and which CRDs are found in the manifests   *)
(* (commands/validate/schemas/inventory.py).                               *)
(*                                                                         *)
(* A case is a record:                                                     *)
(*   files    the rendered files: records of the suffix, of whether they   *)
(*            can be parsed, and of the resources in them, in lists or not *)
(*   covered  the group and kind pairs that have a schema                  *)
(*   damaged  those of them whose schema cannot be loaded                  *)
(*   kinds    the kinds, and                                               *)
(*   pairs    the pairs that ignoreMissingSchemas names                    *)
(*   policies the policies there are                                       *)
(*   tool     how the tool answers: in "json", in json with "new" words    *)
(*            for its verdicts, with "garbage", or "nothing"               *)
(* A resource has a group, a kind, a fault ("none", "invalid", or          *)
(* "unreadable" for one that does not unmarshal), and what policies say of *)
(* it.                                                                     *)
(***************************************************************************)
EXTENDS Naturals, Sequences, FiniteSets

Gvk(r) == <<r.group, r.kind>>

\* The resources of the files that have one of the suffixes.
In(case, suffixes) ==
  UNION {f.resources : f \in {g \in case.files : g.suffix \in suffixes /\ g.parses}}
Manifests == {"yaml", "yml", "json"}
Everything(case) == In(case, Manifests)

Checked(status, findings) == [status |-> status, findings |-> findings]

\* _skip_reason: a row without a file *.yaml has no manifests.
NoManifests(case) == ~\E f \in case.files : f.suffix = "yaml"

\* scan_rendered_directory: the CRDs of all files, or nothing when one cannot be read.
Inventory(case) ==
  [raised |-> (\E f \in case.files : ~f.parses) \/ (\E r \in Everything(case) : r.fault = "unreadable"),
   crds |-> {r \in Everything(case) : r.kind = "CRD"}]

-----------------------------------------------------------------------------
(***************************************************************************)
(* kubeconform.                                                            *)
(***************************************************************************)

\* _uncovered_gvk_skips: an authored pair, or any that occurs of an authored kind, if no
\* location has a schema for it.
Skips(case) ==
  (case.pairs \union {Gvk(r) : r \in {q \in Everything(case) : q.kind \in case.kinds}}) \ case.covered

\* What kubeconform says of a resource, and why.
Says(case, r) ==
  IF r.fault = "unreadable" THEN [status |-> "statusError", why |-> "resource"]
  ELSE IF Gvk(r) \in Skips(case) THEN [status |-> "statusSkipped", why |-> ""]
  ELSE IF Gvk(r) \notin case.covered \ case.damaged THEN [status |-> "statusError", why |-> "schema"]
  ELSE [status |-> IF r.fault = "invalid" THEN "statusInvalid" ELSE "statusValid", why |-> ""]

\* A later version of it has other words for what is not valid.
Worded(case, said) ==
  IF case.tool = "new" /\ said.status # "statusValid" THEN [said EXCEPT !.status = "statusNew"] ELSE said

\* Mutant: a status that is not known is not a finding.
Normalized_Unknown(status) ==
  CASE status = "statusInvalid" -> "invalid" [] status = "statusError" -> "error"
    [] status = "statusValid" -> "valid" [] OTHER -> "skipped"

\* _normalize_status: what is not known is an error.
Normalized(status) ==
  CASE status = "statusValid" -> "valid" [] status = "statusInvalid" -> "invalid"
    [] status \in {"statusSkipped", "statusEmpty"} -> "skipped" [] OTHER -> "error"

\* _parse: a verdict for each resource, and one for each file that is no YAML.
Report(case) ==
  {[of |-> r, status |-> Normalized(Worded(case, Says(case, r)).status), why |-> Says(case, r).why] : r \in Everything(case)}
    \union {[of |-> [suffix |-> f.suffix], status |-> Normalized(Worded(case, [status |-> "statusError"]).status), why |-> "resource"] :
              f \in {g \in case.files : ~g.parses}}

Findings(case) == {e \in Report(case) : e.status \in {"invalid", "error"}}

\* _is_schema_unavailable: an error that is not about the resource itself.
Unavailable(case) == \E e \in Findings(case) : e.status = "error" /\ e.why # "resource"

\* _schema: the schema check of a row that has manifests.
SchemaCheck(case) ==
  IF NoManifests(case) THEN Checked("skipped", {})
  ELSE IF case.tool \in {"garbage", "nothing"} THEN Checked("error", {})
  ELSE IF Findings(case) = {} THEN Checked("passed", {})
  ELSE Checked(IF Unavailable(case) THEN "error" ELSE "failed", Findings(case))

-----------------------------------------------------------------------------
(***************************************************************************)
(* kyverno.                                                                *)
(***************************************************************************)

\* _discover_manifests: each file by its name; kyverno takes no directory.
Discovered(case) == {f \in case.files : f.suffix \in {"yaml", "yml"}}

\* Its verdict of a resource under a policy.
Verdict(case, policy, r) ==
  IF case.tool = "new" /\ r.policy[policy] \notin {"pass", "skip"} THEN "new" ELSE r.policy[policy]

\* An entry for each policy and resource; a later version may put the resources of one policy
\* and verdict in one.
Entry(case, p, r) == [policy |-> p, result |-> Verdict(case, p, r), resources |-> {r}]
Grouped(case, e) ==
  [policy |-> e.policy, result |-> e.result,
   resources |-> {r \in In(case, {"yaml", "yml"}) : Verdict(case, e.policy, r) = e.result}]
Entries(case) ==
  LET each == {Entry(case, p, r) : p \in case.policies, r \in In(case, {"yaml", "yml"})}
  IN IF case.tool # "new" THEN each ELSE {Grouped(case, e) : e \in each}

\* _parse and _normalize_status: a result for each resource; what is not known is an error.
Results(case) ==
  UNION {{[policy |-> e.policy, of |-> r,
           status |-> IF e.result \in {"pass", "fail", "warn", "skip", "error"} THEN e.result ELSE "error"] :
             r \in e.resources} : e \in Entries(case)}

Failures(case) == {r \in Results(case) : r.status \in {"fail", "error"}}

\* _policy: no policy, a report, nothing at all, or no report.
PolicyCheck(case) ==
  IF case.policies = {} \/ NoManifests(case) THEN Checked("skipped", {})
  ELSE IF Discovered(case) = {} \/ case.tool = "nothing" THEN Checked("passed", {})
  ELSE IF case.tool = "garbage" THEN Checked("error", {})
  ELSE Checked(IF Failures(case) = {} THEN "passed" ELSE "failed", Failures(case))
=============================================================================
