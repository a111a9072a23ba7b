----------------------------- MODULE CrdSchemas -----------------------------
(***************************************************************************)
(* How the CRDs that charts render become schemas for kubeconform          *)
(* (commands/validate/schemas/crd.py, inventory.py): which versions are    *)
(* taken, when two CRDs are in conflict, and how a schema is closed, as    *)
(* kubeconform knows nothing of what the API server prunes.                *)
(*                                                                         *)
(* A schema is a tree of nodes:                                            *)
(*   type      "string", "object" or "any"                                 *)
(*   fields    the properties, and their nodes                             *)
(*   others    additionalProperties: {} when absent, or one of the nodes   *)
(*             that they have, AnyOther for any, NoOther for none          *)
(*   keep      x-kubernetes-preserve-unknown-fields                        *)
(*   nullable  as OpenAPI says it, until it is turned into the alternative *)
(*   enum      whether a string must be one of those listed                *)
(*   allOf     fragments that hold as well: nodes                          *)
(*   orNull    the alternative that JSON Schema has for nullable           *)
(* A document is Null, a listed text, another text, or an object: its      *)
(* fields and their documents.                                             *)
(***************************************************************************)
EXTENDS Naturals, Sequences, FiniteSets, TLC

LOCAL INSTANCE SequencesExt
LOCAL INSTANCE FiniteSetsExt

Node(type, fields, others, keep, nullable, enum, allOf) ==
  [type |-> type, fields |-> fields, others |-> others, keep |-> keep, nullable |-> nullable,
   enum |-> enum, allOf |-> allOf, orNull |-> FALSE]

NoFields == <<>>
Anything == Node("any", NoFields, {}, FALSE, FALSE, FALSE, {})
AnyOther == {Anything}
NoOther == {Node("never", NoFields, {}, FALSE, FALSE, FALSE, {})}

Null == [is |-> "null"]
Chosen == [is |-> "listed"]
Text == [is |-> "text"]
Object(fields) == [is |-> "object", fields |-> fields]

-----------------------------------------------------------------------------
(***************************************************************************)
(* Closing a schema.                                                       *)
(***************************************************************************)

Shaped(node) == node.type = "object" \/ DOMAIN node.fields # {}

\* Mutant: a fragment is closed as well.
Closes_Fragments(node, inFragment) == Shaped(node) /\ node.others = {} /\ ~node.keep

\* An object that says nothing of other fields, unless it preserves them or is a fragment.
Closes(node, inFragment) == ~inFragment /\ Shaped(node) /\ node.others = {} /\ ~node.keep

\* null or the node, with its enum outside of the alternative.
Nulled(node) == IF node.nullable THEN [node EXCEPT !.nullable = FALSE, !.orNull = TRUE] ELSE node

\* _walk_schema.
RECURSIVE Walk(_, _)
Walk(node, inFragment) ==
  Nulled([node EXCEPT
    !.fields = [f \in DOMAIN node.fields |-> Walk(node.fields[f], inFragment)],
    !.others = IF Closes(node, inFragment) THEN NoOther ELSE {Walk(n, inFragment) : n \in node.others},
    !.allOf = {Walk(n, TRUE) : n \in node.allOf}])

\* The resource envelope: metadata may have any fields besides those that are described.
Envelope(node) ==
  LET authored == IF "metadata" \in DOMAIN node.fields THEN node.fields["metadata"]
                  ELSE Node("object", NoFields, {}, FALSE, FALSE, FALSE, {})
      metadata == [authored EXCEPT !.type = IF @ = "any" THEN "object" ELSE @, !.others = AnyOther]
  IN [node EXCEPT !.fields = ("metadata" :> metadata) @@ node.fields]

\* _schemas_for_crd: the schema of one version.
SchemaOf(node) == Walk(Envelope(node), FALSE)

-----------------------------------------------------------------------------
(***************************************************************************)
(* Versions and conflicts.                                                 *)
(***************************************************************************)

Schemas(known) == [conflict |-> FALSE, of |-> known]

\* _schemas_for_crd: a CRD has a kind, and versions: records of a name, of whether it is
\* served, and of its schema, {} for none.
Artifacts(crd) ==
  UNION {{<< <<crd.kind, v.name>>, s>> : s \in v.schema} : v \in {w \in crd.versions : w.served}}

\* The same schema again is no conflict.
Add(known, artifact) ==
  [conflict |-> known.conflict \/ (artifact[1] \in DOMAIN known.of /\ known.of[artifact[1]] # artifact[2]),
   of |-> (artifact[1] :> artifact[2]) @@ known.of]

\* generate_crd_schemas: every CRD that was rendered, in the order of the files.
RECURSIVE Generated(_)
Generated(crds) ==
  IF crds = <<>> THEN Schemas(<<>>)
  ELSE FoldSet(LAMBDA a, known : Add(known, a), Generated(Front(crds)), Artifacts(Last(crds)))

-----------------------------------------------------------------------------
(***************************************************************************)
(* What the API server admits, which prunes nothing that it is asked to    *)
(* keep and is told to refuse what it would prune; and what kubeconform    *)
(* does.                                                                   *)
(***************************************************************************)

Typed(node, doc) ==
  CASE doc.is = "null" -> node.type = "any"
    [] doc.is = "object" -> node.type \in {"object", "any"}
    [] OTHER -> node.type \in {"string", "any"}

Has(doc, f) == doc.is = "object" /\ f \in DOMAIN doc.fields

RECURSIVE Conforms(_, _)
Conforms(fragment, doc) ==
  /\ fragment.type = "any" \/ Typed(fragment, doc)
  /\ fragment.enum => doc.is = "listed"
  /\ \A f \in DOMAIN fragment.fields : Has(doc, f) => Conforms(fragment.fields[f], doc.fields[f])

RECURSIVE Admits(_, _)
Admits(node, doc) ==
  /\ node.enum => doc.is = "listed"
  /\ \/ doc.is = "null" /\ node.nullable
     \/ /\ Typed(node, doc)
        /\ \A n \in node.allOf : Conforms(n, doc)
        /\ doc.is = "object" =>
             \A f \in DOMAIN doc.fields :
               IF f \in DOMAIN node.fields THEN Admits(node.fields[f], doc.fields[f])
               ELSE node.keep \/ \E n \in node.others : n = Anything \/ Admits(n, doc.fields[f])

\* Metadata is described by Kubernetes, and may be described further.
AdmitsResource(node, doc) ==
  LET rest == [doc EXCEPT !.fields = [f \in DOMAIN @ \ {"metadata"} |-> @[f]]]
      metadata == doc.fields["metadata"]
  IN /\ Has(doc, "metadata") /\ metadata.is = "object" /\ Admits(node, rest)
     /\ "metadata" \in DOMAIN node.fields =>
          LET known == node.fields["metadata"]
          IN \A f \in DOMAIN metadata.fields \intersect DOMAIN known.fields :
               Admits(known.fields[f], metadata.fields[f])

RECURSIVE Accepts(_, _)
Accepts(node, doc) ==
  /\ node.enum => doc.is = "listed"
  /\ \/ doc.is = "null" /\ node.orNull
     \/ /\ Typed(node, doc)
        /\ \A n \in node.allOf : Accepts(n, doc)
        /\ doc.is = "object" =>
             \A f \in DOMAIN doc.fields :
               IF f \in DOMAIN node.fields THEN Accepts(node.fields[f], doc.fields[f])
               ELSE node.others = {} \/ \E n \in node.others : Accepts(n, doc.fields[f])
=============================================================================
