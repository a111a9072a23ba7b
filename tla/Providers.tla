----------------------------- MODULE Providers ------------------------------
(***************************************************************************)
(* Which charts are rendered for the CRDs that they may contain            *)
(* (commands/validate/schemas/generated.py): the others are not, so that a *)
(* chart that is passed over has its resources judged without a schema.    *)
(*                                                                         *)
(* A chart says whether it loads, whether it is validated, what its        *)
(* dependencies are ("none", "fresh", "stale", or "local" for file:), and  *)
(* what files it has.  A file has                                          *)
(*   place  "crds", "templates", "partial" or "notes" (files there that    *)
(*          Helm does not render), or "other"                              *)
(*   is     "text", "link", "unreadable", or "archive"                     *)
(*   docs   the documents of a text, {} for a blank one                    *)
(*   inner  the files of an archive, and huge, if it is not looked into    *)
(* A document has the kind that it is written with, "none" without one,    *)
(* "templated", "CRD", or another; and template actions: "control" for     *)
(* those that print nothing, "whole" for one that starts its line and is   *)
(* not indented, "nested" for one that is, and "inline".                   *)
(***************************************************************************)
EXTENDS FiniteSets

\* A resource, or another one, may come of it.
Possible(doc) ==
  \/ doc.kind = "templated"
  \/ doc.kind = "none" /\ doc.actions \ {"control"} # {}
  \/ "whole" \in doc.actions

\* _possible_crd_bytes: what is not known counts.
PossibleText(file) ==
  \/ \E d \in file.docs : d.kind = "CRD"
  \/ file.place = "crds" /\ file.docs # {}
  \/ file.place = "templates" /\ \E d \in file.docs : Possible(d)

\* Of an archive, its files and the archives among them.
RECURSIVE PossibleFile(_)
PossibleFile(file) ==
  CASE file.is = "text" -> PossibleText(file)
    [] file.is = "archive" -> file.huge \/ \E f \in file.inner : PossibleFile(f)
    [] OTHER -> TRUE

\* _possible_crd_provider: dependencies that are not there to be looked into count too.
PossibleProvider(chart) == chart.deps \in {"stale", "local"} \/ \E f \in chart.files : PossibleFile(f)

\* providers: those of the charts that are validated, or an error.
ProvidersAmong(charts) ==
  [raised |-> \E c \in charts : ~c.loads,
   of |-> {c \in charts : c.loads /\ c.validated /\ PossibleProvider(c)}]

-----------------------------------------------------------------------------
(***************************************************************************)
(* What Helm may render.  An action prints a word, lines of a mapping, or  *)
(* documents; what is inline is a word, or the YAML would not parse.       *)
(***************************************************************************)

Prints(action) == 
  CASE action = "control" -> {} [] action = "inline" -> {"word"}
    [] OTHER -> {"word", "lines", "documents"}

\* Lines are a resource if they are the document, at any indentation; documents that are
\* not indented follow the one they are in.
MayRender(doc) ==
  \/ doc.kind \in {"CRD", "templated"}
  \/ \E a \in doc.actions : \E text \in Prints(a) :
       \/ doc.kind = "none" /\ text # "word"
       \/ a = "whole" /\ text = "documents"

\* Helm installs crds/ as it is, and charts in archives as if they were unpacked.
RECURSIVE HasCrd(_)
HasCrd(file) ==
  CASE file.is = "archive" -> \E f \in file.inner : HasCrd(f)
    [] file.is = "unreadable" -> FALSE
    [] file.place = "crds" -> \E d \in file.docs : d.kind = "CRD"
    [] file.place = "templates" -> \E d \in file.docs : MayRender(d)
    [] OTHER -> FALSE
=============================================================================
