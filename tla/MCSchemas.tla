----------------------------- MODULE MCSchemas -----------------------------
(***************************************************************************)
(* Two processes, two commits of each repository, two Kubernetes versions, *)
(* and one step taken outside the program.                                 *)
(***************************************************************************)
EXTENDS SchemaStore

CONSTANTS p1, p2, a, b, v, w
=============================================================================
