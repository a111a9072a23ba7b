---------------------------- MODULE MCValidate -----------------------------
(***************************************************************************)
(* Two threads and the two rows of one chart.  That chart and another may  *)
(* render CRDs, so that rows and the preparation meet at the same locks.   *)
(***************************************************************************)
EXTENDS Validate

CONSTANTS web, api, t1, t2

MCRows == <<<<web, "ci">>, <<web, "prod">>>>

\* Everything is asked for and enabled; kubeconform is disabled; only policies are asked for.
MCSettings ==
  {[asked |-> {"render", "schema", "policy"}, enabled |-> [c \in Charts |-> {"schema", "policy"}]],
   [asked |-> {"render", "schema", "policy"}, enabled |-> [c \in Charts |-> {"policy"}]],
   [asked |-> {"policy"}, enabled |-> [c \in Charts |-> {"schema", "policy"}]]}
=============================================================================
