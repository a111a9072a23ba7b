----------------------------- MODULE MCCluster -----------------------------
(***************************************************************************)
(* A control plane and a worker; one bootstrap release, which the chart    *)
(* requires again under another profile, beside a requirement of its own.  *)
(***************************************************************************)
EXTENDS Cluster

CONSTANTS control, worker

MCBootstrap == <<"cni">>
MCTargets == <<"crds", "cni", "app">>
MCHelmTests == {3, 4}
=============================================================================
