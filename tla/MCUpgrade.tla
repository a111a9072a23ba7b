----------------------------- MODULE MCUpgrade -----------------------------
(* Upgrade, with one run after the other. *)
EXTENDS Upgrade
=============================================================================
