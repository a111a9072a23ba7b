------------------------------ MODULE MCFanout ------------------------------
(* Fanout on a few interchangeable releases. *)
EXTENDS Fanout, TLC

Symmetric == Permutations(Releases)
=============================================================================
