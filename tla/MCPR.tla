-------------------------------- MODULE MCPR --------------------------------
(* PromotePR with interchangeable invocations and files. *)
EXTENDS PromotePR, TLC

Symmetric == Permutations(Invocations) \union Permutations(Files)
=============================================================================
