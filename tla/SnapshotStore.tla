--------------------------- MODULE SnapshotStore ---------------------------
(***************************************************************************)
(* What the schema store promises to whoever reads it: a step of the       *)
(* program makes a snapshot appear whole, or leaves the store as it is.    *)
(* Only hands outside the program damage or remove a snapshot, and each    *)
(* time they do anything it is counted, so that a step of the program      *)
(* cannot pass for one of theirs.                                          *)
(***************************************************************************)
EXTENDS Naturals

CONSTANT Snapshots

VARIABLES
  held,  \* what is found under the path of each snapshot
  hands  \* how often somebody outside the program did something

SnapshotInit == held = [s \in Snapshots |-> "absent"] /\ hands = 0

\* The only thing that the program does to the store.
Appear(s) == held[s] = "absent" /\ held' = [held EXCEPT ![s] = "whole"] /\ UNCHANGED hands

Damage(s) == held[s] # "absent" /\ held' = [held EXCEPT ![s] = "damaged"]
Remove(s) == held[s] # "absent" /\ held' = [held EXCEPT ![s] = "absent"]

\* Somebody outside the program: at a snapshot, or at something else.
Hand ==
  /\ hands' = hands + 1
  /\ UNCHANGED held \/ \E s \in Snapshots : Damage(s) \/ Remove(s)

SnapshotNext == (\E s \in Snapshots : Appear(s)) \/ Hand

SnapshotSpec == SnapshotInit /\ [][SnapshotNext]_<<held, hands>>
=============================================================================
