---------------------------- MODULE MCTokenSync ----------------------------
(* Instances of TokenSync for TLC. *)
EXTENDS TokenSync, TLC

Symmetry == Permutations(WorkspaceIDs)
=============================================================================
