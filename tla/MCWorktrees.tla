---------------------------- MODULE MCWorktrees ----------------------------
(* Small instances of Worktrees for TLC. *)
EXTENDS Worktrees, TLC

Symmetry == Permutations(Sessions) \cup Permutations(Handlers)
=============================================================================
