--------------------------- MODULE MCRepoIndexing ---------------------------
(***************************************************************************)
(* Instances of RepoIndexing for TLC.                                      *)
(***************************************************************************)
EXTENDS RepoIndexing, TLC

\* No behaviour and no property tells the members of these sets apart.
Symmetry == Permutations(Files) \cup Permutations(RowIds) \cup Permutations(Jobs)
=============================================================================
