------------------------- MODULE MCNotebookSources -------------------------
(***************************************************************************)
(* Instances of NotebookSources for TLC.                                   *)
(***************************************************************************)
EXTENDS NotebookSources, TLC

CONSTANTS d1, d2, d3, c1, c2

\* Two documents with a chunk id in common, of which one takes two batches, and
\* one that yields no chunk.
SharedCut == (d1 :> {{c1}, {c2}}) @@ (d2 :> {{c2}}) @@ (d3 :> {})

\* No behaviour and no property tells the members of these sets apart.
Symmetry == Permutations(Sources) \cup Permutations(Notebooks)
=============================================================================
