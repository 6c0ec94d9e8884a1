-------------------------- MODULE MCAgentSessions --------------------------
(* Small instances of AgentSessions for TLC; the sets are given in the cfg *)
(* files as sets of model values.                                          *)
EXTENDS AgentSessions, TLC

\* Sessions, tasks and handlers are interchangeable in every safety run.
Symmetry ==
  Permutations(Sessions) \cup Permutations(Tasks) \cup Permutations(Handlers)
=============================================================================
