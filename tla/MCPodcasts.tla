---------------------------- MODULE MCPodcasts ----------------------------
(***************************************************************************)
(* An instance of Podcasts for TLC.                                        *)
(***************************************************************************)
EXTENDS Podcasts
=============================================================================
