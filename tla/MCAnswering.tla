---------------------------- MODULE MCAnswering ----------------------------
(* A small instance of Answering for TLC. *)
EXTENDS Answering, TLC

\* In the code 5, 5 and 4.
TriesOfKinds == ("answer" :> 2) @@ ("analysis" :> 2) @@ ("agent" :> 2)
=============================================================================
