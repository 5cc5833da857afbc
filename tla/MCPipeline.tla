------------------------------ MODULE MCPipeline ------------------------------
(* Small instances of Pipeline for TLC.                                      *)
EXTENDS Pipeline, TLC

\* Executor outputs over the paths 1 (public) and 2 (private):
\* they add, drop and rewrite files of each other.
TwoPathOutputs(a, b) == {1 :> a, (1 :> b) @@ (2 :> b)}
CONSTANTS c1, c2
MCTwoPathOutputs == TwoPathOutputs(c1, c2)
===============================================================================
