--------------------------- MODULE MCBatchRunner ---------------------------
(* Instances of BatchRunner for TLC: t3 is a target the plan pauses.       *)
EXTENDS BatchRunner

CONSTANTS t1, t2, t3

MCOnePlan == <<t1>>
MCPausedPlan == <<t3, t1, t2>>
=============================================================================
