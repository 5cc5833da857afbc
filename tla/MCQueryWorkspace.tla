-------------------------- MODULE MCQueryWorkspace --------------------------
(***************************************************************************)
(* Two queries, the second of them a sidecar, in each of the three modes.  *)
(***************************************************************************)
EXTENDS QueryWorkspace
CONSTANTS q1, q2, leader, child
MCPlan == <<q1, q2>>
=============================================================================
