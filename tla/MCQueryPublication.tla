------------------------ MODULE MCQueryPublication ------------------------
(* Instances of QueryPublication: one directory of somebody else.          *)
EXTENDS QueryPublication

CONSTANT f1
=============================================================================
