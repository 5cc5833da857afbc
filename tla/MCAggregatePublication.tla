----------------------- MODULE MCAggregatePublication -----------------------
(***************************************************************************)
(* Instances of AggregatePublication: a file of the format's own is        *)
(* written first, then the one the formats share.                          *)
(***************************************************************************)
EXTENDS AggregatePublication

MCFiles == [f \in Formats |-> IF f = "p0" THEN {1, 3} ELSE {2, 3}]

=============================================================================
