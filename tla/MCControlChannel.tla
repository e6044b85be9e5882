-------------------------- MODULE MCControlChannel --------------------------
(* Instances of ControlChannel for TLC. *)
EXTENDS ControlChannel

CONSTANTS r1, c1, c2, i1
=============================================================================
