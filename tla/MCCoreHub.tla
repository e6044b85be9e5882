----------------------------- MODULE MCCoreHub -----------------------------
(* Instances of CoreHub for TLC. *)
EXTENDS CoreHub

CONSTANTS q1, q2, q3, p1, p2
=============================================================================
