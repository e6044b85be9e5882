------------------------------ MODULE MCLogHub ------------------------------
(* Instances of LogHub for TLC. *)
EXTENDS LogHub

CONSTANTS h1, h2, h3
=============================================================================
