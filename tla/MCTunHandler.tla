---------------------------- MODULE MCTunHandler ----------------------------
(* Instances of TunHandler for TLC. *)
EXTENDS TunHandler

CONSTANTS c1, c2, c3, d1, d2
=============================================================================
