--------------------------- MODULE MCCoreLauncher ---------------------------
(* Instances of CoreLauncher for TLC. *)
EXTENDS CoreLauncher

CONSTANTS r1, r2, c1, c2
=============================================================================
