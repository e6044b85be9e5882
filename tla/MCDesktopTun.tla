---------------------------- MODULE MCDesktopTun ----------------------------
(* Instances of DesktopTun for TLC. *)
EXTENDS DesktopTun

CONSTANTS f1, f2, f3, p1, p2
=============================================================================
