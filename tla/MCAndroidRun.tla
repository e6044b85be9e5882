---------------------------- MODULE MCAndroidRun ----------------------------
(* Instances of AndroidRun for TLC. *)
EXTENDS AndroidRun

CONSTANTS o1, o2
=============================================================================
