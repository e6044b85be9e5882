----------------------- MODULE MCSubscriptionImport -----------------------
(* Instances of SubscriptionImport for TLC. *)
EXTENDS SubscriptionImport

CONSTANTS c1, c2, p1, p2, n1, n2
===========================================================================
