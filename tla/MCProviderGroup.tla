-------------------------- MODULE MCProviderGroup --------------------------
(* Instances of ProviderGroup for TLC. *)
EXTENDS ProviderGroup

CONSTANTS n1, n2, c1, c2
TwoLists == {{n1}, {n1, n2}}
=============================================================================
