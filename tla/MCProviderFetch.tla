-------------------------- MODULE MCProviderFetch --------------------------
(* Instances of ProviderFetch for TLC. *)
EXTENDS ProviderFetch

CONSTANTS a, b, p0, u1, s1
=============================================================================
