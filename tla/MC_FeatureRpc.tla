--------------------------- MODULE MC_FeatureRpc ---------------------------
(* Host and child together. *)
EXTENDS FeatureRpc, TLC

Symmetry == Permutations(Callers) \cup Permutations(Configs)

LiveWithIngress == {[transition |-> "live", ingress |-> TRUE]}
PrepareOnly == {[transition |-> "prepare", ingress |-> FALSE]}
=============================================================================
