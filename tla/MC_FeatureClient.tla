------------------------- MODULE MC_FeatureClient -------------------------
(* FeatureClient against an arbitrary child. *)
EXTENDS FeatureClient, TLC

Symmetry == Permutations(Callers) \cup Permutations(Configs)

\* No action of FeatureClient reads the frames already written; of their order WireOrder
\* needs which methods are at or behind a shutdown frame.
Shutdowns == {i \in DOMAIN toChild : toChild[i].method = "shutdown"}
BehindShutdown == {toChild[j].method : j \in {k \in DOMAIN toChild : \E i \in Shutdowns : i < k}}
WithoutFrames ==
    <<fromChild, inOpen, outOpen, Shutdowns # {}, BehindShutdown, clientVars>>

\* A child with a live transition and host ingress, or one that only prepares.
LiveOrPrepare ==
    {[transition |-> "live", ingress |-> TRUE], [transition |-> "prepare", ingress |-> FALSE]}
LiveOnly == {[transition |-> "live", ingress |-> FALSE]}
=============================================================================
