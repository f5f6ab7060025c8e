---- MODULE MC_ChildSupervisor ----
EXTENDS ChildSupervisor, TLC

Symmetry == Permutations(Starters) \cup Permutations(Configs)
====
