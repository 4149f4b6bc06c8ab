---------------------------- MODULE MCProviderPause ---------------------------
EXTENDS ProviderPause, TLC

CONSTANTS j1, j2, o1, w1, w2

MCDistillKinds == [j \in Jobs |-> "distill"]

\* The jobs are of one kind: nothing tells them apart.
MCSymmetry == Permutations(Jobs)
===============================================================================
