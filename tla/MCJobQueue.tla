------------------------------ MODULE MCJobQueue ------------------------------
EXTENDS JobQueue, TLC

CONSTANTS j1, j2, o1, o2

\* An ordinary job beside one that boot recovery poisons, and that is preempted
\* for higher tiers.
MCPairKinds == (j1 :> "distill") @@ (j2 :> "consolidate")

\* The extreme tiers: the lower one purges rows and is preferred by lane 0.
MCTierKinds == (j1 :> "cleanup") @@ (j2 :> "distill")
===============================================================================
