---------------------------- MODULE MCMemorySync ----------------------------
EXTENDS MemorySync, TLC
CONSTANTS d1, d2, a1, a2, a3

MCDistinct == [a \in Atoms |-> a]
MCNoSkew   == [d \in Devices |-> 0]
MCSkew     == [d \in Devices |-> IF d = d1 THEN 0 ELSE 2]
MCSymmetry == Permutations(Shared)
=============================================================================
