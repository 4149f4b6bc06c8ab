---------------------------- MODULE MCInstanceLock ----------------------------
EXTENDS InstanceLock

CONSTANTS p1, p2

\* Every launch reads the same configuration file.
MCSamePort == [p \in Procs |-> 1]
===============================================================================
