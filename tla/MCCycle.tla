------------------------------- MODULE MCCycle --------------------------------
\* Cycle for TLC: processes are interchangeable.
EXTENDS Cycle, TLC

Symmetry == Permutations(Procs)

===============================================================================
