------------------------------- MODULE MCOutbox -------------------------------
EXTENDS Outbox, TLC

Symmetry == Permutations(Procs) \cup Permutations(Plans) \cup Permutations(Tx)

===============================================================================
