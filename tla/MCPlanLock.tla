------------------------------ MODULE MCPlanLock ------------------------------
(***************************************************************************)
(* Three processes over a lease of two ticks: one may lapse, be taken over *)
(* by a second, and a third may come in after the second's release.        *)
(***************************************************************************)
EXTENDS PlanLock, TLC

Symmetry == Permutations(Procs)

===============================================================================
