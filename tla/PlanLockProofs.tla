---------------------------- MODULE PlanLockProofs ----------------------------
(***************************************************************************)
(* For any set of processes, any lease and any step no longer than it: the *)
(* lock of a plan keeps its holders apart.  LeaseInv is inductive; the     *)
(* part that makes it so is KeptUntilLapsed.  It says that a lease whose   *)
(* value left the column has lapsed, so the value a taker writes is larger *)
(* than every value still remembered, and comparing values identifies the  *)
(* holder.                                                                 *)
(***************************************************************************)
EXTENDS PlanLock, TLAPS

USE TimesAssumption, StepAssumption, NullAssumption

\* The lease invariant holds initially.
LEMMA LeaseInvInit == Init => LeaseInv
  BY DEF Init, LeaseInv, TypeOK, Time, OneHolder, KeptUntilLapsed, Holds

\* Every step of every process, and of the clock, preserves it.
LEMMA LeaseInvStep == LeaseInv /\ [Next]_vars => LeaseInv'
  <1> SUFFICES ASSUME LeaseInv, [Next]_vars
               PROVE  LeaseInv'
    OBVIOUS
  <1> USE DEF LeaseInv, TypeOK, Time, OneHolder, KeptUntilLapsed, Holds
  <1>1. CASE Tick
    BY <1>1 DEF Tick
  <1>2. ASSUME NEW p \in Procs, Acquire(p)
        PROVE  LeaseInv'
    BY <1>2 DEF Acquire, Takeable
  <1>3. ASSUME NEW p \in Procs, Hold(p)
        PROVE  LeaseInv'
    BY <1>3 DEF Hold
  <1>4. ASSUME NEW p \in Procs, Lost(p)
        PROVE  LeaseInv'
    BY <1>4 DEF Lost
  <1>5. ASSUME NEW p \in Procs, EndStep(p)
        PROVE  LeaseInv'
    BY <1>5 DEF EndStep
  <1>6. ASSUME NEW p \in Procs, Release(p)
        PROVE  LeaseInv'
    BY <1>6 DEF Release
  <1>7. ASSUME NEW p \in Procs, Crash(p)
        PROVE  LeaseInv'
    BY <1>7 DEF Crash
  <1>8. CASE UNCHANGED vars
    BY <1>8 DEF vars
  <1>9. QED
    BY <1>1, <1>2, <1>3, <1>4, <1>5, <1>6, <1>7, <1>8 DEF Next

\* Every reachable state satisfies the lease invariant.
THEOREM LeaseInvariant == Spec => []LeaseInv
  BY LeaseInvInit, LeaseInvStep, PTL DEF Spec

\* The types of the lock's state.
THEOREM TypeCorrect == Spec => []TypeOK
  <1>1. LeaseInv => TypeOK
    BY DEF LeaseInv
  <1>2. QED
    BY <1>1, LeaseInvariant, PTL

\* No two processes are inside a step that needs the plan's lock: what plan-lock.ts
\* promises a cycle, a redeem and a deposit that write the same plan.
THEOREM Exclusion == Spec => []NoTwoActing
  <1>1. LeaseInv => NoTwoActing
    BY DEF LeaseInv, NoTwoActing, OneHolder, KeptUntilLapsed
  <1>2. QED
    BY <1>1, LeaseInvariant, PTL

\* A renewal or a release that compares the value only ever meets its own lock.
THEOREM ValueIdentifiesHolder == Spec => []OneHolder
  <1>1. LeaseInv => OneHolder
    BY DEF LeaseInv
  <1>2. QED
    BY <1>1, LeaseInvariant, PTL

\* A lease whose time has not passed is still in the table: nobody takes it before it lapses,
\* however late a release of another comes (plan-lock.ts:31, queue.ts).
THEOREM LeaseKept == Spec => []KeptUntilLapsed
  <1>1. LeaseInv => KeptUntilLapsed
    BY DEF LeaseInv
  <1>2. QED
    BY <1>1, LeaseInvariant, PTL

===============================================================================
