------------------------------- MODULE PlanLock -------------------------------
(***************************************************************************)
(* The lock of one plan: the column plans.lock_until, taken with a compare *)
(* on the clock (acquirePlanLock), kept and given back with a compare on   *)
(* the value last written (renewPlanLock, releasePlanLock), and wrapped in *)
(* a lease by plan-lock.ts.  Every path that signs for a plan or writes    *)
(* its money columns works under it, in the worker and in the operator's   *)
(* scripts, which are separate processes on the same database.             *)
(*                                                                         *)
(* The lock is only a lease: once its time has passed anybody may take it, *)
(* whether its holder died or is merely slow.  What keeps two holders      *)
(* apart is that a holder renews before every step that must not run       *)
(* without the lock, and that one such step is shorter than the lease.     *)
(***************************************************************************)
EXTENDS Integers

CONSTANTS
  Procs,     \* the processes that may hold the lock
  Null,      \* the column's null, and the lease of a process without one
  TTL,       \* LOCK_TTL_MS
  StepMax,   \* the longest step between two renewals (one receipt wait)
  MaxTime    \* bound of the model: the clock stops there

ASSUME TimesAssumption ==
  /\ TTL \in Nat \ {0}
  /\ StepMax \in Nat
  /\ MaxTime \in Nat

\* "The lock outlives the longest step between two renewals" (plan-lock.ts:7).
ASSUME StepAssumption == StepMax <= TTL

ASSUME NullAssumption == Null \notin Nat

VARIABLES
  now,        \* the clock every process reads
  lockUntil,  \* plans.lock_until
  until,      \* until[p]: the value p's lease remembers
  acting      \* acting[p]: p is inside a step that must not run without the lock

vars == <<now, lockUntil, until, acting>>

Time == Nat \cup {Null}

-------------------------------------------------------------------------------
Init ==
  /\ now = 0
  /\ lockUntil = Null
  /\ until = [p \in Procs |-> Null]
  /\ acting = [p \in Procs |-> FALSE]

\* Mutant of Takeable: lte for lt.
TakeableAtLapse == lockUntil # Null => lockUntil <= now

\* lock_until is null or lt(lock_until, now).
Takeable == lockUntil # Null => lockUntil < now

\* acquirePlanLock: the holder works under the fresh lock at once.
Acquire(p) ==
  /\ until[p] = Null
  /\ Takeable
  /\ lockUntil' = now + TTL
  /\ until' = [until EXCEPT ![p] = now + TTL]
  /\ acting' = [acting EXCEPT ![p] = TRUE]
  /\ UNCHANGED now

\* Still the holder: the column has the value this lease last wrote.
Holds(p) == until[p] # Null /\ until[p] = lockUntil

\* Mutant of Hold: the renewal does not compare the value.
HoldBlindly(p) ==
  /\ ~acting[p]
  /\ until[p] # Null
  /\ lockUntil' = now + TTL
  /\ until' = [until EXCEPT ![p] = now + TTL]
  /\ acting' = [acting EXCEPT ![p] = TRUE]
  /\ UNCHANGED now

\* planLease.hold by a holder that was not replaced: a lapsed lock is renewed too.
Hold(p) ==
  /\ ~acting[p]
  /\ Holds(p)
  /\ lockUntil' = now + TTL
  /\ until' = [until EXCEPT ![p] = now + TTL]
  /\ acting' = [acting EXCEPT ![p] = TRUE]
  /\ UNCHANGED now

\* planLease.hold by a holder that was replaced: LockLostError, and the lease is gone.
Lost(p) ==
  /\ ~acting[p]
  /\ until[p] # Null
  /\ ~Holds(p)
  /\ until' = [until EXCEPT ![p] = Null]
  /\ UNCHANGED <<now, lockUntil, acting>>

\* The step ends; what follows (a quote, a decision) may take any time.
EndStep(p) ==
  /\ acting[p]
  /\ acting' = [acting EXCEPT ![p] = FALSE]
  /\ UNCHANGED <<now, lockUntil, until>>

\* Mutant of Release: the update does not compare the value.
ReleaseBlindly(p) ==
  /\ until[p] # Null
  /\ lockUntil' = Null
  /\ until' = [until EXCEPT ![p] = Null]
  /\ acting' = [acting EXCEPT ![p] = FALSE]
  /\ UNCHANGED now

\* releasePlanLock, with the lease's value: a holder that was replaced frees nothing.
Release(p) ==
  /\ until[p] # Null
  /\ lockUntil' = IF Holds(p) THEN Null ELSE lockUntil
  /\ until' = [until EXCEPT ![p] = Null]
  /\ acting' = [acting EXCEPT ![p] = FALSE]
  /\ UNCHANGED now

\* The process dies: the column keeps its value until it lapses.
Crash(p) ==
  /\ until[p] # Null
  /\ until' = [until EXCEPT ![p] = Null]
  /\ acting' = [acting EXCEPT ![p] = FALSE]
  /\ UNCHANGED <<now, lockUntil>>

\* Time passes, except past the longest step of a process that is inside one:
\* the step began when the lease was written, TTL before it ends.
Tick ==
  /\ \A p \in Procs : acting[p] => now + TTL < until[p] + StepMax
  /\ now' = IF now < MaxTime THEN now + 1 ELSE now
  /\ UNCHANGED <<lockUntil, until, acting>>

Next ==
  \/ Tick
  \/ \E p \in Procs :
       \/ Acquire(p)
       \/ Hold(p)
       \/ Lost(p)
       \/ EndStep(p)
       \/ Release(p)
       \/ Crash(p)

Spec == Init /\ [][Next]_vars

-------------------------------------------------------------------------------
TypeOK ==
  /\ now \in Nat
  /\ lockUntil \in Time
  /\ until \in [Procs -> Time]
  /\ acting \in [Procs -> BOOLEAN]

\* Two processes are never both inside a step that needs the plan's lock, although
\* the lock may lapse, be taken over, be released late or be left by a dead process
\* between any two steps (plan-lock.ts:25-30).
NoTwoActing ==
  \A p, q \in Procs : acting[p] /\ acting[q] => p = q

\* Comparing the value identifies the holder: no two leases remember the value the
\* column holds, so a late renewal or release never acts on another holder's lock
\* ("Every other holder changes the value", plans.ts:156-157).
OneHolder ==
  \A p, q \in Procs : Holds(p) /\ Holds(q) => p = q

\* A lock is only ever lost after it lapsed: until then the column keeps the lease's
\* value, whoever else acquires, renews or releases meanwhile (plans.ts:138, 194-198).
KeptUntilLapsed ==
  \A p \in Procs : until[p] # Null /\ now <= until[p] => Holds(p)

\* The inductive invariant: what is above, and the bounds of every value written.
LeaseInv ==
  /\ TypeOK
  /\ OneHolder
  /\ KeptUntilLapsed
  /\ lockUntil # Null => lockUntil <= now + TTL
  /\ \A p \in Procs : until[p] # Null => until[p] <= now + TTL
  /\ \A p \in Procs : acting[p] => until[p] # Null /\ now <= until[p]

===============================================================================
