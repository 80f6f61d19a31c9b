-------------------------------- MODULE Cycle ---------------------------------
(***************************************************************************)
(* The cycles of one plan, live: runCycle and its recovery (cycle.ts),     *)
(* settleOutbox with the completion of awaiting cycles (settlement.ts,     *)
(* awaiting.ts), and the operator's close of a reviewed one (review.ts).   *)
(*                                                                         *)
(* A cycle reserves its spend, signs up to three transactions one after    *)
(* the other, writes each one's effect down with its receipt, and closes.  *)
(* The worker and the operator's scripts run this code on one database;    *)
(* each may die or fail at any await, its lock may lapse while it waits    *)
(* for quotes, and what it left is finished from the database and the      *)
(* chain: a cycle that signed nothing is closed and its reservation freed, *)
(* one that signed is finished once its transactions settled.              *)
(*                                                                         *)
(* Signing, broadcasting and reconciling one transaction is module Outbox; *)
(* here a transaction is what TxOutcome promises of it.                    *)
(***************************************************************************)
EXTENDS Integers, Sequences

CONSTANTS
  Procs,     \* processes that run this code
  Slots,     \* due times of the plan's cadence, numbered as the plan is given them
  Manual,    \* manual requests ("buy now", cycle:once), each due when it was made
  Kinds,     \* the transactions a cycle may need: "redeem", "approve", "swap"
  None,      \* null
  Once,      \* the cadence is `once`: the plan stops after its cycle
  Owner,     \* the plan's owner may stop it
  LateCatch  \* a call may fail in a cycle whose lock has lapsed already

ASSUME SlotsAssumption == Slots \subseteq Nat \ {0} /\ Manual \cap Nat = {}
ASSUME KindsAssumption == "swap" \in Kinds /\ Kinds \subseteq {"redeem", "approve", "swap"}
ASSUME NoneAssumption == None \notin Procs \cup Nat \cup Manual \cup Kinds

\* A cycle is keyed by (plan, due time): cycles_plan_due_uq.
Keys == Slots \cup Manual
Tx == Keys \X Kinds

VARIABLES
  plan,     \* the plan's row: status, whether held for review, next_due_at
  lock,     \* who wrote the value lock_until has
  live,     \* lock_until is in the future
  cycle,    \* cycles, by key
  spend,    \* the status of a cycle's row in spend_ledger
  receipt,  \* receipts: "recorded" without an effect, or "applied" with it
  verdict,  \* tx_outbox: what is told of a transaction (TxOutcome)
  fate,     \* where the transaction is (TxOutcome)
  empty,    \* swaps the chain mined without a token arriving
  proc      \* proc[p]: what process p is doing

vars == <<plan, lock, live, cycle, spend, receipt, verdict, fate, empty, proc>>
locks == <<lock, live>>
books == <<spend, receipt>>
outbox == <<verdict, fate, empty>>

Sent == INSTANCE TxOutcome

\* INTERRUPTED and CLOSED are the codes of the FAILED outcomes that a recovery and a review
\* write.
\* "QUOTE" is the FAILED of decideCycle, which bypasses failed and is told as "none" whatever
\* was sent (Buy.tla's FundsTold).
Outcomes == {"BOUGHT", "SKIPPED", "DEFERRED", "FAILED", "QUOTE", "INTERRUPTED", "CLOSED"}

\* A row of cycles.  `decided`: an EXECUTE step was recorded.  `waits`: the transaction of
\* the AWAITING step, unless an ANOMALY came after it.  `signed`: the kinds of its outbox
\* rows, oldest first.
Row == [state : {"none", "running", "awaiting", "done"}, decided : BOOLEAN,
        waits : Kinds \cup {None}, signed : Seq(Kinds),
        outcome : Outcomes \cup {"none"}, funds : {"none", "gas_only"}]

NoRow == [state |-> "none", decided |-> FALSE, waits |-> None, signed |-> <<>>,
          outcome |-> "none", funds |-> "none"]

\* Where a process is: in the body of a cycle (after openCycle, under its lease), elsewhere
\* under the plan's lock, or completing what awaits, without it.
Body == {"decide", "reserve", "reserving", "next", "sign", "record", "wait", "apply",
         "anomaly", "holding", "pausing", "finish", "closing", "freeing", "await", "awaiting",
         "parking"}
Locked == {"dead", "check", "open", "recover", "note", "reopen", "free", "advance", "close",
           "catch", "review", "spend", "closeReviewed", "reviewed"}
Completing == {"effects", "unspend", "conclude", "move"}
Places == Body \cup Locked \cup Completing \cup {"idle", "acquire", "release"}

\* What a process remembers between two awaits: its task (a scheduled or a manual run, the
\* settling of what others left, a review), the cycle and the transaction it works on,
\* whether it reserved and sent anything (reserved, txHashes), the outcome it will write,
\* and what it will write to the plan's schedule.
Proc == [pc : Places,
         task : {"none", "tick", "manual", "settle", "complete", "review"},
         key : Keys \cup Nat \cup {None}, kind : Kinds \cup {None},
         reserved : BOOLEAN, sent : BOOLEAN,
         outcome : Outcomes \cup {"none"}, funds : {"none", "gas_only"},
         move : Nat \cup {None}]

Idle == [pc |-> "idle", task |-> "none", key |-> None, kind |-> None, reserved |-> FALSE,
         sent |-> FALSE, outcome |-> "none", funds |-> "none", move |-> None]

Init ==
  /\ plan = [status |-> "active", review |-> FALSE, due |-> 1]
  /\ lock = None
  /\ live = FALSE
  /\ cycle = [c \in Keys |-> NoRow]
  /\ spend = [c \in Keys |-> "none"]
  /\ receipt = [t \in Tx |-> "none"]
  /\ Sent!Init
  /\ empty = {}
  /\ proc = [p \in Procs |-> Idle]

-------------------------------------------------------------------------------
(***************************************************************************)
(* Helpers.                                                                *)
(***************************************************************************)
At(p, pc) == proc[p].pc = pc
Goto(p, pc) == proc' = [proc EXCEPT ![p].pc = pc]
Key(p) == proc[p].key
SignedTx(c) == {<<c, cycle[c].signed[i]>> : i \in DOMAIN cycle[c].signed}
Latest(c) == cycle[c].signed[Len(cycle[c].signed)]
Running(c) == cycle[c].state = "running"

\* heldForReview: a person decides, not the chain.
Held(c) == cycle[c].state = "awaiting" /\ cycle[c].waits = None

\* nextDue, from the slot c: a deferred cycle waits for a time of its own; a `once` plan stops,
\* and has no next.
Never == 0
NextDue(c, outcome) == IF Once /\ outcome # "DEFERRED" THEN Never ELSE c + 1

\* The plan with what nextDue said.
Moved(move) ==
  CASE move = None -> plan
    [] move = Never -> [plan EXCEPT !.status = "stopped"]
    [] OTHER -> [plan EXCEPT !.due = move]

\* settleSpend, released: only a reservation is freed.
Released(c) == spend' = [spend EXCEPT ![c] = IF @ = "reserved" THEN "released" ELSE @]

\* withReceipt: the effect is written with the receipt, once.  A swap's is the spend.
Written(t, how) ==
  /\ receipt' = [receipt EXCEPT ![t] = IF @ = "none" THEN how ELSE @]
  /\ spend' = IF receipt[t] = "none" /\ how = "applied" /\ t[2] = "swap" /\ spend[t[1]] # "none"
              THEN [spend EXCEPT ![t[1]] = "spent"] ELSE spend

\* updateCycle with an outcome.
Closed(c, outcome, funds) ==
  cycle' = [cycle EXCEPT ![c] = [@ EXCEPT !.state = "done", !.outcome = outcome,
                                          !.funds = funds]]

-------------------------------------------------------------------------------
(***************************************************************************)
(* The plan lock (module PlanLock).                                        *)
(***************************************************************************)
\* Mutant of TakeLock: a lock that lapsed is not taken over.
TakeLockFree(p) ==
  /\ lock = None
  /\ lock' = p
  /\ live' = TRUE

\* acquirePlanLock: free, or lapsed.
TakeLock(p) ==
  /\ lock = None \/ ~live
  /\ lock' = p
  /\ live' = TRUE

\* planLease.hold before the step `next`: renewed, or LockLostError, and the process that
\* lost the lock writes nothing more.
Hold(p, next) ==
  IF lock = p THEN proc' = [proc EXCEPT ![p] = next] /\ live' = TRUE /\ UNCHANGED lock
  ELSE proc' = [proc EXCEPT ![p] = Idle] /\ UNCHANGED locks

\* releasePlanLock with the patch, which only the holder writes.
Release(p) ==
  /\ At(p, "release")
  /\ IF lock = p THEN plan' = Moved(proc[p].move) /\ lock' = None /\ live' = FALSE
     ELSE UNCHANGED <<plan, locks>>
  /\ proc' = [proc EXCEPT ![p] = Idle]
  /\ UNCHANGED <<cycle, books, outbox>>

\* The steps of a cycle that quotes and simulations may make longer than a lease, each before
\* a renewal; the database's steps and one receipt wait are shorter (PlanLock!StepAssumption).
Slow == {"decide", "reserve", "next", "sign", "await", "finish"}

\* Completing a cycle takes no lock: it may run on under one that the process left behind.
Unlocked(p) == At(p, "idle") \/ At(p, "acquire") \/ proc[p].task = "complete"

\* The lock's time passes.
Lapse ==
  /\ live
  /\ \A p \in Procs : lock = p => Unlocked(p) \/ proc[p].pc \in Slow
  /\ live' = FALSE
  /\ UNCHANGED <<plan, lock, cycle, books, outbox, proc>>

-------------------------------------------------------------------------------
(***************************************************************************)
(* runCycle, up to its cycle's row.                                        *)
(***************************************************************************)
\* The plan may run: its due time has come, whenever that is (bound: one of Slots).
Runs(task) ==
  \/ plan.status = "active" /\ (plan.due \in Slots \/ task = "manual")
  \/ plan.status = "paused" /\ task = "manual"

\* A scheduler's tick or a manual request, after settleOutbox left nothing pending.  Bound:
\* requests are made until each of Manual has its cycle.
Start(p, task) ==
  /\ At(p, "idle")
  /\ Runs(task)
  /\ task = "manual" => \E c \in Manual : cycle[c].state = "none"
  /\ \A t \in Tx : verdict[t] # "open"
  /\ proc' = [proc EXCEPT ![p] = [@ EXCEPT !.pc = "acquire", !.task = task]]
  /\ UNCHANGED <<plan, locks, cycle, books, outbox>>

Acquire(p) ==
  /\ At(p, "acquire")
  /\ IF lock # None /\ live THEN proc' = [proc EXCEPT ![p] = Idle] /\ UNCHANGED locks
     ELSE TakeLock(p) /\ Goto(p, "dead")
  /\ UNCHANGED <<plan, cycle, books, outbox>>

\* Under the lock, a cycle of the plan still running was left by a dead process.
FindDead(p) ==
  /\ At(p, "dead")
  /\ \/ \E c \in Keys :
          Running(c) /\ proc' = [proc EXCEPT ![p] = [@ EXCEPT !.pc = "recover", !.key = c]]
     \/ (\A c \in Keys : ~Running(c)) /\ Goto(p, "check")
  /\ UNCHANGED <<plan, locks, cycle, books, outbox>>

\* Mutant of Check: cycles out on chain are not looked for.
CheckPlanOnly(p) ==
  /\ At(p, "check")
  /\ proc' = [proc EXCEPT ![p] =
                [@ EXCEPT !.pc = IF Runs(proc[p].task) THEN "open" ELSE "release",
                          !.key = plan.due]]
  /\ UNCHANGED <<plan, locks, cycle, books, outbox>>

\* An earlier cycle still out on chain decides first; then the row read under the lock.
Check(p) ==
  /\ At(p, "check")
  /\ proc' = [proc EXCEPT ![p] =
                [@ EXCEPT !.pc = IF /\ \A c \in Keys : cycle[c].state # "awaiting"
                                    /\ Runs(proc[p].task)
                                 THEN "open" ELSE "release",
                          !.key = plan.due]]
  /\ UNCHANGED <<plan, locks, cycle, books, outbox>>

\* Mutant of OpenCycle: a cycle that is there already does not move the plan.
OpenCycleOnly(p) ==
  LET keys == IF proc[p].task = "manual" THEN Manual ELSE {Key(p)}
      new == {c \in keys : cycle[c].state = "none"} IN
  /\ At(p, "open")
  /\ IF new # {}
     THEN \E c \in new : /\ cycle' = [cycle EXCEPT ![c].state = "running"]
                         /\ proc' = [proc EXCEPT ![p] = [@ EXCEPT !.pc = "decide", !.key = c]]
     ELSE Goto(p, "release") /\ UNCHANGED cycle
  /\ UNCHANGED <<plan, locks, books, outbox>>

\* openCycle.  A manual request has a due time of its own (bound: those in Manual).  A
\* scheduled cycle that is there already moves the plan on from its outcome once it is done.
OpenCycle(p) ==
  LET keys == IF proc[p].task = "manual" THEN Manual ELSE {Key(p)}
      new == {c \in keys : cycle[c].state = "none"}
      over == proc[p].task = "tick" /\ cycle[Key(p)].state = "done" IN
  /\ At(p, "open")
  /\ IF new # {}
     THEN \E c \in new : /\ cycle' = [cycle EXCEPT ![c].state = "running"]
                         /\ proc' = [proc EXCEPT ![p] = [@ EXCEPT !.pc = "decide", !.key = c]]
     ELSE /\ proc' = [proc EXCEPT ![p] =
                        [@ EXCEPT !.pc = "release",
                                  !.move = IF over THEN NextDue(Key(p), cycle[Key(p)].outcome)
                                           ELSE None]]
          /\ UNCHANGED cycle
  /\ UNCHANGED <<plan, locks, books, outbox>>

-------------------------------------------------------------------------------
(***************************************************************************)
(* cycleBody: rounds of deciding, each ending in a transaction or the end. *)
(***************************************************************************)

\* The catch of cycleBody does not renew the lock: unless LateCatch, only a body whose lock
\* has not lapsed gets there.
InTime(p) == LateCatch \/ (lock = p /\ live)

\* The catch: the cycle is recovered, if it is still running, and the lock released.
ToCatch(p) ==
  proc' = [proc EXCEPT ![p] = [Idle EXCEPT !.pc = "catch", !.task = "settle", !.key = Key(p)]]

\* What failed says of the money: once something was sent, gas was spent at least.
ToFinish(p, outcome, funds) ==
  proc' = [proc EXCEPT ![p] =
             [@ EXCEPT !.pc = "finish", !.outcome = outcome,
                       !.funds = IF outcome = "FAILED" /\ proc[p].sent THEN "gas_only"
                                 ELSE funds]]

\* decideCycle, after quotes that may take longer than the lease: nothing to buy, not yet, a
\* failed check or simulation; or buy, which is recorded first.
Decide(p) ==
  /\ At(p, "decide")
  /\ \/ \E o \in {"SKIPPED", "DEFERRED", "QUOTE"} :
          ToFinish(p, o, "none") /\ UNCHANGED cycle
     \/ /\ cycle' = [cycle EXCEPT ![Key(p)].decided = TRUE]
        /\ Goto(p, IF proc[p].reserved THEN "next" ELSE "reserve")
  /\ UNCHANGED <<plan, locks, books, outbox>>

Reserve(p) ==
  /\ At(p, "reserve")
  /\ Hold(p, [proc[p] EXCEPT !.pc = "reserving"])
  /\ UNCHANGED <<plan, cycle, books, outbox>>

\* reserveSpend: the spend is reserved, unless a cap is reached.
ReserveSpend(p) ==
  /\ At(p, "reserving")
  /\ \/ /\ spend' = [spend EXCEPT ![Key(p)] = "reserved"]
        /\ proc' = [proc EXCEPT ![p] = [@ EXCEPT !.pc = "next", !.reserved = TRUE]]
     \/ ToFinish(p, "SKIPPED", "none") /\ UNCHANGED spend
  /\ UNCHANGED <<plan, locks, cycle, receipt, outbox>>

\* The next transaction of the buy, up to sendTransaction's first renewal; a failed check or
\* simulation of it.
NextTx(p) ==
  /\ At(p, "next")
  /\ \/ \E k \in {k \in Kinds : <<Key(p), k>> \notin SignedTx(Key(p))} :
          Hold(p, [proc[p] EXCEPT !.pc = "sign", !.kind = k])
     \/ ToFinish(p, "FAILED", "none") /\ UNCHANGED locks
  /\ UNCHANGED <<plan, cycle, books, outbox>>

\* Another round (MAX_ROUNDS of them are left to the fairness): the quote has aged.
Requote(p) ==
  /\ At(p, "next")
  /\ Goto(p, "decide")
  /\ UNCHANGED <<plan, locks, cycle, books, outbox>>

\* Mutant of SignTx: the lock is not renewed again after the signature.
SignTxBlindly(p) ==
  /\ At(p, "sign")
  /\ Goto(p, "record")
  /\ UNCHANGED <<plan, locks, cycle, books, outbox>>

\* OutboxBusyError, or the signature and the second renewal.
SignTx(p) ==
  /\ At(p, "sign")
  /\ IF \E t \in Tx : verdict[t] = "open" THEN InTime(p) /\ ToCatch(p) /\ UNCHANGED locks
     ELSE Hold(p, [proc[p] EXCEPT !.pc = "record"])
  /\ UNCHANGED <<plan, cycle, books, outbox>>

RecordSigned(p) ==
  /\ At(p, "record")
  /\ Sent!Sign(<<Key(p), proc[p].kind>>)
  /\ cycle' = [cycle EXCEPT ![Key(p)].signed = Append(@, proc[p].kind)]
  /\ Goto(p, "wait")
  /\ UNCHANGED <<plan, locks, books, empty>>

\* The send settles (mined, or refused everywhere), or is still pending.
WaitTx(p) ==
  LET t == <<Key(p), proc[p].kind>> IN
  /\ At(p, "wait")
  /\ \/ /\ Sent!Settle(t)
        /\ IF fate[t] = "success" THEN Goto(p, "apply") ELSE ToFinish(p, "FAILED", "gas_only")
     \/ Sent!Refuse(t) /\ ToFinish(p, "FAILED", "none")
     \/ Goto(p, "await") /\ UNCHANGED <<verdict, fate>>
  /\ UNCHANGED <<plan, locks, cycle, books, empty>>

\* The effect is written down the moment it is known: applyInterestRedeem, the approval's
\* receipt, applySwap; only the receipt of a swap that brought no tokens.
ApplyTx(p) ==
  LET t == <<Key(p), proc[p].kind>>
      next == [proc[p] EXCEPT !.sent = TRUE] IN
  /\ At(p, "apply")
  /\ Written(t, IF t \in empty THEN "recorded" ELSE "applied")
  /\ proc' = [proc EXCEPT ![p] =
                IF proc[p].kind # "swap" THEN [next EXCEPT !.pc = "decide"]
                ELSE IF t \in empty THEN [next EXCEPT !.pc = "anomaly"]
                ELSE [next EXCEPT !.pc = "finish", !.outcome = "BOUGHT"]]
  /\ UNCHANGED <<plan, locks, cycle, outbox>>

\* The anomaly: the ANOMALY step, the state, the plan, each a write of its own.
NoteAnomaly(p) ==
  /\ At(p, "anomaly")
  /\ cycle' = [cycle EXCEPT ![Key(p)].waits = None]
  /\ Goto(p, "holding")
  /\ UNCHANGED <<plan, locks, books, outbox>>

HoldCycle(p) ==
  /\ At(p, "holding")
  /\ cycle' = [cycle EXCEPT ![Key(p)].state = "awaiting"]
  /\ Goto(p, "pausing")
  /\ UNCHANGED <<plan, locks, books, outbox>>

\* updatePlan, whatever the plan's status is by now.
PausePlan(p) ==
  /\ At(p, "pausing")
  /\ plan' = [plan EXCEPT !.status = "paused", !.review = TRUE]
  /\ proc' = [proc EXCEPT ![p] = IF @.task = "complete" THEN Idle
                                 ELSE [@ EXCEPT !.pc = "release"]]
  /\ UNCHANGED <<locks, cycle, books, outbox>>

\* awaiting: the lock, the AWAITING step, the state.
Await(p) ==
  /\ At(p, "await")
  /\ Hold(p, [proc[p] EXCEPT !.pc = "awaiting"])
  /\ UNCHANGED <<plan, cycle, books, outbox>>

NoteAwaiting(p) ==
  /\ At(p, "awaiting")
  /\ cycle' = [cycle EXCEPT ![Key(p)].waits = proc[p].kind]
  /\ Goto(p, "parking")
  /\ UNCHANGED <<plan, locks, books, outbox>>

Park(p) ==
  /\ At(p, "parking")
  /\ cycle' = [cycle EXCEPT ![Key(p)].state = "awaiting"]
  /\ Goto(p, "release")
  /\ UNCHANGED <<plan, locks, books, outbox>>

\* Mutant of Finish: the lock is not renewed before the cycle is closed.
FinishBlindly(p) ==
  /\ At(p, "finish")
  /\ Goto(p, "closing")
  /\ UNCHANGED <<plan, locks, cycle, books, outbox>>

\* finish: the lock, the outcome, the reservation, the schedule (written with the release).
Finish(p) ==
  /\ At(p, "finish")
  /\ Hold(p, [proc[p] EXCEPT !.pc = "closing"])
  /\ UNCHANGED <<plan, cycle, books, outbox>>

CloseCycle(p) ==
  /\ At(p, "closing")
  /\ Closed(Key(p), proc[p].outcome, proc[p].funds)
  /\ Goto(p, "freeing")
  /\ UNCHANGED <<plan, locks, books, outbox>>

FreeSpend(p) ==
  /\ At(p, "freeing")
  /\ IF proc[p].reserved /\ proc[p].outcome # "BOUGHT" THEN Released(Key(p))
     ELSE UNCHANGED spend
  /\ proc' = [proc EXCEPT ![p] =
                [@ EXCEPT !.pc = "release",
                          !.move = IF proc[p].task = "tick" THEN NextDue(Key(p), proc[p].outcome)
                                   ELSE None]]
  /\ UNCHANGED <<plan, locks, cycle, receipt, outbox>>

-------------------------------------------------------------------------------
(***************************************************************************)
(* recoverInterrupted: under the lock, called by a run and by a settle;    *)
(* and by a cycle's own catch, which does not renew the lock first.        *)
(***************************************************************************)

\* recoverOrphanedCycles takes the plan's lock for each cycle it finds running.
FindOrphaned(p, c) ==
  /\ At(p, "idle")
  /\ Running(c)
  /\ TakeLock(p)
  /\ proc' = [proc EXCEPT ![p] = [Idle EXCEPT !.pc = "catch", !.task = "settle", !.key = c]]
  /\ UNCHANGED <<plan, cycle, books, outbox>>

\* Only a cycle that is running, read again, is recovered.
Recheck(p) ==
  /\ At(p, "catch")
  /\ Goto(p, IF Running(Key(p)) THEN "recover" ELSE "release")
  /\ UNCHANGED <<plan, locks, cycle, books, outbox>>

\* outboxOfCycle: did it sign anything?  (The decision is always there: SignsReserved.)
Recover(p) ==
  /\ At(p, "recover")
  /\ Goto(p, IF cycle[Key(p)].signed = <<>> THEN "free" ELSE "note")
  /\ UNCHANGED <<plan, locks, cycle, books, outbox>>

\* Back to the caller: a run looks for the next dead cycle, the others release.
Recovered(p) == Goto(p, IF proc[p].task = "settle" THEN "release" ELSE "dead")

\* It signed: it awaits its latest transaction.
NoteSigned(p) ==
  /\ At(p, "note")
  /\ cycle' = [cycle EXCEPT ![Key(p)].waits = Latest(Key(p))]
  /\ Goto(p, "reopen")
  /\ UNCHANGED <<plan, locks, books, outbox>>

Reopen(p) ==
  /\ At(p, "reopen")
  /\ cycle' = [cycle EXCEPT ![Key(p)].state = "awaiting"]
  /\ Recovered(p)
  /\ UNCHANGED <<plan, locks, books, outbox>>

\* It signed nothing: its reservation is freed, the plan moves on, it is closed.
FreeInterrupted(p) ==
  /\ At(p, "free")
  /\ Released(Key(p))
  /\ Goto(p, "advance")
  /\ UNCHANGED <<plan, locks, cycle, receipt, outbox>>

AdvanceInterrupted(p) ==
  /\ At(p, "advance")
  /\ plan' = Moved(IF plan.due = Key(p) THEN NextDue(Key(p), "FAILED") ELSE None)
  /\ Goto(p, "close")
  /\ UNCHANGED <<locks, cycle, books, outbox>>

CloseInterrupted(p) ==
  /\ At(p, "close")
  /\ Closed(Key(p), "INTERRUPTED", "none")
  /\ Recovered(p)
  /\ UNCHANGED <<plan, locks, books, outbox>>

-------------------------------------------------------------------------------
(***************************************************************************)
(* completeAwaitingCycles: at every settle, without the plan's lock.       *)
(* (applyOrphanTransactions finds nothing of a cycle: NothingLost.)        *)
(***************************************************************************)

\* Mutant of FindAwaiting: it is not looked whether its transactions settled.
FindAwaitingAny(p, c) ==
  /\ At(p, "idle")
  /\ cycle[c].state = "awaiting" /\ ~Held(c)
  /\ proc' = [proc EXCEPT ![p] = [Idle EXCEPT !.pc = "effects", !.task = "complete", !.key = c,
                                              !.kind = cycle[c].waits]]
  /\ UNCHANGED <<plan, locks, cycle, books, outbox>>

\* A cycle at awaiting_tx, not held, all of whose transactions have settled.
FindAwaiting(p, c) ==
  /\ At(p, "idle")
  /\ cycle[c].state = "awaiting" /\ ~Held(c)
  /\ \A t \in SignedTx(c) : verdict[t] # "open"
  /\ proc' = [proc EXCEPT ![p] = [Idle EXCEPT !.pc = "effects", !.task = "complete", !.key = c,
                                              !.kind = cycle[c].waits]]
  /\ UNCHANGED <<plan, locks, cycle, books, outbox>>

\* The confirmed transactions of the cycle whose effect is not written down yet.
Unwritten(c) == {t \in SignedTx(c) : verdict[t] = "success" /\ receipt[t] = "none"}

ApplyConfirmed(p) ==
  /\ At(p, "effects")
  /\ \E t \in Unwritten(Key(p)) : Written(t, "applied")
  /\ UNCHANGED <<plan, locks, cycle, outbox, proc>>

\* The outcome follows from the transaction it waited for; a swap that brought no tokens
\* gets an ANOMALY step instead.
Conclude(p) ==
  LET t == <<Key(p), proc[p].kind>>
      bought == verdict[t] = "success" /\ proc[p].kind = "swap"
      mined == verdict[t] \in Sent!Mined \/ \E u \in SignedTx(Key(p)) : verdict[u] = "success"
      move == IF plan.due = Key(p) THEN NextDue(Key(p), "FAILED") ELSE None IN
  /\ At(p, "effects")
  /\ Unwritten(Key(p)) = {}
  /\ IF bought /\ t \in empty
     THEN cycle' = [cycle EXCEPT ![Key(p)].waits = None] /\ Goto(p, "pausing")
     ELSE /\ proc' = [proc EXCEPT ![p] =
                        [@ EXCEPT !.pc = IF bought THEN "conclude" ELSE "unspend",
                                  !.outcome = IF bought THEN "BOUGHT" ELSE "FAILED",
                                  !.funds = IF mined /\ ~bought THEN "gas_only" ELSE "none",
                                  !.move = move]]
          /\ UNCHANGED cycle
  /\ UNCHANGED <<plan, locks, books, outbox>>

FreeAwaiting(p) ==
  /\ At(p, "unspend")
  /\ Released(Key(p))
  /\ Goto(p, "conclude")
  /\ UNCHANGED <<plan, locks, cycle, receipt, outbox>>

CloseAwaiting(p) ==
  /\ At(p, "conclude")
  /\ Closed(Key(p), proc[p].outcome, proc[p].funds)
  /\ Goto(p, "move")
  /\ UNCHANGED <<plan, locks, books, outbox>>

MovePlan(p) ==
  /\ At(p, "move")
  /\ plan' = Moved(proc[p].move)
  /\ proc' = [proc EXCEPT ![p] = Idle]
  /\ UNCHANGED <<locks, cycle, books, outbox>>

-------------------------------------------------------------------------------
(***************************************************************************)
(* closeReviewedCycle: the operator closes a cycle held for review.        *)
(***************************************************************************)
Review(p, c) ==
  /\ At(p, "idle")
  /\ Held(c)
  /\ TakeLock(p)
  /\ proc' = [proc EXCEPT ![p] = [Idle EXCEPT !.pc = "review", !.task = "review", !.key = c]]
  /\ UNCHANGED <<plan, cycle, books, outbox>>

\* Refused while one of its transactions is unsettled.
Reviewed(p) ==
  /\ At(p, "review")
  /\ Goto(p, IF Held(Key(p)) /\ \A t \in SignedTx(Key(p)) : verdict[t] # "open"
             THEN "spend" ELSE "release")
  /\ UNCHANGED <<plan, locks, cycle, books, outbox>>

\* A close never gives a day's caps back.
SpendReviewed(p) ==
  /\ At(p, "spend")
  /\ spend' = [spend EXCEPT ![Key(p)] = IF @ = "none" THEN @ ELSE "spent"]
  /\ Goto(p, "closeReviewed")
  /\ UNCHANGED <<plan, locks, cycle, receipt, outbox>>

CloseReviewed(p) ==
  /\ At(p, "closeReviewed")
  /\ Closed(Key(p), "CLOSED", IF \E t \in SignedTx(Key(p)) : verdict[t] = "success"
                              THEN "gas_only" ELSE "none")
  /\ Goto(p, "reviewed")
  /\ UNCHANGED <<plan, locks, books, outbox>>

\* The plan stays paused, now by the operator.
UnholdPlan(p) ==
  /\ At(p, "reviewed")
  /\ plan' = IF plan.status = "paused" THEN [plan EXCEPT !.review = FALSE] ELSE plan
  /\ Goto(p, "release")
  /\ UNCHANGED <<locks, cycle, books, outbox>>

-------------------------------------------------------------------------------
(***************************************************************************)
(* Failures, and what others do.                                           *)
(***************************************************************************)
\* Between openCycle and the body's try (the caps, the market data): nothing is caught.
Reading(p) == At(p, "decide") /\ ~cycle[Key(p)].decided

\* A call fails: a cycle's body catches and recovers, what else holds the lock releases it.
\* A completion gives up till the next tick, also when the node has no receipt to show yet.
Throw(p) ==
  /\ \/ proc[p].pc \in Body /\ proc[p].task # "complete" /\ InTime(p) /\ ToCatch(p)
     \/ /\ (proc[p].pc \in Locked /\ proc[p].task # "complete") \/ Reading(p)
        /\ proc' = [proc EXCEPT ![p] = [Idle EXCEPT !.pc = "release"]]
     \/ proc[p].task = "complete" /\ proc' = [proc EXCEPT ![p] = Idle]
  /\ UNCHANGED <<plan, locks, cycle, books, outbox>>

\* A process dies; its lock stays until it lapses.
Crash(p) ==
  /\ ~At(p, "idle")
  /\ proc' = [proc EXCEPT ![p] = Idle]
  /\ UNCHANGED <<plan, locks, cycle, books, outbox>>

\* reconcileOutbox settles what no lock's holder is sending (module Outbox).
Reconcile(t) ==
  /\ ~live
  /\ Sent!Settle(t)
  /\ UNCHANGED <<plan, locks, cycle, books, empty, proc>>

\* The bytes leave, by the sender or by a reconcile.
Leave(t) ==
  /\ Sent!Leave(t)
  /\ UNCHANGED <<plan, locks, cycle, books, empty, proc>>

\* The chain mines them; a swap may bring no tokens.
Mine(t) ==
  /\ Sent!Mine(t)
  /\ empty' \in {empty} \cup (IF t[2] = "swap" /\ fate'[t] = "success"
                              THEN {empty \cup {t}} ELSE {})
  /\ UNCHANGED <<plan, locks, cycle, books, verdict, proc>>

\* The owner's stop job: the status is written first, without the lock (guardian.ts).
Stop ==
  /\ Owner
  /\ plan.status # "stopped"
  /\ plan' = [plan EXCEPT !.status = "stopped", !.review = FALSE]
  /\ UNCHANGED <<locks, cycle, books, outbox, proc>>

-------------------------------------------------------------------------------
Run(p) ==
  \/ Acquire(p) \/ FindDead(p) \/ Check(p) \/ OpenCycle(p)
  \/ Decide(p) \/ Reserve(p) \/ ReserveSpend(p) \/ NextTx(p) \/ Requote(p)
  \/ SignTx(p) \/ RecordSigned(p) \/ WaitTx(p) \/ ApplyTx(p)
  \/ NoteAnomaly(p) \/ HoldCycle(p) \/ PausePlan(p)
  \/ Await(p) \/ NoteAwaiting(p) \/ Park(p)
  \/ Finish(p) \/ CloseCycle(p) \/ FreeSpend(p) \/ Release(p)

Settle(p) ==
  \/ Recheck(p) \/ Recover(p) \/ NoteSigned(p) \/ Reopen(p)
  \/ FreeInterrupted(p) \/ AdvanceInterrupted(p) \/ CloseInterrupted(p)
  \/ ApplyConfirmed(p) \/ Conclude(p) \/ FreeAwaiting(p) \/ CloseAwaiting(p) \/ MovePlan(p)

Close(p) == Reviewed(p) \/ SpendReviewed(p) \/ CloseReviewed(p) \/ UnholdPlan(p)

Next ==
  \/ \E p \in Procs :
       \/ \E task \in {"tick", "manual"} : Start(p, task)
       \/ \E c \in Keys : FindOrphaned(p, c) \/ FindAwaiting(p, c) \/ Review(p, c)
       \/ Run(p)
       \/ Settle(p)
       \/ Close(p)
       \/ Throw(p)
       \/ Crash(p)
  \/ \E t \in Tx : Reconcile(t) \/ Leave(t) \/ Mine(t)
  \/ Lapse
  \/ Stop

Spec == Init /\ [][Next]_vars

\* The scheduler settles, and starts the plan when it is due, at every tick
\* (scheduler.ts:208), a worker that died is started again, and processes do not fail for
\* ever.  A cycle has MAX_ROUNDS rounds.  A plan's lock lapses.  A transaction settles
\* (Outbox!Settles), here one that no human has to decide: its bytes leave and are mined.
Fairness ==
  /\ <>[][\A p \in Procs : Crash(p) \/ Throw(p) => Run(p) \/ Settle(p) \/ Close(p)]_vars
  /\ <>[][\A p \in Procs : ~Requote(p)]_vars
  /\ \A p \in Procs :
       /\ WF_vars(Run(p) \/ Settle(p) \/ Close(p)) /\ SF_vars(Start(p, "tick"))
       /\ \A c \in Keys : SF_vars(FindOrphaned(p, c) \/ FindAwaiting(p, c))
  /\ \A t \in Tx : WF_vars(Leave(t) \/ Mine(t)) /\ SF_vars(Reconcile(t))
  /\ WF_vars(Lapse)

FairSpec == Spec /\ Fairness

-------------------------------------------------------------------------------
TypeOK ==
  /\ plan \in [status : {"active", "paused", "stopped"}, review : BOOLEAN, due : Nat]
  /\ lock \in Procs \cup {None}
  /\ live \in BOOLEAN
  /\ cycle \in [Keys -> Row]
  /\ spend \in [Keys -> {"none", "reserved", "spent", "released"}]
  /\ receipt \in [Tx -> {"none", "recorded", "applied"}]
  /\ verdict \in [Tx -> {"none", "open", "notSent"} \cup Sent!Mined]
  /\ fate \in [Tx -> {"kept", "out"} \cup Sent!Mined]
  /\ empty \subseteq Tx
  /\ proc \in [Procs -> Proc]

\* A plan never has two cycles out at once: until one is closed, also one that crashed or is
\* held for a person, no other is opened, by the worker or by a script ("An earlier cycle
\* still out on chain decides first", cycle.ts:229).
OneOut ==
  \A c, d \in Keys :
    cycle[c].state \in {"running", "awaiting"} /\ cycle[d].state \in {"running", "awaiting"}
    => c = d

\* A swap that went through, or still can, counts against the caps: its spend is reserved
\* or spent, never freed, whoever recovers or completes the cycle (plan-lock.ts:25-30).
SwapCounted ==
  \A c \in Keys :
    verdict[<<c, "swap">>] \in {"open", "success"} => spend[c] \in {"reserved", "spent"}

\* A closed cycle has nothing left to write down: its transactions have settled and the
\* effect of each confirmed one is on record ("a later failure cannot lose it",
\* cycle.ts:638), whoever closed it.
NothingLost ==
  \A c \in Keys : cycle[c].state = "done" =>
    \A t \in SignedTx(c) :
      verdict[t] # "open" /\ (verdict[t] = "success" => receipt[t] # "none")

\* What a closed cycle tells is what the chain did: BOUGHT is a mined swap whose tokens came
\* and whose spend is on the ledger, INTERRUPTED signed nothing, "no funds moved" is a cycle
\* that failed in a step (failed, cycle.ts:464) and of which nothing was mined, and only a person closes a swap without tokens.
OutcomeTrue ==
  \A c \in Keys : cycle[c].state = "done" =>
    LET swap == <<c, "swap">> IN
    /\ cycle[c].outcome = "BOUGHT" =>
         verdict[swap] = "success" /\ swap \notin empty /\ spend[c] = "spent"
    /\ cycle[c].outcome = "INTERRUPTED" => cycle[c].signed = <<>>
    /\ cycle[c].outcome = "FAILED" /\ cycle[c].funds = "none" =>
         \A t \in SignedTx(c) : fate[t] = "kept"
    /\ verdict[swap] = "success" => cycle[c].outcome \in {"BOUGHT", "CLOSED"}

\* The money of a cycle: counted while it may move, written down before it is closed, and told
\* as it was.
MoneyTrue == SwapCounted /\ NothingLost /\ OutcomeTrue

\* A transaction is signed only for a cycle that is running, decided and has its spend
\* reserved: never for one that somebody closed or recovered in the meantime
\* (plan-lock.ts:27-30).
SignsReserved ==
  [][\A c \in Keys : cycle'[c].signed # cycle[c].signed =>
       Running(c) /\ cycle[c].decided /\ spend[c] = "reserved"]_vars

\* A cycle held for review stays so until a person closes it (review.ts:2-6,
\* awaiting.ts:66-70).
HeldForPerson ==
  [][\A c \in Keys : Held(c) => Held(c)' \/ cycle'[c].outcome = "CLOSED"]_vars

\* A cycle closed by one process is not opened again by another ("this one must not write or
\* sign again", plan-lock.ts:10).
ClosedStays ==
  [][\A c \in Keys : cycle[c].state = "done" =>
       cycle'[c].state = "done" /\ cycle'[c].outcome = cycle[c].outcome]_vars

\* What is closed stays closed, and what is held waits for its person.
LeftAlone == ClosedStays /\ HeldForPerson

\* A cycle that did not buy gives its reservation back once nobody works on it any more
\* ("confirmation marks it spent, failure releases it", schema.ts:314).
FailureReleases ==
  \A c \in Keys :
    /\ cycle[c].state = "done"
    /\ cycle[c].outcome \in {"SKIPPED", "DEFERRED", "FAILED", "QUOTE"}
    /\ \A p \in Procs : Key(p) # c
    => spend[c] # "reserved"

\* Every cycle that was opened is closed, or held for a person, whatever died or failed.
Closes ==
  \A c \in Keys : Running(c) ~> (cycle[c].state = "done" \/ Held(c))

\* A plan that is due does not stay so: its slot is decided, deferred or given up, whatever
\* died or failed, and also when the process died before the plan moved on ("rather than stay
\* due on it forever", cycle.ts:342); only a cycle held for a person keeps it.
MovesOn ==
  \A s \in Slots :
    (plan.status = "active" /\ plan.due = s)
      ~> (plan.status # "active" \/ plan.due # s \/ \E c \in Keys : Held(c))

\* A cycle held for a person pauses its plan (review.ts:2-4), once nobody works on it.
HeldPauses ==
  \A c \in Keys :
    Held(c) /\ (\A p \in Procs : Key(p) # c) => plan.status # "active"

===============================================================================
