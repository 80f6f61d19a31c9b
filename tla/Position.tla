------------------------------- MODULE Position -------------------------------
(***************************************************************************)
(* One yield plan of the house wallet: its principal in Venus, and every   *)
(* writer of its status.                                                   *)
(*                                                                         *)
(* Two processes run this code on one database: the worker, whose tasks    *)
(* never overlap (main.ts `ticking`), and the operator's scripts, one at a *)
(* time.  The worker settles the outbox, ticks the guardian, takes the     *)
(* web's jobs (a judge's first run, a stop) and runs due cycles; the       *)
(* operator deposits, redeems, records, activates, pauses, closes a review *)
(* and runs a cycle.  Either may die.                                      *)
(*                                                                         *)
(* A transaction keeps the promise of TxOutcome; here it is what it would  *)
(* do to the plan.  The wallet's Venus position is shared by its plans:    *)
(* nothing on chain stops one plan from burning another's vTokens.         *)
(***************************************************************************)
EXTENDS Integers, Sequences

CONSTANTS Kinds,      \* plans: their owner ("judge", "house"), their cadence ("weekly", "once"),
                      \* and two bounds: the transactions signed, how often a process dies
          Minted,     \* vTokens one deposit mints
          MaxPrincipal   \* caps.maxPrincipalUsd, in deposits

ASSUME KindsAssumption ==
    Kinds \subseteq [owner : {"judge", "house"}, cadence : {"weekly", "once"}, txs : Nat, deaths : Nat]
ASSUME MintedAssumption == Minted \in Nat /\ Minted > 2
\* parseConfig refuses a cap of nothing.
ASSUME MaxPrincipalAssumption == MaxPrincipal \in Nat \ {0}

VARIABLES kind,
          plan,      \* its row: status, reason, principal, vt
          cycle,     \* its last cycle: none, running, awaiting, held (for review)
          lock,      \* who holds its lock
          expired,   \* expires_at has passed
          txs,       \* what was signed for it, in order
          own,       \* the plan's own vTokens on chain: what its deposits minted less what its
                     \* redeems burned
          proc,      \* what each process is doing
          deaths

vars == <<kind, plan, cycle, lock, expired, txs, own, proc, deaths>>
fixed == <<kind, own, expired, deaths>>

Procs == {"worker", "operator"}
Free == "free"
\* The reasons the code compares, and "over" for a stop by the owner or by expiry; "other" is
\* any other, a redeem that was held among them.
Reasons == {"awaiting_run", "needs_review", "over", "other"}

\* What the process runs; what it read of the plan; the status it is to write; what it is
\* to sign, and which transaction it signed.
Idle == [pc |-> "idle", task |-> "none", vt |-> 0, waiting |-> FALSE,
         want |-> [status |-> "none", reason |-> "other"], sign |-> "none", units |-> 0, tx |-> 0]

Init ==
    /\ kind \in Kinds
    /\ plan = [status |-> "paused", principal |-> 0, vt |-> 0,
               reason |-> IF kind.owner = "judge" THEN "awaiting_run" ELSE "other"]
    /\ cycle = "none" /\ lock = Free /\ expired = FALSE
    /\ txs = <<>> /\ own = 0 /\ deaths = 0
    /\ proc = [p \in Procs |-> Idle]

-----------------------------------------------------------------------------
(* Transactions                                                            *)

\* status of the row in tx_outbox, how the chain mined it, whether its receipt is recorded.
Signed(what, units, inCycle) == [what |-> what, units |-> units, inCycle |-> inCycle,
    status |-> "open", mined |-> "no", receipt |-> FALSE]
Open == {i \in DOMAIN txs : txs[i].status = "open"}
\* unfinishedTransactions
Unfinished == Open \cup {i \in DOMAIN txs : txs[i].status = "CONFIRMED" /\ ~txs[i].receipt}
\* Mutant of InFlight: a mined transaction counts as finished.
OutOnChain == Open # {}
\* positionInFlight (an approval, which moves no principal, is none of txs).
InFlight == Unfinished # {}

\* What transaction i moves when it is mined: a deposit mints, a redeem burns.
Moved(i) == IF txs[i].what = "deposit" THEN txs[i].units ELSE 0 - txs[i].units

Less(a, b) == IF a > b THEN a - b ELSE 0
\* The plan's money once transaction i is booked (applyDeposit, applyPositionRedeem,
\* applyInterestRedeem).
Booked(row, i) ==
    LET tx == txs[i]
    IN CASE tx.what = "deposit" -> [row EXCEPT !.principal = @ + 1, !.vt = @ + tx.units]
         [] tx.what = "redeem" /\ tx.inCycle -> [row EXCEPT !.vt = Less(@, tx.units)]
         [] tx.what = "redeem" /\ ~tx.inCycle ->
              [row EXCEPT !.principal = 0, !.vt = Less(@, tx.units)]
\* A whole-position redeem pauses a plan left active (the yield-principal CHECK).
Settled(row, i) ==
    IF txs[i].what = "redeem" /\ ~txs[i].inCycle /\ row.status = "active"
    THEN [Booked(row, i) EXCEPT !.status = "paused", !.reason = "other"] ELSE Booked(row, i)

\* Mutant of Apply: the receipt's unique hash is not looked at.
ApplyAgain(i, row) ==
    plan' = row /\ txs' = [txs EXCEPT ![i].receipt = TRUE]
\* withReceipt: one database transaction; a receipt already there changes nothing.
Apply(i, row) ==
    IF txs[i].receipt THEN UNCHANGED <<plan, txs>>
    ELSE plan' = row /\ txs' = [txs EXCEPT ![i].receipt = TRUE]

\* The chain mines what is out.
Mine(i) ==
    /\ txs[i].status = "open" /\ txs[i].mined = "no"
    /\ \/ txs' = [txs EXCEPT ![i].mined = "success"] /\ own' = own + Moved(i)
       \/ txs' = [txs EXCEPT ![i].mined = "reverted"] /\ UNCHANGED own
    /\ UNCHANGED <<kind, expired, deaths, plan, cycle, lock, proc>>

-----------------------------------------------------------------------------
(* Steps of a process                                                      *)

At(p, pc) == proc[p].pc = pc
Goto(p, pc) == proc' = [proc EXCEPT ![p].pc = pc]
End(p) == proc' = [proc EXCEPT ![p] = Idle]
Begin(p, task, pc) == proc' = [proc EXCEPT ![p] = [Idle EXCEPT !.pc = pc, !.task = task]]
\* redeemPlanPosition is called with the row as the caller read it.
Redeeming(p, task, status, reason) ==
    proc' = [proc EXCEPT ![p] = [Idle EXCEPT !.pc = "mark", !.task = task, !.vt = plan.vt,
                                             !.want = [status |-> status, reason |-> reason]]]
Kept == IF plan.status = "stopped" THEN "stopped" ELSE "paused"
Manual(p) == proc[p].task \in {"run", "once"}
\* The task returns: through the lock's release when this process holds it.
Leave(p) ==
    IF lock = p THEN proc' = [proc EXCEPT ![p] = [Idle EXCEPT !.pc = "release", !.task = proc[p].task]]
    ELSE End(p)

\* updatePlan writes whatever the row says by now; updatePlanIf compares first.
Wrote(status, reason) == plan' = [plan EXCEPT !.status = status, !.reason = reason]
WroteIf(status, reason, newStatus, newReason) ==
    IF plan.status = status /\ plan.reason = reason THEN Wrote(newStatus, newReason)
    ELSE UNCHANGED plan

Acquire(p, pc) ==
    IF lock = Free THEN lock' = p /\ Goto(p, pc) ELSE End(p) /\ UNCHANGED lock

-----------------------------------------------------------------------------
(* settleOutbox                                                            *)

Reconcile(p, i) ==
    /\ At(p, "settle") /\ txs[i].status = "open" /\ txs[i].mined # "no"
    /\ txs' = [txs EXCEPT ![i].status = IF @ = "open" /\ txs[i].mined = "success"
                                        THEN "CONFIRMED" ELSE "FAILED"]
    /\ UNCHANGED <<fixed, plan, cycle, lock, proc>>

\* completeAwaitingCycles: what the cycle sent is settled; its redeem is booked.  When
\* the last thing it sent was a swap whose tokens never came, a person must look.
Complete(p) ==
    /\ At(p, "settle") /\ cycle = "awaiting"
    /\ ~\E i \in Open : txs[i].inCycle
    /\ LET due == {i \in Unfinished : txs[i].inCycle}
       IN IF due # {} THEN /\ \E i \in due : Apply(i, Booked(plan, i))
                           /\ cycle' = "none"
          ELSE \/ cycle' = "none" /\ UNCHANGED <<plan, txs>>
               \/ cycle' = "held" /\ Wrote("paused", "needs_review") /\ UNCHANGED txs
    /\ UNCHANGED <<fixed, lock, proc>>

\* applyOrphanTransactions; a judge's deposit that settled late starts its plan next.
Orphan(p, i) ==
    /\ At(p, "settle") /\ i \in Unfinished \ Open
    /\ txs[i].inCycle => cycle = "none"
    /\ Apply(i, Settled(plan, i))
    /\ IF kind.owner = "judge" /\ txs[i].what = "deposit" THEN Goto(p, "late") ELSE UNCHANGED proc
    /\ UNCHANGED <<fixed, cycle, lock>>

LateStart(p) ==
    /\ At(p, "late")
    /\ WroteIf("paused", "awaiting_run", "active", "other")
    /\ Goto(p, "settle")
    /\ UNCHANGED <<fixed, cycle, lock, txs>>

\* What the process settled for.  A process that goes on to sign knows the Venus market:
\* if it found nothing out, it has booked what was mined outside a cycle.  A deposit job
\* minds the rest as well.
SettleDone(p) ==
    /\ At(p, "settle")
    /\ proc[p].task # "settle" /\ Open = {} => \A i \in Unfinished : txs[i].inCycle
    /\ UNCHANGED <<fixed, plan, cycle, txs>>
    /\ CASE proc[p].task = "settle" -> End(p) /\ UNCHANGED lock
         [] proc[p].task = "start" ->
              /\ IF Unfinished # {} \/ plan.principal > 0 THEN End(p) ELSE Goto(p, "allow")
              /\ UNCHANGED lock
         [] proc[p].task \in {"tick", "run", "once"} ->
              IF Open # {} THEN End(p) /\ UNCHANGED lock ELSE Acquire(p, "body")
         [] proc[p].task \in {"deposit", "redeem"} ->
              IF Open # {} THEN End(p) /\ UNCHANGED lock ELSE Acquire(p, "again")

-----------------------------------------------------------------------------
(* redeemPlanPosition                                                      *)

\* The plan's status changes first, whatever happens to the redeem.
Mark(p) ==
    /\ At(p, "mark")
    /\ Wrote(proc[p].want.status, proc[p].want.reason)
    /\ Goto(p, "look")
    /\ UNCHANGED <<fixed, cycle, lock, txs>>

\* Nothing to redeem; or this process does not sign; or on to the lock.
Look(p) ==
    /\ At(p, "look")
    /\ UNCHANGED <<fixed, plan, cycle, lock, txs>>
    /\ IF proc[p].vt <= 1 /\ ~InFlight THEN Leave(p)
       ELSE \/ p = "worker" /\ Goto(p, "held")
            \/ Goto(p, "lock")

Lock(p) ==
    /\ At(p, "lock")
    /\ UNCHANGED <<fixed, plan, cycle, txs>>
    /\ IF lock \in {Free, p} THEN lock' = p /\ Goto(p, "fresh") ELSE Goto(p, "held") /\ UNCHANGED lock

\* Under the lock: nothing unfinished, and the vTokens read again.
Fresh(p) ==
    /\ At(p, "fresh")
    /\ UNCHANGED <<fixed, plan, cycle, lock, txs>>
    /\ IF InFlight THEN Goto(p, "held")
       ELSE IF plan.vt <= 1 THEN Leave(p)
       ELSE proc' = [proc EXCEPT ![p].pc = "build", ![p].vt = 0, ![p].units = plan.vt]

\* wholePositionUsd asks for all vTokens but one; the API's rounding may take that one
\* too.  The build or its simulation may be refused.
Build(p) ==
    /\ At(p, "build")
    /\ UNCHANGED <<fixed, plan, cycle, lock, txs>>
    /\ \/ Goto(p, "held")
       \/ \E dust \in {0, 1} :
            proc' = [proc EXCEPT ![p].pc = "check", ![p].sign = "redeem", ![p].units = @ - dust]

\* held: the plan's reason says so, and the alert goes out.
Hold(p) ==
    /\ At(p, "held")
    /\ plan' = [plan EXCEPT !.reason = "other"]
    /\ Leave(p)
    /\ UNCHANGED <<fixed, cycle, lock, txs>>

Release(p) ==
    /\ At(p, "release")
    /\ lock' = Free
    \* A once plan's cycle is over: its patch rides on the release.
    /\ IF proc[p].want.status = "stopped" /\ proc[p].task = "tick"
       THEN plan' = [plan EXCEPT !.status = "stopped"] ELSE UNCHANGED plan
    /\ IF proc[p].task = "run" /\ proc[p].want.status = "active" THEN Goto(p, "started") ELSE End(p)
    /\ UNCHANGED <<fixed, cycle, txs>>

-----------------------------------------------------------------------------
(* sendTransaction, for this plan                                          *)

InCycle(p) == proc[p].task \in {"tick", "run", "once"}
Redeems(p) == proc[p].task \in {"stop", "guardian", "expiry", "redeem"}
GiveUp(p) ==
    IF Redeems(p) THEN proc' = [proc EXCEPT ![p] = [Idle EXCEPT !.pc = "held", !.task = proc[p].task]]
    ELSE Leave(p)
\* A cycle ran: it is over (finish), or its transaction is awaited.
Ran(p, over) ==
    proc' = [proc EXCEPT ![p] =
        [Idle EXCEPT !.pc = "release", !.task = proc[p].task, !.waiting = proc[p].waiting,
            !.want.status = IF over /\ proc[p].task = "tick" /\ kind.cadence = "once"
                            THEN "stopped" ELSE "active"]]

\* OutboxBusyError while anything of the wallet is out: a cycle is left running.
Check(p) ==
    /\ At(p, "check")
    /\ IF Open = {} THEN Goto(p, "sign") ELSE GiveUp(p)
    /\ UNCHANGED <<fixed, plan, cycle, lock, txs>>

Sign(p) ==
    /\ At(p, "sign") /\ Len(txs) < kind.txs
    /\ txs' = Append(txs, Signed(proc[p].sign, proc[p].units, InCycle(p)))
    /\ proc' = [proc EXCEPT ![p].pc = "wait", ![p].tx = Len(txs) + 1, ![p].units = 0, ![p].sign = "none"]
    /\ UNCHANGED <<fixed, plan, cycle, lock>>

Tx(p) == txs[proc[p].tx]
Row(p, status) == txs' = [txs EXCEPT ![proc[p].tx].status = status]

\* The receipt is in: the effect is written next.
Confirmed(p) ==
    /\ At(p, "wait") /\ Tx(p).mined = "success"
    /\ Row(p, "CONFIRMED") /\ Goto(p, "apply")
    /\ UNCHANGED <<fixed, plan, cycle, lock>>

\* Reverted, or refused on every way out: a cycle or a deposit ends, a redeem is held.
Failed(p) ==
    /\ At(p, "wait")
    /\ Tx(p).mined # "success" /\ (Tx(p).mined = "reverted" \/ Tx(p).status = "open")
    /\ Row(p, "FAILED")
    /\ IF InCycle(p) THEN cycle' = "none" /\ Ran(p, TRUE) ELSE GiveUp(p) /\ UNCHANGED cycle
    /\ UNCHANGED <<fixed, plan, lock>>

\* Not mined in time: it stays out, and the next settle books it.
Pending(p) ==
    /\ At(p, "wait") /\ Tx(p).mined = "no" /\ Tx(p).status = "open"
    /\ IF InCycle(p) THEN cycle' = "awaiting" /\ Ran(p, FALSE) ELSE GiveUp(p) /\ UNCHANGED cycle
    /\ UNCHANGED <<fixed, plan, lock, txs>>

Effect(p) ==
    /\ At(p, "apply")
    /\ UNCHANGED <<fixed, cycle, lock>>
    /\ LET i == proc[p].tx
       IN CASE Tx(p).what = "deposit" ->
                 /\ Apply(i, Booked(plan, i))
                 /\ IF proc[p].task = "start" THEN Goto(p, "start") ELSE Leave(p)
            [] Tx(p).what = "redeem" /\ Tx(p).inCycle ->
                 Apply(i, Booked(plan, i)) /\ Goto(p, "buy")
            [] Tx(p).what = "redeem" /\ ~Tx(p).inCycle ->
                 /\ Apply(i, [Booked(plan, i) EXCEPT !.status = proc[p].want.status,
                                                     !.reason = proc[p].want.reason])
                 /\ Leave(p)

-----------------------------------------------------------------------------
(* Deposits: a judge's first run (startYieldPlan, under no lock) and the   *)
(* operator's yield:deposit                                                *)

\* The run job reads the plan: held by a person or the guardian, it never buys.
RunJob ==
    /\ At("worker", "idle") /\ kind.owner = "judge"
    /\ plan.status # "stopped" /\ (plan.status = "paused" => plan.reason = "awaiting_run")
    /\ IF plan.principal = 0 THEN Begin("worker", "start", "settle")
       ELSE proc' = [proc EXCEPT !["worker"] = [Idle EXCEPT !.pc = "cycle", !.task = "run",
                                                !.waiting = plan.status = "paused"]]
    /\ UNCHANGED <<fixed, plan, cycle, lock, txs>>

DepositScript ==
    /\ At("operator", "idle") /\ kind.owner = "house"
    /\ plan.principal < MaxPrincipal
    /\ Begin("operator", "deposit", "settle")
    /\ UNCHANGED <<fixed, plan, cycle, lock, txs>>

\* Under the lock the script reads the plan again (yield:deposit, yield:redeem).
Again ==
    /\ At("operator", "again")
    /\ IF proc["operator"].task = "deposit"
       THEN IF plan.principal >= MaxPrincipal THEN Leave("operator")
            ELSE Goto("operator", "allow")
       ELSE IF plan.vt <= 1 THEN Leave("operator")
            ELSE Redeeming("operator", "redeem", Kept, "other")
    /\ UNCHANGED <<fixed, plan, cycle, lock, txs>>

\* A guardian's hold refuses it (GuardianTick); so may any check, simulation or approval
\* of depositPrincipal.
Allow(p) ==
    /\ At(p, "allow")
    /\ \/ Leave(p)
       \/ proc' = [proc EXCEPT ![p].pc = "check", ![p].sign = "deposit", ![p].units = Minted]
    /\ UNCHANGED <<fixed, plan, cycle, lock, txs>>

\* Mutant of Start: the stop or pause that came in meanwhile is overwritten.
StartAnyway ==
    /\ At("worker", "start")
    /\ Wrote("active", "other")
    /\ End("worker")
    /\ UNCHANGED <<fixed, cycle, lock, txs>>
\* The plan runs from now on, unless its status is no longer the one the job read.
Start ==
    /\ At("worker", "start")
    /\ WroteIf("paused", "awaiting_run", "active", "other")
    /\ End("worker")
    /\ UNCHANGED <<fixed, cycle, lock, txs>>

-----------------------------------------------------------------------------
(* runCycle                                                                *)

\* duePlans and a disabled code are read before they are acted on.
Tick ==
    /\ At("worker", "idle") /\ plan.status = "active" /\ lock = Free
    /\ \E pc \in {"cycle", "disable"} :
         /\ pc = "disable" => kind.owner = "judge"
         /\ Begin("worker", "tick", pc)
    /\ UNCHANGED <<fixed, plan, cycle, lock, txs>>

Disable ==
    /\ At("worker", "disable")
    /\ Wrote("paused", "other") /\ End("worker")
    /\ UNCHANGED <<fixed, cycle, lock, txs>>

CycleOnce ==
    /\ At("operator", "idle") /\ Begin("operator", "once", "cycle")
    /\ UNCHANGED <<fixed, plan, cycle, lock, txs>>

\* An expired plan is stopped and redeemed; without the Venus market it stays due.
Cycle(p) ==
    /\ At(p, "cycle")
    /\ UNCHANGED <<fixed, plan, cycle, lock, txs>>
    /\ IF plan.status = "stopped" THEN End(p)
       ELSE IF expired
       THEN \/ Redeeming(p, "expiry", "stopped", "over")
            \/ (plan.vt > 1 \/ InFlight) /\ End(p)
       ELSE IF ~Manual(p) /\ plan.status # "active" THEN End(p) ELSE Goto(p, "settle")

\* Under the lock: a cycle a dead process left is recovered, one still out decides
\* first, and the plan is read again.
Body(p) ==
    /\ At(p, "body")
    /\ UNCHANGED <<fixed, plan, lock, txs>>
    /\ IF cycle # "none"
       THEN /\ cycle' = IF cycle # "running" THEN cycle
                        ELSE IF \E i \in Unfinished : txs[i].inCycle THEN "awaiting" ELSE "none"
            /\ Leave(p)
       ELSE IF plan.status = "stopped" \/ (~Manual(p) /\ plan.status # "active")
       THEN Leave(p) /\ UNCHANGED cycle
       ELSE /\ cycle' = "running"
            /\ \/ Goto(p, "buy")
               \* Interest is at most what the position holds above the principal (Buy!PrincipalKept).
               \/ /\ plan.vt > 2 /\ plan.principal > 0
                  /\ proc' = [proc EXCEPT ![p].pc = "check", ![p].sign = "redeem", ![p].units = 1]

Harvested == \E i \in DOMAIN txs : txs[i].what = "redeem" /\ txs[i].receipt
\* The cycle's end: it is over, or deferred; or, with interest to spend, its swap is out or brought
\* nothing in.
Buy(p) ==
    /\ At(p, "buy")
    /\ UNCHANGED <<fixed, lock, txs>>
    /\ \/ cycle' = "none" /\ UNCHANGED plan /\ \E over \in BOOLEAN : Ran(p, over)
       \/ Harvested /\ cycle' = "awaiting" /\ Ran(p, FALSE) /\ UNCHANGED plan
       \/ Harvested /\ cycle' = "held" /\ Wrote("paused", "needs_review") /\ Leave(p)

\* A judge's first run starts the plan that was waiting for it, and no other.
Started ==
    /\ At("worker", "started")
    /\ IF ~proc["worker"].waiting THEN UNCHANGED plan
       ELSE \/ kind.cadence = "once" /\ WroteIf("paused", "awaiting_run", "stopped", "other")
            \/ WroteIf("paused", "awaiting_run", "active", "other")
    /\ End("worker")
    /\ UNCHANGED <<fixed, cycle, lock, txs>>

-----------------------------------------------------------------------------
(* The other tasks                                                         *)

Settle ==
    /\ At("worker", "idle") /\ Begin("worker", "settle", "settle")
    /\ UNCHANGED <<fixed, plan, cycle, lock, txs>>

StopJob ==
    /\ At("worker", "idle") /\ kind.owner = "judge"
    /\ Redeeming("worker", "stop", "stopped", "over")
    /\ UNCHANGED <<fixed, plan, cycle, lock, txs>>

\* guardianTick, a rule firing: redeemAll takes out every position it finds.
GuardianTick ==
    /\ At("worker", "idle")
    /\ plan.vt > IF plan.status = "stopped" THEN 1 ELSE 0
    /\ Redeeming("worker", "guardian", Kept, "other")
    /\ UNCHANGED <<fixed, plan, cycle, lock, txs>>

RedeemScript ==
    /\ At("operator", "idle") /\ plan.vt > 1
    /\ Begin("operator", "redeem", "settle")
    /\ UNCHANGED <<fixed, plan, cycle, lock, txs>>

\* --record, of a deposit (yield:deposit) or of a redeem outside a cycle (yield:redeem):
\* the chain's word, whatever the outbox row says.
RecordScript(i) ==
    /\ At("operator", "idle") /\ txs[i].mined = "success"
    /\ txs[i].what # "approve" /\ ~txs[i].inCycle
    /\ Apply(i, IF txs[i].what = "deposit" THEN Booked(plan, i)
                ELSE [Settled(plan, i) EXCEPT !.reason = "other"])
    /\ UNCHANGED <<fixed, cycle, lock, proc>>

\* plan:status --activate looks for a cycle held for review, asks for a typed y, and
\* writes; the database refuses a yield plan with no principal.
AskActivate ==
    /\ At("operator", "idle") /\ cycle # "held"
    /\ Begin("operator", "activate", "confirm")
    /\ UNCHANGED <<fixed, plan, cycle, lock, txs>>
Activate ==
    /\ At("operator", "confirm")
    /\ IF plan.principal > 0 THEN Wrote("active", "other") ELSE UNCHANGED plan
    /\ End("operator")
    /\ UNCHANGED <<fixed, cycle, lock, txs>>

Pause ==
    /\ At("operator", "idle") /\ Wrote("paused", "other")
    /\ UNCHANGED <<fixed, cycle, lock, txs, proc>>

CloseReview ==
    /\ At("operator", "idle") /\ cycle = "held" /\ lock = Free
    /\ lock' = "operator" /\ Begin("operator", "close", "closing")
    /\ UNCHANGED <<fixed, plan, cycle, txs>>
Closing ==
    /\ At("operator", "closing")
    /\ IF cycle = "held" /\ ~\E i \in Open : txs[i].inCycle
       THEN cycle' = "none" /\ WroteIf("paused", "needs_review", "paused", "other")
       ELSE UNCHANGED <<cycle, plan>>
    /\ Goto("operator", "release")
    /\ UNCHANGED <<fixed, lock, txs>>

-----------------------------------------------------------------------------
(* The world                                                               *)

Expire ==
    /\ kind.owner = "judge" /\ ~expired /\ expired' = TRUE
    /\ UNCHANGED <<kind, plan, cycle, lock, txs, own, proc, deaths>>
Die(p) ==
    /\ ~At(p, "idle") /\ deaths < kind.deaths
    /\ deaths' = deaths + 1 /\ End(p)
    /\ UNCHANGED <<kind, expired, plan, cycle, lock, txs, own>>
\* The lock of a process that died runs out (PlanLock).
Lapse ==
    /\ lock # Free /\ proc[lock].pc = "idle"
    /\ lock' = Free
    /\ UNCHANGED <<fixed, plan, cycle, txs, proc>>

Shared(p) ==
    \/ \E i \in DOMAIN txs : Reconcile(p, i) \/ Orphan(p, i)
    \/ Complete(p) \/ LateStart(p) \/ SettleDone(p)
    \/ Mark(p) \/ Look(p) \/ Lock(p) \/ Fresh(p) \/ Build(p) \/ Hold(p) \/ Release(p)
    \/ Check(p) \/ Sign(p) \/ Confirmed(p) \/ Failed(p) \/ Pending(p) \/ Effect(p)
    \/ Allow(p) \/ Cycle(p) \/ Body(p) \/ Buy(p) \/ Die(p)
Worker ==
    \/ Settle \/ GuardianTick \/ RunJob \/ StopJob \/ Tick
    \/ Start \/ Started \/ Disable
Operator ==
    \/ DepositScript \/ RedeemScript \/ CycleOnce \/ Pause \/ AskActivate \/ Activate
    \/ CloseReview \/ Closing \/ Again \/ \E i \in DOMAIN txs : RecordScript(i)
World == Expire \/ Lapse \/ \E i \in DOMAIN txs : Mine(i)
Next == Worker \/ Operator \/ World \/ \E p \in Procs : Shared(p)

Spec == Init /\ [][Next]_vars

-----------------------------------------------------------------------------
(* Properties                                                              *)

Pcs == {"idle", "settle", "late", "mark", "look", "lock", "fresh", "build", "held", "release",
        "check", "sign", "wait", "apply", "again", "allow", "start", "disable",
        "cycle", "body", "buy", "started", "confirm", "closing"}

\* plans_status_ck and plans_yield_principal_ck among them: no write the code makes on
\* its own leaves an active plan without principal (schema.ts:194).
TypeOK ==
    /\ plan.status \in {"active", "paused", "stopped"} /\ plan.reason \in Reasons
    /\ plan.principal \in 0..MaxPrincipal /\ plan.vt \in 0..(kind.txs * Minted)
    /\ plan.status = "active" => plan.principal > 0
    /\ cycle \in {"none", "running", "awaiting", "held"} /\ lock \in Procs \cup {Free}
    /\ \A p \in Procs : proc[p].pc \in Pcs /\ proc[p].tx \in 0..Len(txs)
    /\ \A i \in DOMAIN txs :
         txs[i].status = "CONFIRMED" \/ txs[i].receipt => txs[i].mined = "success"

\* The plan's redeems never burn more than its own deposits minted, whatever dies or is
\* late: the rest of the wallet's vTokens are other plans' (guardian.ts:206).
OwnOnly == own >= 0

\* Once nothing of the plan is unfinished, its row is what the chain holds for it: every
\* receipt was booked, once, whoever saw it first (record.ts:5).
\* And a position always has principal on record, or its whole value would count as interest
\* (schema.ts:194).
RecordTrue == Unfinished = {} => plan.vt = own /\ (own > 1 => plan.principal > 0)

\* Only the operator lets a plan run that was stopped or paused; on their own a deposit
\* and a first run start only a plan still waiting for its first run, with no cycle held
\* for review (plans.ts:219).
HoldsStand ==
    [][(plan.status # "active" /\ plan'.status = "active") =>
        \/ At("operator", "confirm")
        \/ (plan.status = "paused" /\ plan.reason = "awaiting_run" /\ cycle # "held")]_vars

\* A plan its owner stopped, or that expired, holds nothing in Venus once nothing is under
\* way, or a person was told that it does (its reason then says so): guardian.ts:192,
\* "never stopped in silence with the money still in Venus".  A stop whose worker dies half
\* way is left to the job's owner.
StopTold ==
    /\ plan.status = "stopped" /\ plan.reason = "over"
    /\ deaths = 0 /\ Unfinished = {} /\ \A p \in Procs : At(p, "idle")
    => own <= 1

\* docs/TASKS.md:181: "A stopped plan stays stopped."
StaysStopped ==
    [][plan.status = "stopped" =>
        (plan'.status = "stopped" \/ At("operator", "confirm") \/ At("operator", "idle"))]_vars

===============================================================================
