---------------------------------- MODULE Visit ----------------------------------
(***************************************************************************)
(* A judge's visit: the page, the web's routes, the job queue and the      *)
(* worker that signs.                                                      *)
(*                                                                         *)
(* The web never signs: a route checks what it reads, and queues a job.    *)
(* The worker takes one job at a time and checks everything again; ticks   *)
(* run between jobs (main.ts `ticking`).  It may die, or lose its database *)
(* in the middle of an answer, and it may not know the Venus market.       *)
(*                                                                         *)
(* Amounts are in plans: every plan buys or deposits one unit.  What a     *)
(* stop redeems and how a cycle decides are Position's and Cycle's; one    *)
(* signer's outbox is at most one transaction here.                        *)
(***************************************************************************)
EXTENDS Integers, Sequences, FiniteSetsExt

CONSTANTS Plans,       \* the plans the code may make
          Yield,       \* those that buy with interest
          Caps,        \* caps.sandboxMaxPerPlanUsd, in plans
          MaxJobs,     \* a plan's jobs in ten minutes
          Budgets      \* bounds: [jobs, days, deaths, lost, blind]: jobs in all, days, deaths of the
                       \* worker, answers of the database that get lost, and whether a restarted
                       \* worker may not find the Venus market

ASSUME VisitAssumption ==
    /\ Yield \subseteq Plans /\ IsFiniteSet(Plans) /\ Caps \subseteq Nat /\ MaxJobs \in Nat
    /\ Budgets \subseteq [jobs : Nat, days : Nat, deaths : Nat, lost : Nat, blind : BOOLEAN]

VARIABLES cap, code,   \* the code's cap; whether it is enabled
          plan,        \* its plans' rows, with what each has on the ledger
          jobs,        \* the table of jobs, in order
          sent,        \* the transaction still out; the plans whose mined deposit is not booked
          work,        \* what the worker does
          venus,       \* whether it knows the Venus market
          page,        \* what the browser shows
          left         \* what is left of the budget

visitVars == <<cap, code, plan, jobs, sent, work, venus, page, left>>

None == "none"
NoTx == [kind |-> None]
Idle == [pc |-> "idle"]
NoPlan == [made |-> FALSE, status |-> "paused", reason |-> "awaiting_run", due |-> FALSE,
           principal |-> 0, reserved |-> 0, spent |-> 0, today |-> 0,
           allowed |-> FALSE, awaiting |-> FALSE]
Form == [stage |-> "form", plan |-> None, job |-> 0, saw |-> None, stopped |-> FALSE]

VisitInit ==
    /\ cap \in Caps /\ code = TRUE
    /\ plan = [p \in Plans |-> NoPlan]
    /\ jobs = <<>>
    /\ sent = [open |-> NoTx, unbooked |-> {}]
    /\ work = Idle /\ venus = TRUE /\ page = Form
    /\ left \in Budgets

-----------------------------------------------------------------------------
(* The ledger and the caps                                                 *)

\* judgeExposureUsd: reserved, spent, and the principal its plans hold.
Exposure == SumFunction([p \in Plans |-> plan[p].reserved + plan[p].spent + plan[p].principal])
Room == IF Exposure >= cap THEN 0 ELSE cap - Exposure

\* Mutant of MayReserve: the principal is not counted.
SpendOnly(p) == plan[p].today = 0 /\
    SumFunction([q \in Plans |-> plan[q].reserved + plan[q].spent]) < cap
\* reserveSpend: the plan's day and the code's total.
MayReserve(p) == plan[p].today = 0 /\ Room >= 1

Held(p) == plan[p].status = "stopped" \/ (plan[p].status = "paused" /\ plan[p].reason # "awaiting_run")
\* updatePlanIf with the status the row had.
Started(row, status, reason) ==
    IF row.status = status /\ row.reason = reason
    THEN [row EXCEPT !.status = "active", !.reason = None, !.due = FALSE] ELSE row

-----------------------------------------------------------------------------
(* The web                                                                 *)

\* POST /api/plans
CreatePlan(p) ==
    /\ page.stage = "form" /\ code /\ ~plan[p].made /\ Room >= 1
    /\ plan' = [plan EXCEPT ![p].made = TRUE]
    /\ page' = [Form EXCEPT !.stage = "review", !.plan = p]
    /\ UNCHANGED <<cap, code, jobs, sent, work, venus, left>>

Waiting(p) == {j \in DOMAIN jobs : jobs[j].plan = p /\ jobs[j].kind = "stop"
                                   /\ jobs[j].status \in {"queued", "running"}}
Recent(p) == {j \in DOMAIN jobs : jobs[j].plan = p /\ jobs[j].kind # "stop"}
Queue(kind, p) ==
    /\ Len(jobs) < left.jobs
    /\ jobs' = Append(jobs, [kind |-> kind, plan |-> p, status |-> "queued", result |-> None])

\* POST /api/plans/:id/run
MayRun(p) == code /\ plan[p].made /\ ~Held(p) /\ (p \in Yield /\ plan[p].principal = 0 => Room >= 1)
Wait(p) == page' = [page EXCEPT !.stage = "running", !.job = Len(jobs) + 1, !.saw = None]

Retryable == {"approval_pending", "outbox_busy"}
\* "Buy now" in the review dialog, or again after an answer that can be tried again.
Run ==
    LET p == page.plan
    IN /\ \/ page.stage = "review"
          \/ page.stage = "done" /\ page.saw \in Retryable /\ ~page.stopped
       /\ IF MayRun(p) /\ Cardinality(Recent(p)) < MaxJobs
          THEN Queue("run", p) /\ Wait(p)
          ELSE page' = [page EXCEPT !.stage = "review"] /\ UNCHANGED jobs
       /\ UNCHANGED <<cap, code, plan, sent, work, venus, left>>
\* The documented API, or another tab.
RunElsewhere(p) ==
    /\ MayRun(p) /\ Cardinality(Recent(p)) < MaxJobs
    /\ Queue("run", p)
    /\ UNCHANGED <<cap, code, plan, sent, work, venus, page, left>>
Preview ==
    /\ page.stage = "review" /\ code /\ Cardinality(Recent(page.plan)) < MaxJobs
    /\ Queue("preview", page.plan) /\ Wait(page.plan)
    /\ UNCHANGED <<cap, code, plan, sent, work, venus, left>>

\* POST /api/plans/:id/stop is never refused: a stop already waiting answers it.
Stop ==
    LET p == page.plan
    IN /\ code /\ page.stage = "done" /\ ~page.stopped
       /\ page' = [page EXCEPT !.stopped = TRUE]
       /\ IF Waiting(p) # {} THEN UNCHANGED jobs
          ELSE Queue("stop", p)
       /\ UNCHANGED <<cap, code, plan, sent, work, venus, left>>

\* waitForJob: until the job is done or failed, or for four minutes.
See ==
    /\ page.stage = "running"
    /\ LET job == jobs[page.job]
       IN page' = [page EXCEPT !.saw = IF job.status \in {"done", "failed"} THEN job.result ELSE "waiting",
                               !.stage = IF job.kind = "preview" THEN "review" ELSE "done"]
    /\ UNCHANGED <<cap, code, plan, jobs, sent, work, venus, left>>
Again ==
    /\ page.stage = "done" /\ page' = Form
    /\ UNCHANGED <<cap, code, plan, jobs, sent, work, venus, left>>

\* The code leaves JUDGE_CODES; the next deploy's first check disables it.
RemoveCode ==
    /\ code /\ code' = FALSE
    /\ UNCHANGED <<cap, plan, jobs, sent, work, venus, page, left>>

-----------------------------------------------------------------------------
(* The worker: what was sent settles                                       *)

Out == sent.open # NoTx
Mined(status) == Out /\ sent.open.mined = status
\* applyDeposit, and a judge's late deposit starts its plan.
DepositBooked(row) == Started([row EXCEPT !.principal = @ + 1], "paused", "awaiting_run")
SwapBooked(row) == [row EXCEPT !.reserved = 0, !.spent = @ + row.reserved, !.awaiting = FALSE]
Released(row) == [row EXCEPT !.reserved = 0, !.today = 0, !.awaiting = FALSE]

\* settleOutbox: reconcile the outbox, finish the awaiting cycle, apply what no cycle
\* waits for.  A deposit waits for the Venus market to be known.
Deposited == sent.unbooked \cup (IF Mined("success") /\ sent.open.kind = "deposit"
                                 THEN {sent.open.plan} ELSE {})
SwapOf(p, status) == Mined(status) /\ sent.open.kind = "swap" /\ sent.open.plan = p
Finished(p) == CASE SwapOf(p, "success") -> SwapBooked(plan[p])
                 [] SwapOf(p, "reverted") -> Released(plan[p])
                 [] OTHER -> plan[p]
SettledRow(p) == IF p \in Deposited /\ venus THEN DepositBooked(Finished(p)) ELSE Finished(p)
SettledSent == [open |-> IF Mined("no") THEN sent.open ELSE NoTx,
                unbooked |-> IF venus THEN {} ELSE Deposited]
Settle(next) ==
    /\ plan' = [p \in Plans |-> SettledRow(p)] /\ sent' = SettledSent /\ work' = next
    /\ UNCHANGED <<cap, code, jobs, venus, page, left>>

At(pc) == work.pc = pc
Goto(pc) == work' = [work EXCEPT !.pc = pc]
Ticking(due) == IF due = {} THEN Idle ELSE [pc |-> "tick", due |-> due]
\* A job's answer; a tick has nobody to answer.
Tell(status, result) ==
    work' = IF work.job = 0 THEN Ticking(work.due)
            ELSE [work EXCEPT !.pc = "answer", !.status = status, !.result = result]
Done(result) == Tell("done", result)
Refuse == Tell("failed", "refused")
Task(p, job, due, pc) == [pc |-> pc, job |-> job, plan |-> p, due |-> due, row |-> [status |-> plan[p].status, reason |-> plan[p].reason],
                     status |-> None, result |-> None]

-----------------------------------------------------------------------------
(* The worker: jobs                                                        *)

\* processJobs: the oldest queued job.
Claim ==
    /\ At("idle")
    /\ \E j \in DOMAIN jobs :
         /\ jobs[j].status = "queued" /\ \A i \in 1 .. j - 1 : jobs[i].status # "queued"
         /\ jobs' = [jobs EXCEPT ![j].status = "running"]
         /\ work' = Task(jobs[j].plan, j, {}, "admit")
    /\ UNCHANGED <<cap, code, plan, sent, venus, page, left>>

\* processJob: the plan read again.
Admit ==
    /\ At("admit")
    /\ LET p == work.plan
           kind == jobs[work.job].kind
       IN work' = IF kind = "stop" THEN [work EXCEPT !.pc = "stop"]
                  ELSE IF ~code \/ (kind = "run" /\ Held(p))
                       THEN [work EXCEPT !.pc = "answer", !.status = "failed", !.result = "refused"]
                  ELSE [Task(p, work.job, {}, "settle") EXCEPT
                          !.pc = CASE kind = "preview" -> "answer"
                                   [] kind = "run" /\ p \in Yield /\ plan[p].principal = 0 -> "settle"
                                   [] OTHER -> "cycle",
                          !.status = IF kind = "preview" THEN "done" ELSE None]
    /\ UNCHANGED <<cap, code, plan, jobs, sent, venus, page, left>>

\* schedulerTick: settle; then the jobs, all of them; then the plans due by then, one by one.
\* A plan whose code is gone is paused.
TickSettle == At("idle") /\ SettledSent # sent /\ Settle(Idle)
TickDue ==
    /\ At("idle") /\ \A j \in DOMAIN jobs : jobs[j].status # "queued"
    /\ LET due == {p \in Plans : plan[p].status = "active" /\ plan[p].due}
       IN due # {} /\ work' = Ticking(due)
    /\ UNCHANGED <<cap, code, plan, jobs, sent, venus, page, left>>
TickPlan(p) ==
    /\ At("tick") /\ p \in work.due
    /\ IF code THEN work' = Task(p, 0, work.due \ {p}, "cycle") /\ UNCHANGED plan
       ELSE /\ plan' = [plan EXCEPT ![p].status = "paused", ![p].reason = "code_disabled"]
            /\ work' = Ticking(work.due \ {p})
    /\ UNCHANGED <<cap, code, jobs, sent, venus, page, left>>

\* runCycle: settle first.  A transaction still out opens no cycle.
CycleSettle == At("cycle") /\ Settle([work EXCEPT !.pc = "decide"])
Decide ==
    /\ At("decide")
    /\ LET p == work.plan
       IN \/ /\ Out \/ plan[p].awaiting
             /\ Done("outbox_busy") /\ UNCHANGED plan
          \/ /\ ~Out /\ ~plan[p].awaiting
             /\ \/ /\ MayReserve(p) /\ p \notin Yield
                   /\ plan' = [plan EXCEPT ![p].reserved = 1, ![p].today = 1]
                   /\ Goto("sign")
                \/ \* no interest yet, a cap, the market or the quotes: skipped or deferred
                   /\ plan' = [plan EXCEPT ![p].due = FALSE]
                   /\ work' = [work EXCEPT !.pc = "start", !.result = "skipped"]
    /\ UNCHANGED <<cap, code, jobs, sent, venus, page, left>>

Signs(kind) == sent' = [sent EXCEPT !.open = [kind |-> kind, plan |-> work.plan, mined |-> "no"]]
Swap ==
    /\ At("sign") /\ Signs("swap") /\ Goto("swapping")
    /\ UNCHANGED <<cap, code, plan, jobs, venus, page, left>>
\* Confirmed, failed, or left to the next settle.
Swapped ==
    /\ At("swapping")
    /\ LET p == work.plan
           ran(result) == [work EXCEPT !.pc = "start", !.result = result]
           closed == [sent EXCEPT !.open = NoTx]
       IN \/ /\ Mined("success")
             /\ plan' = [plan EXCEPT ![p] = [SwapBooked(@) EXCEPT !.due = FALSE]]
             /\ sent' = closed /\ work' = ran("bought")
          \/ /\ Mined("reverted")
             /\ plan' = [plan EXCEPT ![p] = [Released(@) EXCEPT !.due = FALSE]]
             /\ sent' = closed /\ work' = ran("failed")
          \/ /\ Mined("no")
             /\ plan' = [plan EXCEPT ![p].awaiting = TRUE, ![p].due = FALSE]
             /\ UNCHANGED sent /\ work' = ran("awaiting_tx")
    /\ UNCHANGED <<cap, code, jobs, venus, page, left>>

\* A first run that opened a cycle, or a deposit, starts a plan still as it was read.
Start ==
    /\ At("start")
    /\ LET p == work.plan
           first == work.row.reason = "awaiting_run"
       IN plan' = IF work.job # 0 /\ (first \/ work.result = "deposited")
                  THEN [plan EXCEPT ![p] = Started(@, work.row.status, work.row.reason)] ELSE plan
    /\ Done(work.result)
    /\ UNCHANGED <<cap, code, jobs, sent, venus, page, left>>

\* startYieldPlan
DepositSettle == At("settle") /\ Settle([work EXCEPT !.pc = "check"])
Approving == Out /\ sent.open.kind = "approve" /\ sent.open.plan = work.plan
FreshPrincipal(p) == plan[p].principal
Check ==
    /\ At("check")
    /\ LET p == work.plan
       IN CASE Approving /\ sent.unbooked = {} -> Done("approval_pending")
            [] (Out \/ sent.unbooked # {}) /\ ~(Approving /\ sent.unbooked = {}) -> Refuse
            [] ~Out /\ sent.unbooked = {} /\ FreshPrincipal(p) > 0 -> Done("deposited")
            [] OTHER -> IF ~venus \/ Room < 1 THEN Refuse
                        ELSE Goto(IF plan[p].allowed THEN "deposit" ELSE "approve")
    /\ UNCHANGED <<cap, code, plan, jobs, sent, venus, page, left>>
Approve ==
    /\ At("approve") /\ Signs("approve") /\ Goto("approving")
    /\ UNCHANGED <<cap, code, plan, jobs, venus, page, left>>
Deposit ==
    /\ At("deposit") /\ Signs("deposit") /\ Goto("depositing")
    /\ UNCHANGED <<cap, code, plan, jobs, venus, page, left>>
Approved ==
    /\ At("approving")
    /\ \/ Mined("success") /\ sent' = [sent EXCEPT !.open = NoTx] /\ Goto("deposit")
       \/ Mined("reverted") /\ sent' = [sent EXCEPT !.open = NoTx] /\ Refuse
       \/ Mined("no") /\ UNCHANGED sent /\ Done("approval_pending")
    /\ UNCHANGED <<cap, code, plan, jobs, venus, page, left>>
DepositEnds ==
    /\ At("depositing")
    /\ \/ /\ Mined("success") /\ sent' = [sent EXCEPT !.open = NoTx]
          /\ plan' = [plan EXCEPT ![work.plan].principal = @ + 1, ![work.plan].allowed = FALSE]
          /\ work' = [work EXCEPT !.pc = "start", !.result = "deposited"]
       \/ /\ Mined("reverted") /\ sent' = [sent EXCEPT !.open = NoTx] /\ Refuse /\ UNCHANGED plan
       \/ /\ Mined("no") /\ Done("awaiting_tx") /\ UNCHANGED <<sent, plan>>
    /\ UNCHANGED <<cap, code, jobs, venus, page, left>>

\* redeemPlanPosition (Position): the status first, then the redeem, if it goes through.
StopPlan ==
    /\ At("stop")
    /\ plan' = [plan EXCEPT ![work.plan].status = "stopped", ![work.plan].reason = "stopped_by_owner"]
    /\ Goto("redeem")
    /\ UNCHANGED <<cap, code, jobs, sent, venus, page, left>>
Redeem ==
    /\ At("redeem")
    /\ \/ /\ ~Out /\ work.plan \notin sent.unbooked
          /\ plan' = [plan EXCEPT ![work.plan].principal = 0]
       \/ UNCHANGED plan
    /\ Done("stopped")
    /\ UNCHANGED <<cap, code, jobs, sent, venus, page, left>>

\* finishJob: only a job still running.
Finish(j, status, result) ==
    IF jobs[j].status = "running" THEN [jobs EXCEPT ![j].status = status, ![j].result = result] ELSE jobs
\* The answer is written; or the write fails, or only its reply is lost, and a failure is
\* written instead; or that fails as well and the worker goes on without an answer.
Answer ==
    /\ At("answer")
    /\ LET j == work.job
           written == Finish(j, work.status, work.result)
       IN \/ jobs' = written /\ work' = Idle /\ UNCHANGED left
          \/ /\ left.lost > 0 /\ left' = [left EXCEPT !.lost = @ - 1]
             /\ jobs' \in {jobs, written}
             /\ work' = IF work.result = "lost" THEN Idle
                        ELSE [work EXCEPT !.status = "failed", !.result = "lost"]
    /\ UNCHANGED <<cap, code, plan, sent, venus, page>>

-----------------------------------------------------------------------------
(* Deaths, the chain, time                                                 *)

\* What the dead worker ran is recovered by the next settles (Cycle): here the reservation
\* of a swap never signed is released at once.
Die ==
    /\ work.pc # "down" /\ left.deaths > 0
    /\ left' = [left EXCEPT !.deaths = @ - 1]
    /\ work' = [pc |-> "down"]
    /\ plan' = IF At("sign") THEN [plan EXCEPT ![work.plan] = Released(@)] ELSE plan
    /\ UNCHANGED <<cap, code, jobs, sent, venus, page>>
\* Mutant of Abandoned: jobs a worker had claimed are left to it.
LeftRunning(job) == job
\* abandonRunningJobs
Abandoned(job) ==
    IF job.status = "running" THEN [job EXCEPT !.status = "failed", !.result = "abandoned"] ELSE job
\* The jobs left running are closed, then the Venus market is looked up.
Boot ==
    /\ At("down") /\ work' = Idle
    /\ jobs' = [j \in DOMAIN jobs |-> Abandoned(jobs[j])]
    /\ venus' \in IF left.blind THEN BOOLEAN ELSE {TRUE}
    /\ UNCHANGED <<cap, code, plan, sent, page, left>>
VenusFound ==
    /\ At("idle") /\ ~venus /\ venus' = TRUE
    /\ UNCHANGED <<cap, code, plan, jobs, sent, work, page, left>>

Mine ==
    /\ Mined("no")
    /\ \E m \in {"success", "reverted"} : sent' = [sent EXCEPT !.open.mined = m]
    /\ plan' = IF sent.open.kind = "approve" /\ sent'.open.mined = "success"
               THEN [plan EXCEPT ![sent.open.plan].allowed = TRUE] ELSE plan
    /\ UNCHANGED <<cap, code, jobs, work, venus, page, left>>
NextDay ==
    /\ left.days > 0 /\ left' = [left EXCEPT !.days = @ - 1]
    /\ plan' = [p \in Plans |-> [plan[p] EXCEPT !.today = plan[p].reserved, !.due = plan[p].status = "active"]]
    /\ UNCHANGED <<cap, code, jobs, sent, work, venus, page>>

-----------------------------------------------------------------------------

Browser ==
    \/ \E p \in Plans : CreatePlan(p) \/ RunElsewhere(p)
    \/ Run \/ Preview \/ Stop \/ See \/ Again \/ RemoveCode
JobSteps ==
    \/ Claim \/ Admit
    \/ CycleSettle \/ Decide \/ Swap \/ Swapped \/ Start
    \/ DepositSettle \/ Check \/ Approve \/ Approved \/ Deposit \/ DepositEnds
    \/ StopPlan \/ Redeem \/ Answer \/ Boot
    \/ \E p \in Plans : TickPlan(p)
Worker == JobSteps \/ TickSettle \/ TickDue \/ VenusFound
VisitNext == Browser \/ Worker \/ Die \/ Mine \/ NextDay

\* A worker that runs goes on, and Fly restarts one that died.
VisitFair == WF_visitVars(JobSteps)
VisitSpec == VisitInit /\ [][VisitNext]_visitVars /\ VisitFair

-----------------------------------------------------------------------------
(* Properties                                                              *)

\* What the code has on chain and on its ledger: deposits out or mined and not yet booked too.
Committed == Exposure + Cardinality(sent.unbooked)
             + (IF Out /\ sent.open.kind = "deposit" /\ sent.open.mined # "reverted" THEN 1 ELSE 0)
\* One code, one cap: what all its plans spent, and deposited, whatever is still out
\* (docs/SECURITY.md:17).
OneCap == Committed <= cap

\* A plan deposits its principal once, however often its run is asked for
\* (deposit.ts:88).
DepositedOnce == \A p \in Yield :
    plan[p].principal + (IF p \in sent.unbooked THEN 1 ELSE 0)
    + (IF Out /\ sent.open.kind = "deposit" /\ sent.open.plan = p /\ sent.open.mined # "reverted" THEN 1 ELSE 0) <= 1

\* A job is answered once: neither a late answer nor a restart changes it (queue.ts:61).
OneAnswer == [][\A j \in DOMAIN jobs : jobs[j].status \in {"done", "failed"} => jobs'[j] = jobs[j]]_jobs

\* A stop said to be waiting is one the worker still has in hand, or will close when it
\* starts again: otherwise every later stop of that plan is answered with it (jobs.ts:4).
StopWaits == \A j \in DOMAIN jobs : jobs[j].kind = "stop" /\ jobs[j].status = "running" =>
    At("down") \/ (work.pc \notin {"idle", "tick"} /\ work.job = j)

\* Every job the web accepted is answered, through deaths of the worker and a lost write
\* (a page, and every later stop of that plan, waits for it).
Answered == \A j \in 1 .. Max({b.jobs : b \in Budgets}) :
    (j \in DOMAIN jobs) ~> (j \in DOMAIN jobs /\ jobs[j].status \in {"done", "failed"})

\* A code never commits more than its cap, nor a plan its principal twice.
JudgeTrue == OneCap /\ DepositedOnce

\* Every job is answered, and once.
AnsweredOnce == OneAnswer /\ Answered

=================================================================================
