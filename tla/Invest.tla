---------------------------------- MODULE Invest ---------------------------------
(***************************************************************************)
(* The Invest page (InvestFlow.tsx) and the words it has for an answer     *)
(* (outcome.ts), with its stop button (StopPlan.tsx): one tab, against any *)
(* answers the routes and the worker may give.                             *)
(*                                                                         *)
(* A dialog is modal: under it the form cannot be touched.  What the       *)
(* worker does in a job, and what it answers, are one step here (Visit has *)
(* them apart); another tab of the same code may run the page's plan too.  *)
(***************************************************************************)
EXTENDS Integers, Sequences

CONSTANTS Forms,     \* what the form may hold: [mode, amount]
          Cap,       \* caps.sandboxMaxPerPlanUsd
          MaxPlans,  \* bound: plans made from this page
          MaxRuns    \* bound: jobs the page queues

VARIABLES page,   \* the tab
          jobs,   \* the page's jobs
          plans   \* the rows: the form each was made with, what it moved, its status

investVars == <<page, jobs, plans>>

None == "none"
NoJob == [status |-> None]
Is(kind) == [kind |-> kind]
NoCode == -1
Loaded == [left |-> NoCode, form |-> CHOOSE f \in Forms : f.mode = "safe", risk |-> FALSE,
           plan |-> 0, busy |-> None, stage |-> None, review |-> FALSE, preview |-> Is(None),
           result |-> NoJob, job |-> 0, stopped |-> 0, stop |-> "idle", stopJob |-> 0]
InvestInit == page = Loaded /\ jobs = <<>> /\ plans = <<>>

Moved == LET sum[i \in 0 .. Len(plans)] == IF i = 0 THEN 0 ELSE sum[i - 1] + plans[i].moved
         IN sum[Len(plans)]
Room == Cap - Moved
Terms == plans[page.plan].form

-----------------------------------------------------------------------------
(* The words (outcome.ts)                                                  *)

\* retryable: nothing was signed, or only an exact approval.
Retryable(job) ==
    job.status = "done" /\ job.result.kind \in {"approval_pending", "outbox_busy", "locked"}

Says(tone, lead) == [tone |-> tone, lead |-> lead]
\* A dry run whose allowance is only simulated stops at the missing allowance.
ApprovalFirst(result) == result.sim = "allowance" /\ result.approval = "simulated"
DoneText(job) ==
    CASE job.status \in {"queued", "running"}      -> Says("wait", "still_queued")
      [] job.status = "failed"                     -> Says("fail", "failed")
      [] job.status = "done" ->
         LET r == job.result IN
         CASE r.kind \in {"bought", "deposited"}   -> Says("ok", r.kind)
           [] r.kind = "deferred"                  ->
                Says("wait", IF r.planStatus = "active" THEN "when_it_buys" ELSE "not_started")
           [] r.kind = "skipped"                   -> Says("info", "why")
           [] r.kind = "refused"                   -> Says("fail", "why")
           [] r.kind = "simulated"                 -> Says("info", "nothing_bought")
           [] r.kind = "deposit_simulated"         ->
                IF r.sim = "success" THEN Says("info", "deposit_simulated")
                ELSE IF ApprovalFirst(r) THEN Says("info", "approval_first")
                ELSE Says("fail", "test_failed")
           [] r.kind \in {"awaiting_tx", "approval_pending", "outbox_busy", "locked"} ->
                Says("wait", r.kind)
           [] r.kind = "review"                    -> Says("fail", "review")
           [] r.kind = "stopped"                   -> Says("info", "stopped")
\* What the review dialog shows of the dry run.
PreviewState ==
    CASE page.stage = "running" \/ page.stage = "previewing" -> "spinner"
      [] page.stage = "previewed" /\ Terms.mode = "yield"    -> "note"
      [] page.stage = "previewed" /\ Terms.mode = "safe"     ->
         LET r == page.preview IN
         CASE r.kind = None                     -> "not_tested"
           [] r.kind = "simulated"              ->
                IF r.sim = "success" THEN "passed"
                ELSE IF ApprovalFirst(r) THEN "approval_passes" ELSE "test_failed"
           [] r.kind \in {"deferred", "skipped", "refused"} -> r.kind
           [] OTHER                             -> "failed"
      [] OTHER -> None

\* The steps of the strip that are ticked, of code, pick, mode, preview, run and done.
Ticked == IF page.left = NoCode THEN 0
          ELSE IF page.result # NoJob THEN 6
          ELSE IF page.stage = "running" THEN 4
          ELSE IF page.review THEN 3 ELSE 2

-----------------------------------------------------------------------------
(* The page                                                                *)

Free == page.busy = None
Dialogs == page.review \/ page.risk
To(p) == page' = p
Quiet == UNCHANGED <<jobs, plans>>

\* checkCode: an exhausted code is told so and opens nothing.
CheckCode ==
    /\ Free /\ page.left = NoCode /\ ~Dialogs /\ Quiet
    /\ To([page EXCEPT !.left = IF Room > 0 THEN Room ELSE NoCode])
\* The form; interest is chosen behind the risk dialog, whose box must be ticked.
Choose(f) ==
    /\ Free /\ ~Dialogs /\ f # page.form
    /\ f.mode = "safe" \/ f.mode = page.form.mode
    /\ To([page EXCEPT !.form = f]) /\ Quiet
AskRisk == Free /\ ~Dialogs /\ page.form.mode = "safe" /\ To([page EXCEPT !.risk = TRUE]) /\ Quiet
Accept(f) == page.risk /\ f.mode = "yield" /\ To([page EXCEPT !.risk = FALSE, !.form = f]) /\ Quiet
Decline == page.risk /\ To([page EXCEPT !.risk = FALSE]) /\ Quiet

Queue(kind, plan) ==
    /\ Len(jobs) < MaxRuns
    /\ jobs' = Append(jobs, [kind |-> kind, plan |-> plan, status |-> "queued", result |-> Is(None)])
Polls(busy, stage) == [page EXCEPT !.busy = busy, !.stage = stage, !.job = Len(jobs) + 1]

\* createPlan: refused (the cap, the rate), or the session has ended, or made; a
\* contribution plan's dry run follows at once.
Refused == To([page EXCEPT !.preview = Is(None)]) /\ Quiet
SessionEnded == To([page EXCEPT !.preview = Is(None), !.left = NoCode]) /\ Quiet
Made == LET open == [page EXCEPT !.plan = Len(plans) + 1, !.stage = "previewed", !.review = TRUE,
                                 !.preview = Is(None), !.result = NoJob]
        IN /\ Len(plans) < MaxPlans /\ page.form.amount <= Room
           /\ plans' = Append(plans, [form |-> page.form, moved |-> 0, out |-> 0, status |-> "awaiting_run"])
           /\ \/ page.form.mode = "yield" /\ To(open) /\ UNCHANGED jobs
              \/ /\ page.form.mode = "safe" /\ Queue("preview", Len(plans) + 1)
                 /\ To([open EXCEPT !.busy = "preview", !.stage = "previewing", !.job = Len(jobs) + 1])
CreatePlan ==
    /\ Free /\ ~Dialogs /\ page.left # NoCode /\ page.result = NoJob
    /\ Refused \/ SessionEnded \/ Made

\* The dialog's buttons.
InReview == Free /\ page.review /\ page.stage = "previewed"
RunPreview ==
    /\ InReview /\ Terms.mode = "safe" /\ page.preview.kind # "simulated" /\ UNCHANGED plans
    /\ \/ Queue("preview", page.plan) /\ To(Polls("preview", "previewing"))
       \/ UNCHANGED <<page, jobs>>    \* refused: the error is shown
Back == Free /\ page.review /\ To([page EXCEPT !.review = FALSE]) /\ Quiet

\* run: the route refuses what is stopped or over its rate; otherwise a job.
MayRun(p) == plans[p].status \in {"awaiting_run", "active"}
Post(p) ==
    /\ UNCHANGED plans
    /\ \/ MayRun(page.plan) /\ Queue("run", page.plan)
          /\ To([p EXCEPT !.busy = "run", !.stage = "running", !.job = Len(jobs) + 1])
       \/ To([p EXCEPT !.stage = "previewed"]) /\ UNCHANGED jobs
Run == InReview /\ (Terms.mode = "safe" => page.preview.kind # None) /\ Post(page)
\* Again, with the plan's own terms back in the form.
MayRetry == Free /\ page.result # NoJob /\ Retryable(page.result) /\ page.stopped # page.plan
\* Mutant of Again: the form stays as it was left.
AsLeft == [page EXCEPT !.review = TRUE]
Again == [page EXCEPT !.form = Terms, !.review = TRUE]
Retry == MayRetry /\ (page.review => page.stage = "done") /\ ~page.risk /\ Post(Again)

\* waitForJob: the job's end, or the job as last seen after four minutes.
Spent(job) == IF job.status = "done" /\ job.result.kind \in {"bought", "deposited"}
              THEN job.result.amount ELSE 0
Less(job) == IF page.left > Spent(job) THEN page.left - Spent(job) ELSE 0
Seen ==
    /\ page.busy \in {"preview", "run"} /\ Quiet
    /\ LET job == jobs[page.job]
           ended == job.status \in {"done", "failed"}
       IN To(IF page.busy = "preview"
             THEN [page EXCEPT !.busy = None, !.stage = "previewed",
                               !.preview = IF job.status = "done" THEN job.result ELSE @]
             ELSE [page EXCEPT !.busy = None, !.stage = "done", !.left = Less(job),
                               !.result = IF ended THEN job ELSE [job EXCEPT !.status = "queued"]])

\* StopPlan, in the panel of a run's answer: asked for, queued, polled for five minutes.
Stop ==
    /\ ~Dialogs /\ page.result # NoJob /\ page.stop \in {"idle", "asking", "failed"} /\ UNCHANGED plans
    /\ \/ page.stop # "asking" /\ To([page EXCEPT !.stop = "asking"]) /\ UNCHANGED jobs
       \/ page.stop = "asking" /\ To([page EXCEPT !.stop = "idle"]) /\ UNCHANGED jobs
       \/ /\ page.stop = "asking" /\ Queue("stop", page.plan)
          /\ To([page EXCEPT !.stop = "queued", !.stopJob = Len(jobs) + 1])
StopSeen ==
    /\ page.stop = "queued" /\ Quiet
    /\ To(IF jobs[page.stopJob].status = "done" THEN [page EXCEPT !.stop = "done", !.stopped = page.plan]
          ELSE [page EXCEPT !.stop = "failed"])

-----------------------------------------------------------------------------
(* The worker's answers, with what they did                                *)

Answers(j, result) == jobs' = [jobs EXCEPT ![j].status = "done", ![j].result = result]
Starts(p) == IF plans[p].status = "awaiting_run" THEN "active" ELSE plans[p].status
Sim(sim, approval) == [kind |-> "simulated", sim |-> sim, approval |-> approval]
Sims == {Sim("success", "simulated"), Sim("allowance", "simulated"), Sim("failed", "existing")}
DepositSims == {[s EXCEPT !.kind = "deposit_simulated"] : s \in Sims}

\* A dry run moves nothing; a run that opened no cycle, or only an approval, neither.
Dry(j, p) ==
    /\ UNCHANGED plans
    /\ \E r \in Sims : Answers(j, r)
Unmoved(j, p) ==
    /\ UNCHANGED plans
    /\ \/ \E kind \in {"outbox_busy", "locked"} : plans[p].form.mode = "safe" /\ Answers(j, Is(kind))
       \/ plans[p].form.mode = "yield" /\ plans[p].moved = 0 /\ Answers(j, Is("approval_pending"))
       \/ plans[p].form.mode = "yield" /\ plans[p].moved = 0 /\ \E r \in DepositSims : Answers(j, r)
       \/ plans[p].form.mode = "safe" /\ Answers(j, Is("review"))
Moves(j, p) ==
    LET amount == plans[p].form.amount IN
    /\ amount <= Room /\ plans[p].out = 0
    /\ plans[p].form.mode = "yield" => plans[p].moved = 0
    /\ \/ /\ plans' = [plans EXCEPT ![p].moved = @ + amount, ![p].status = Starts(p)]
          /\ Answers(j, [kind |-> IF plans[p].form.mode = "safe" THEN "bought" ELSE "deposited",
                         amount |-> amount])
       \/ /\ plans' = [plans EXCEPT ![p].out = amount,
                          ![p].status = IF plans[p].form.mode = "safe" THEN Starts(p) ELSE @]
          /\ Answers(j, Is("awaiting_tx"))
\* A deposit already on record is answered with its amount.
Recorded(j, p) ==
    /\ plans[p].form.mode = "yield" /\ plans[p].moved > 0 /\ UNCHANGED plans
    /\ Answers(j, [kind |-> "deposited", amount |-> plans[p].moved])
\* Waited, skipped or failed: a first run starts the plan all the same, a live worker's.
Waits(j, p) ==
    /\ plans[p].form.mode = "safe"
    /\ \E kind \in {"deferred", "skipped", "refused"}, live \in BOOLEAN :
         LET status == IF live /\ jobs[j].kind = "run" THEN Starts(p) ELSE plans[p].status IN
         /\ plans' = [plans EXCEPT ![p].status = status]
         /\ Answers(j, [kind |-> kind, planStatus |-> status])
Fails(j) == UNCHANGED plans /\ jobs' = [jobs EXCEPT ![j].status = "failed"]
Stops(j, p) ==
    /\ plans' = [plans EXCEPT ![p].status = "stopped"] /\ Answers(j, Is("stopped"))
Work ==
    \E j \in DOMAIN jobs : LET p == jobs[j].plan IN
    /\ jobs[j].status = "queued" /\ \A i \in 1 .. j - 1 : jobs[i].status # "queued"
    /\ UNCHANGED page
    /\ CASE jobs[j].kind = "stop"    -> Stops(j, p)
         [] jobs[j].kind = "preview" -> Dry(j, p) \/ Waits(j, p) \/ Fails(j)
         [] jobs[j].kind = "run"     ->
              IF MayRun(p) THEN Unmoved(j, p) \/ Moves(j, p) \/ Recorded(j, p) \/ Waits(j, p) \/ Fails(j)
              ELSE Fails(j)
\* What was still out confirms, or not; another tab runs the plan, or a tick does.
Settle ==
    \E p \in DOMAIN plans, won \in BOOLEAN :
      /\ plans[p].out > 0 /\ UNCHANGED <<page, jobs>>
      /\ plans' = [plans EXCEPT ![p].out = 0, ![p].moved = @ + (IF won THEN plans[p].out ELSE 0),
                                ![p].status = IF won THEN Starts(p) ELSE @]
Elsewhere ==
    \E p \in DOMAIN plans :
      /\ MayRun(p) /\ plans[p].out = 0 /\ plans[p].form.amount <= Room /\ UNCHANGED <<page, jobs>>
      /\ plans[p].form.mode = "yield" => plans[p].moved = 0
      /\ plans' = [plans EXCEPT ![p].out = plans[p].form.amount]

InvestNext ==
    \/ CheckCode \/ AskRisk \/ Decline \/ CreatePlan \/ RunPreview \/ Back \/ Run \/ Retry \/ Seen
    \/ \E f \in Forms : Choose(f) \/ Accept(f)
    \/ Stop \/ StopSeen \/ Work \/ Settle \/ Elsewhere
InvestSpec == InvestInit /\ [][InvestNext]_investVars

-----------------------------------------------------------------------------
(* Properties                                                              *)

\* The dialog says what the run sends: until a run's answer is in, the form under it is
\* the one the plan was made with (InvestFlow.tsx:293-295).
ShownTerms == page.review /\ page.stage # "done" => page.form = Terms

\* Nothing here promises what did not happen (outcome.ts:4): "Done" only when the plan's
\* money moved; "try again" only when this job moved none; and of a plan that is not
\* running, never that it buys later.
WordsTrue ==
    page.result # NoJob =>
        /\ DoneText(page.result).tone = "ok" => plans[page.plan].moved > 0
        /\ DoneText(page.result).lead = "when_it_buys" => plans[page.plan].status # "awaiting_run"
        /\ page.stage = "previewed" => PreviewState # None

\* What the page says the code has left is never less than what it really has: the page
\* takes off each buy and each deposit once.
LeftOnce == page.left # NoCode => page.left >= Room

\* The strip ticks nothing before it happened (InvestFlow.tsx:7): the last step, the
\* answer, only when there is one.
TickedTrue == Ticked = 6 => page.result.status \in {"done", "failed"}

==================================================================================
