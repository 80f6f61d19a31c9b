---------------------------------- MODULE Skill ----------------------------------
(***************************************************************************)
(* Skill plans: the user's own wallet signs, the server says what to do    *)
(* (GET /next) and records what the chain shows (POST /report).            *)
(*                                                                         *)
(* One wallet and its plans; the Venus position is the wallet's, so its    *)
(* plans share it.  The skill runs one plan's steps at a time, reports     *)
(* each mined transaction and tries again until it is answered; a report   *)
(* is a request of its own, and two may run at once.  A user may also act  *)
(* without asking, and report to another of the wallet's plans.  A         *)
(* serverless request may end between two of its writes.                   *)
(*                                                                         *)
(* One vToken is worth `rate` units; amounts are in units of a dollar.     *)
(***************************************************************************)
EXTENDS Integers, Sequences, FiniteSetsExt

CONSTANTS SkillPlans, YieldPlans,   \* the wallet's plans, those that buy with interest
          PerBuy, PerDay,           \* their limits
          Put,                      \* what a yield plan deposits
          MaxOpen,                  \* open plans of one wallet
          Requests,                 \* reports that may run at once, numbered
          Leeways                   \* bounds: [plans, txs, days, rises, ends, obeys]: the plans it may make,
                                    \* transactions, days, rises of the rate, requests cut
                                    \* short, and whether the user acts through the skill alone

Nowhere == "nowhere"
ASSUME SkillAssumption ==
    /\ YieldPlans \subseteq SkillPlans /\ IsFiniteSet(SkillPlans) /\ Nowhere \notin SkillPlans
    /\ Requests \subseteq Nat
    /\ PerBuy \in Nat /\ PerDay \in Nat /\ PerBuy <= PerDay /\ Put \in Nat
    /\ Leeways \subseteq [plans : SUBSET SkillPlans, txs : Nat, days : Nat, rises : Nat, ends : Nat,
                          obeys : BOOLEAN]

VARIABLES sk,       \* the plans' rows, with what they spent today and in all
          wallet,   \* the wallet's vTokens and their rate, and what the skill is doing
          txs,      \* its transactions, in order: the plan each was for, the one it is recorded on
          req,      \* the requests
          leeway

skillVars == <<sk, wallet, txs, req, leeway>>

NoReport == [pc |-> "none"]
\* A report names its plan: any of the wallet's, when the user does as they like.
For(p, i) == sk[p].made /\ (p = txs[i].plan \/ ~leeway.obeys)
Rest == [pc |-> "rest"]
Unmade == [made |-> FALSE, status |-> "active", reason |-> "", due |-> TRUE,
           principal |-> 0, vt |-> 0, harvested |-> 0, today |-> 0, spent |-> 0]

SkillInit ==
    /\ sk = [p \in SkillPlans |-> Unmade]
    /\ wallet = [vt |-> 0, rate |-> 1, does |-> Rest]
    /\ txs = <<>>
    /\ req = [r \in Requests |-> NoReport]
    /\ leeway \in Leeways

Least(a, b) == IF a < b THEN a ELSE b
Drop(a, b) == IF a > b THEN a - b ELSE 0
UpDiv(a, b) == (a + b - 1) \div b

-----------------------------------------------------------------------------
(* Plans and what they should do now                                       *)

\* insertSkillPlan
Make(p) ==
    /\ ~sk[p].made /\ p \in leeway.plans
    /\ Cardinality({q \in SkillPlans : sk[q].made /\ sk[q].status # "stopped"}) < MaxOpen
    /\ sk' = [sk EXCEPT ![p] = IF p \in YieldPlans
                               THEN [Unmade EXCEPT !.made = TRUE, !.status = "paused", !.reason = "awaiting_deposit"]
                               ELSE [Unmade EXCEPT !.made = TRUE]]
    /\ UNCHANGED <<wallet, txs, req, leeway>>

\* The stop job; a skill plan's position is its owner's to redeem.
StopSkill(p) ==
    /\ sk[p].made /\ sk[p].status # "stopped"
    /\ sk' = [sk EXCEPT ![p].status = "stopped", ![p].reason = "stopped_by_owner"]
    /\ UNCHANGED <<wallet, txs, req, leeway>>

\* planPositionUsd: never more than the wallet holds, never its other deposits.
PositionUsd(p) == Least(wallet.vt, sk[p].vt) * wallet.rate
Interest(p) == Drop(PositionUsd(p), sk[p].principal)
\* nextFor, from decideCycle: the tightest bound.
Spend(p) == Least(Least(PerBuy, Drop(PerDay, sk[p].today)),
                  IF p \in YieldPlans THEN Interest(p) + sk[p].harvested ELSE PerBuy)
Buys(p) ==
    /\ sk[p].made /\ sk[p].status = "active" /\ sk[p].due
    /\ p \in YieldPlans => sk[p].principal > 0
    /\ Spend(p) >= 1

Doing(p, next, usd, redeem) == [pc |-> next, plan |-> p, usd |-> usd, redeem |-> redeem, tx |-> 0]
\* GET /next answers with steps: the interest not yet taken out, then the swap.
Ask(p) ==
    /\ wallet.does = Rest /\ Buys(p)
    /\ LET redeem == IF p \in YieldPlans THEN Drop(Spend(p), sk[p].harvested) ELSE 0
       IN wallet' = [wallet EXCEPT !.does = Doing(p, IF redeem > 0 THEN "redeem" ELSE "swap", Spend(p), redeem)]
    /\ UNCHANGED <<sk, txs, req, leeway>>
PutIn(p) ==
    /\ wallet.does = Rest /\ sk[p].made /\ sk[p].reason = "awaiting_deposit"
    /\ wallet' = [wallet EXCEPT !.does = Doing(p, "deposit", Put, 0)]
    /\ UNCHANGED <<sk, txs, req, leeway>>

-----------------------------------------------------------------------------
(* The wallet                                                              *)

Sent(kind, p, usd) ==
    /\ Len(txs) < leeway.txs
    /\ txs' = Append(txs, [kind |-> kind, plan |-> p, usd |-> usd, vt |-> 0, mined |-> FALSE,
                           booked |-> Nowhere, done |-> FALSE, cut |-> FALSE])
Send ==
    /\ wallet.does.pc \in {"deposit", "redeem", "swap"}
    /\ LET does == wallet.does
       IN /\ Sent(does.pc, does.plan, IF does.pc = "redeem" THEN does.redeem ELSE does.usd)
          /\ wallet' = [wallet EXCEPT !.does.tx = Len(txs) + 1,
                                      !.does.pc = IF does.pc = "redeem" THEN "redeeming" ELSE "sending"]
    /\ UNCHANGED <<sk, req, leeway>>
\* The wallet's owner swaps or redeems on their own, while the skill does nothing.
Free(p) ==
    /\ ~leeway.obeys /\ wallet.does = Rest /\ sk[p].made
    /\ Sent("swap", p, PerBuy)
    /\ UNCHANGED <<sk, wallet, req, leeway>>
\* The chain mines it, at the rate of that moment, when the wallet has what it takes.
MineTx(i) ==
    /\ ~txs[i].mined
    /\ LET tx == txs[i]
           vt == CASE tx.kind = "deposit" -> tx.usd \div wallet.rate
                   [] tx.kind = "redeem" -> UpDiv(tx.usd, wallet.rate)
                   [] OTHER -> 0
       IN /\ tx.kind = "redeem" => vt <= wallet.vt
          /\ txs' = [txs EXCEPT ![i].mined = TRUE, ![i].vt = vt,
                                ![i].usd = IF tx.kind = "redeem" THEN vt * wallet.rate ELSE @]
          /\ wallet' = [wallet EXCEPT !.vt = CASE tx.kind = "deposit" -> @ + vt
                                               [] tx.kind = "redeem" -> @ - vt
                                               [] OTHER -> @]
    /\ UNCHANGED <<sk, req, leeway>>
\* The step was reported and answered: on to the swap, or done.
Next1 ==
    /\ wallet.does.pc \in {"redeeming", "sending"} /\ txs[wallet.does.tx].done
    /\ wallet' = [wallet EXCEPT !.does = IF wallet.does.pc = "redeeming"
                                         THEN [wallet.does EXCEPT !.pc = "swap"] ELSE Rest]
    /\ UNCHANGED <<sk, txs, req, leeway>>
\* The user says no; or the wallet's quote is too low.
Decline ==
    /\ wallet.does.pc \in {"deposit", "redeem", "swap"}
    /\ wallet' = [wallet EXCEPT !.does = Rest]
    /\ UNCHANGED <<sk, txs, req, leeway>>

-----------------------------------------------------------------------------
(* POST /report                                                            *)

\* recordReport reads the receipts and the chain first.  Requests are alike: the first free one.
Report(r, i, p) ==
    /\ req[r].pc = "none" /\ (\A q \in Requests : q < r => req[q].pc # "none") /\ For(p, i) /\ txs[i].mined /\ ~txs[i].done
    /\ IF txs[i].booked # Nowhere THEN txs' = [txs EXCEPT ![i].done = TRUE] /\ UNCHANGED req
       ELSE req' = [req EXCEPT ![r] = [pc |-> "write", tx |-> i, plan |-> p, over |-> FALSE]] /\ UNCHANGED txs
    /\ UNCHANGED <<sk, wallet, leeway>>

\* applyReportedRedeem: interest first, at this redeem's own rate; no principal left is an exit.
Redeemed(p, tx) ==
    LET row == sk[p]
        before == (row.vt * tx.usd) \div tx.vt
        interest == Least(tx.usd, Drop(before, row.principal))
        principal == Drop(row.principal, tx.usd - interest)
        vt == Drop(row.vt, tx.vt)
        exit == principal = 0 \/ vt = 0
        kept == [row EXCEPT !.principal = IF exit THEN 0 ELSE principal, !.vt = vt,
                            !.harvested = @ + interest]
    IN IF exit /\ p \in YieldPlans /\ row.status = "active" THEN [kept EXCEPT !.status = "paused", !.reason = "redeemed"] ELSE kept
\* recordSkillSwap: the spend, the interest it used, the next due time.
Bought(row, p, usd) ==
    [row EXCEPT !.today = @ + usd, !.spent = @ + usd, !.due = FALSE,
                !.harvested = IF p \in YieldPlans THEN Drop(@, usd) ELSE @]
Booked(p, tx) ==
    CASE tx.kind = "deposit" -> [sk[p] EXCEPT !.principal = @ + tx.usd, !.vt = @ + tx.vt]
      [] tx.kind = "redeem" -> Redeemed(p, tx)
      [] tx.kind = "swap" -> Bought(sk[p], p, tx.usd)
\* daySpentUsd counts this swap.
OverLimit(p, usd) == usd > PerBuy \/ sk[p].today + usd > PerDay

\* Mutant of Recorded: the receipt's hash is not looked at.
Unrecorded(tx) == FALSE
Recorded(tx) == tx.booked # Nowhere
\* One transaction of the database: a receipt already there changes nothing.
Write(r) ==
    /\ req[r].pc = "write"
    /\ LET i == req[r].tx
           tx == txs[i]
           p == req[r].plan
       IN IF Recorded(tx)
          THEN /\ req' = [req EXCEPT ![r] = NoReport] /\ txs' = [txs EXCEPT ![i].done = TRUE]
               /\ UNCHANGED sk
          ELSE /\ sk' = [sk EXCEPT ![p] = Booked(p, tx)]
               /\ txs' = [txs EXCEPT ![i].booked = p]
               /\ req' = [req EXCEPT ![r].pc = "patch",
                                     ![r].over = tx.kind = "swap" /\ OverLimit(p, tx.usd)]
    /\ UNCHANGED <<wallet, leeway>>
\* updatePlanIf: the deposit starts the plan; going past the limits pauses it.
Patch(r) ==
    /\ req[r].pc = "patch"
    /\ LET i == req[r].tx
           p == req[r].plan
           row == sk[p]
       IN /\ sk' = IF txs[i].kind = "deposit" /\ row.status = "paused" /\ row.reason = "awaiting_deposit"
                   THEN [sk EXCEPT ![p].status = "active", ![p].reason = "", ![p].due = TRUE]
                   ELSE IF req[r].over /\ row.status = "active"
                   THEN [sk EXCEPT ![p].status = "paused", ![p].reason = "report_over_limit"] ELSE sk
          /\ txs' = [txs EXCEPT ![i].done = TRUE]
    /\ req' = [req EXCEPT ![r] = NoReport]
    /\ UNCHANGED <<wallet, leeway>>
\* The function ends between its writes; the skill, unanswered, reports again.
CutShort(r) ==
    /\ req[r].pc # "none" /\ leeway.ends > 0
    /\ leeway' = [leeway EXCEPT !.ends = @ - 1]
    /\ txs' = IF req[r].pc = "patch" THEN [txs EXCEPT ![req[r].tx].cut = TRUE] ELSE txs
    /\ req' = [req EXCEPT ![r] = NoReport]
    /\ UNCHANGED <<sk, wallet>>

-----------------------------------------------------------------------------

Accrue ==
    /\ leeway.rises > 0 /\ leeway' = [leeway EXCEPT !.rises = @ - 1]
    /\ wallet' = [wallet EXCEPT !.rate = @ + 1]
    /\ UNCHANGED <<sk, txs, req>>
Tomorrow ==
    /\ leeway.days > 0 /\ leeway' = [leeway EXCEPT !.days = @ - 1]
    /\ sk' = [p \in SkillPlans |-> [sk[p] EXCEPT !.today = 0, !.due = TRUE]]
    /\ UNCHANGED <<wallet, txs, req>>

SkillNext ==
    \/ \E p \in SkillPlans : Make(p) \/ StopSkill(p) \/ Ask(p) \/ PutIn(p) \/ Free(p)
    \/ Send \/ Next1 \/ Decline
    \/ \E i \in DOMAIN txs : MineTx(i) \/ (\E r \in Requests, p \in SkillPlans : Report(r, i, p))
    \/ \E r \in Requests : Write(r) \/ Patch(r) \/ CutShort(r)
    \/ Accrue \/ Tomorrow
SkillSpec == SkillInit /\ [][SkillNext]_skillVars

-----------------------------------------------------------------------------
(* Properties                                                              *)

RecordedOn(p, kind) == {i \in DOMAIN txs : txs[i].booked = p /\ txs[i].kind = kind}
Total(p, kind, field) == SumFunction([i \in RecordedOn(p, kind) |-> txs[i][field]])
\* However often, by however many requests at once and for whichever plans a transaction is
\* reported, it counts once: what each plan spent is what the swaps recorded on it did, and
\* its vTokens too when each redeem is reported to the plan it was for (report.ts:6).
RecordedOnce == \A p \in SkillPlans :
    /\ sk[p].spent = Total(p, "swap", "usd")
    /\ leeway.obeys => sk[p].vt = Total(p, "deposit", "vt") - Total(p, "redeem", "vt")

\* While the user acts through the skill alone: no plan buys past its limits; a yield plan
\* buys with interest only, and what is left in Venus covers every principal, although the
\* plans share one position and the rate moves.
WithinLimits == \A p \in SkillPlans : sk[p].reason # "report_over_limit" /\ sk[p].today <= PerDay
PrincipalCovered == SumFunction([p \in SkillPlans |-> sk[p].principal]) <= wallet.vt * wallet.rate
InterestOnly == leeway.obeys => WithinLimits /\ PrincipalCovered

Resting == \A r \in Requests : req[r].pc = "none"
Right(p) ==
    /\ sk[p].principal > 0 => sk[p].reason # "awaiting_deposit"
    /\ p \notin YieldPlans /\ sk[p].today > PerDay => sk[p].status # "active"
\* Once nothing is being reported, a deposit on record has started its plan, and an ordinary
\* plan over its day's limit does not run, when no recorded report was cut short (report.ts:166,
\* 248).  A yield plan that waits for its deposit is told it is paused, and starts with it.
RestsRight == Resting /\ (\A i \in DOMAIN txs : ~txs[i].cut) => \A p \in SkillPlans : Right(p)
\* The same, whatever was cut short: the skill reports again until it is answered.
RestsRightAnyway == Resting => \A p \in SkillPlans : Right(p)

\* What is on record counts once, spends interest only, and leaves each plan as it should be.
SkillTrue == RecordedOnce /\ InterestOnly /\ RestsRight

=================================================================================
